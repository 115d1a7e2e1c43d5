\* Nothing fails; a post is deleted while media are added to it.
CONSTANTS
    Request = {r1, r2}
    Key = {k1, k2}
    Post = {p1}
    Media = {m1, m2}
    NoPost = NoPost
    NoInput = NoInput
    NoAnswer = NoAnswer
    Input <- AllInputs
    Faults <- NoFaults
SPECIFICATION Spec
SYMMETRY UploadSymmetry
PROPERTY NoMediaForDeletedPosts
CHECK_DEADLOCK FALSE
