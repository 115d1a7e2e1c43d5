\* One key, sent twice; a handler outlives its lease.
CONSTANTS
    Request = {r1, r2}
    Key = {k1}
    Post = {p1, p2}
    Media = {m1, m2}
    NoPost = NoPost
    NoInput = NoInput
    NoAnswer = NoAnswer
    Input <- AllInputs
    Faults <- SlowOnly
SPECIFICATION Spec
SYMMETRY UploadSymmetry
INVARIANT OneEffectPerKey
CHECK_DEADLOCK FALSE
