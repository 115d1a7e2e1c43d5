\* Two handlers, two keys, two posts, every failure the handlers compensate for.
CONSTANTS
    Request = {r1, r2}
    Key = {k1, k2}
    Post = {p1, p2}
    Media = {m1, m2}
    NoPost = NoPost
    NoInput = NoInput
    NoAnswer = NoAnswer
    Input <- AllInputs
    Faults <- Failures
SPECIFICATION Spec
SYMMETRY UploadSymmetry
INVARIANTS
    TypeOK
    OneEffectPerKey
    EffectIsRecorded
    AnswerIsRecorded
    OriginalsExist
CHECK_DEADLOCK FALSE
