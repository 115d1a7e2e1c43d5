\* Two handlers and two keys, a media with up to three generations, every fault.
CONSTANTS
    Request = {r1, r2}
    Key = {k1, k2}
    Post = {p1}
    Media = {m1}
    NoPost = NoPost
    NoInput = NoInput
    NoAnswer = NoAnswer
    MaxGeneration = 3
    Input <- UploadAndRetry
    Faults <- AllFaults
SPECIFICATION RetrySpec
SYMMETRY RetrySymmetry
INVARIANTS
    RetryTypeOK
    ReplayIsBacked
    EachRetryOpensItsGeneration
    RetryIsBacked
CHECK_DEADLOCK FALSE
