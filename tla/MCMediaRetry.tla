----------------------------- MODULE MCMediaRetry -----------------------------
(* Instances of MediaRetry for TLC.                                        *)
EXTENDS MediaRetry, TLC

AllFaults == FaultKind

\* A post with one file, and retries of any media.
UploadAndRetry ==
    {[op |-> "create", post |-> NoPost, valid |-> 1, invalid |-> FALSE]}
    \cup [op : {"retry"}, media : Media]

RetrySymmetry == Permutations(Request) \cup Permutations(Media)
                 \cup Permutations(Post) \cup Permutations(Key)
=============================================================================
