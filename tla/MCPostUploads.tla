---------------------------- MODULE MCPostUploads ----------------------------
(***************************************************************************)
(* Instances of PostUploads for TLC.                                       *)
(***************************************************************************)
EXTENDS PostUploads, TLC

\* What the code is written for: storage, the database and the process fail.
Failures == {"storage", "database", "crash"}

\* A handler outlives its lease.
SlowOnly == {"slow"}

NoFaults == {}

Uploads(p) == {
    [op |-> "create", post |-> NoPost, valid |-> 1, invalid |-> FALSE],
    [op |-> "create", post |-> NoPost, valid |-> 1, invalid |-> TRUE],
    [op |-> "add",    post |-> p,      valid |-> 1, invalid |-> TRUE]}

\* A post with one file, a post that is refused, and media for a post that may
\* not be there, or not any more.
AllInputs == UNION {Uploads(p) : p \in Post}

UploadSymmetry == Permutations(Request) \cup Permutations(Media) \cup Permutations(Post)
=============================================================================
