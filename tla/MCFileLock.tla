---------------------------- MODULE MCFileLock ----------------------------
(* The calls of one process on two files, a and b: a save of a that saves a *)
(* again from within, and two moves of the sync loop, a to b and back.      *)
EXTENDS FileLock, TLC

CONSTANTS save, again, there, there2, back, back2, a, b

KeyOfCall ==
  save :> a @@ again :> a @@ there :> a @@ there2 :> b @@ back :> b @@ back2 :> a

OuterOfCall ==
  [c \in {save, there, back} |-> NoCall]
    @@ again :> save @@ there2 :> there @@ back2 :> back
===========================================================================
