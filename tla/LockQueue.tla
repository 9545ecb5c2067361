----------------------------- MODULE LockQueue -----------------------------
(***************************************************************************)
(* What withLock promises: for every key one call runs at a time, and the  *)
(* calls of a key run in the order they were made.  How promises bring     *)
(* this about is FileLock's business.                                      *)
(***************************************************************************)
EXTENDS Sequences

CONSTANTS Calls, Keys, KeyOf, NoCall

VARIABLES
  waiting,   \* [key -> the calls that have not begun, oldest first]
  running    \* [key -> the call whose function runs, or NoCall]

vars == <<waiting, running>>

Init ==
  /\ waiting = [k \in Keys |-> <<>>]
  /\ running = [k \in Keys |-> NoCall]

Ask(c) ==
  /\ \A i \in DOMAIN waiting[KeyOf[c]] : waiting[KeyOf[c]][i] # c
  /\ waiting' = [waiting EXCEPT ![KeyOf[c]] = Append(@, c)]
  /\ UNCHANGED running

Grant(k) ==
  /\ running[k] = NoCall
  /\ waiting[k] # <<>>
  /\ running' = [running EXCEPT ![k] = Head(waiting[k])]
  /\ waiting' = [waiting EXCEPT ![k] = Tail(@)]

Yield(k) ==
  /\ running[k] # NoCall
  /\ running' = [running EXCEPT ![k] = NoCall]
  /\ UNCHANGED waiting

Next == (\E c \in Calls : Ask(c)) \/ (\E k \in Keys : Grant(k) \/ Yield(k))

Spec == Init /\ [][Next]_vars
=============================================================================
