------------------------------ MODULE FileLock ------------------------------
(***************************************************************************)
(* withLock and awaitDrain (core/src/util/safety.ts): the promise chain    *)
(* that serialises work on a key within a process, and the count that a    *)
(* shutdown waits for.  A call of withLock chains its function behind the  *)
(* promise _locks holds for the key; the chain is forgotten by the last    *)
(* one that leaves.  Functions nest: a file's lock around git's, an        *)
(* upload's around a file's, a move's source around its target.            *)
(***************************************************************************)
EXTENDS Naturals, FiniteSets

CONSTANTS
  Calls,     \* the calls of withLock, each made at most once
  Keys,
  KeyOf,     \* [call -> its key]
  Outer,     \* [call -> the call whose function makes and awaits it, or NoCall]
  OneByOne,  \* the outermost calls the sync loop makes, one after the other
  NoCall

ASSUME CallsAssumption ==
  /\ IsFiniteSet(Calls)
  /\ KeyOf \in [Calls -> Keys]
  /\ Outer \in [Calls -> Calls \cup {NoCall}]
  /\ NoCall \notin Calls
  /\ OneByOne \subseteq Calls

VARIABLES
  tail,      \* _locks
  prev,      \* [call -> the call whose promise it was chained to]
  pc,        \* [call -> where it is]
  inFlight,  \* _inFlight
  drain,     \* where gracefulShutdown is
  order      \* history: [call -> when it was made, counting calls; 0 before]

vars == <<tail, prev, pc, inFlight, drain, order>>

Stage == {"new", "queued", "running", "settled", "left", "refused"}

TypeOK ==
  /\ tail \in [Keys -> Calls \cup {NoCall}]
  /\ prev \in [Calls -> Calls \cup {NoCall}]
  /\ pc \in [Calls -> Stage]
  /\ inFlight \in Nat
  /\ drain \in {"no", "waiting", "expired", "drained"}
  /\ order \in [Calls -> Nat]

Init ==
  /\ tail = [k \in Keys |-> NoCall]
  /\ prev = [c \in Calls |-> NoCall]
  /\ pc = [c \in Calls |-> "new"]
  /\ inFlight = 0
  /\ drain = "no"
  /\ order = [c \in Calls |-> 0]

Unsettled(c) == pc[c] \in {"queued", "running"}

\* The calls whose functions c runs in: what _heldKeys carries along.
Around[c \in Calls] ==
  IF Outer[c] = NoCall THEN {} ELSE {Outer[c]} \cup Around[Outer[c]]

\* Mutant: nesting goes unnoticed.
NeverHeld(c) == FALSE /\ c \in Calls

Held(c) == \E o \in Around[c] : KeyOf[o] = KeyOf[c]

Made(c) == pc[c] # "new"

\* The loop awaits each apply; a function awaits the calls it makes.
OnItsTurn(c) ==
  /\ c \in OneByOne => \A d \in OneByOne : ~Unsettled(d)
  /\ \A d \in Calls : Outer[d] = Outer[c] /\ Outer[c] # NoCall => ~Unsettled(d)

MayCall(c) ==
  /\ pc[c] = "new"
  /\ Outer[c] # NoCall => pc[Outer[c]] = "running"
  /\ OnItsTurn(c)

\* Rejected at once, before anything is counted.
Refuse(c) ==
  /\ MayCall(c)
  /\ Held(c)
  /\ pc' = [pc EXCEPT ![c] = "refused"]
  /\ UNCHANGED <<tail, prev, inFlight, drain, order>>

Call(c) ==
  /\ MayCall(c)
  /\ ~Held(c)
  /\ pc' = [pc EXCEPT ![c] = "queued"]
  /\ prev' = [prev EXCEPT ![c] = tail[KeyOf[c]]]
  /\ tail' = [tail EXCEPT ![KeyOf[c]] = c]
  /\ inFlight' = inFlight + 1
  /\ order' = [order EXCEPT ![c] = Cardinality({d \in Calls : order[d] > 0}) + 1]
  /\ UNCHANGED drain

\* Mutant: a call starts when the one before it has started.
HasBegun(c) == prev[c] # NoCall => pc[prev[c]] # "queued"

\* prev is Promise.resolve(), or has been fulfilled or rejected.
PrevDone(c) == prev[c] # NoCall => pc[prev[c]] \in {"settled", "left"}

Start(c) ==
  /\ pc[c] = "queued"
  /\ PrevDone(c)
  /\ pc' = [pc EXCEPT ![c] = "running"]
  /\ UNCHANGED <<tail, prev, inFlight, drain, order>>

\* Mutant: waiters are told when the call that made them wait is done.
ToldAtOnce(left) == IF drain = "waiting" THEN "drained" ELSE drain

\* The callers of awaitDrain are told when the count is back at 0.
Told(left) == IF drain = "waiting" /\ left = 0 THEN "drained" ELSE drain

CountDown(c) == inFlight - 1

\* The function of c returns or throws: the next in the chain may go on.
Settle(c) ==
  /\ pc[c] = "running"
  /\ \A d \in Calls : Outer[d] = c => ~Unsettled(d)
  /\ pc' = [pc EXCEPT ![c] = "settled"]
  /\ inFlight' = CountDown(c)
  /\ drain' = Told(inFlight')
  /\ UNCHANGED <<tail, prev, order>>

\* Mutant: whoever leaves forgets the chain, queued calls and all.
ForgetAlways(c) == NoCall

\* _locks.delete(key), by the one that is still last.
Forget(c) == IF tail[KeyOf[c]] = c THEN NoCall ELSE tail[KeyOf[c]]

\* tail.finally, a microtask later: other calls may have come in between.
Leave(c) ==
  /\ pc[c] = "settled"
  /\ pc' = [pc EXCEPT ![c] = "left"]
  /\ tail' = [tail EXCEPT ![KeyOf[c]] = Forget(c)]
  /\ UNCHANGED <<prev, inFlight, drain, order>>

\* gracefulShutdown: new calls still run, only the count decides.
Shutdown ==
  /\ drain = "no"
  /\ drain' = IF inFlight = 0 THEN "drained" ELSE "waiting"
  /\ UNCHANGED <<tail, prev, pc, inFlight, order>>

GiveUp ==
  /\ drain = "waiting"
  /\ drain' = "expired"
  /\ UNCHANGED <<tail, prev, pc, inFlight, order>>

Next ==
  \/ \E c \in Calls : Refuse(c) \/ Call(c) \/ Start(c) \/ Settle(c) \/ Leave(c)
  \/ Shutdown
  \/ GiveUp

Spec == Init /\ [][Next]_vars

\* Promises are settled and functions return; nobody has to call or shut down,
\* and the timer need not go off.
FairSpec ==
  /\ Spec
  /\ \A c \in Calls : WF_vars(Start(c) \/ Settle(c) \/ Leave(c))

-----------------------------------------------------------------------------
\* No two functions run under one key, whoever enters or leaves between a
\* promise's settling and the forgetting of its chain.
Exclusion ==
  \A c, d \in Calls :
    pc[c] = "running" /\ pc[d] = "running" /\ KeyOf[c] = KeyOf[d] => c = d

\* Who comes first runs first, whether the calls before it failed or not.
InOrder ==
  \A c, d \in Calls :
    /\ KeyOf[c] = KeyOf[d] /\ Unsettled(c) /\ order[c] < order[d] /\ order[d] > 0
    => pc[d] = "queued"

\* The count is the number of calls not yet answered: refused calls and failed
\* functions are neither left in nor taken out twice.
CountIsExact == inFlight = Cardinality({c \in Calls : Unsettled(c)})

\* A clean drain: the database is closed when nothing runs or waits.
DrainedWhenIdle ==
  [][drain' = "drained" /\ drain # "drained" => \A c \in Calls : ~Unsettled(c)']_vars

\* Nested locks never wait for each other in a circle, and so a shutdown ends,
\* even with a timer that never goes off.
EveryCallAnswered ==
  /\ \A c \in Calls : Unsettled(c) ~> ~Unsettled(c)
  /\ drain = "waiting" ~> drain # "waiting"

\* The queue a key's callers see.
Queued(k) ==
  LET Q == {c \in Calls : pc[c] = "queued" /\ KeyOf[c] = k}
  IN [i \in 1..Cardinality(Q) |->
       CHOOSE c \in Q : Cardinality({d \in Q : order[d] < order[c]}) = i - 1]

RunningOn(k) ==
  IF \E c \in Calls : KeyOf[c] = k /\ pc[c] = "running"
  THEN CHOOSE c \in Calls : KeyOf[c] = k /\ pc[c] = "running"
  ELSE NoCall

Queue == INSTANCE LockQueue WITH
  waiting <- [k \in Keys |-> Queued(k)],
  running <- [k \in Keys |-> RunningOn(k)]

\* The promise chains implement one first-come-first-served queue per key.
IsAQueue == Queue!Spec
=============================================================================
