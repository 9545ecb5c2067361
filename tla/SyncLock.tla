------------------------------ MODULE SyncLock ------------------------------
(***************************************************************************)
(* The advisory lock of one gid (core/src/storage/locks.ts): the row of    *)
(* sync_locks that keeps two processes on one database from applying ops   *)
(* of the gid at the same time.  Workers are the calls of withSyncLock in  *)
(* all processes.  A lock is a lease: nobody renews it, and a holder that  *)
(* outlives it loses it.                                                   *)
(*                                                                         *)
(* Deadlines are kept as the time left, 0 once passed, and a token as its  *)
(* worker: a worker has one handle at a time.                              *)
(***************************************************************************)
EXTENDS Naturals

CONSTANTS
  Workers,
  Lease,     \* leaseMs
  Timeout,   \* timeoutMs
  NoRow      \* no row in sync_locks

ASSUME TimesAssumption == Lease \in Nat /\ Lease > 0 /\ Timeout \in Nat
ASSUME NoRowAssumption == NoRow \notin [token : Workers, left : Nat]

VARIABLES
  row,       \* the gid's row
  worker     \* [worker -> where its call is, and the time it has left there]

vars == <<row, worker>>

Row == [token : Workers, left : Nat]
Call == [pc : {"idle", "waiting", "applying"}, left : Nat]

TypeOK ==
  /\ row \in Row \cup {NoRow}
  /\ worker \in [Workers -> Call]

Init ==
  /\ row = NoRow
  /\ worker = [w \in Workers |-> [pc |-> "idle", left |-> 0]]

GoTo(w, pc, left) == worker' = [worker EXCEPT ![w] = [pc |-> pc, left |-> left]]

Ask(w) ==
  /\ worker[w].pc = "idle"
  /\ GoTo(w, "waiting", Timeout)
  /\ UNCHANGED row

\* Mutant: whoever waited long enough takes the row.
FreeOrOld == row = NoRow \/ \E w \in Workers : worker[w] = [pc |-> "waiting", left |-> 0]

\* Free, or stale: now >= expires_at.
Claimable == row # NoRow => row.left = 0

Acquire(w) ==
  /\ worker[w].pc = "waiting"
  /\ Claimable
  /\ row' = [token |-> w, left |-> Lease]
  /\ GoTo(w, "applying", Lease)

\* A poll finds the lock live, and the time is up: withSyncLock throws.
GiveUp(w) ==
  /\ worker[w] = [pc |-> "waiting", left |-> 0]
  /\ ~Claimable
  /\ GoTo(w, "idle", 0)
  /\ UNCHANGED row

\* Mutant: DELETE ... WHERE gid = ?
DeleteAny(w) == NoRow

\* DELETE ... WHERE gid = ? AND token = ?
Released(w) == IF row # NoRow /\ row.token = w THEN NoRow ELSE row

\* fn is done, or threw.
Finish(w) ==
  /\ worker[w].pc = "applying"
  /\ row' = Released(w)
  /\ GoTo(w, "idle", 0)

\* The process dies, or the release fails: the row stays until it is stale.
Crash(w) ==
  /\ worker[w].pc # "idle"
  /\ GoTo(w, "idle", 0)
  /\ UNCHANGED row

Sooner(left) == IF left = 0 THEN 0 ELSE left - 1

\* Mutant: the time of a row stands still.
AgedNot(r) == r

Aged(r) == IF r = NoRow THEN NoRow ELSE [r EXCEPT !.left = Sooner(@)]

Tick ==
  /\ row' = Aged(row)
  /\ worker' = [w \in Workers |-> [worker[w] EXCEPT !.left = Sooner(@)]]

Next ==
  \/ \E w \in Workers : Ask(w) \/ Acquire(w) \/ GiveUp(w) \/ Finish(w) \/ Crash(w)
  \/ Tick

Spec == Init /\ [][Next]_vars

\* Time passes and polls go on; an apply may hang, and nobody has to ask.
FairSpec ==
  /\ Spec
  /\ WF_vars(Tick)
  /\ \A w \in Workers : WF_vars(Acquire(w) \/ GiveUp(w))

-----------------------------------------------------------------------------
\* Who applies within its lease holds the row, for as long as the row says.
HolderHasRow ==
  \A w \in Workers :
    worker[w].pc = "applying" /\ worker[w].left > 0
      => row = [token |-> w, left |-> worker[w].left]

\* Two workers never apply ops of the gid at once, both within their lease.
OneHolder ==
  \A w, x \in Workers :
    /\ worker[w].pc = "applying" /\ worker[w].left > 0
    /\ worker[x].pc = "applying" /\ worker[x].left > 0
    => w = x

\* A live row is taken away by nobody but its owner - not by a late release of
\* a worker that lost the lock, and not by an impatient one.
LiveRowIsSafe ==
  [][row # NoRow /\ row.left > 0 =>
       \/ row' # NoRow /\ row'.token = row.token
       \/ row' = NoRow /\ worker[row.token].pc = "applying"
                       /\ worker'[row.token].pc = "idle"]_vars

\* Whoever crashes or hangs with the lock, it comes free, and who waits gets it
\* or gives up.
Reclaimed ==
  /\ []<>Claimable
  /\ \A w \in Workers : worker[w].pc = "waiting" ~> worker[w].pc # "waiting"
=============================================================================
