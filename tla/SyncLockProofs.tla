--------------------------- MODULE SyncLockProofs ---------------------------
(* For any number of workers and any lease: the row of a live lock belongs   *)
(* to the one worker that may apply.                                         *)
EXTENDS SyncLock, TLAPS

LEMMA TypeInvInit == Init => TypeOK
BY DEF Init, TypeOK, Row, Call

LEMMA TypeInvNext == TypeOK /\ [Next]_vars => TypeOK'
<1> SUFFICES ASSUME TypeOK, [Next]_vars
             PROVE  TypeOK'
  OBVIOUS
<1> USE TimesAssumption, NoRowAssumption DEF TypeOK, Row, Call, GoTo
<1>1. ASSUME NEW w \in Workers, Ask(w)
      PROVE  TypeOK'
  BY <1>1 DEF Ask
<1>2. ASSUME NEW w \in Workers, Acquire(w)
      PROVE  TypeOK'
  BY <1>2 DEF Acquire
<1>3. ASSUME NEW w \in Workers, GiveUp(w)
      PROVE  TypeOK'
  BY <1>3 DEF GiveUp
<1>4. ASSUME NEW w \in Workers, Finish(w)
      PROVE  TypeOK'
  BY <1>4 DEF Finish, Released
<1>5. ASSUME NEW w \in Workers, Crash(w)
      PROVE  TypeOK'
  BY <1>5 DEF Crash
<1>6. CASE Tick
  <2>1. \A n \in Nat : Sooner(n) \in Nat
    BY DEF Sooner
  <2>2. row' \in Row \cup {NoRow}
    BY <1>6, <2>1 DEF Tick, Aged
  <2>3. worker' \in [Workers -> Call]
    BY <1>6, <2>1 DEF Tick
  <2> QED BY <2>2, <2>3
<1>7. CASE UNCHANGED vars
  BY <1>7 DEF vars
<1> QED BY <1>1, <1>2, <1>3, <1>4, <1>5, <1>6, <1>7 DEF Next

(* The row and every worker's call stay well formed.                         *)
THEOREM TypeCorrect == Spec => []TypeOK
BY TypeInvInit, TypeInvNext, PTL DEF Spec

(* The heart of the argument: a step that takes a live row away is its       *)
(* owner's, and all clocks advance together.                                 *)
LEMMA HolderNext == TypeOK /\ HolderHasRow /\ [Next]_vars => HolderHasRow'
<1> SUFFICES ASSUME TypeOK, HolderHasRow, [Next]_vars,
                    NEW x \in Workers, worker'[x].pc = "applying", worker'[x].left > 0
             PROVE  row' = [token |-> x, left |-> worker'[x].left]
  BY DEF HolderHasRow
<1> USE TimesAssumption, NoRowAssumption DEF TypeOK, Row, Call, GoTo
<1>1. ASSUME NEW w \in Workers, Ask(w)
      PROVE  row' = [token |-> x, left |-> worker'[x].left]
  BY <1>1 DEF Ask, HolderHasRow
<1>2. ASSUME NEW w \in Workers, Acquire(w)
      PROVE  row' = [token |-> x, left |-> worker'[x].left]
  <2>1. CASE w = x
    BY <1>2, <2>1 DEF Acquire
  <2>2. CASE w # x
    <3>1. worker'[x] = worker[x]
      BY <1>2, <2>2 DEF Acquire
    <3>2. row = [token |-> x, left |-> worker[x].left] /\ worker[x].left > 0
      BY <3>1 DEF HolderHasRow
    <3>3. row # NoRow /\ row.left > 0
      BY <3>2
    <3> QED BY <1>2, <3>3 DEF Acquire, Claimable
  <2> QED BY <2>1, <2>2
<1>3. ASSUME NEW w \in Workers, GiveUp(w)
      PROVE  row' = [token |-> x, left |-> worker'[x].left]
  BY <1>3 DEF GiveUp, HolderHasRow
<1>4. ASSUME NEW w \in Workers, Finish(w)
      PROVE  row' = [token |-> x, left |-> worker'[x].left]
  <2>1. w # x /\ worker'[x] = worker[x]
    BY <1>4 DEF Finish
  <2>2. row = [token |-> x, left |-> worker[x].left]
    BY <2>1 DEF HolderHasRow
  <2> QED BY <1>4, <2>1, <2>2 DEF Finish, Released
<1>5. ASSUME NEW w \in Workers, Crash(w)
      PROVE  row' = [token |-> x, left |-> worker'[x].left]
  BY <1>5 DEF Crash, HolderHasRow
<1>6. CASE Tick
  <2>1. worker'[x] = [worker[x] EXCEPT !.left = Sooner(@)]
    BY <1>6 DEF Tick
  <2>2. worker[x].pc = "applying" /\ worker'[x].left = Sooner(worker[x].left)
    BY <2>1
  <2>3. worker[x].left > 0
    BY <2>2 DEF Sooner
  <2>4. row = [token |-> x, left |-> worker[x].left]
    BY <2>2, <2>3 DEF HolderHasRow
  <2>5. row' = [row EXCEPT !.left = Sooner(@)]
    BY <1>6, <2>4 DEF Tick, Aged
  <2> QED BY <2>2, <2>4, <2>5
<1>7. CASE UNCHANGED vars
  BY <1>7 DEF vars, HolderHasRow
<1> QED BY <1>1, <1>2, <1>3, <1>4, <1>5, <1>6, <1>7 DEF Next

(* Who applies within its lease holds the row, for as long as the row says.  *)
THEOREM HoldersHaveTheRow == Spec => []HolderHasRow
<1>1. Init => HolderHasRow
  BY DEF Init, HolderHasRow
<1> QED BY <1>1, HolderNext, TypeCorrect, PTL DEF Spec

(* No two workers apply ops of the gid at once, both within their lease.     *)
THEOREM MutualExclusion == Spec => []OneHolder
<1>1. HolderHasRow => OneHolder
  <2> SUFFICES ASSUME HolderHasRow,
                      NEW w \in Workers, NEW x \in Workers,
                      worker[w].pc = "applying", worker[w].left > 0,
                      worker[x].pc = "applying", worker[x].left > 0
               PROVE  w = x
    BY DEF OneHolder
  <2>1. row.token = w /\ row.token = x
    BY DEF HolderHasRow
  <2> QED BY <2>1
<1> QED BY <1>1, HoldersHaveTheRow, PTL

(* A live row is taken away by nobody but its owner.                         *)
THEOREM NobodyStealsALiveRow == Spec => LiveRowIsSafe
<1> DEFINE Safe == row # NoRow /\ row.left > 0 =>
                     \/ row' # NoRow /\ row'.token = row.token
                     \/ row' = NoRow /\ worker[row.token].pc = "applying"
                                     /\ worker'[row.token].pc = "idle"
<1>1. ASSUME TypeOK, [Next]_vars
      PROVE  [Safe]_vars
  <2> SUFFICES ASSUME Next, row # NoRow, row.left > 0
               PROVE  \/ row' # NoRow /\ row'.token = row.token
                      \/ row' = NoRow /\ worker[row.token].pc = "applying"
                                      /\ worker'[row.token].pc = "idle"
    BY <1>1
  <2> USE <1>1, NoRowAssumption DEF TypeOK, Row, Call, GoTo
  <2>1. ASSUME NEW w \in Workers, Ask(w) \/ GiveUp(w) \/ Crash(w)
        PROVE  row' # NoRow /\ row'.token = row.token
    BY <2>1 DEF Ask, GiveUp, Crash
  <2>2. ASSUME NEW w \in Workers, Acquire(w)
        PROVE  FALSE
    BY <2>2 DEF Acquire, Claimable
  <2>3. ASSUME NEW w \in Workers, Finish(w)
        PROVE  \/ row' # NoRow /\ row'.token = row.token
               \/ row' = NoRow /\ worker[row.token].pc = "applying"
                               /\ worker'[row.token].pc = "idle"
    BY <2>3 DEF Finish, Released
  <2>4. CASE Tick
    <3>1. row' = [row EXCEPT !.left = Sooner(@)]
      BY <2>4 DEF Tick, Aged
    <3>2. row' \in Row
      BY <3>1 DEF Sooner
    <3> QED BY <3>1, <3>2
  <2> QED BY <2>1, <2>2, <2>3, <2>4 DEF Next
<1> QED BY <1>1, TypeCorrect, PTL DEF Spec, LiveRowIsSafe
=============================================================================
