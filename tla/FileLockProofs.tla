-------------------------- MODULE FileLockProofs ----------------------------
(***************************************************************************)
(* Exclusion, order and the drain count of withLock, for any calls on any  *)
(* keys, nested in any way; and that the promise chains are queues.        *)
(***************************************************************************)
EXTENDS FileLock, FiniteSetTheorems, SequenceTheorems, TLAPS

Entered == {c \in Calls : order[c] > 0}

\* A call has an order from when it is chained, and no two have the same.
Ordered ==
  /\ \A c \in Calls : order[c] > 0 <=> pc[c] \notin {"new", "refused"}
  /\ \A c, d \in Calls : order[c] = order[d] /\ order[c] > 0 => c = d
  /\ \A c \in Calls : order[c] <= Cardinality(Entered)

\* _locks holds the last call of a key, unless nobody is left.
TailIsLast ==
  /\ \A k \in Keys : tail[k] # NoCall => KeyOf[tail[k]] = k /\ order[tail[k]] > 0
  /\ \A c \in Calls :
       Unsettled(c) => tail[KeyOf[c]] # NoCall /\ order[c] <= order[tail[KeyOf[c]]]

\* Behind an unsettled call everybody is queued, chained to it or to somebody
\* behind it.
Chained ==
  /\ \A d \in Calls : prev[d] # NoCall => KeyOf[prev[d]] = KeyOf[d] /\ order[prev[d]] > 0
  /\ \A c, d \in Calls :
       KeyOf[c] = KeyOf[d] /\ Unsettled(c) /\ order[c] < order[d]
         => pc[d] = "queued" /\ prev[d] # NoCall /\ order[c] <= order[prev[d]]

ChainInv == TypeOK /\ Ordered /\ TailIsLast /\ Chained

LEMMA EnteredFinite == IsFiniteSet(Entered) /\ Cardinality(Entered) \in Nat
  BY CallsAssumption, FS_Subset, FS_CardinalityType DEF Entered

\* The order a new call gets is above all others.
LEMMA NewOrder ==
  ASSUME TypeOK, Ordered, NEW c \in Calls, Call(c)
  PROVE  /\ order[c] = 0
         /\ order' = [order EXCEPT ![c] = Cardinality(Entered) + 1]
         /\ Cardinality(Entered') = Cardinality(Entered) + 1
         /\ \A d \in Calls : order[d] < order'[c]
<1>0. pc[c] = "new"
  BY DEF Call, MayCall
<1>1. order[c] = 0
  BY <1>0 DEF Ordered, TypeOK
<1>2. order' = [order EXCEPT ![c] = Cardinality(Entered) + 1]
  BY DEF Call, Entered
<1>3. order'[c] = Cardinality(Entered) + 1
  BY <1>2 DEF TypeOK
<1>4. Entered' = Entered \cup {c}
  <2>1. order'[c] > 0
    BY <1>3, EnteredFinite
  <2>2. \A d \in Calls : d # c => order'[d] = order[d]
    BY <1>2 DEF TypeOK
  <2> QED
    BY <2>1, <2>2 DEF Entered
<1>5. c \notin Entered
  BY <1>1 DEF Entered
<1>6. Cardinality(Entered') = Cardinality(Entered) + 1
  BY <1>4, <1>5, EnteredFinite, FS_AddElement
<1>7. \A d \in Calls : order[d] < order'[c]
  BY <1>3, EnteredFinite DEF Ordered, TypeOK
<1> QED
  BY <1>1, <1>2, <1>6, <1>7

LEMMA ChainInit == Init => ChainInv
<1> SUFFICES ASSUME Init PROVE ChainInv
  OBVIOUS
<1>1. TypeOK
  BY DEF Init, TypeOK, Stage
<1>2. Ordered
  BY EnteredFinite DEF Init, Ordered
<1>3. TailIsLast /\ Chained
  BY DEF Init, TailIsLast, Chained, Unsettled
<1> QED
  BY <1>1, <1>2, <1>3 DEF ChainInv

\* A new call goes behind everything there is.
LEMMA ChainCall ==
  ASSUME ChainInv, NEW c \in Calls, Call(c), TypeOK'
  PROVE  ChainInv'
<1> USE CallsAssumption DEF ChainInv
<1>1. /\ order[c] = 0
      /\ order' = [order EXCEPT ![c] = Cardinality(Entered) + 1]
      /\ Cardinality(Entered') = Cardinality(Entered) + 1
      /\ \A d \in Calls : order[d] < order'[c]
  BY NewOrder
<1>2. /\ pc[c] = "new"
      /\ pc' = [pc EXCEPT ![c] = "queued"]
      /\ prev' = [prev EXCEPT ![c] = tail[KeyOf[c]]]
      /\ tail' = [tail EXCEPT ![KeyOf[c]] = c]
  BY DEF Call, MayCall
<1>3. \A d \in Calls : d # c => order'[d] = order[d] /\ pc'[d] = pc[d] /\ prev'[d] = prev[d]
  BY <1>1, <1>2 DEF TypeOK
<1>4. order'[c] > 0 /\ pc'[c] = "queued" /\ prev'[c] = tail[KeyOf[c]] /\ tail'[KeyOf[c]] = c
  BY <1>1, <1>2 DEF TypeOK
<1>5. Ordered'
  <2>1. \A d \in Calls : order'[d] > 0 <=> pc'[d] \notin {"new", "refused"}
    BY <1>3, <1>4 DEF Ordered
  <2>2. \A d, e \in Calls : order'[d] = order'[e] /\ order'[d] > 0 => d = e
    BY <1>1, <1>3 DEF Ordered, TypeOK
  <2>3. order'[c] = Cardinality(Entered) + 1
    BY <1>1 DEF TypeOK
  <2>4. \A d \in Calls : order'[d] <= Cardinality(Entered')
    BY <1>1, <1>3, <2>3, EnteredFinite DEF Ordered, TypeOK
  <2> QED
    BY <2>1, <2>2, <2>4 DEF Ordered
<1>6. TailIsLast'
  <2>1. \A k \in Keys : tail'[k] # NoCall => KeyOf[tail'[k]] = k /\ order'[tail'[k]] > 0
    <3> TAKE k \in Keys
    <3>1. CASE k = KeyOf[c]
      BY <3>1, <1>4
    <3>2. CASE k # KeyOf[c]
      BY <3>2, <1>2, <1>3, <1>4 DEF TailIsLast, TypeOK
    <3> QED
      BY <3>1, <3>2
  <2>2. ASSUME NEW d \in Calls, Unsettled(d)'
        PROVE  tail'[KeyOf[d]] # NoCall /\ order'[d] <= order'[tail'[KeyOf[d]]]
    <3>1. CASE d = c
      BY <3>1, <1>4 DEF TypeOK
    <3>2. CASE d # c /\ KeyOf[d] = KeyOf[c]
      BY <3>2, <1>1, <1>3, <1>4 DEF TypeOK
    <3>3. CASE d # c /\ KeyOf[d] # KeyOf[c]
      <4>1. tail'[KeyOf[d]] = tail[KeyOf[d]] /\ Unsettled(d)
        BY <3>3, <2>2, <1>2, <1>3 DEF Unsettled, TypeOK
      <4>2. tail[KeyOf[d]] # NoCall /\ KeyOf[tail[KeyOf[d]]] = KeyOf[d]
        BY <4>1 DEF TailIsLast
      <4>3. tail[KeyOf[d]] \in Calls /\ tail[KeyOf[d]] # c
        BY <4>2, <3>3 DEF TypeOK
      <4> QED
        BY <4>1, <4>2, <4>3, <3>3, <1>3 DEF TailIsLast
    <3> QED
      BY <3>1, <3>2, <3>3
  <2> QED
    BY <2>1, <2>2 DEF TailIsLast
<1>7. Chained'
  <2>1. \A d \in Calls : prev'[d] # NoCall => KeyOf[prev'[d]] = KeyOf[d] /\ order'[prev'[d]] > 0
    <3> TAKE d \in Calls
    <3> HAVE prev'[d] # NoCall
    <3>1. CASE d = c
      <4>1. prev'[d] = tail[KeyOf[c]] /\ prev'[d] \in Calls
        BY <3>1, <1>4 DEF TypeOK
      <4>2. KeyOf[prev'[d]] = KeyOf[d] /\ order[prev'[d]] > 0
        BY <3>1, <4>1 DEF TailIsLast
      <4> QED
        BY <4>1, <4>2, <1>1, <1>3
    <3>2. CASE d # c
      <4>1. prev'[d] = prev[d] /\ prev[d] \in Calls
        BY <3>2, <1>3 DEF TypeOK
      <4> QED
        BY <4>1, <1>1, <1>3 DEF Chained
    <3> QED
      BY <3>1, <3>2
  <2>2. ASSUME NEW d \in Calls, NEW e \in Calls,
               KeyOf[d] = KeyOf[e], Unsettled(d)', order'[d] < order'[e]
        PROVE  pc'[e] = "queued" /\ prev'[e] # NoCall /\ order'[d] <= order'[prev'[e]]
    <3>1. d # c
      BY <2>2, <1>1, <1>3 DEF TypeOK
    <3>2. Unsettled(d) /\ order'[d] = order[d]
      BY <3>1, <2>2, <1>3 DEF Unsettled
    <3>3. CASE e = c
      <4>1. prev'[e] = tail[KeyOf[d]] /\ tail[KeyOf[d]] \in Calls
                /\ order[d] <= order[tail[KeyOf[d]]] /\ order[tail[KeyOf[d]]] > 0
        BY <3>2, <3>3, <2>2, <1>4 DEF TailIsLast, TypeOK
      <4> QED
        BY <4>1, <3>2, <3>3, <1>1, <1>3, <1>4
    <3>4. CASE e # c
      <4>1. pc[e] = "queued" /\ prev[e] # NoCall /\ order[d] <= order[prev[e]]
        BY <3>2, <3>4, <2>2, <1>3 DEF Chained
      <4>2. prev[e] \in Calls /\ order[prev[e]] > 0
        BY <4>1 DEF Chained, TypeOK
      <4> QED
        BY <4>1, <4>2, <3>2, <3>4, <1>1, <1>3
    <3> QED
      BY <3>3, <3>4
  <2> QED
    BY <2>1, <2>2 DEF Chained
<1> QED
  BY <1>5, <1>6, <1>7

\* Behind an unsettled call nobody starts, settles or leaves.
LEMMA NobodyOvertakes ==
  ASSUME ChainInv, NEW c \in Calls, pc[c] = "queued" => PrevDone(c),
         NEW d \in Calls, KeyOf[d] = KeyOf[c], Unsettled(d), order[d] < order[c]
  PROVE  FALSE
<1> USE CallsAssumption DEF ChainInv
<1>1. pc[c] = "queued" /\ prev[c] # NoCall /\ order[d] <= order[prev[c]]
  BY DEF Chained
<1>2. PrevDone(c)
  BY <1>1
<1>3. prev[c] \in Calls /\ pc[prev[c]] \in {"settled", "left"} /\ KeyOf[prev[c]] = KeyOf[d]
  BY <1>1, <1>2 DEF PrevDone, Chained, TypeOK
<1>4. d # prev[c]
  BY <1>3 DEF Unsettled
<1>5. order[d] # order[prev[c]]
  BY <1>1, <1>3, <1>4 DEF Ordered, Unsettled, TypeOK
<1>6. order[d] < order[prev[c]]
  <2>1. order[d] \in Nat /\ order[prev[c]] \in Nat
    BY <1>3 DEF TypeOK
  <2> QED
    BY <1>1, <1>5, <2>1
<1>7. pc[prev[c]] = "queued"
  BY <1>3, <1>6 DEF Chained
<1> QED
  BY <1>3, <1>7

\* A step that makes no call and leaves everyone's order and chaining alone.
LEMMA ChainStep ==
  ASSUME ChainInv, NEW c \in Calls, Start(c) \/ Settle(c) \/ Leave(c) \/ Refuse(c), TypeOK'
  PROVE  ChainInv'
<1> USE CallsAssumption DEF ChainInv
<1>1. prev' = prev /\ order' = order
  BY DEF Start, Settle, Leave, Refuse
<1>2. \A d \in Calls : d # c => pc'[d] = pc[d]
  BY DEF Start, Settle, Leave, Refuse, TypeOK
<1>3. pc'[c] \in {"running", "settled", "left", "refused"} /\ (pc'[c] = "refused" <=> pc[c] = "new")
  BY DEF Start, Settle, Leave, Refuse, MayCall, TypeOK
<1>4. Unsettled(c)' => pc[c] = "queued" /\ PrevDone(c)
  BY <1>3 DEF Start, Settle, Leave, Refuse, Unsettled, TypeOK
<1>5. \A d \in Calls : Unsettled(d)' => Unsettled(d)
  BY <1>2, <1>4 DEF Unsettled
<1>6. Ordered'
  <2>1. Entered' = Entered
    BY <1>1 DEF Entered
  <2>2. \A d \in Calls : pc'[d] \notin {"new", "refused"} <=> pc[d] \notin {"new", "refused"}
    BY <1>2, <1>3 DEF Start, Settle, Leave, Refuse, MayCall, TypeOK
  <2> QED
    BY <1>1, <2>1, <2>2 DEF Ordered
<1>7. ASSUME NEW d \in Calls, KeyOf[d] = KeyOf[c], Unsettled(d), order[d] < order[c]
      PROVE  FALSE
  <2>1. pc[c] = "queued" => PrevDone(c)
    BY DEF Start, Settle, Leave, Refuse, MayCall
  <2> QED
    BY <1>7, <2>1, NobodyOvertakes
<1>8. Chained'
  <2>1. ASSUME NEW d \in Calls, NEW e \in Calls,
               KeyOf[d] = KeyOf[e], Unsettled(d)', order'[d] < order'[e]
        PROVE  pc'[e] = "queued" /\ prev'[e] # NoCall /\ order'[d] <= order'[prev'[e]]
    <3>1. Unsettled(d) /\ order[d] < order[e]
      BY <2>1, <1>1, <1>5
    <3>2. e # c
      BY <3>1, <2>1, <1>7
    <3>3. pc[e] = "queued" /\ prev[e] # NoCall /\ order[d] <= order[prev[e]]
      BY <3>1, <2>1 DEF Chained
    <3> QED
      BY <3>2, <3>3, <1>1, <1>2
  <2> QED
    BY <2>1, <1>1 DEF Chained
<1>9. TailIsLast'
  <2>1. CASE tail' = tail
    BY <2>1, <1>1, <1>5 DEF TailIsLast
  <2>2. CASE Leave(c) /\ tail[KeyOf[c]] = c
    <3>1. tail' = [tail EXCEPT ![KeyOf[c]] = NoCall] /\ pc[c] = "settled"
      BY <2>2 DEF Leave, Forget
    <3>2. ASSUME NEW d \in Calls, Unsettled(d)
          PROVE  KeyOf[d] # KeyOf[c]
      <4>1. SUFFICES ASSUME KeyOf[d] = KeyOf[c] PROVE FALSE
        OBVIOUS
      <4>2. order[d] <= order[c]
        BY <3>2, <4>1, <2>2 DEF TailIsLast
      <4>3. d # c
        BY <3>1, <3>2 DEF Unsettled
      <4>4. order[d] > 0
        BY <3>2 DEF Ordered, Unsettled
      <4>5. order[d] < order[c]
        <5>1. order[d] # order[c] /\ order[d] \in Nat /\ order[c] \in Nat
          BY <4>3, <4>4 DEF Ordered, TypeOK
        <5> QED
          BY <4>2, <5>1
      <4> QED
        BY <4>1, <4>5, <3>2, <1>7
    <3>3. \A d \in Calls : Unsettled(d) => tail'[KeyOf[d]] = tail[KeyOf[d]]
      BY <3>1, <3>2 DEF TypeOK
    <3> QED
      BY <3>1, <3>3, <1>1, <1>5 DEF TailIsLast, TypeOK
  <2>3. tail' = tail \/ (Leave(c) /\ tail[KeyOf[c]] = c)
    BY DEF Start, Settle, Leave, Refuse, Forget, TypeOK
  <2> QED
    BY <2>1, <2>2, <2>3
<1> QED
  BY <1>6, <1>8, <1>9

\* The count is that of the unsettled calls.
Pending == {c \in Calls : Unsettled(c)}

LEMMA PendingFinite == IsFiniteSet(Pending) /\ Cardinality(Pending) \in Nat
  BY CallsAssumption, FS_Subset, FS_CardinalityType DEF Pending

LEMMA CountStep ==
  ASSUME TypeOK, CountIsExact, [Next]_vars
  PROVE  CountIsExact'
<1>1. inFlight = Cardinality(Pending)
  BY DEF CountIsExact, Pending
<1>2. SUFFICES inFlight' = Cardinality(Pending')
  BY DEF CountIsExact, Pending
<1>3. ASSUME NEW c \in Calls, Call(c) PROVE inFlight' = Cardinality(Pending')
  <2>1. pc[c] = "new" /\ pc' = [pc EXCEPT ![c] = "queued"] /\ inFlight' = inFlight + 1
    BY <1>3 DEF Call, MayCall
  <2>2. Pending' = Pending \cup {c} /\ c \notin Pending
    BY <2>1 DEF Pending, Unsettled, TypeOK
  <2> QED
    BY <1>1, <2>1, <2>2, PendingFinite, FS_AddElement
<1>4. ASSUME NEW c \in Calls, Settle(c) PROVE inFlight' = Cardinality(Pending')
  <2>1. pc[c] = "running" /\ pc' = [pc EXCEPT ![c] = "settled"] /\ inFlight' = inFlight - 1
    BY <1>4 DEF Settle, CountDown
  <2>2. Pending' = Pending \ {c} /\ c \in Pending
    BY <2>1 DEF Pending, Unsettled, TypeOK
  <2> QED
    BY <1>1, <2>1, <2>2, PendingFinite, FS_RemoveElement
<1>5. ASSUME NEW c \in Calls, Start(c) \/ Leave(c) \/ Refuse(c)
      PROVE  inFlight' = Cardinality(Pending')
  <2>1. inFlight' = inFlight
    BY <1>5 DEF Start, Leave, Refuse
  <2>2. Pending' = Pending
    BY <1>5 DEF Pending, Unsettled, Start, Leave, Refuse, MayCall, TypeOK
  <2> QED
    BY <1>1, <2>1, <2>2
<1>6. ASSUME Shutdown \/ GiveUp \/ UNCHANGED vars PROVE inFlight' = Cardinality(Pending')
  <2>1. inFlight' = inFlight /\ pc' = pc
    BY <1>6 DEF Shutdown, GiveUp, vars
  <2> QED
    BY <1>1, <2>1 DEF Pending, Unsettled
<1> QED
  BY <1>3, <1>4, <1>5, <1>6 DEF Next

LEMMA TypeStep ==
  ASSUME TypeOK, CountIsExact, [Next]_vars
  PROVE  TypeOK'
<1> USE CallsAssumption DEF TypeOK, Stage
<1>1. ASSUME NEW c \in Calls, Call(c) PROVE TypeOK'
  <2>1. Cardinality(Entered) + 1 \in Nat
    BY EnteredFinite
  <2>2. order' \in [Calls -> Nat]
    BY <1>1, <2>1 DEF Call, Entered
  <2> QED
    BY <1>1, <2>2 DEF Call
<1>2. ASSUME NEW c \in Calls, Settle(c) PROVE TypeOK'
  <2>1. inFlight - 1 \in Nat
    <3>1. c \in Pending
      BY <1>2 DEF Settle, Pending, Unsettled
    <3>2. Cardinality(Pending) # 0
      BY <3>1, PendingFinite, FS_EmptySet
    <3> QED
      BY <3>2, PendingFinite DEF CountIsExact, Pending
  <2> QED
    BY <1>2, <2>1 DEF Settle, CountDown, Told
<1>3. ASSUME NEW c \in Calls, Start(c) \/ Leave(c) \/ Refuse(c) PROVE TypeOK'
  BY <1>3 DEF Start, Leave, Forget, Refuse
<1>4. ASSUME Shutdown \/ GiveUp \/ UNCHANGED vars PROVE TypeOK'
  BY <1>4 DEF Shutdown, GiveUp, vars
<1> QED
  BY <1>1, <1>2, <1>3, <1>4 DEF Next

LEMMA LockInductive ==
  ASSUME ChainInv, CountIsExact, [Next]_vars
  PROVE  ChainInv' /\ CountIsExact'
<1>1. TypeOK' /\ CountIsExact'
  BY TypeStep, CountStep DEF ChainInv
<1>2. ASSUME NEW c \in Calls, Call(c) PROVE ChainInv'
  BY <1>1, <1>2, ChainCall
<1>3. ASSUME NEW c \in Calls, Start(c) \/ Settle(c) \/ Leave(c) \/ Refuse(c) PROVE ChainInv'
  BY <1>1, <1>3, ChainStep
<1>4. ASSUME Shutdown \/ GiveUp \/ UNCHANGED vars PROVE ChainInv'
  <2>1. UNCHANGED <<tail, prev, pc, order>>
    BY <1>4 DEF Shutdown, GiveUp, vars
  <2>2. Entered' = Entered
    BY <2>1 DEF Entered
  <2> QED
    BY <1>1, <2>1, <2>2 DEF ChainInv, Ordered, TailIsLast, Chained, Unsettled
<1> QED
  BY <1>1, <1>2, <1>3, <1>4 DEF Next

LEMMA CountInit == Init => CountIsExact
<1> SUFFICES ASSUME Init PROVE CountIsExact
  OBVIOUS
<1>1. {c \in Calls : Unsettled(c)} = {}
  BY DEF Init, Unsettled
<1> QED
  BY <1>1, FS_EmptySet DEF Init, CountIsExact

LEMMA LockInvariant == Spec => [](ChainInv /\ CountIsExact)
<1>1. Init => ChainInv /\ CountIsExact
  BY ChainInit, CountInit
<1>2. ChainInv /\ CountIsExact /\ [Next]_vars => (ChainInv /\ CountIsExact)'
  BY LockInductive
<1> QED
  BY <1>1, <1>2, PTL DEF Spec

\* The variables of withLock keep their types, however calls nest.
THEOREM LockTypes == Spec => []TypeOK
  BY LockInvariant, PTL DEF ChainInv

\* What awaitDrain waits on is the number of unsettled calls.
THEOREM LockCount == Spec => []CountIsExact
  BY LockInvariant, PTL

\* The functions of a key start in the order of the calls.
THEOREM LockOrder == Spec => []InOrder
<1>1. ChainInv => InOrder
  BY DEF ChainInv, Chained, InOrder
<1> QED
  BY <1>1, LockInvariant, PTL

LEMMA ChainExcludes == ChainInv => Exclusion
<1> SUFFICES ASSUME ChainInv, NEW c \in Calls, NEW d \in Calls,
                    pc[c] = "running", pc[d] = "running", KeyOf[c] = KeyOf[d], c # d
             PROVE  FALSE
  BY DEF Exclusion
<1>1. order[c] > 0 /\ order[d] > 0 /\ order[c] # order[d]
  BY DEF ChainInv, Ordered
<1>2. order[c] \in Nat /\ order[d] \in Nat
  BY DEF ChainInv, TypeOK
<1>3. order[c] < order[d] \/ order[d] < order[c]
  BY <1>1, <1>2
<1> QED
  BY <1>3 DEF ChainInv, Chained, Unsettled

\* withLock excludes: at most one function runs under a key.
THEOREM LockExclusion == Spec => []Exclusion
  BY ChainExcludes, LockInvariant, PTL

\* gracefulShutdown finds a clean drain only when nothing runs or waits.
THEOREM LockDrain == Spec => DrainedWhenIdle
<1>1. ChainInv /\ CountIsExact /\ ChainInv' /\ CountIsExact' /\ [Next]_vars
        => [drain' = "drained" /\ drain # "drained" => \A c \in Calls : ~Unsettled(c)']_vars
  <2> SUFFICES ASSUME TypeOK, CountIsExact, CountIsExact', Next,
                      drain' = "drained", drain # "drained", NEW c \in Calls, Unsettled(c)'
               PROVE  FALSE
    BY DEF ChainInv
  <2>1. inFlight' = 0
    <3>1. CASE Shutdown
      BY <3>1 DEF Shutdown
    <3>2. ASSUME NEW d \in Calls, Settle(d) PROVE inFlight' = 0
      BY <3>2 DEF Settle, Told
    <3>3. ASSUME NEW d \in Calls, Refuse(d) \/ Call(d) \/ Start(d) \/ Leave(d) PROVE FALSE
      BY <3>3 DEF Refuse, Call, Start, Leave
    <3>4. CASE GiveUp
      BY <3>4 DEF GiveUp
    <3> QED
      BY <3>1, <3>2, <3>3, <3>4 DEF Next
  <2>2. c \in Pending'
    BY DEF Pending
  <2>3. IsFiniteSet(Pending')
    BY CallsAssumption, FS_Subset DEF Pending
  <2>4. Cardinality(Pending') # 0
    BY <2>2, <2>3, FS_EmptySet
  <2> QED
    BY <2>1, <2>4 DEF CountIsExact, Pending
<1> QED
  BY <1>1, LockInvariant, PTL DEF Spec, DrainedWhenIdle

-----------------------------------------------------------------------------
(* The chains are a queue.                                                   *)

\* The members of Q in the order of their numbers f, as the mapping sorts them.
Numbers(Q, f) ==
  /\ IsFiniteSet(Q)
  /\ \A c \in Q : f[c] \in Nat
  /\ \A c, d \in Q : f[c] = f[d] => c = d
Rank(Q, f, c) == Cardinality({d \in Q : f[d] < f[c]})
Sorted(Q, f) == [i \in 1..Cardinality(Q) |-> CHOOSE c \in Q : Rank(Q, f, c) = i - 1]

LEMMA RankRange ==
  ASSUME NEW Q, NEW f, Numbers(Q, f), NEW c \in Q
  PROVE  /\ Cardinality(Q) \in Nat
         /\ Rank(Q, f, c) \in 0..(Cardinality(Q) - 1)
<1>1. IsFiniteSet(Q) /\ Cardinality(Q) \in Nat
  BY FS_CardinalityType DEF Numbers
<1>2. IsFiniteSet(Q \ {c}) /\ Cardinality(Q \ {c}) = Cardinality(Q) - 1
  BY <1>1, FS_RemoveElement
<1>3. {d \in Q : f[d] < f[c]} \subseteq Q \ {c}
  BY DEF Numbers
<1>4. /\ IsFiniteSet({d \in Q : f[d] < f[c]})
      /\ Cardinality({d \in Q : f[d] < f[c]}) <= Cardinality(Q) - 1
  BY <1>2, <1>3, FS_Subset
<1>5. Cardinality({d \in Q : f[d] < f[c]}) \in Nat
  BY <1>4, FS_CardinalityType
<1> QED BY <1>1, <1>4, <1>5 DEF Rank

LEMMA RankGrows ==
  ASSUME NEW Q, NEW f, Numbers(Q, f), NEW c \in Q, NEW d \in Q, f[c] < f[d]
  PROVE  Rank(Q, f, c) < Rank(Q, f, d)
<1> DEFINE B(e) == {x \in Q : f[x] < f[e]}
<1>1. IsFiniteSet(B(d))
  <2>1. B(d) \subseteq Q
    OBVIOUS
  <2> QED BY <2>1, FS_Subset DEF Numbers
<1>2. f[c] \in Nat /\ f[d] \in Nat /\ \A x \in Q : f[x] \in Nat
  BY DEF Numbers
<1>3. B(c) \subseteq B(d) /\ c \in B(d) /\ c \notin B(c)
  BY <1>2
<1> HIDE DEF B
<1>4. Cardinality(B(c)) <= Cardinality(B(d)) /\ Cardinality(B(c)) # Cardinality(B(d))
  BY <1>1, <1>3, FS_Subset
<1>5. Rank(Q, f, c) = Cardinality(B(c)) /\ Rank(Q, f, d) = Cardinality(B(d))
  BY DEF Rank, B
<1>6. Rank(Q, f, c) \in Nat /\ Rank(Q, f, d) \in Nat
  BY RankRange
<1> QED BY <1>4, <1>5, <1>6

LEMMA RankIsOne ==
  ASSUME NEW Q, NEW f, Numbers(Q, f), NEW c \in Q, NEW d \in Q, Rank(Q, f, c) = Rank(Q, f, d)
  PROVE  c = d
<1>1. f[c] \in Nat /\ f[d] \in Nat /\ (f[c] = f[d] => c = d)
  BY DEF Numbers
<1>2. Rank(Q, f, c) \in Nat
  BY RankRange
<1>3. CASE f[c] < f[d]
  <2>1. Rank(Q, f, c) < Rank(Q, f, d)
    BY <1>3, RankGrows
  <2> QED BY <1>2, <2>1
<1>4. CASE f[d] < f[c]
  <2>1. Rank(Q, f, d) < Rank(Q, f, c)
    BY <1>4, RankGrows
  <2> QED BY <1>2, <2>1
<1> QED BY <1>1, <1>3, <1>4

(* Every place below the number of them is somebody's.                      *)
LEMMA RankOnto ==
  ASSUME NEW Q, NEW f, Numbers(Q, f), NEW i \in 0..(Cardinality(Q) - 1)
  PROVE  \E c \in Q : Rank(Q, f, c) = i
<1> DEFINE n == Cardinality(Q)
           T == 0..(n - 1)
           g == [c \in Q |-> Rank(Q, f, c)]
<1>1. n \in Nat /\ IsFiniteSet(Q)
  BY FS_CardinalityType DEF Numbers
<1>2. IsFiniteSet(T) /\ Cardinality(T) = n
  <2>1. 0 \in Int /\ n - 1 \in Int
    BY <1>1
  <2>2. IsFiniteSet(T) /\ Cardinality(T) = IF 0 > n - 1 THEN 0 ELSE n - 1 - 0 + 1
    BY <2>1, FS_Interval
  <2> QED BY <1>1, <2>2
<1>3. g \in [Q -> T]
  BY RankRange
<1>4. \A c, d \in Q : g[c] = g[d] => c = d
  BY RankIsOne
<1> HIDE DEF g
<1>5. g \in Injection(Q, T)
  BY <1>3, <1>4 DEF Injection, IsInjective
<1>6. g \in Surjection(Q, T)
  BY <1>2, <1>5, FS_Injection
<1>7. \E c \in Q : g[c] = i
  BY <1>6 DEF Surjection
<1> QED BY <1>7 DEF g

LEMMA SortedPlaces ==
  ASSUME NEW Q, NEW f, Numbers(Q, f)
  PROVE  /\ Cardinality(Q) \in Nat
         /\ Sorted(Q, f) \in Seq(Q) /\ Len(Sorted(Q, f)) = Cardinality(Q)
         /\ \A i \in 1..Cardinality(Q) :
              Sorted(Q, f)[i] \in Q /\ Rank(Q, f, Sorted(Q, f)[i]) = i - 1
         /\ \A i \in 1..Cardinality(Q) : \A c \in Q :
              Rank(Q, f, c) = i - 1 => Sorted(Q, f)[i] = c
<1>1. Cardinality(Q) \in Nat
  BY FS_CardinalityType DEF Numbers
<1>2. ASSUME NEW i \in 1..Cardinality(Q)
      PROVE  Sorted(Q, f)[i] \in Q /\ Rank(Q, f, Sorted(Q, f)[i]) = i - 1
  <2>1. i - 1 \in 0..(Cardinality(Q) - 1)
    BY <1>1
  <2>2. \E c \in Q : Rank(Q, f, c) = i - 1
    BY <2>1, RankOnto
  <2> QED BY <2>2 DEF Sorted
<1>3. \A i \in 1..Cardinality(Q) : \A c \in Q : Rank(Q, f, c) = i - 1 => Sorted(Q, f)[i] = c
  BY <1>2, RankIsOne
<1>4. Sorted(Q, f) \in Seq(Q) /\ Len(Sorted(Q, f)) = Cardinality(Q)
  <2>1. Sorted(Q, f) \in [1..Cardinality(Q) -> Q]
    BY <1>2 DEF Sorted
  <2> QED BY <1>1, <2>1
<1> QED BY <1>1, <1>2, <1>3, <1>4

(* Who comes after all others is put at the end.                            *)
LEMMA SortedAppend ==
  ASSUME NEW Q, NEW f, NEW h, NEW c, c \notin Q, Numbers(Q, f), h[c] \in Nat,
         \A d \in Q : h[d] = f[d] /\ h[d] < h[c]
  PROVE  Sorted(Q \cup {c}, h) = Append(Sorted(Q, f), c)
<1> DEFINE P == Q \cup {c}
           n == Cardinality(Q)
<1>1. IsFiniteSet(P) /\ Cardinality(P) = n + 1 /\ n \in Nat
  BY FS_AddElement, FS_CardinalityType DEF Numbers
<1>2. Numbers(P, h)
  BY <1>1 DEF Numbers
<1>3. \A d \in Q : Rank(P, h, d) = Rank(Q, f, d)
  <2> TAKE d \in Q
  <2>1. h[d] \in Nat /\ h[d] = f[d] /\ ~(h[c] < h[d])
    BY DEF Numbers
  <2>2. {e \in P : h[e] < h[d]} = {e \in Q : f[e] < f[d]}
    BY <2>1
  <2> QED BY <2>2 DEF Rank
<1>4. Rank(P, h, c) = n
  <2>1. {e \in P : h[e] < h[c]} = Q
    OBVIOUS
  <2> QED BY <2>1 DEF Rank
<1> HIDE DEF P, n
<1>5. PICK s : s = Sorted(Q, f)
  OBVIOUS
<1>6. /\ s \in Seq(Q) /\ Len(s) = n
      /\ \A i \in 1..n : s[i] \in Q /\ Rank(Q, f, s[i]) = i - 1
  BY <1>5, SortedPlaces DEF n
<1>7. PICK t : t = Sorted(P, h)
  OBVIOUS
<1>8. /\ t \in Seq(P) /\ Len(t) = n + 1
      /\ \A i \in 1..(n + 1) : \A d \in P : Rank(P, h, d) = i - 1 => t[i] = d
  BY <1>1, <1>2, <1>7, SortedPlaces
<1>9. \A i \in 1..n : t[i] = s[i]
  <2> TAKE i \in 1..n
  <2>1. s[i] \in Q /\ s[i] \in P /\ Rank(Q, f, s[i]) = i - 1 /\ i \in 1..(n + 1)
    BY <1>1, <1>6 DEF P
  <2>2. Rank(P, h, s[i]) = i - 1
    BY <1>3, <2>1
  <2> QED BY <1>8, <2>1, <2>2
<1>10. t[n + 1] = c
  <2>1. c \in P /\ n + 1 \in 1..(n + 1) /\ (n + 1) - 1 = n
    BY <1>1 DEF P
  <2> QED BY <1>4, <1>8, <2>1
<1>11. /\ Append(s, c) \in Seq(P) /\ Len(Append(s, c)) = n + 1
       /\ \A i \in 1..n : Append(s, c)[i] = s[i]
       /\ Append(s, c)[n + 1] = c
  <2>1. s \in Seq(P) /\ c \in P
    BY <1>6 DEF P
  <2> QED BY <1>6, <2>1, AppendProperties
<1>12. \A i \in 1..(n + 1) : t[i] = Append(s, c)[i]
  <2>1. \A i \in 1..(n + 1) : i \in 1..n \/ i = n + 1
    BY <1>1
  <2> QED BY <1>9, <1>10, <1>11, <2>1
<1>13. t = Append(s, c)
  BY <1>8, <1>11, <1>12, SeqEqual
<1> QED BY <1>5, <1>7, <1>13 DEF P

(* Without the first of them the others move up.                            *)
LEMMA SortedTail ==
  ASSUME NEW Q, NEW f, NEW c \in Q, Numbers(Q, f), \A d \in Q : d # c => f[c] < f[d]
  PROVE  /\ Sorted(Q, f) # <<>>
         /\ Head(Sorted(Q, f)) = c
         /\ Sorted(Q \ {c}, f) = Tail(Sorted(Q, f))
<1> DEFINE P == Q \ {c}
           n == Cardinality(Q)
<1>1. IsFiniteSet(P) /\ Cardinality(P) = n - 1 /\ n \in Nat /\ n # 0
  BY FS_RemoveElement, FS_CardinalityType, FS_EmptySet DEF Numbers
<1>2. Numbers(P, f)
  BY <1>1 DEF Numbers
<1>3. Rank(Q, f, c) = 0
  <2>1. {e \in Q : f[e] < f[c]} = {}
    BY DEF Numbers
  <2> QED BY <2>1, FS_EmptySet DEF Rank
<1>4. \A d \in P : Rank(Q, f, d) = Rank(P, f, d) + 1
  <2> TAKE d \in P
  <2> DEFINE A == {e \in P : f[e] < f[d]}
             B == {e \in Q : f[e] < f[d]}
  <2>1. B = A \cup {c} /\ c \notin A
    OBVIOUS
  <2>2. IsFiniteSet(A)
    BY <1>1, FS_Subset
  <2> HIDE DEF A, B
  <2>3. Cardinality(B) = Cardinality(A) + 1
    BY <2>1, <2>2, FS_AddElement
  <2> QED BY <2>3 DEF Rank, A, B
<1> HIDE DEF P, n
<1>5. PICK s : s = Sorted(Q, f)
  OBVIOUS
<1>6. /\ s \in Seq(Q) /\ Len(s) = n
      /\ \A i \in 1..n : \A d \in Q : Rank(Q, f, d) = i - 1 => s[i] = d
  BY <1>5, SortedPlaces DEF n
<1>7. PICK t : t = Sorted(P, f)
  OBVIOUS
<1>8. /\ t \in Seq(P) /\ Len(t) = n - 1
      /\ \A i \in 1..(n - 1) : t[i] \in P /\ Rank(P, f, t[i]) = i - 1
  BY <1>1, <1>2, <1>7, SortedPlaces
<1>9. s[1] = c
  BY <1>1, <1>3, <1>6
<1>10. \A i \in 1..(n - 1) : t[i] = s[i + 1]
  <2> TAKE i \in 1..(n - 1)
  <2>1. t[i] \in P /\ t[i] \in Q /\ Rank(Q, f, t[i]) = (i - 1) + 1
    BY <1>4, <1>8 DEF P
  <2>2. i + 1 \in 1..n /\ (i - 1) + 1 = (i + 1) - 1
    BY <1>1
  <2> QED BY <1>6, <2>1, <2>2
<1>11. s # <<>> /\ Head(s) = c
  BY <1>1, <1>6, <1>9
<1>12. /\ Tail(s) \in Seq(Q) /\ Len(Tail(s)) = n - 1
       /\ \A i \in 1..(n - 1) : Tail(s)[i] = s[i + 1]
  BY <1>6, <1>11, HeadTailProperties
<1>13. t = Tail(s)
  <2>1. t \in Seq(Q)
    BY <1>8 DEF P
  <2>2. \A i \in 1..Len(t) : t[i] = Tail(s)[i]
    BY <1>8, <1>10, <1>12
  <2> QED BY <1>8, <1>12, <2>1, <2>2, SeqEqual
<1> QED BY <1>5, <1>7, <1>11, <1>13 DEF P

(* The order is that of the numbers of those in it.                         *)
LEMMA SortedAgree ==
  ASSUME NEW Q, NEW f, NEW h, \A d \in Q : h[d] = f[d]
  PROVE  Sorted(Q, h) = Sorted(Q, f)
<1>1. \A c \in Q : Rank(Q, h, c) = Rank(Q, f, c)
  <2> TAKE c \in Q
  <2>1. {d \in Q : h[d] < h[c]} = {d \in Q : f[d] < f[c]}
    OBVIOUS
  <2> QED BY <2>1 DEF Rank
<1>2. \A i \in 1..Cardinality(Q) :
        (CHOOSE c \in Q : Rank(Q, h, c) = i - 1) = (CHOOSE c \in Q : Rank(Q, f, c) = i - 1)
  BY <1>1
<1> QED BY <1>2 DEF Sorted

QueueOf(k) == {c \in Calls : pc[c] = "queued" /\ KeyOf[c] = k}

LEMMA QueuedIsSorted ==
  ASSUME ChainInv
  PROVE  \A k : /\ Queued(k) = Sorted(QueueOf(k), order)
                /\ Numbers(QueueOf(k), order)
                /\ \A i \in DOMAIN Queued(k) : Queued(k)[i] \in QueueOf(k)
<1> TAKE k
<1>1. Queued(k) = Sorted(QueueOf(k), order)
  BY DEF Queued, QueueOf, Sorted, Rank
<1>2. Numbers(QueueOf(k), order)
  <2>1. IsFiniteSet(QueueOf(k))
    BY CallsAssumption, FS_Subset DEF QueueOf
  <2>2. \A c \in QueueOf(k) : c \in Calls /\ order[c] \in Nat /\ order[c] > 0
    BY DEF QueueOf, ChainInv, TypeOK, Ordered
  <2>3. \A c, d \in QueueOf(k) : order[c] = order[d] => c = d
    BY <2>2 DEF ChainInv, Ordered
  <2> QED BY <2>1, <2>2, <2>3 DEF Numbers
<1>3. DOMAIN Queued(k) = 1..Cardinality(QueueOf(k))
  BY <1>1 DEF Sorted
<1> QED BY <1>1, <1>2, <1>3, SortedPlaces

\* Of the calls of a key the running one, if there is one, is RunningOn.
OneRuns ==
  \A k :
    /\ (\A c \in Calls : KeyOf[c] = k => pc[c] # "running") => RunningOn(k) = NoCall
    /\ \A c \in Calls : KeyOf[c] = k /\ pc[c] = "running" => RunningOn(k) = c

LEMMA RunningIsOne == ChainInv => OneRuns
<1> SUFFICES ASSUME ChainInv, NEW k
             PROVE  /\ (\A c \in Calls : KeyOf[c] = k => pc[c] # "running") => RunningOn(k) = NoCall
                    /\ \A c \in Calls : KeyOf[c] = k /\ pc[c] = "running" => RunningOn(k) = c
  BY DEF OneRuns
<1>1. \A c, d \in Calls :
        KeyOf[c] = k /\ pc[c] = "running" /\ KeyOf[d] = k /\ pc[d] = "running" => c = d
  BY ChainExcludes DEF Exclusion
<1>2. ASSUME NEW c \in Calls, KeyOf[c] = k, pc[c] = "running"
      PROVE  RunningOn(k) = c
  BY <1>1, <1>2 DEF RunningOn
<1> QED BY <1>2 DEF RunningOn

LEMMA RunningIsOneNext == ChainInv' => OneRuns'
  BY RunningIsOne, PTL

(* Nothing is queued or taken off a queue whose calls and numbers stay.     *)
LEMMA SameQueue ==
  ASSUME ChainInv, ChainInv', NEW k, QueueOf(k)' = QueueOf(k),
         \A c \in QueueOf(k) : order'[c] = order[c]
  PROVE  Queued(k)' = Queued(k)
<1>1. Queued(k) = Sorted(QueueOf(k), order)
  BY QueuedIsSorted
<1>2. Queued(k)' = Sorted(QueueOf(k), order')
  <2>1. Queued(k)' = Sorted(QueueOf(k)', order')
    BY DEF Queued, QueueOf, Sorted, Rank
  <2> QED BY <2>1
<1> QED BY <1>1, <1>2, SortedAgree

LEMMA SameRunning ==
  ASSUME ChainInv, ChainInv', NEW k,
         \A c \in Calls : KeyOf[c] = k => (pc'[c] = "running" <=> pc[c] = "running")
  PROVE  RunningOn(k)' = RunningOn(k)
<1>1. /\ (\A c \in Calls : KeyOf[c] = k => pc'[c] # "running") => RunningOn(k)' = NoCall
      /\ \A c \in Calls : KeyOf[c] = k /\ pc'[c] = "running" => RunningOn(k)' = c
  BY RunningIsOneNext DEF OneRuns
<1> QED BY <1>1, RunningIsOne DEF OneRuns

LEMMA CallAsks ==
  ASSUME ChainInv, ChainInv', NEW c \in Calls, Call(c)
  PROVE  Queue!Ask(c)
<1>1. pc[c] = "new" /\ pc' = [pc EXCEPT ![c] = "queued"] /\ KeyOf[c] \in Keys
  BY CallsAssumption DEF Call, MayCall
<1>2. /\ \A d \in Calls : d # c => order'[d] = order[d] /\ pc'[d] = pc[d]
      /\ \A d \in Calls : order[d] < order'[c]
      /\ pc'[c] = "queued" /\ order'[c] \in Nat
  BY <1>1, NewOrder DEF ChainInv, TypeOK
<1>3. \A k : QueueOf(k) \subseteq Calls /\ c \notin QueueOf(k)
  BY <1>1 DEF QueueOf
<1>4. \A i \in DOMAIN Queued(KeyOf[c]) : Queued(KeyOf[c])[i] # c
  BY <1>3, QueuedIsSorted
<1>5. Queued(KeyOf[c])' = Append(Queued(KeyOf[c]), c)
  <2>1. QueueOf(KeyOf[c])' = QueueOf(KeyOf[c]) \cup {c}
    BY <1>1, <1>2 DEF QueueOf
  <2>2. Queued(KeyOf[c])' = Sorted(QueueOf(KeyOf[c]) \cup {c}, order')
    <3>1. Queued(KeyOf[c])' = Sorted(QueueOf(KeyOf[c])', order')
      BY DEF Queued, QueueOf, Sorted, Rank
    <3> QED BY <2>1, <3>1
  <2>3. Queued(KeyOf[c]) = Sorted(QueueOf(KeyOf[c]), order) /\ Numbers(QueueOf(KeyOf[c]), order)
    BY QueuedIsSorted
  <2>4. \A d \in QueueOf(KeyOf[c]) : order'[d] = order[d] /\ order'[d] < order'[c]
    <3> TAKE d \in QueueOf(KeyOf[c])
    <3>1. d \in Calls /\ d # c
      BY <1>3
    <3> QED BY <1>2, <3>1
  <2>5. Sorted(QueueOf(KeyOf[c]) \cup {c}, order') = Append(Sorted(QueueOf(KeyOf[c]), order), c)
    BY <1>2, <1>3, <2>3, <2>4, SortedAppend
  <2> QED BY <2>2, <2>3, <2>5
<1>6. \A k \in Keys : k # KeyOf[c] => Queued(k)' = Queued(k)
  <2> SUFFICES ASSUME NEW k \in Keys, k # KeyOf[c] PROVE Queued(k)' = Queued(k)
    OBVIOUS
  <2>1. QueueOf(k)' = QueueOf(k)
    BY <1>1, <1>2 DEF QueueOf
  <2>2. \A d \in QueueOf(k) : order'[d] = order[d]
    <3> TAKE d \in QueueOf(k)
    <3>1. d \in Calls /\ d # c
      BY <1>3
    <3> QED BY <1>2, <3>1
  <2> QED BY <2>1, <2>2, SameQueue
<1>7. \A k \in Keys : RunningOn(k)' = RunningOn(k)
  <2> TAKE k \in Keys
  <2>1. \A d \in Calls : pc'[d] = "running" <=> pc[d] = "running"
    BY <1>1, <1>2
  <2> QED BY <2>1, SameRunning
<1>8. [k \in Keys |-> Queued(k)'] =
        [[k \in Keys |-> Queued(k)] EXCEPT ![KeyOf[c]] = Append(Queued(KeyOf[c]), c)]
  BY <1>1, <1>5, <1>6
<1>9. [k \in Keys |-> RunningOn(k)'] = [k \in Keys |-> RunningOn(k)]
  BY <1>7
<1> QED BY <1>1, <1>4, <1>8, <1>9 DEF Queue!Ask

LEMMA StartIsGranted ==
  ASSUME ChainInv, ChainInv', NEW c \in Calls, Start(c)
  PROVE  Queue!Grant(KeyOf[c])
<1>1. /\ pc[c] = "queued" /\ PrevDone(c) /\ pc' = [pc EXCEPT ![c] = "running"]
      /\ order' = order /\ KeyOf[c] \in Keys
  BY CallsAssumption DEF Start
<1>2. pc'[c] = "running" /\ \A d \in Calls : d # c => pc'[d] = pc[d]
  BY <1>1 DEF ChainInv, TypeOK
<1>3. ASSUME NEW d \in Calls, KeyOf[d] = KeyOf[c], d # c, Unsettled(d)
      PROVE  order[c] < order[d] /\ pc[d] = "queued"
  <2>1. ~(order[d] < order[c])
    BY <1>1, <1>3, NobodyOvertakes
  <2>2. order[d] # order[c] /\ order[d] \in Nat /\ order[c] \in Nat
    BY <1>1, <1>3 DEF ChainInv, Ordered, TypeOK, Unsettled
  <2>3. order[c] < order[d]
    BY <2>1, <2>2
  <2> QED BY <1>1, <1>3, <2>3 DEF ChainInv, Chained, Unsettled
<1>4. RunningOn(KeyOf[c]) = NoCall
  <2>1. \A d \in Calls : KeyOf[d] = KeyOf[c] => pc[d] # "running"
    BY <1>1, <1>3 DEF Unsettled
  <2> QED BY <2>1, RunningIsOne DEF OneRuns
<1>5. RunningOn(KeyOf[c])' = c
  BY <1>2, RunningIsOneNext DEF OneRuns
<1>6. /\ Queued(KeyOf[c]) # <<>> /\ Head(Queued(KeyOf[c])) = c
      /\ Queued(KeyOf[c])' = Tail(Queued(KeyOf[c]))
  <2>1. c \in QueueOf(KeyOf[c]) /\ QueueOf(KeyOf[c])' = QueueOf(KeyOf[c]) \ {c}
    BY <1>1, <1>2 DEF QueueOf
  <2>2. \A d \in QueueOf(KeyOf[c]) : d # c => order[c] < order[d]
    BY <1>3 DEF QueueOf, Unsettled
  <2>3. Queued(KeyOf[c])' = Sorted(QueueOf(KeyOf[c]) \ {c}, order)
    <3>1. Queued(KeyOf[c])' = Sorted(QueueOf(KeyOf[c])', order')
      BY DEF Queued, QueueOf, Sorted, Rank
    <3> QED BY <1>1, <2>1, <3>1
  <2>4. Queued(KeyOf[c]) = Sorted(QueueOf(KeyOf[c]), order) /\ Numbers(QueueOf(KeyOf[c]), order)
    BY QueuedIsSorted
  <2> QED BY <2>1, <2>2, <2>3, <2>4, SortedTail
<1>7. \A k \in Keys : k # KeyOf[c] => Queued(k)' = Queued(k) /\ RunningOn(k)' = RunningOn(k)
  <2> SUFFICES ASSUME NEW k \in Keys, k # KeyOf[c]
               PROVE  Queued(k)' = Queued(k) /\ RunningOn(k)' = RunningOn(k)
    OBVIOUS
  <2>1. QueueOf(k)' = QueueOf(k)
    BY <1>1, <1>2 DEF QueueOf
  <2>2. \A d \in Calls : KeyOf[d] = k => (pc'[d] = "running" <=> pc[d] = "running")
    BY <1>2
  <2> QED BY <1>1, <2>1, <2>2, SameQueue, SameRunning
<1>8. [k \in Keys |-> Queued(k)'] =
        [[k \in Keys |-> Queued(k)] EXCEPT ![KeyOf[c]] = Tail(Queued(KeyOf[c]))]
  BY <1>1, <1>6, <1>7
<1>9. [k \in Keys |-> RunningOn(k)'] =
        [[k \in Keys |-> RunningOn(k)] EXCEPT ![KeyOf[c]] = Head(Queued(KeyOf[c]))]
  BY <1>1, <1>5, <1>6, <1>7
<1> QED BY <1>1, <1>4, <1>6, <1>8, <1>9 DEF Queue!Grant

LEMMA SettleYields ==
  ASSUME ChainInv, ChainInv', NEW c \in Calls, Settle(c)
  PROVE  Queue!Yield(KeyOf[c])
<1>1. /\ pc[c] = "running" /\ pc' = [pc EXCEPT ![c] = "settled"]
      /\ order' = order /\ KeyOf[c] \in Keys
  BY CallsAssumption DEF Settle
<1>2. pc'[c] = "settled" /\ \A d \in Calls : d # c => pc'[d] = pc[d]
  BY <1>1 DEF ChainInv, TypeOK
<1>3. RunningOn(KeyOf[c]) = c /\ c # NoCall
  BY <1>1, RunningIsOne, CallsAssumption DEF OneRuns
<1>4. RunningOn(KeyOf[c])' = NoCall
  <2>1. \A d \in Calls : KeyOf[d] = KeyOf[c] => pc'[d] # "running"
    <3>1. \A d \in Calls : KeyOf[d] = KeyOf[c] /\ pc[d] = "running" => d = c
      BY <1>1, ChainExcludes DEF Exclusion
    <3> QED BY <1>2, <3>1
  <2> QED BY <2>1, RunningIsOneNext DEF OneRuns
<1>5. \A k \in Keys : Queued(k)' = Queued(k)
  <2> TAKE k \in Keys
  <2>1. QueueOf(k)' = QueueOf(k)
    BY <1>1, <1>2 DEF QueueOf
  <2> QED BY <1>1, <2>1, SameQueue
<1>6. \A k \in Keys : k # KeyOf[c] => RunningOn(k)' = RunningOn(k)
  <2> SUFFICES ASSUME NEW k \in Keys, k # KeyOf[c] PROVE RunningOn(k)' = RunningOn(k)
    OBVIOUS
  <2>1. \A d \in Calls : KeyOf[d] = k => (pc'[d] = "running" <=> pc[d] = "running")
    BY <1>2
  <2> QED BY <2>1, SameRunning
<1>7. [k \in Keys |-> Queued(k)'] = [k \in Keys |-> Queued(k)]
  BY <1>5
<1>8. [k \in Keys |-> RunningOn(k)'] =
        [[k \in Keys |-> RunningOn(k)] EXCEPT ![KeyOf[c]] = NoCall]
  BY <1>1, <1>4, <1>6
<1> QED BY <1>1, <1>3, <1>7, <1>8 DEF Queue!Yield

LEMMA OthersStutter ==
  ASSUME ChainInv, ChainInv', order' = order,
         \A c \in Calls : /\ pc'[c] = "queued" <=> pc[c] = "queued"
                          /\ pc'[c] = "running" <=> pc[c] = "running"
  PROVE  UNCHANGED Queue!vars
<1>1. \A k \in Keys : Queued(k)' = Queued(k) /\ RunningOn(k)' = RunningOn(k)
  <2> TAKE k \in Keys
  <2>1. QueueOf(k)' = QueueOf(k)
    BY DEF QueueOf
  <2> QED BY <2>1, SameQueue, SameRunning
<1>2. /\ [k \in Keys |-> Queued(k)'] = [k \in Keys |-> Queued(k)]
      /\ [k \in Keys |-> RunningOn(k)'] = [k \in Keys |-> RunningOn(k)]
  BY <1>1
<1> QED BY <1>2 DEF Queue!vars

LEMMA EmptyAtFirst == Init => Queue!Init
<1> SUFFICES ASSUME Init PROVE Queue!Init
  OBVIOUS
<1>1. \A k \in Keys : Queued(k) = <<>> /\ RunningOn(k) = NoCall
  <2> TAKE k \in Keys
  <2>1. QueueOf(k) = {}
    BY DEF Init, QueueOf
  <2>2. Cardinality(QueueOf(k)) = 0
    BY <2>1, FS_EmptySet
  <2>3. Queued(k) = Sorted(QueueOf(k), order)
    BY DEF Queued, QueueOf, Sorted, Rank
  <2>4. Queued(k) = <<>>
    BY <2>2, <2>3 DEF Sorted
  <2> QED BY <2>4 DEF Init, RunningOn
<1> QED BY <1>1 DEF Queue!Init

\* The promise chains of withLock are one queue per key: calls are put at its
\* end, its head is the one that starts, and it starts when nobody runs.
THEOREM LockIsAQueue == Spec => IsAQueue
<1>1. ChainInv /\ ChainInv' /\ [Next]_vars => [Queue!Next]_(Queue!vars)
  <2> SUFFICES ASSUME ChainInv, ChainInv', [Next]_vars
               PROVE  Queue!Next \/ UNCHANGED Queue!vars
    OBVIOUS
  <2>1. ASSUME NEW c \in Calls, Call(c) PROVE Queue!Next
    BY <2>1, CallAsks DEF Queue!Next
  <2>2. ASSUME NEW c \in Calls, Start(c) PROVE Queue!Next
    BY <2>2, StartIsGranted, CallsAssumption DEF Queue!Next
  <2>3. ASSUME NEW c \in Calls, Settle(c) PROVE Queue!Next
    BY <2>3, SettleYields, CallsAssumption DEF Queue!Next
  <2>4. ASSUME NEW c \in Calls, Refuse(c) \/ Leave(c) PROVE UNCHANGED Queue!vars
    <3>1. order' = order /\ \A d \in Calls : d # c => pc'[d] = pc[d]
      BY <2>4 DEF Refuse, Leave, ChainInv, TypeOK
    <3>2. pc[c] \in {"new", "settled"} /\ pc'[c] \in {"refused", "left"}
      BY <2>4 DEF Refuse, Leave, MayCall, ChainInv, TypeOK
    <3>3. \A d \in Calls : /\ pc'[d] = "queued" <=> pc[d] = "queued"
                           /\ pc'[d] = "running" <=> pc[d] = "running"
      BY <3>1, <3>2
    <3> QED BY <3>1, <3>3, OthersStutter
  <2>5. ASSUME Shutdown \/ GiveUp \/ UNCHANGED vars PROVE UNCHANGED Queue!vars
    <3>1. order' = order /\ pc' = pc
      BY <2>5 DEF Shutdown, GiveUp, vars
    <3> QED BY <3>1, OthersStutter
  <2> QED BY <2>1, <2>2, <2>3, <2>4, <2>5 DEF Next
<1> QED BY <1>1, EmptyAtFirst, LockInvariant, PTL DEF Spec, IsAQueue, Queue!Spec

=============================================================================
