----------------------------- MODULE SyncProofs -----------------------------
(***************************************************************************)
(* Theorems about file sync, for any machines, loops, gids, users, faults  *)
(* and bounds: what a machine has written down the relay's log bears out,  *)
(* the cursor passes over nothing; without restarts a machine's ops enter  *)
(* the log in the order they were made; while every request the relay      *)
(* serves is answered, an accepted op is based on the version it replaces; *)
(* and while, besides, users write texts of their own, no sync loop takes  *)
(* an edit away, and machines that have nothing left to do agree.          *)
(***************************************************************************)
EXTENDS Sync, TLAPS, FiniteSetTheorems, WellFoundedInduction, SequenceTheorems

(* Induction over the naturals, with a set in place of a predicate: the     *)
(* least number outside the set would have a predecessor inside it.         *)
LEMMA NatSetInduction ==
  ASSUME NEW S, 0 \in S, \A n \in Nat : n \in S => n + 1 \in S
  PROVE  Nat \subseteq S
<1> DEFINE Less == {p \in Nat \X Nat : p[1] < p[2]}
           Rest == Nat \ S
<1>1. IsWellFoundedOn(Less, Nat)
  BY NatLessThanWellFounded DEF OpToRel
<1>2. SUFFICES ASSUME Rest # {} PROVE FALSE
  OBVIOUS
<1>3. Rest \subseteq Nat
  OBVIOUS
<1>4. PICK n \in Rest : \A y \in Rest : ~(<<y, n>> \in Less)
  <2> HIDE DEF Less, Rest
  <2> QED BY <1>1, <1>2, <1>3, WFMin
<1>5. n \in Nat /\ n # 0
  OBVIOUS
<1>6. n - 1 \in Nat /\ n - 1 < n /\ (n - 1) + 1 = n
  BY <1>5
<1>7. <<n - 1, n>> \in Less
  BY <1>5, <1>6
<1>8. n - 1 \in S
  BY <1>4, <1>6, <1>7
<1> QED BY <1>6, <1>8

(* A nonempty set of naturals has a least member.                           *)
LEMMA LeastExists ==
  ASSUME NEW S \in SUBSET Nat, S # {}
  PROVE  \E n \in S : \A y \in S : n <= y
<1> DEFINE Below == {n \in Nat : \A y \in S : n <= y}
<1>1. SUFFICES ASSUME \A n \in S : \E y \in S : ~(n <= y) PROVE FALSE
  OBVIOUS
<1>2. 0 \in Below
  OBVIOUS
<1>3. \A n \in Nat : n \in Below => n + 1 \in Below
  <2> SUFFICES ASSUME NEW n \in Nat, \A y \in S : n <= y, NEW y \in S
               PROVE  n + 1 <= y
    OBVIOUS
  <2>1. n \notin S
    BY <1>1
  <2> QED BY <2>1
<1>4. Nat \subseteq Below
  <2> HIDE DEF Below
  <2> QED BY <1>2, <1>3, NatSetInduction
<1>5. PICK y \in S : TRUE
  OBVIOUS
<1>6. y + 1 \in Nat /\ ~(y + 1 <= y)
  OBVIOUS
<1> QED BY <1>4, <1>5, <1>6

(* The larger and the smaller of two naturals.                              *)
LEMMA MaxOfTwo ==
  ASSUME NEW a \in Nat, NEW b \in Nat
  PROVE  Max({a, b}) = IF a >= b THEN a ELSE b
BY DEF Max

LEMMA MinOfTwo ==
  ASSUME NEW a \in Nat, NEW b \in Nat
  PROVE  Min({a, b}) = IF a <= b THEN a ELSE b
BY DEF Min

(* A finite set of ids has, for each n up to its size, a member with        *)
(* exactly n - 1 before it: ORDER BY id names every row once.               *)
LEMMA NthExists ==
  ASSUME NEW S \in SUBSET Nat, IsFiniteSet(S), NEW n \in 1..Cardinality(S)
  PROVE  /\ Nth(S, n) \in S
         /\ Cardinality({j \in S : j < Nth(S, n)}) = n - 1
<1> DEFINE Before(i) == {j \in S : j < i}
           Has == {k \in Nat : k < Cardinality(S) => \E i \in S : Cardinality(Before(i)) = k}
<1>1. Cardinality(S) \in Nat
  BY FS_CardinalityType
<1>2. 0 \in Has
  <2> SUFFICES ASSUME 0 < Cardinality(S) PROVE \E i \in S : Cardinality(Before(i)) = 0
    OBVIOUS
  <2>1. S # {}
    BY FS_EmptySet
  <2>2. PICK i \in S : \A y \in S : i <= y
    BY <2>1, LeastExists
  <2>3. \A j \in S : ~(j < i)
    BY <2>2
  <2>4. Before(i) = {}
    BY <2>3
  <2> QED BY <2>4, FS_EmptySet
<1>3. \A k \in Nat : k \in Has => k + 1 \in Has
  <2> SUFFICES ASSUME NEW k \in Nat, k \in Has, k + 1 < Cardinality(S)
               PROVE  \E i \in S : Cardinality(Before(i)) = k + 1
    OBVIOUS
  <2>1. PICK i \in S : Cardinality(Before(i)) = k
    BY <1>1
  <2>2. IsFiniteSet(Before(i)) /\ i \notin Before(i)
    BY FS_Subset
  <2>3. Cardinality(Before(i) \cup {i}) = k + 1
    BY <2>1, <2>2, FS_AddElement
  <2>4. S \ (Before(i) \cup {i}) # {}
    <3> SUFFICES ASSUME S \ (Before(i) \cup {i}) = {} PROVE FALSE
      OBVIOUS
    <3>1. S = Before(i) \cup {i}
      OBVIOUS
    <3> QED BY <2>3, <3>1
  <2>5. PICK j \in S \ (Before(i) \cup {i}) : \A y \in S \ (Before(i) \cup {i}) : j <= y
    BY <2>4, LeastExists
  <2>6. i < j
    BY <2>5
  <2>7. \A y \in S : y < j <=> y < i \/ y = i
    BY <2>5, <2>6
  <2>8. Before(j) = Before(i) \cup {i}
    BY <2>7
  <2> QED BY <2>3, <2>5, <2>8
<1>4. Nat \subseteq Has
  <2> HIDE DEF Has
  <2> QED BY <1>2, <1>3, NatSetInduction
<1>5. n - 1 \in Nat /\ n - 1 < Cardinality(S)
  BY <1>1
<1>6. \E i \in S : Cardinality(Before(i)) = n - 1
  BY <1>4, <1>5
<1> QED BY <1>6 DEF Nth

-----------------------------------------------------------------------------
(* The relay answers a batch.                                               *)

(* The recursion of Posted has a solution: extend one op at a time.         *)
LEMMA PostedUnfolds ==
  ASSUME NEW ops, Len(ops) \in Nat
  PROVE  Posted(ops) =
           [n \in 0..Len(ops) |->
              IF n = 0 THEN [log |-> log, lost |-> {}, answers |-> <<>>]
              ELSE PostOne(Posted(ops)[n - 1], ops[n])]
<1> DEFINE start == [log |-> log, lost |-> {}, answers |-> <<>>]
           Solves(f, k) == f = [n \in 0..k |-> IF n = 0 THEN start ELSE PostOne(f[n - 1], ops[n])]
           Solvable == {k \in Nat : \E f : Solves(f, k)}
<1> HIDE DEF start
<1>1. 0 \in Solvable
  <2> DEFINE f == [n \in 0..0 |-> start]
  <2>1. Solves(f, 0)
    <3>1. \A n \in 0..0 : n = 0
      OBVIOUS
    <3> QED BY <3>1
  <2> HIDE DEF f, Solves
  <2> QED BY <2>1
<1>2. ASSUME NEW k \in Nat, NEW f, Solves(f, k)
      PROVE  \E g : Solves(g, k + 1)
  <2> DEFINE g == [n \in 0..(k + 1) |-> IF n = k + 1 THEN PostOne(f[k], ops[k + 1]) ELSE f[n]]
  <2>1. \A n \in 0..k : g[n] = f[n]
    OBVIOUS
  <2>2. \A n \in 0..k : f[n] = IF n = 0 THEN start ELSE PostOne(f[n - 1], ops[n])
    BY <1>2
  <2>3. ASSUME NEW n \in 0..(k + 1)
        PROVE  g[n] = IF n = 0 THEN start ELSE PostOne(g[n - 1], ops[n])
    <3>1. CASE n = 0
      BY <2>1, <2>2, <3>1
    <3>2. CASE n \in 1..k
      <4>1. n - 1 \in 0..k /\ n \in 0..k
        BY <3>2
      <4> QED BY <2>1, <2>2, <3>2, <4>1
    <3>3. CASE n = k + 1
      <4>1. n - 1 = k /\ k \in 0..k
        BY <3>3
      <4> QED BY <2>1, <3>3, <4>1
    <3> QED BY <3>1, <3>2, <3>3
  <2>4. g = [n \in 0..(k + 1) |-> g[n]]
    OBVIOUS
  <2> HIDE DEF g
  <2>5. Solves(g, k + 1)
    BY <2>3, <2>4
  <2> QED BY <2>5
<1>3. Nat \subseteq Solvable
  <2> HIDE DEF Solves
  <2>1. \A k \in Nat : k \in Solvable => k + 1 \in Solvable
    BY <1>2
  <2> HIDE DEF Solvable
  <2> QED BY <1>1, <2>1, NatSetInduction
<1>4. \E f : Solves(f, Len(ops))
  BY <1>3
<1>5. Posted(ops) = CHOOSE f : Solves(f, Len(ops))
  BY DEF Posted, start
<1> HIDE DEF Solves
<1>6. Solves(Posted(ops), Len(ops))
  BY <1>4, <1>5
<1> QED BY <1>6 DEF Solves, start

Logs == Seq(LogEntry(Gids, Machines))

\* The log is appended to and never rewritten.
Extends(l, k) == Len(l) <= Len(k) /\ \A i \in 1..Len(l) : k[i] = l[i]

(* The accepted ops of a record are finitely many, more of them further up, *)
(* and an extended log has the same ones up to its old end.                 *)
LEMMA VersionGrows ==
  ASSUME NEW l \in Logs, NEW k \in Logs, Extends(l, k), NEW gid, NEW family,
         NEW s \in Nat, NEW t \in Nat, s <= t, s <= Len(l)
  PROVE  /\ VersionAt(l, gid, family, s) \in Nat
         /\ VersionAt(k, gid, family, t) \in Nat
         /\ VersionAt(l, gid, family, s) <= VersionAt(k, gid, family, t)
<1>1. DOMAIN l = 1..Len(l) /\ DOMAIN k = 1..Len(k) /\ Len(l) \in Nat /\ Len(k) \in Nat
  OBVIOUS
<1>2. IsFiniteSet(1..Len(k)) /\ IsFiniteSet(1..Len(l))
  BY <1>1, FS_Interval
<1>3. /\ AcceptedUpTo(k, gid, family, t) \subseteq 1..Len(k)
      /\ AcceptedUpTo(l, gid, family, s) \subseteq 1..Len(l)
  BY <1>1 DEF AcceptedUpTo
<1>4. AcceptedUpTo(l, gid, family, s) \subseteq AcceptedUpTo(k, gid, family, t)
  <2> SUFFICES ASSUME NEW i \in AcceptedUpTo(l, gid, family, s)
               PROVE  i \in AcceptedUpTo(k, gid, family, t)
    OBVIOUS
  <2>1. i \in 1..Len(l) /\ i <= s /\ l[i] = k[i] /\ i \in 1..Len(k) /\ i <= t
    BY <1>1 DEF AcceptedUpTo, Extends
  <2> QED BY <1>1, <2>1 DEF AcceptedUpTo
<1>5. IsFiniteSet(AcceptedUpTo(k, gid, family, t)) /\ IsFiniteSet(AcceptedUpTo(l, gid, family, s))
  BY <1>2, <1>3, FS_Subset
<1> QED BY <1>4, <1>5, FS_Subset, FS_CardinalityType DEF VersionAt

(* Appending an accepted op counts it.                                      *)
LEMMA VersionOfAccepted ==
  ASSUME NEW l \in Logs, NEW e, e.status = "accepted"
  PROVE  VersionAt(Append(l, e), e.gid, KindFamily(e.kind), Len(l) + 1) =
           VersionAt(l, e.gid, KindFamily(e.kind), Len(l)) + 1
<1> DEFINE old == AcceptedUpTo(l, e.gid, KindFamily(e.kind), Len(l))
           new == AcceptedUpTo(Append(l, e), e.gid, KindFamily(e.kind), Len(l) + 1)
<1>1. /\ Len(l) \in Nat /\ DOMAIN l = 1..Len(l)
      /\ DOMAIN Append(l, e) = 1..(Len(l) + 1)
      /\ Append(l, e)[Len(l) + 1] = e
      /\ \A i \in 1..Len(l) : Append(l, e)[i] = l[i]
  OBVIOUS
<1>2. new = old \cup {Len(l) + 1}
  BY <1>1 DEF AcceptedUpTo
<1>3. Len(l) + 1 \notin old /\ old \subseteq 1..Len(l)
  BY <1>1 DEF AcceptedUpTo
<1>4. IsFiniteSet(old)
  <2>1. IsFiniteSet(1..Len(l))
    BY <1>1, FS_Interval
  <2> QED BY <1>3, <2>1, FS_Subset
<1> QED BY <1>2, <1>3, <1>4, FS_AddElement DEF VersionAt

(* Files' ops version the content of their gid.                             *)
LEMMA ContentOps ==
  ASSUME NEW kind \in PushKinds
  PROVE  KindFamily(kind) = "content" /\ kind \in OpKinds
BY DEF PushKinds, OpKinds, KindFamily, FileKinds, FolderKinds, ProjectKinds, MetaKinds,
       CalendarKinds

Accs == [log : Logs, lost : SUBSET (Gids \X {"content"}), answers : Seq(Answer)]

(* One op of a batch: a duplicate leaves the log alone, any other is logged *)
(* with its status; the version answered is one the log has.                *)
LEMMA PostOneStep ==
  ASSUME NEW acc \in Accs, NEW op \in Wire
  PROVE  LET next == PostOne(acc, op) IN
         /\ next \in Accs
         /\ \E a \in Answer :
              /\ next.answers = Append(acc.answers, a)
              /\ a.cseq = op.cseq
              /\ a.version <= VersionAt(next.log, op.gid, "content", Len(next.log))
         /\ \/ /\ next.log = acc.log
               /\ FindByClientSeq(acc.log, op.origin, op.cseq) # {}
            \/ /\ FindByClientSeq(acc.log, op.origin, op.cseq) = {}
               /\ \E status \in {"accepted", "conflict"} : next.log = Append(acc.log, Entry(op, status))
<1> DEFINE earlier == FindByClientSeq(acc.log, op.origin, op.cseq)
           version == VersionAt(acc.log, op.gid, KindFamily(op.kind), Len(acc.log))
           loses == Stale(op, version) \/ <<op.gid, KindFamily(op.kind)>> \in acc.lost
           answer(status, v) == [cseq |-> op.cseq, status |-> status, version |-> v]
           next == PostOne(acc, op)
<1>1. acc.log \in Logs /\ acc.answers \in Seq(Answer) /\ acc.lost \in SUBSET (Gids \X {"content"})
  BY DEF Accs
<1>2. op.gid \in Gids /\ op.cseq \in Nat /\ KindFamily(op.kind) = "content" /\ op.kind \in OpKinds
  <2>1. op.gid \in Gids /\ op.cseq \in Nat /\ op.kind \in PushKinds
    BY DEF Wire
  <2> QED BY <2>1, ContentOps
<1>3. \A status \in {"accepted", "conflict"} : Entry(op, status) \in LogEntry(Gids, Machines)
  BY <1>2 DEF Entry, Wire, LogEntry, PushKinds
<1>4. Extends(acc.log, acc.log) /\ Len(acc.log) \in Nat
  BY <1>1 DEF Logs, Extends
<1>5. version \in Nat
  BY <1>1, <1>4, VersionGrows
<1>6. \A status \in {"accepted", "conflict"}, v \in Nat : answer(status, v) \in Answer
  BY <1>2 DEF Answer
<1>7. CASE earlier # {}
  <2> DEFINE i == CHOOSE j \in earlier : TRUE
             a == answer(acc.log[i].status, VersionAt(acc.log, op.gid, KindFamily(op.kind), i))
  <2>1. i \in earlier
    BY <1>7
  <2>2. i \in 1..Len(acc.log)
    BY <1>1, <2>1 DEF FindByClientSeq, Logs
  <2> HIDE DEF i
  <2>3. acc.log[i].status \in {"accepted", "conflict"}
    <3>1. acc.log[i] \in LogEntry(Gids, Machines)
      BY <1>1, <2>2 DEF Logs
    <3> QED BY <3>1 DEF LogEntry
  <2>4. /\ VersionAt(acc.log, op.gid, KindFamily(op.kind), i) \in Nat
        /\ VersionAt(acc.log, op.gid, KindFamily(op.kind), i) <= version
    <3>1. i \in Nat /\ i <= Len(acc.log)
      BY <2>2
    <3> QED BY <1>1, <1>4, <3>1, VersionGrows
  <2>5. next = [acc EXCEPT !.answers = Append(acc.answers, a)]
    BY <1>7 DEF PostOne, i
  <2>6. a \in Answer
    BY <1>6, <2>3, <2>4
  <2>7. next \in Accs /\ next.log = acc.log /\ next.answers = Append(acc.answers, a)
    <3> DEFINE told == Append(acc.answers, a)
    <3>1. told \in Seq(Answer)
      BY <1>1, <2>6
    <3> HIDE DEF told
    <3>2. LET r == [acc EXCEPT !.answers = told] IN
            r \in Accs /\ r.log = acc.log /\ r.answers = told
      BY <3>1 DEF Accs
    <3> HIDE DEF next
    <3> QED BY <2>5, <3>2 DEF told
  <2>8. a.cseq = op.cseq /\ a.version <= version
    BY <2>4
  <2> HIDE DEF a, next
  <2> QED BY <1>2, <1>7, <2>6, <2>7, <2>8 DEF next
<1>8. CASE earlier = {} /\ loses
  <2> DEFINE a == answer("conflict", version)
             l == Append(acc.log, Entry(op, "conflict"))
  <2>1. next = [[acc EXCEPT !.log = l, !.lost = acc.lost \cup {<<op.gid, KindFamily(op.kind)>>}]
                  EXCEPT !.answers = Append(acc.answers, a)]
    BY <1>8 DEF PostOne, LogLoser, Accs
  <2>2. a \in Answer /\ a.cseq = op.cseq /\ a.version = version
    BY <1>5, <1>6
  <2>3. l \in Logs /\ Extends(acc.log, l) /\ Len(l) = Len(acc.log) + 1
    BY <1>1, <1>3 DEF Logs, Extends
  <2>4. version <= VersionAt(l, op.gid, "content", Len(l))
    <3> HIDE DEF l
    <3> QED BY <1>1, <1>2, <1>4, <2>3, VersionGrows
  <2>5. next \in Accs /\ next.log = l /\ next.answers = Append(acc.answers, a)
    <3> DEFINE told == Append(acc.answers, a)
               losers == acc.lost \cup {<<op.gid, KindFamily(op.kind)>>}
    <3>1. told \in Seq(Answer) /\ losers \in SUBSET (Gids \X {"content"})
      BY <1>1, <1>2, <2>2
    <3> HIDE DEF told, losers, l
    <3> DEFINE logged == [acc EXCEPT !.log = l, !.lost = losers]
    <3>2. logged \in Accs /\ logged.log = l
      BY <2>3, <3>1 DEF Accs
    <3> HIDE DEF logged
    <3>3. LET r == [logged EXCEPT !.answers = told] IN
            r \in Accs /\ r.log = logged.log /\ r.answers = told
      BY <3>1, <3>2 DEF Accs
    <3> HIDE DEF next
    <3> QED BY <2>1, <3>2, <3>3 DEF logged, told, losers
  <2> HIDE DEF a, next
  <2> QED BY <1>8, <2>2, <2>4, <2>5 DEF next
<1>9. CASE earlier = {} /\ ~loses
  <2> DEFINE a == answer("accepted", version + 1)
             e == Entry(op, "accepted")
             l == Append(acc.log, e)
  <2>1. next = [acc EXCEPT !.log = l, !.answers = Append(acc.answers, a)]
    BY <1>9 DEF PostOne
  <2>2. a \in Answer /\ a.cseq = op.cseq /\ a.version = version + 1
    BY <1>5, <1>6
  <2>3. l \in Logs /\ Len(l) = Len(acc.log) + 1
    BY <1>1, <1>3 DEF Logs
  <2>4. e.gid = op.gid /\ e.kind = op.kind /\ e.status = "accepted"
    BY DEF Entry
  <2>5. version + 1 = VersionAt(l, op.gid, "content", Len(l))
    <3> HIDE DEF e
    <3> QED BY <1>1, <1>2, <2>3, <2>4, VersionOfAccepted
  <2>6. next \in Accs /\ next.log = l /\ next.answers = Append(acc.answers, a)
    <3> DEFINE told == Append(acc.answers, a)
    <3>1. told \in Seq(Answer)
      BY <1>1, <2>2
    <3> HIDE DEF told, l
    <3>2. LET r == [acc EXCEPT !.log = l, !.answers = told] IN
            r \in Accs /\ r.log = l /\ r.answers = told
      BY <2>3, <3>1 DEF Accs
    <3> HIDE DEF next
    <3> QED BY <2>1, <3>2 DEF told
  <2> HIDE DEF a, next
  <2> QED BY <1>5, <1>9, <2>2, <2>5, <2>6 DEF next
<1> HIDE DEF next, earlier, loses
<1> QED BY <1>7, <1>8, <1>9 DEF next, earlier

SameRow(e, op) == e.origin = op.origin /\ e.cseq = op.cseq
Carries(e, op) == SameRow(e, op) /\ e.gid = op.gid /\ e.kind = op.kind

\* What a batch has come to after n of its ops: each is logged, and answered with
\* a version the log has; what is new in the log came from the batch, in its
\* order, and was not there before.
PostedTo(acc, ops, n) ==
  /\ acc \in Accs
  /\ Extends(log, acc.log)
  /\ Len(acc.answers) = n
  /\ \A i \in 1..n :
       /\ acc.answers[i].cseq = ops[i].cseq
       /\ acc.answers[i].version <= VersionAt(acc.log, ops[i].gid, "content", Len(acc.log))
       /\ FindByClientSeq(acc.log, ops[i].origin, ops[i].cseq) # {}
  /\ \A k \in (Len(log) + 1)..Len(acc.log) : \E i \in 1..n :
       /\ Carries(acc.log[k], ops[i])
       /\ \A j \in 1..(k - 1) : ~SameRow(acc.log[j], ops[i])
       /\ \A h \in 1..(i - 1) : \E j \in 1..(k - 1) : SameRow(acc.log[j], ops[h])

(* An extended log still has what was found in it.                          *)
LEMMA FoundStays ==
  ASSUME NEW l \in Logs, NEW k \in Logs, Extends(l, k), NEW origin, NEW cseq
  PROVE  FindByClientSeq(l, origin, cseq) \subseteq FindByClientSeq(k, origin, cseq)
BY DEF FindByClientSeq, Extends, Logs

LEMMA PostedNext ==
  ASSUME log \in Logs, NEW ops \in Seq(Wire), NEW n \in Nat, n < Len(ops),
         NEW acc, PostedTo(acc, ops, n)
  PROVE  PostedTo(PostOne(acc, ops[n + 1]), ops, n + 1)
<1> DEFINE op == ops[n + 1]
           next == PostOne(acc, op)
<1>1. op \in Wire
  OBVIOUS
<1>2. acc \in Accs /\ acc.log \in Logs /\ acc.answers \in Seq(Answer) /\ Len(acc.answers) = n
  BY DEF PostedTo, Accs
<1> HIDE DEF op, next
<1>3. /\ next \in Accs
      /\ \E a \in Answer :
           /\ next.answers = Append(acc.answers, a)
           /\ a.cseq = op.cseq
           /\ a.version <= VersionAt(next.log, op.gid, "content", Len(next.log))
      /\ \/ /\ next.log = acc.log
            /\ FindByClientSeq(acc.log, op.origin, op.cseq) # {}
         \/ /\ FindByClientSeq(acc.log, op.origin, op.cseq) = {}
            /\ \E status \in {"accepted", "conflict"} : next.log = Append(acc.log, Entry(op, status))
  BY <1>1, <1>2, PostOneStep DEF next
<1>4. PICK a \in Answer :
        /\ next.answers = Append(acc.answers, a)
        /\ a.cseq = op.cseq
        /\ a.version <= VersionAt(next.log, op.gid, "content", Len(next.log))
  BY <1>3
<1>5. next.log \in Logs /\ Len(next.log) \in Nat /\ Len(acc.log) \in Nat /\ Len(log) \in Nat
  BY <1>2, <1>3 DEF Accs, Logs
<1>6. Extends(acc.log, next.log)
  <2>1. CASE next.log = acc.log
    BY <1>2, <2>1 DEF Extends, Logs
  <2>2. ASSUME NEW e, next.log = Append(acc.log, e)
        PROVE  Extends(acc.log, next.log)
    BY <1>2, <2>2 DEF Extends, Logs
  <2> QED BY <1>3, <2>1, <2>2
<1>7. Extends(log, next.log)
  BY <1>5, <1>6 DEF PostedTo, Extends
<1>8. /\ Len(next.answers) = n + 1
      /\ next.answers[n + 1] = a
      /\ \A i \in 1..n : next.answers[i] = acc.answers[i]
  BY <1>2, <1>4
<1>9. ASSUME NEW i \in 1..(n + 1)
      PROVE  /\ next.answers[i].cseq = ops[i].cseq
             /\ next.answers[i].version <= VersionAt(next.log, ops[i].gid, "content", Len(next.log))
             /\ FindByClientSeq(next.log, ops[i].origin, ops[i].cseq) # {}
  <2>1. CASE i = n + 1
    <3>1. FindByClientSeq(next.log, op.origin, op.cseq) # {}
      <4>1. CASE next.log = acc.log /\ FindByClientSeq(acc.log, op.origin, op.cseq) # {}
        BY <4>1
      <4>2. ASSUME NEW status, next.log = Append(acc.log, Entry(op, status))
            PROVE  FindByClientSeq(next.log, op.origin, op.cseq) # {}
        <5> DEFINE e == Entry(op, status)
        <5>1. e.origin = op.origin /\ e.cseq = op.cseq
          BY DEF Entry
        <5> HIDE DEF e
        <5>2. Len(acc.log) + 1 \in DOMAIN next.log /\ next.log[Len(acc.log) + 1] = e
          BY <1>2, <4>2 DEF Logs, e
        <5> QED BY <5>1, <5>2 DEF FindByClientSeq
      <4> QED BY <1>3, <4>1, <4>2
    <3> QED BY <1>4, <1>8, <2>1, <3>1 DEF op
  <2>2. CASE i \in 1..n
    <3>1. /\ acc.answers[i].cseq = ops[i].cseq
          /\ acc.answers[i].version <= VersionAt(acc.log, ops[i].gid, "content", Len(acc.log))
          /\ FindByClientSeq(acc.log, ops[i].origin, ops[i].cseq) # {}
      BY <2>2 DEF PostedTo
    <3>2. FindByClientSeq(next.log, ops[i].origin, ops[i].cseq) # {}
      BY <1>2, <1>5, <1>6, <3>1, FoundStays
    <3>3. Len(acc.log) <= Len(next.log)
      BY <1>6 DEF Extends
    <3>4. /\ VersionAt(acc.log, ops[i].gid, "content", Len(acc.log)) \in Nat
          /\ VersionAt(next.log, ops[i].gid, "content", Len(next.log)) \in Nat
          /\ VersionAt(acc.log, ops[i].gid, "content", Len(acc.log)) <=
               VersionAt(next.log, ops[i].gid, "content", Len(next.log))
      BY <1>2, <1>5, <1>6, <3>3, VersionGrows
    <3>5. acc.answers[i].version \in Nat
      <4>1. acc.answers[i] \in Answer
        BY <1>2, <2>2
      <4> QED BY <4>1 DEF Answer
    <3>6. acc.answers[i].version <= VersionAt(next.log, ops[i].gid, "content", Len(next.log))
      BY <3>1, <3>4, <3>5
    <3>7. next.answers[i] = acc.answers[i]
      BY <1>8, <2>2
    <3> QED BY <3>1, <3>2, <3>6, <3>7
  <2> QED BY <2>1, <2>2
<1>10. ASSUME NEW k \in (Len(log) + 1)..Len(next.log)
       PROVE  \E i \in 1..(n + 1) :
                /\ Carries(next.log[k], ops[i])
                /\ \A j \in 1..(k - 1) : ~SameRow(next.log[j], ops[i])
                /\ \A h \in 1..(i - 1) : \E j \in 1..(k - 1) : SameRow(next.log[j], ops[h])
  <2>1. \A j \in 1..Len(acc.log) : next.log[j] = acc.log[j]
    BY <1>6 DEF Extends
  <2>2. CASE k \in (Len(log) + 1)..Len(acc.log)
    <3>1. PICK i \in 1..n :
            /\ Carries(acc.log[k], ops[i])
            /\ \A j \in 1..(k - 1) : ~SameRow(acc.log[j], ops[i])
            /\ \A h \in 1..(i - 1) : \E j \in 1..(k - 1) : SameRow(acc.log[j], ops[h])
      BY <2>2 DEF PostedTo
    <3>2. next.log[k] = acc.log[k] /\ \A j \in 1..(k - 1) : next.log[j] = acc.log[j]
      BY <1>5, <2>1, <2>2
    <3>3. i \in 1..(n + 1)
      OBVIOUS
    <3> QED BY <3>1, <3>2, <3>3
  <2>3. CASE k \notin (Len(log) + 1)..Len(acc.log)
    <3>1. PICK status \in {"accepted", "conflict"} :
            /\ FindByClientSeq(acc.log, op.origin, op.cseq) = {}
            /\ next.log = Append(acc.log, Entry(op, status))
      BY <1>3, <2>3
    <3>2. k = Len(acc.log) + 1 /\ next.log[k] = Entry(op, status)
      BY <1>2, <1>5, <2>3, <3>1 DEF Logs
    <3>3. Carries(next.log[k], op)
      BY <3>2 DEF Carries, SameRow, Entry
    <3>4. \A j \in 1..(k - 1) : ~SameRow(next.log[j], op)
      BY <1>2, <1>5, <2>1, <3>1, <3>2 DEF SameRow, FindByClientSeq, Logs
    <3>5. \A h \in 1..n : \E j \in 1..(k - 1) : SameRow(next.log[j], ops[h])
      <4> SUFFICES ASSUME NEW h \in 1..n
                   PROVE  \E j \in 1..(k - 1) : SameRow(next.log[j], ops[h])
        OBVIOUS
      <4>1. PICK j \in FindByClientSeq(acc.log, ops[h].origin, ops[h].cseq) : TRUE
        BY DEF PostedTo
      <4>2. j \in 1..Len(acc.log) /\ SameRow(acc.log[j], ops[h])
        BY <1>2, <4>1 DEF FindByClientSeq, SameRow, Logs
      <4> QED BY <1>5, <2>1, <3>2, <4>2
    <3>6. n + 1 \in 1..(n + 1) /\ (n + 1) - 1 = n
      OBVIOUS
    <3> QED BY <3>3, <3>4, <3>5, <3>6 DEF op
  <2> QED BY <2>2, <2>3
<1>11. PostedTo(next, ops, n + 1)
  BY <1>3, <1>7, <1>8, <1>9, <1>10 DEF PostedTo
<1> QED BY <1>11 DEF next, op

(* The whole batch.                                                         *)
LEMMA PostCorrect ==
  ASSUME log \in Logs, NEW ops \in Seq(Wire)
  PROVE  PostedTo(Post(ops), ops, Len(ops))
<1> DEFINE Done == {n \in Nat : n <= Len(ops) => PostedTo(Posted(ops)[n], ops, n)}
<1>1. Len(ops) \in Nat
  OBVIOUS
<1>2. \A n \in 0..Len(ops) :
        Posted(ops)[n] = IF n = 0 THEN [log |-> log, lost |-> {}, answers |-> <<>>]
                         ELSE PostOne(Posted(ops)[n - 1], ops[n])
  BY <1>1, PostedUnfolds
<1>3. 0 \in Done
  <2> DEFINE acc == [log |-> log, lost |-> {}, answers |-> <<>>]
  <2>1. acc \in Accs /\ acc.log = log /\ acc.answers = <<>>
    <3>1. {} \in SUBSET (Gids \X {"content"}) /\ <<>> \in Seq(Answer)
      OBVIOUS
    <3> QED BY <3>1 DEF Accs
  <2>2. Extends(log, log) /\ Len(log) \in Nat
    BY DEF Extends, Logs
  <2>3. Posted(ops)[0] = acc
    <3>1. 0 \in 0..Len(ops)
      BY <1>1
    <3> QED BY <1>2, <3>1
  <2> HIDE DEF acc
  <2>4. Len(acc.answers) = 0 /\ 1..0 = {} /\ (Len(log) + 1)..Len(acc.log) = {}
    BY <2>1, <2>2
  <2> QED BY <2>1, <2>2, <2>3, <2>4 DEF PostedTo
<1>4. \A n \in Nat : n \in Done => n + 1 \in Done
  <2> SUFFICES ASSUME NEW n \in Nat, n + 1 <= Len(ops), PostedTo(Posted(ops)[n], ops, n)
               PROVE  PostedTo(Posted(ops)[n + 1], ops, n + 1)
    BY <1>1
  <2>1. Posted(ops)[n + 1] = PostOne(Posted(ops)[n], ops[n + 1])
    BY <1>1, <1>2
  <2>2. n < Len(ops)
    BY <1>1
  <2> QED BY <2>1, <2>2, PostedNext
<1>5. Nat \subseteq Done
  <2> HIDE DEF Done
  <2> QED BY <1>3, <1>4, NatSetInduction
<1>6. PostedTo(Posted(ops)[Len(ops)], ops, Len(ops))
  BY <1>1, <1>5
<1> QED BY <1>6 DEF Post

-----------------------------------------------------------------------------
(* The invariant.                                                           *)

\* Rows: as many as the bound says, and a text unless the row deletes.
RowsOK ==
  \A m \in Machines :
    /\ Len(outbox[m]) <= MaxRows[m]
    /\ \A i \in DOMAIN outbox[m] :
         IF outbox[m][i].kind = "file.delete" THEN outbox[m][i].text = NoText
         ELSE outbox[m][i].text \in Texts

\* An op speaks of a row its origin wrote, and of the file of that row.
HasRow(rows, op) ==
  /\ op.cseq \in DOMAIN rows[op.origin]
  /\ rows[op.origin][op.cseq].gid = op.gid
  /\ rows[op.origin][op.cseq].kind = op.kind

OpsHaveRows ==
  /\ \A k \in DOMAIN log : HasRow(outbox, log[k])
  /\ \A ops \in net : \A n \in DOMAIN ops : HasRow(outbox, ops[n])

\* What an answer says of a row of machine m is in the relay's log.
TrueOf(l, rows, m, a) ==
  /\ a.cseq \in DOMAIN rows[m]
  /\ FindByClientSeq(l, m, a.cseq) # {}
  /\ a.version <= VersionAt(l, rows[m][a.cseq].gid, "content", Len(l))

\* An op machine m need not be shown again: its own, skipped, or seen.
Passed(m, k) ==
  \/ log[k].origin = m
  \/ k \in skipped[m]
  \/ RowOf(k).text \in seen[m] \cup {NoText}

\* What a loop holds in memory: a request of its machine's rows, answers that
\* are true, or a place in the log up to which everything is passed.
LoopInv(l) ==
  /\ loop[l].pc = "posting" =>
       /\ loop[l].ops # <<>>
       /\ \A n \in DOMAIN loop[l].ops :
            loop[l].ops[n].origin = Host[l] /\ HasRow(outbox, loop[l].ops[n])
  /\ loop[l].pc = "answered" =>
       /\ loop[l].answers # <<>>
       /\ \A n \in DOMAIN loop[l].answers : TrueOf(log, outbox, Host[l], loop[l].answers[n])
  /\ loop[l].pc = "pull" =>
       /\ loop[l].since <= Len(log)
       /\ \A k \in 1..loop[l].since : Passed(Host[l], k)
  /\ loop[l].pc \in {"paging", "applying"} =>
       /\ loop[l].at \in 1..loop[l].upto /\ loop[l].upto <= Len(log)
       /\ \A k \in 1..(loop[l].at - 1) : Passed(Host[l], k)

IInv ==
  /\ TypeOK
  /\ RowsOK
  /\ OpsHaveRows
  /\ \A l \in Loops : LoopInv(l)
  /\ AckedMeansLogged
  /\ NeverAhead
  /\ NothingPassedOver

\* Every row is logged once, and after the earlier rows of its origin.
LogInOrder ==
  \A k \in DOMAIN log :
    /\ \A j \in 1..(k - 1) : ~SameRow(log[j], log[k])
    /\ \A id \in 1..(log[k].cseq - 1) :
         \E j \in 1..(k - 1) : log[j].origin = log[k].origin /\ log[j].cseq = id

\* A request asks for a row after the earlier rows of its origin, or they are logged.
BatchInOrder(l, ops) ==
  \A n \in DOMAIN ops : \A id \in 1..(ops[n].cseq - 1) :
    \/ \E h \in 1..(n - 1) : ops[h].origin = ops[n].origin /\ ops[h].cseq = id
    \/ FindByClientSeq(l, ops[n].origin, id) # {}

RequestsInOrder ==
  /\ \A ops \in net : BatchInOrder(log, ops)
  /\ \A l \in Loops : loop[l].pc = "posting" => BatchInOrder(log, loop[l].ops)

\* Rows wait for their backoff only while the loop that failed them waits too.
LoopWaitsToo ==
  \A l \in Loops : IdsIn(Host[l], {"waiting"}) # {} => loop[l].pc = "backoff"

OrderInv == LogInOrder /\ RequestsInOrder /\ LoopWaitsToo

-----------------------------------------------------------------------------
(* Lemmas about the operators of push and pull.                             *)

(* A loop's state has the fields of the place it is at.                     *)
LEMMA LoopFields ==
  ASSUME NEW s \in LoopState
  PROVE  /\ s.pc = "posting" => s.ops \in Seq(Wire)
         /\ s.pc = "answered" => s.answers \in Seq(Answer)
         /\ s.pc = "pull" => s.since \in Nat
         /\ s.pc \in {"paging", "applying"} =>
              s.at \in Nat /\ s.upto \in Nat /\ s.full \in BOOLEAN
BY DEF LoopState, Idle, Backoff

(* The places a loop goes to.                                               *)
LEMMA LoopPlaces ==
  /\ Idle \in LoopState /\ Idle.pc = "idle"
  /\ Backoff \in LoopState /\ Backoff.pc = "backoff"
  /\ \A since \in Nat : ToPull(since) \in LoopState /\ ToPull(since).pc = "pull"
                          /\ ToPull(since).since = since
  /\ \A ops \in Seq(Wire) : Posting(ops) \in LoopState /\ Posting(ops).pc = "posting"
                              /\ Posting(ops).ops = ops
  /\ \A answers \in Seq(Answer) :
       Answered(answers) \in LoopState /\ Answered(answers).pc = "answered"
         /\ Answered(answers).answers = answers
  /\ \A since, upto \in Nat :
       LET s == Paging(since, upto) IN
       s \in LoopState /\ s.pc = "paging" /\ s.at = since + 1 /\ s.upto = upto
BY BoundsAssumption DEF LoopState, Idle, Backoff, ToPull, Posting, Answered, Paging

\* Rows that say of their files what they said before.
Restated(rows, new) ==
  /\ new \in Seq(Row)
  /\ Len(new) = Len(rows) /\ DOMAIN new = DOMAIN rows
  /\ \A i \in DOMAIN rows :
       new[i].gid = rows[i].gid /\ new[i].kind = rows[i].kind /\ new[i].text = rows[i].text

(* Setting statuses touches nothing else.                                   *)
LEMMA SetStatusCorrect ==
  ASSUME NEW rows \in Seq(Row), NEW ids, NEW status \in Statuses
  PROVE  LET new == SetStatus(rows, ids, status) IN
         /\ Restated(rows, new)
         /\ \A i \in DOMAIN rows :
              new[i].status = IF i \in ids THEN status ELSE rows[i].status
<1> DEFINE new == SetStatus(rows, ids, status)
<1>1. DOMAIN rows = 1..Len(rows) /\ Len(rows) \in Nat
  OBVIOUS
<1>2. ASSUME NEW i \in DOMAIN rows
      PROVE  /\ new[i] \in Row
             /\ new[i].gid = rows[i].gid /\ new[i].kind = rows[i].kind
             /\ new[i].text = rows[i].text
             /\ new[i].status = IF i \in ids THEN status ELSE rows[i].status
  <2>1. rows[i] \in Row
    BY <1>1
  <2>2. new[i] = IF i \in ids THEN [rows[i] EXCEPT !.status = status] ELSE rows[i]
    BY DEF SetStatus
  <2> QED BY <2>1, <2>2 DEF Row
<1>3. DOMAIN new = 1..Len(rows)
  BY <1>1 DEF SetStatus
<1>4. new = [i \in 1..Len(rows) |-> new[i]]
  BY <1>1 DEF SetStatus
<1> HIDE DEF new
<1>5. new \in Seq(Row) /\ Len(new) = Len(rows)
  BY <1>1, <1>2, <1>3, <1>4
<1> QED BY <1>1, <1>2, <1>3, <1>5 DEF Restated, new

(* Raising the base of later rows touches nothing else.                     *)
LEMMA BumpCorrect ==
  ASSUME NEW rows \in Seq(Row), NEW id
  PROVE  LET new == BumpPendingBases(rows, id) IN
         /\ Restated(rows, new)
         /\ \A i \in DOMAIN rows : new[i].status = rows[i].status
<1> DEFINE new == BumpPendingBases(rows, id)
<1>1. DOMAIN rows = 1..Len(rows) /\ Len(rows) \in Nat
  OBVIOUS
<1>2. ASSUME NEW i \in DOMAIN rows
      PROVE  /\ new[i] \in Row
             /\ new[i].gid = rows[i].gid /\ new[i].kind = rows[i].kind
             /\ new[i].text = rows[i].text /\ new[i].status = rows[i].status
  <2>1. rows[i] \in Row
    BY <1>1
  <2>2. rows[i].base # NoBase => rows[i].base + 1 \in Bases
    BY <2>1 DEF Row, Bases
  <2>3. \/ new[i] = rows[i]
        \/ rows[i].base # NoBase /\ new[i] = [rows[i] EXCEPT !.base = rows[i].base + 1]
    BY <2>1 DEF BumpPendingBases, Row
  <2> HIDE DEF new
  <2> QED BY <2>1, <2>2, <2>3 DEF Row
<1>3. DOMAIN new = 1..Len(rows)
  BY <1>1 DEF BumpPendingBases
<1>4. new = [i \in 1..Len(rows) |-> new[i]]
  BY <1>1 DEF BumpPendingBases
<1> HIDE DEF new
<1>5. new \in Seq(Row) /\ Len(new) = Len(rows)
  BY <1>1, <1>2, <1>3, <1>4
<1> QED BY <1>1, <1>2, <1>3, <1>5 DEF Restated, new

(* A batch takes the ready rows, oldest first, none left out before another. *)
LEMMA DueCorrect ==
  ASSUME NEW rows \in Seq(Row)
  PROVE  LET ids == Due(rows) IN
         /\ ids \in Seq(Ready(rows))
         /\ \A n \in DOMAIN ids : \A i \in Ready(rows) :
              i < ids[n] => \E h \in 1..(n - 1) : ids[h] = i
<1> DEFINE ids == Due(rows)
           S == Ready(rows)
           N == Min({Cardinality(S), PushLimit})
           Before(i) == {j \in S : j < i}
<1>1. DOMAIN rows = 1..Len(rows) /\ Len(rows) \in Nat
  OBVIOUS
<1>2. S \subseteq 1..Len(rows)
  BY <1>1 DEF Ready
<1>3. IsFiniteSet(S)
  <2>1. IsFiniteSet(1..Len(rows))
    BY <1>1, FS_Interval
  <2> QED BY <1>2, <2>1, FS_Subset
<1>4. Cardinality(S) \in Nat /\ S \in SUBSET Nat
  BY <1>2, <1>3, FS_CardinalityType
<1>5. N \in Nat /\ N <= Cardinality(S)
  BY <1>4, BoundsAssumption, MinOfTwo
<1>6. ids = [n \in 1..N |-> Nth(S, n)]
  BY DEF Due
<1> HIDE DEF N, S, ids
<1>7. \A n \in 1..N : ids[n] \in S /\ Cardinality(Before(ids[n])) = n - 1
  <2> SUFFICES ASSUME NEW n \in 1..N
               PROVE  ids[n] \in S /\ Cardinality(Before(ids[n])) = n - 1
    OBVIOUS
  <2>1. n \in 1..Cardinality(S)
    BY <1>4, <1>5
  <2>2. Nth(S, n) \in S /\ Cardinality({j \in S : j < Nth(S, n)}) = n - 1
    BY <1>3, <1>4, <2>1, NthExists
  <2> QED BY <1>6, <2>2
<1>8. DOMAIN ids = 1..N /\ ids \in Seq(S)
  <2>1. DOMAIN ids = 1..N /\ ids = [n \in 1..N |-> ids[n]]
    BY <1>6
  <2>2. \A n \in 1..N : ids[n] \in S
    BY <1>7
  <2>3. ids \in [1..N -> S]
    BY <2>1, <2>2
  <2> QED BY <1>5, <2>1, <2>3
<1> DEFINE rank == [i \in S |-> Cardinality(Before(i))]
<1>9. ASSUME NEW i \in S
      PROVE  /\ IsFiniteSet(Before(i)) /\ rank[i] = Cardinality(Before(i)) /\ rank[i] \in Nat
             /\ Cardinality(Before(i) \cup {i}) = rank[i] + 1
  <2>1. Before(i) \subseteq S /\ i \notin Before(i)
    BY <1>4
  <2>2. IsFiniteSet(Before(i)) /\ rank[i] = Cardinality(Before(i))
    BY <1>3, <2>1, FS_Subset
  <2> HIDE DEF Before, rank
  <2>3. Cardinality(Before(i)) \in Nat
    BY <2>2, FS_CardinalityType
  <2>4. Cardinality(Before(i) \cup {i}) = Cardinality(Before(i)) + 1
    BY <2>1, <2>2, FS_AddElement
  <2> QED BY <2>2, <2>3, <2>4
<1>10. ASSUME NEW i \in S, NEW j \in S, i < j
       PROVE  rank[i] < rank[j]
  <2>1. Before(i) \cup {i} \subseteq Before(j)
    <3>1. i \in Nat /\ j \in Nat
      BY <1>4
    <3>2. ASSUME NEW x \in S, x < i
          PROVE  x < j
      <4>1. x \in Nat
        BY <1>4
      <4> QED BY <1>10, <3>1, <3>2, <4>1
    <3> QED BY <1>10, <3>2
  <2>2. IsFiniteSet(Before(j)) /\ rank[j] = Cardinality(Before(j)) /\ rank[j] \in Nat
    BY <1>9
  <2>3. Cardinality(Before(i) \cup {i}) = rank[i] + 1 /\ rank[i] \in Nat
    BY <1>9
  <2> HIDE DEF Before, rank
  <2>4. Cardinality(Before(i) \cup {i}) <= Cardinality(Before(j))
    BY <2>1, <2>2, FS_Subset
  <2> QED BY <2>2, <2>3, <2>4
<1>11. \A n \in 1..N : ids[n] \in S /\ rank[ids[n]] = n - 1
  BY <1>7, <1>9
<1> HIDE DEF rank
<1>12. ASSUME NEW n \in 1..N, NEW i \in S, i < ids[n]
       PROVE  \E h \in 1..(n - 1) : ids[h] = i
  <2>1. rank[i] \in Nat /\ rank[i] < n - 1
    BY <1>9, <1>10, <1>11, <1>12
  <2> DEFINE h == rank[i] + 1
  <2>2. h \in 1..(n - 1) /\ h \in 1..N /\ h - 1 = rank[i]
    BY <1>5, <2>1
  <2> HIDE DEF h
  <2>3. ids[h] \in S /\ rank[ids[h]] = rank[i]
    BY <1>11, <2>2
  <2>4. rank[ids[h]] \in Nat /\ ids[h] \in Nat /\ i \in Nat
    BY <1>4, <1>9, <2>3
  <2>5. ~(i < ids[h]) /\ ~(ids[h] < i)
    BY <1>10, <2>3, <2>4
  <2> QED BY <2>2, <2>4, <2>5
<1> QED BY <1>8, <1>12 DEF ids, S

(* The batch asks for the rows due, in their order.                         *)
LEMMA WireOpsCorrect ==
  ASSUME NEW m \in Machines, outbox[m] \in Seq(Row), NEW ids \in Seq(DOMAIN outbox[m])
  PROVE  LET ops == WireOps(m, ids) IN
         /\ ops \in Seq(Wire)
         /\ Len(ops) = Len(ids)
         /\ \A n \in DOMAIN ops :
              /\ n \in DOMAIN ids
              /\ ops[n].origin = m /\ ops[n].cseq = ids[n]
              /\ HasRow(outbox, ops[n])
<1> DEFINE ops == WireOps(m, ids)
           rows == outbox[m]
<1>1. DOMAIN rows = 1..Len(rows) /\ Len(rows) \in Nat /\ DOMAIN ids = 1..Len(ids) /\ Len(ids) \in Nat
  OBVIOUS
<1>2. ASSUME NEW n \in DOMAIN ids
      PROVE  WireBase(rows, ids, n) \in Bases
  <2> DEFINE before == {k \in 1..(n - 1) : SameRecord(rows, ids[k], ids[n])}
  <2>1. IsFiniteSet(1..(n - 1))
    BY <1>1, FS_Interval
  <2>2. IsFiniteSet(before)
    BY <2>1, FS_Subset
  <2>3. Cardinality(before) \in Nat
    BY <2>2, FS_CardinalityType
  <2>4. rows[ids[n]] \in Row
    BY <1>1
  <2>5. rows[ids[n]].base \in Bases
    BY <2>4 DEF Row
  <2> HIDE DEF rows
  <2> QED BY <2>3, <2>5 DEF WireBase, Bases
<1>3. ASSUME NEW n \in DOMAIN ids
      PROVE  /\ ops[n] \in Wire
             /\ ops[n].origin = m /\ ops[n].cseq = ids[n]
             /\ HasRow(outbox, ops[n])
  <2>1. rows[ids[n]] \in Row /\ ids[n] \in Nat /\ ids[n] \in DOMAIN rows
    BY <1>1
  <2>2. ops[n] = [gid |-> rows[ids[n]].gid, kind |-> rows[ids[n]].kind, origin |-> m,
                  cseq |-> ids[n], base |-> WireBase(rows, ids, n)]
    BY DEF WireOps
  <2> HIDE DEF ops
  <2> QED BY <1>2, <2>1, <2>2 DEF Row, Wire, HasRow
<1>4. ops = [n \in 1..Len(ids) |-> ops[n]]
  BY <1>1 DEF WireOps
<1>5. DOMAIN ops = 1..Len(ids)
  BY <1>1 DEF WireOps
<1> HIDE DEF ops
<1>6. ops \in Seq(Wire) /\ Len(ops) = Len(ids)
  BY <1>1, <1>3, <1>4, <1>5
<1> QED BY <1>1, <1>3, <1>5, <1>6 DEF ops

-----------------------------------------------------------------------------
(* What a step may do.                                                      *)

\* What only grows: the log, the rows and what they say, what was seen or skipped.
Grows ==
  /\ log' \in Logs /\ Extends(log, log')
  /\ \A m \in Machines :
       /\ \A i \in DOMAIN outbox[m] :
            /\ i \in DOMAIN outbox'[m]
            /\ outbox'[m][i].gid = outbox[m][i].gid
            /\ outbox'[m][i].kind = outbox[m][i].kind
            /\ outbox'[m][i].text = outbox[m][i].text
       /\ seen[m] \subseteq seen'[m]
       /\ skipped[m] \subseteq skipped'[m]

Typed ==
  /\ files \in [Machines -> [Gids -> Texts \cup {NoText}]]
  /\ outbox \in [Machines -> Seq(Row)]
  /\ known \in [Machines -> [Gids -> Nat]]
  /\ lost \in [Machines -> SUBSET Gids]
  /\ fork \in [Machines -> [Gids -> [remote : Texts, mine : Texts] \cup {NoFork}]]
  /\ copies \in [Machines -> SUBSET Texts]
  /\ cursor \in [Machines -> Nat]
  /\ skipped \in [Machines -> SUBSET (1..Len(log))]
  /\ loop \in [Loops -> LoopState]
  /\ net \in SUBSET Seq(Wire)
  /\ faults \in 0..MaxFaults
  /\ seen \in [Machines -> SUBSET Texts]

\* A step keeps the books if it only adds to the log ops that have rows, and every
\* request, loop, acked row, cursor or version it changes is borne out afterwards.
KeepsBooks ==
  /\ Grows /\ Typed' /\ RowsOK'
  /\ \A k \in (Len(log) + 1)..Len(log') : HasRow(outbox', log'[k])
  /\ \A ops \in net' : ops \in net \/ \A n \in DOMAIN ops : HasRow(outbox', ops[n])
  /\ \A l \in Loops : loop'[l] = loop[l] \/ LoopInv(l)'
  /\ \A m \in Machines : \A i \in IdsIn(m, {"acked"})' :
       i \in IdsIn(m, {"acked"}) \/ FindByClientSeq(log', m, i) # {}
  /\ \A m \in Machines :
       \/ cursor'[m] = cursor[m]
       \/ cursor'[m] <= Len(log') /\ \A k \in 1..cursor'[m] : Passed(m, k)'
  /\ \A m \in Machines, g \in Gids :
       \/ known'[m][g] = known[m][g]
       \/ known'[m][g] <= VersionAt(log', g, "content", Len(log'))

(* What was true of rows, answers and places in the log stays true.         *)
LEMMA GrowsKeeps ==
  ASSUME TypeOK, Grows
  PROVE  /\ \A op : op.origin \in Machines /\ HasRow(outbox, op) => HasRow(outbox', op)
         /\ \A m \in Machines, a \in Answer :
              TrueOf(log, outbox, m, a) => TrueOf(log', outbox', m, a)
         /\ \A m \in Machines, k \in DOMAIN log :
              HasRow(outbox, log[k]) /\ Passed(m, k) => Passed(m, k)'
<1>1. log \in Logs /\ log' \in Logs /\ Extends(log, log')
  BY DEF TypeOK, Grows, Logs
<1>2. Len(log) \in Nat /\ Len(log') \in Nat /\ Len(log) <= Len(log')
      /\ DOMAIN log = 1..Len(log)
  BY <1>1 DEF Logs, Extends
<1>3. ASSUME NEW op, op.origin \in Machines, HasRow(outbox, op)
      PROVE  HasRow(outbox', op)
  BY <1>3 DEF Grows, HasRow
<1>4. ASSUME NEW m \in Machines, NEW a \in Answer, TrueOf(log, outbox, m, a)
      PROVE  TrueOf(log', outbox', m, a)
  <2> DEFINE g == outbox[m][a.cseq].gid
  <2>1. a.version \in Nat
    BY DEF Answer
  <2>2. /\ a.cseq \in DOMAIN outbox[m]
        /\ FindByClientSeq(log, m, a.cseq) # {}
        /\ a.version <= VersionAt(log, g, "content", Len(log))
    BY <1>4 DEF TrueOf
  <2>3. a.cseq \in DOMAIN outbox'[m] /\ outbox'[m][a.cseq].gid = g
    BY <2>2 DEF Grows
  <2>4. FindByClientSeq(log', m, a.cseq) # {}
    BY <1>1, <2>2, FoundStays
  <2> HIDE DEF g
  <2>5. a.version <= VersionAt(log', g, "content", Len(log'))
    BY <1>1, <1>2, <2>1, <2>2, VersionGrows
  <2> QED BY <2>3, <2>4, <2>5 DEF TrueOf
<1>5. ASSUME NEW m \in Machines, NEW k \in DOMAIN log, HasRow(outbox, log[k]), Passed(m, k)
      PROVE  Passed(m, k)'
  <2>1. log'[k] = log[k]
    BY <1>1, <1>2 DEF Extends
  <2>2. log[k] \in LogEntry(Gids, Machines)
    BY <1>1, <1>2 DEF Logs
  <2>3. log[k].origin \in Machines
    BY <2>2 DEF LogEntry
  <2>4. outbox'[log[k].origin][log[k].cseq].text = outbox[log[k].origin][log[k].cseq].text
    BY <1>5, <2>3 DEF HasRow, Grows
  <2> QED BY <1>5, <2>1, <2>4 DEF Passed, RowOf, Grows
<1> QED BY <1>3, <1>4, <1>5

LEMMA BooksKept ==
  ASSUME IInv, KeepsBooks
  PROVE  IInv'
<1> USE DEF IInv
<1>1. TypeOK /\ Grows /\ Typed' /\ RowsOK'
  BY DEF KeepsBooks
<1>2. /\ log \in Logs /\ log' \in Logs /\ Extends(log, log')
      /\ Len(log) \in Nat /\ Len(log') \in Nat /\ Len(log) <= Len(log')
      /\ DOMAIN log = 1..Len(log) /\ DOMAIN log' = 1..Len(log')
  BY <1>1 DEF TypeOK, Grows, Logs, Extends
<1>3. /\ \A op : op.origin \in Machines /\ HasRow(outbox, op) => HasRow(outbox', op)
      /\ \A m \in Machines, a \in Answer :
           TrueOf(log, outbox, m, a) => TrueOf(log', outbox', m, a)
      /\ \A m \in Machines, k \in DOMAIN log :
           HasRow(outbox, log[k]) /\ Passed(m, k) => Passed(m, k)'
  BY <1>1, GrowsKeeps
<1>4. \A k \in 1..Len(log) : log[k].origin \in Machines /\ HasRow(outbox, log[k])
  <2> SUFFICES ASSUME NEW k \in 1..Len(log)
               PROVE  log[k].origin \in Machines /\ HasRow(outbox, log[k])
    OBVIOUS
  <2>1. log[k] \in LogEntry(Gids, Machines)
    BY <1>2 DEF Logs
  <2> QED BY <1>2, <2>1 DEF LogEntry, OpsHaveRows
<1>5. OpsHaveRows'
  <2>1. ASSUME NEW k \in 1..Len(log')
        PROVE  HasRow(outbox', log'[k])
    <3>1. CASE k \in 1..Len(log)
      BY <1>2, <1>3, <1>4, <3>1 DEF Extends
    <3>2. CASE k \in (Len(log) + 1)..Len(log')
      BY <3>2 DEF KeepsBooks
    <3> QED BY <1>2, <3>1, <3>2
  <2>2. ASSUME NEW ops \in net', NEW n \in DOMAIN ops
        PROVE  HasRow(outbox', ops[n])
    <3>1. CASE ops \in net
      <4>1. ops \in Seq(Wire)
        BY <3>1 DEF TypeOK
      <4>2. ops[n] \in Wire
        BY <4>1
      <4>3. ops[n].origin \in Machines
        BY <4>2 DEF Wire
      <4> QED BY <1>3, <3>1, <4>3 DEF OpsHaveRows
    <3> QED BY <3>1 DEF KeepsBooks
  <2> QED BY <1>2, <2>1, <2>2 DEF OpsHaveRows
<1>6. ASSUME NEW l \in Loops
      PROVE  LoopInv(l)'
  <2> DEFINE m == Host[l]
  <2>1. m \in Machines /\ loop[l] \in LoopState
    BY LoopsAssumption DEF TypeOK
  <2>2. SUFFICES ASSUME loop'[l] = loop[l] PROVE LoopInv(l)'
    BY DEF KeepsBooks
  <2>3. LoopInv(l)
    OBVIOUS
  <2>4. ASSUME loop[l].pc = "posting"
        PROVE  /\ loop[l].ops # <<>>
               /\ \A n \in DOMAIN loop[l].ops :
                    loop[l].ops[n].origin = m /\ HasRow(outbox', loop[l].ops[n])
    BY <1>3, <2>1, <2>3, <2>4 DEF LoopInv
  <2>5. ASSUME loop[l].pc = "answered"
        PROVE  /\ loop[l].answers # <<>>
               /\ \A n \in DOMAIN loop[l].answers : TrueOf(log', outbox', m, loop[l].answers[n])
    <3>1. loop[l].answers \in Seq(Answer)
      BY <2>1, <2>5, LoopFields
    <3> QED BY <1>3, <2>1, <2>3, <2>5, <3>1 DEF LoopInv
  <2>6. ASSUME loop[l].pc = "pull"
        PROVE  loop[l].since <= Len(log') /\ \A k \in 1..loop[l].since : Passed(m, k)'
    <3>1. loop[l].since \in Nat /\ loop[l].since <= Len(log)
      BY <2>1, <2>3, <2>6, LoopFields DEF LoopInv
    <3>2. \A k \in 1..loop[l].since : k \in 1..Len(log) /\ Passed(m, k)
      BY <1>2, <2>3, <2>6, <3>1 DEF LoopInv
    <3> QED BY <1>2, <1>3, <1>4, <2>1, <3>1, <3>2
  <2>7. ASSUME loop[l].pc \in {"paging", "applying"}
        PROVE  /\ loop[l].at \in 1..loop[l].upto /\ loop[l].upto <= Len(log')
               /\ \A k \in 1..(loop[l].at - 1) : Passed(m, k)'
    <3>1. /\ loop[l].at \in Nat /\ loop[l].upto \in Nat
          /\ loop[l].at \in 1..loop[l].upto /\ loop[l].upto <= Len(log)
      BY <2>1, <2>3, <2>7, LoopFields DEF LoopInv
    <3>2. \A k \in 1..(loop[l].at - 1) : k \in 1..Len(log) /\ Passed(m, k)
      BY <1>2, <2>3, <2>7, <3>1 DEF LoopInv
    <3> QED BY <1>2, <1>3, <1>4, <2>1, <3>1, <3>2
  <2> QED BY <2>2, <2>4, <2>5, <2>6, <2>7 DEF LoopInv
<1>7. TypeOK'
  <2>1. ASSUME NEW l \in Loops
        PROVE  /\ loop'[l].pc = "pull" => loop'[l].since <= Len(log')
               /\ loop'[l].pc \in {"paging", "applying"} =>
                    loop'[l].at \in 1..loop'[l].upto /\ loop'[l].upto <= Len(log')
    BY <1>6 DEF LoopInv
  <2> QED BY <1>1, <1>2, <2>1 DEF TypeOK, Typed, Logs
<1>8. AckedMeansLogged'
  <2>1. ASSUME NEW m \in Machines, NEW i \in IdsIn(m, {"acked"})
        PROVE  FindByClientSeq(log', m, i) # {}
    BY <1>2, FoundStays DEF AckedMeansLogged
  <2> QED BY <2>1 DEF AckedMeansLogged, KeepsBooks
<1>9. NeverAhead'
  <2> SUFFICES ASSUME NEW m \in Machines
               PROVE  /\ cursor'[m] <= Len(log')
                      /\ \A g \in Gids : known'[m][g] <= VersionAt(log', g, "content", Len(log'))
    BY DEF NeverAhead
  <2>1. cursor[m] \in Nat /\ cursor[m] <= Len(log)
    BY DEF TypeOK, NeverAhead
  <2>2. cursor'[m] <= Len(log')
    BY <1>2, <2>1 DEF KeepsBooks
  <2>3. ASSUME NEW g \in Gids
        PROVE  known'[m][g] <= VersionAt(log', g, "content", Len(log'))
    <3>1. known[m][g] \in Nat /\ known[m][g] <= VersionAt(log, g, "content", Len(log))
      BY DEF TypeOK, NeverAhead
    <3>2. /\ VersionAt(log, g, "content", Len(log)) \in Nat
          /\ VersionAt(log', g, "content", Len(log')) \in Nat
          /\ VersionAt(log, g, "content", Len(log)) <= VersionAt(log', g, "content", Len(log'))
      BY <1>2, VersionGrows, SMTT(20)
    <3> QED BY <3>1, <3>2 DEF KeepsBooks
  <2> QED BY <2>2, <2>3
<1>10. NothingPassedOver'
  <2>1. ASSUME NEW m \in Machines, NEW k \in 1..cursor'[m]
        PROVE  Passed(m, k)'
    <3>1. CASE cursor'[m] = cursor[m]
      <4>1. cursor[m] \in Nat /\ cursor[m] <= Len(log)
        BY DEF TypeOK, NeverAhead
      <4>2. k \in 1..Len(log) /\ k \in 1..cursor[m]
        BY <1>2, <3>1, <4>1
      <4>3. Passed(m, k)
        BY <4>2 DEF NothingPassedOver, Passed
      <4> QED BY <1>2, <1>3, <1>4, <4>2, <4>3
    <3> QED BY <3>1 DEF KeepsBooks
  <2> QED BY <2>1 DEF NothingPassedOver, Passed
<1> QED BY <1>1, <1>5, <1>6, <1>7, <1>8, <1>9, <1>10

-----------------------------------------------------------------------------
(* Every step keeps the books: the user's.                                  *)

\* The outbox is well formed after the step, and its rows say what they said.
OutboxKept ==
  /\ outbox' \in [Machines -> Seq(Row)]
  /\ RowsOK'
  /\ \A m \in Machines : \A i \in DOMAIN outbox[m] :
       /\ i \in DOMAIN outbox'[m]
       /\ outbox'[m][i].gid = outbox[m][i].gid
       /\ outbox'[m][i].kind = outbox[m][i].kind
       /\ outbox'[m][i].text = outbox[m][i].text

LEMMA LogStays ==
  ASSUME TypeOK, log' = log
  PROVE  log' \in Logs /\ Extends(log, log') /\ (Len(log) + 1)..Len(log') = {}
BY DEF TypeOK, Logs, Extends

(* A row appended to an outbox leaves the rows before it alone.             *)
LEMMA Enqueued ==
  ASSUME TypeOK, RowsOK, NEW m \in Machines, NEW g \in Gids, NEW kind \in PushKinds,
         NEW text, IF kind = "file.delete" THEN text = NoText ELSE text \in Texts,
         Enqueue(m, g, kind, text)
  PROVE  /\ OutboxKept
         /\ seen' \in [Machines -> SUBSET Texts]
         /\ \A x \in Machines : seen[x] \subseteq seen'[x]
         /\ \A x \in Machines : \A i \in DOMAIN outbox'[x] :
              i \in DOMAIN outbox[x] \/ outbox'[x][i].status = "pending"
         /\ \A x \in Machines : \A i \in DOMAIN outbox[x] : outbox'[x][i] = outbox[x][i]
<1> DEFINE row == [gid |-> g, kind |-> kind, text |-> text, status |-> "pending",
                   base |-> IF kind = "file.create" THEN NoBase ELSE known[m][g],
                   saw |-> seen[m]]
           n == Len(outbox[m])
<1>1. /\ outbox \in [Machines -> Seq(Row)] /\ seen \in [Machines -> SUBSET Texts]
      /\ known[m][g] \in Nat
  BY DEF TypeOK
<1>2. row \in Row
  BY <1>1 DEF Row, Statuses, Bases
<1>3. /\ n < MaxRows[m]
      /\ outbox' = [outbox EXCEPT ![m] = Append(outbox[m], row)]
      /\ seen' = [seen EXCEPT ![m] = seen[m] \cup ({text} \ {NoText})]
  BY DEF Enqueue
<1>4. row.gid = g /\ row.kind = kind /\ row.text = text /\ row.status = "pending"
  OBVIOUS
<1> HIDE DEF row
<1>5. ASSUME NEW x \in Machines
      PROVE  /\ outbox'[x] \in Seq(Row)
             /\ Len(outbox'[x]) <= MaxRows[x]
             /\ \A i \in DOMAIN outbox[x] : i \in DOMAIN outbox'[x] /\ outbox'[x][i] = outbox[x][i]
             /\ \A i \in DOMAIN outbox'[x] :
                  \/ i \in DOMAIN outbox[x]
                  \/ x = m /\ outbox'[x][i] = row
  <2>1. outbox[x] \in Seq(Row) /\ Len(outbox[x]) \in Nat /\ DOMAIN outbox[x] = 1..Len(outbox[x])
    BY <1>1
  <2>2. CASE x = m
    <3>1. outbox'[x] = Append(outbox[x], row)
      BY <1>1, <1>3, <2>2
    <3>2. /\ outbox'[x] \in Seq(Row) /\ Len(outbox'[x]) = Len(outbox[x]) + 1
          /\ DOMAIN outbox'[x] = 1..(Len(outbox[x]) + 1)
          /\ outbox'[x][Len(outbox[x]) + 1] = row
          /\ \A i \in 1..Len(outbox[x]) : outbox'[x][i] = outbox[x][i]
      BY <1>2, <2>1, <3>1
    <3>3. Len(outbox'[x]) <= MaxRows[x]
      BY <1>3, <2>1, <2>2, <3>2, BoundsAssumption
    <3> QED BY <2>1, <2>2, <3>2, <3>3
  <2>3. CASE x # m
    BY <1>1, <1>3, <2>1, <2>3 DEF RowsOK
  <2> QED BY <2>2, <2>3
<1>6. outbox' \in [Machines -> Seq(Row)]
  BY <1>1, <1>3, <1>5
<1>7. RowsOK'
  <2> SUFFICES ASSUME NEW x \in Machines, NEW i \in DOMAIN outbox'[x]
               PROVE  IF outbox'[x][i].kind = "file.delete" THEN outbox'[x][i].text = NoText
                      ELSE outbox'[x][i].text \in Texts
    BY <1>5 DEF RowsOK, Texts
  <2> QED BY <1>4, <1>5 DEF RowsOK
<1>8. OutboxKept
  BY <1>5, <1>6, <1>7 DEF OutboxKept
<1>9. text \in Texts \cup {NoText}
  OBVIOUS
<1>10. seen' \in [Machines -> SUBSET Texts] /\ \A x \in Machines : seen[x] \subseteq seen'[x]
  <2> HIDE DEF Texts
  <2> QED BY <1>1, <1>3, <1>9
<1> QED BY <1>4, <1>5, <1>8, <1>10

(* An action of the user writes files, conflicts and copies of its machine, *)
(* and enqueues what it did.                                                *)
LEMMA UserKeepsBooks ==
  ASSUME IInv, NEW m \in Machines, NEW g \in Gids, NEW kind \in PushKinds,
         NEW text, IF kind = "file.delete" THEN text = NoText ELSE text \in Texts,
         Enqueue(m, g, kind, text),
         files' \in [Machines -> [Gids -> Texts \cup {NoText}]],
         lost' \in [Machines -> SUBSET Gids],
         fork' \in [Machines -> [Gids -> [remote : Texts, mine : Texts] \cup {NoFork}]],
         copies' \in [Machines -> SUBSET Texts],
         UNCHANGED <<log, known, cursor, skipped, loop, net, faults>>
  PROVE  KeepsBooks
<1>1. TypeOK /\ RowsOK
  BY DEF IInv
<1>2. /\ OutboxKept
      /\ seen' \in [Machines -> SUBSET Texts]
      /\ \A x \in Machines : seen[x] \subseteq seen'[x]
      /\ \A x \in Machines : \A i \in DOMAIN outbox'[x] :
           i \in DOMAIN outbox[x] \/ outbox'[x][i].status = "pending"
      /\ \A x \in Machines : \A i \in DOMAIN outbox[x] : outbox'[x][i] = outbox[x][i]
  BY <1>1, Enqueued
<1>3. log' \in Logs /\ Extends(log, log') /\ (Len(log) + 1)..Len(log') = {}
  BY <1>1, LogStays
<1>4. Grows
  BY <1>2, <1>3 DEF Grows, OutboxKept
<1>5. Typed'
  BY <1>1, <1>2, <1>3 DEF Typed, TypeOK, OutboxKept
<1>6. \A x \in Machines : \A i \in IdsIn(x, {"acked"})' : i \in IdsIn(x, {"acked"})
  BY <1>2 DEF IdsIn
<1> QED BY <1>2, <1>3, <1>4, <1>5, <1>6 DEF KeepsBooks, OutboxKept

LEMMA NewTextIsText ==
  ASSUME TypeOK, NEW m \in Machines, Len(outbox[m]) < MaxRows[m]
  PROVE  NewText(m) \in Texts
BY BoundsAssumption DEF TypeOK, NewText, Texts

LEMMA ResolveKeepsBooks ==
  ASSUME IInv, NEW m \in Machines, NEW g \in Gids, NEW strategy, NEW text \in Texts,
         Resolve(m, g, strategy, text)
  PROVE  KeepsBooks
<1>1. TypeOK
  BY DEF IInv
<1>2. /\ files' \in [Machines -> [Gids -> Texts \cup {NoText}]]
      /\ lost' \in [Machines -> SUBSET Gids]
      /\ fork' \in [Machines -> [Gids -> [remote : Texts, mine : Texts] \cup {NoFork}]]
      /\ copies' \in [Machines -> SUBSET Texts]
      /\ Enqueue(m, g, "file.update", text)
      /\ UNCHANGED <<log, known, cursor, skipped, loop, net, faults>>
  <2> HIDE DEF Texts
  <2> QED BY <1>1 DEF TypeOK, Resolve
<1>3. "file.update" \in PushKinds
  BY DEF PushKinds
<1> HIDE DEF Texts
<1> QED BY <1>2, <1>3, UserKeepsBooks

LEMMA UserStepKeepsBooks ==
  ASSUME IInv, UserStep
  PROVE  KeepsBooks
<1>1. PICK m \in Machines, g \in Gids :
        \/ Create(m, g)
        \/ Edit(m, g)
        \/ Delete(m, g)
        \/ /\ fork[m][g] # NoFork
           /\ \/ KeepServer(m, g)
              \/ KeepMine(m, g)
              \/ Merge(m, g)
              \/ \E copy \in Gids : KeepBoth(m, g, copy)
  BY DEF UserStep
<1>2. TypeOK
  BY DEF IInv
<1>3. /\ files \in [Machines -> [Gids -> Texts \cup {NoText}]]
      /\ lost \in [Machines -> SUBSET Gids]
      /\ fork \in [Machines -> [Gids -> [remote : Texts, mine : Texts] \cup {NoFork}]]
      /\ copies \in [Machines -> SUBSET Texts]
  BY <1>2 DEF TypeOK
<1>4. {"file.create", "file.update", "file.delete"} = PushKinds
  BY DEF PushKinds
<1>5. \A kind, text, h : Enqueue(m, h, kind, text) => Len(outbox[m]) < MaxRows[m]
  BY DEF Enqueue
<1>6. CASE Create(m, g)
  <2>1. NewText(m) \in Texts /\ Enqueue(m, g, "file.create", NewText(m))
    BY <1>2, <1>5, <1>6, NewTextIsText DEF Create
  <2>2. files' \in [Machines -> [Gids -> Texts \cup {NoText}]]
    BY <1>3, <1>6, <2>1 DEF Create
  <2> QED BY <1>3, <1>4, <1>6, <2>1, <2>2, UserKeepsBooks DEF Create
<1>7. CASE Edit(m, g)
  <2>1. NewText(m) \in Texts /\ Enqueue(m, g, "file.update", NewText(m))
    BY <1>2, <1>5, <1>7, NewTextIsText DEF Edit
  <2>2. files' \in [Machines -> [Gids -> Texts \cup {NoText}]]
    BY <1>3, <1>7, <2>1 DEF Edit
  <2> QED BY <1>3, <1>4, <1>7, <2>1, <2>2, UserKeepsBooks DEF Edit
<1>8. CASE Delete(m, g)
  <2>1. Enqueue(m, g, "file.delete", NoText)
    BY <1>8 DEF Delete
  <2>2. files' \in [Machines -> [Gids -> Texts \cup {NoText}]]
    BY <1>3, <1>8 DEF Delete
  <2> QED BY <1>3, <1>4, <1>8, <2>1, <2>2, UserKeepsBooks DEF Delete
<1>9. ASSUME fork[m][g] # NoFork
      PROVE  fork[m][g] \in [remote : Texts, mine : Texts]
  BY <1>3, <1>9
<1>10. CASE fork[m][g] # NoFork /\ KeepServer(m, g)
  <2>1. fork[m][g].remote \in Texts
    BY <1>9, <1>10
  <2> QED BY <1>10, <2>1, ResolveKeepsBooks DEF KeepServer
<1>11. CASE fork[m][g] # NoFork /\ KeepMine(m, g)
  <2> DEFINE text == IF files[m][g] = NoText THEN fork[m][g].mine ELSE files[m][g]
  <2>1. text \in Texts
    BY <1>3, <1>9, <1>11
  <2> QED BY <1>11, <2>1, ResolveKeepsBooks DEF KeepMine
<1>12. CASE Merge(m, g)
  <2>1. NewText(m) \in Texts
    BY <1>2, <1>5, <1>12, NewTextIsText DEF Merge, Resolve
  <2> QED BY <1>12, <2>1, ResolveKeepsBooks DEF Merge
<1>13. ASSUME fork[m][g] # NoFork, NEW copy \in Gids, KeepBoth(m, g, copy)
       PROVE  KeepsBooks
  <2>1. fork[m][g].remote \in Texts /\ Enqueue(m, copy, "file.create", fork[m][g].remote)
    BY <1>9, <1>13 DEF KeepBoth
  <2>2. /\ files' \in [Machines -> [Gids -> Texts \cup {NoText}]]
        /\ lost' \in [Machines -> SUBSET Gids]
        /\ fork' \in [Machines -> [Gids -> [remote : Texts, mine : Texts] \cup {NoFork}]]
        /\ copies' \in [Machines -> SUBSET Texts]
    BY <1>3, <1>13, <2>1 DEF KeepBoth
  <2> QED BY <1>4, <1>13, <2>1, <2>2, UserKeepsBooks DEF KeepBoth
<1> QED BY <1>1, <1>6, <1>7, <1>8, <1>10, <1>11, <1>12, <1>13

-----------------------------------------------------------------------------
(* ... the loops' pushes.                                                   *)

LEMMA OutboxStays ==
  ASSUME TypeOK, RowsOK, outbox' = outbox
  PROVE  OutboxKept /\ \A m \in Machines : IdsIn(m, {"acked"})' = IdsIn(m, {"acked"})
BY DEF TypeOK, RowsOK, OutboxKept, IdsIn

(* Restating a machine's rows keeps its outbox and leaves the others alone. *)
LEMMA RestatedKept ==
  ASSUME TypeOK, RowsOK, NEW m \in Machines, NEW rows, Restated(outbox[m], rows),
         outbox' = [outbox EXCEPT ![m] = rows]
  PROVE  OutboxKept /\ outbox'[m] = rows /\ \A x \in Machines \ {m} : outbox'[x] = outbox[x]
<1>1. outbox \in [Machines -> Seq(Row)] /\ rows \in Seq(Row)
  BY DEF TypeOK, Restated
<1>2. outbox'[m] = rows /\ \A x \in Machines \ {m} : outbox'[x] = outbox[x]
  BY <1>1
<1>3. outbox' \in [Machines -> Seq(Row)]
  BY <1>1
<1>4. RowsOK'
  <2> SUFFICES ASSUME NEW x \in Machines
               PROVE  /\ Len(outbox'[x]) <= MaxRows[x]
                      /\ \A i \in DOMAIN outbox'[x] :
                           IF outbox'[x][i].kind = "file.delete" THEN outbox'[x][i].text = NoText
                           ELSE outbox'[x][i].text \in Texts
    BY DEF RowsOK, Texts
  <2>1. CASE x = m
    BY <1>2, <2>1 DEF RowsOK, Restated
  <2>2. CASE x # m
    BY <1>2, <2>2 DEF RowsOK
  <2> QED BY <2>1, <2>2
<1> QED BY <1>2, <1>3, <1>4 DEF OutboxKept, Restated

LEMMA RestatedTwice ==
  ASSUME NEW rows, NEW mid, NEW new, Restated(rows, mid), Restated(mid, new)
  PROVE  Restated(rows, new)
BY DEF Restated

(* What a machine has passed it has passed after the step too, all up to    *)
(* its cursor for a start.                                                  *)
LEMMA PassedAfter ==
  ASSUME IInv, Grows, NEW m \in Machines
  PROVE  /\ \A k \in DOMAIN log : Passed(m, k) => Passed(m, k)'
         /\ cursor[m] \in Nat /\ cursor[m] <= Len(log)
         /\ \A k \in 1..cursor[m] : k \in DOMAIN log /\ Passed(m, k) /\ Passed(m, k)'
<1>1. TypeOK /\ OpsHaveRows /\ NeverAhead /\ NothingPassedOver
  BY DEF IInv
<1>2. \A k \in DOMAIN log : Passed(m, k) => Passed(m, k)'
  BY <1>1, GrowsKeeps DEF OpsHaveRows
<1>3. Len(log) \in Nat /\ DOMAIN log = 1..Len(log)
  BY <1>1 DEF TypeOK
<1>4. cursor[m] \in Nat /\ cursor[m] <= Len(log)
  BY <1>1 DEF TypeOK, NeverAhead
<1>5. \A k \in 1..cursor[m] : k \in DOMAIN log /\ Passed(m, k)
  BY <1>1, <1>3, <1>4 DEF NothingPassedOver, Passed
<1> QED BY <1>2, <1>4, <1>5

LEMMA PushKeepsBooks ==
  ASSUME IInv, NEW l \in Loops, Push(l)
  PROVE  KeepsBooks
<1> DEFINE m == Host[l]
           queued == Requeued(m)
           ids == Due(queued)
           sent == SetStatus(queued, ToSet(ids), "sent")
<1>1. TypeOK /\ RowsOK /\ m \in Machines /\ outbox[m] \in Seq(Row)
  BY LoopsAssumption DEF IInv, TypeOK
<1>2. "pending" \in Statuses /\ "sent" \in Statuses
  BY DEF Statuses
<1>3. /\ Restated(outbox[m], queued)
      /\ \A i \in DOMAIN outbox[m] :
           queued[i].status = IF i \in IdsIn(m, {"sent"}) THEN "pending" ELSE outbox[m][i].status
  BY <1>1, <1>2, SetStatusCorrect DEF Requeued
<1>4. queued \in Seq(Row) /\ DOMAIN queued = DOMAIN outbox[m]
  BY <1>3 DEF Restated
<1>5. /\ Restated(queued, sent)
      /\ \A i \in DOMAIN queued :
           sent[i].status = IF i \in ToSet(ids) THEN "sent" ELSE queued[i].status
  <2> HIDE DEF queued, ids
  <2> QED BY <1>2, <1>4, SetStatusCorrect
<1>6. ids \in Seq(DOMAIN outbox[m])
  <2>1. ids \in Seq(Ready(queued))
    BY <1>4, DueCorrect
  <2>2. Ready(queued) \subseteq DOMAIN outbox[m]
    BY <1>4 DEF Ready
  <2> HIDE DEF ids, queued
  <2> QED BY <2>1, <2>2
<1>7. /\ outbox' = [outbox EXCEPT ![m] = sent]
      /\ loop' = [loop EXCEPT ![l] = IF ids = <<>> THEN ToPull(cursor[m])
                                     ELSE Posting(WireOps(m, ids))]
      /\ UNCHANGED <<log, files, known, lost, fork, copies, cursor, skipped, net, faults, seen>>
  BY DEF Push
<1> DEFINE ops == WireOps(m, ids)
<1> HIDE DEF sent, ids, queued
<1>8. /\ ops \in Seq(Wire) /\ Len(ops) = Len(ids)
      /\ \A n \in DOMAIN ops : ops[n].origin = m /\ HasRow(outbox, ops[n])
  BY <1>1, <1>6, WireOpsCorrect
<1> HIDE DEF ops
<1>9. OutboxKept /\ outbox'[m] = sent /\ \A x \in Machines \ {m} : outbox'[x] = outbox[x]
  <2>1. Restated(outbox[m], sent)
    BY <1>3, <1>5, RestatedTwice
  <2> QED BY <1>1, <1>7, <2>1, RestatedKept
<1>10. log' \in Logs /\ Extends(log, log') /\ (Len(log) + 1)..Len(log') = {}
  BY <1>1, <1>7, LogStays
<1>11. Grows
  BY <1>7, <1>9, <1>10 DEF Grows, OutboxKept
<1>12. \A x \in Machines : \A i \in IdsIn(x, {"acked"})' : i \in IdsIn(x, {"acked"})
  <2> SUFFICES ASSUME NEW i \in IdsIn(m, {"acked"})' PROVE i \in IdsIn(m, {"acked"})
    BY <1>9 DEF IdsIn
  <2>1. i \in DOMAIN sent /\ sent[i].status = "acked"
    BY <1>9 DEF IdsIn
  <2>2. DOMAIN sent = DOMAIN queued
    BY <1>5 DEF Restated
  <2> QED BY <1>3, <1>4, <1>5, <2>1, <2>2 DEF IdsIn
<1>13. cursor[m] \in Nat /\ cursor[m] <= Len(log) /\ \A k \in 1..cursor[m] : Passed(m, k)'
  BY <1>1, <1>11, PassedAfter
<1>14. loop'[l] \in LoopState /\ LoopInv(l)'
  <2>1. CASE ids = <<>>
    <3>1. loop'[l] = ToPull(cursor[m])
      BY <1>1, <1>7, <2>1 DEF TypeOK
    <3>2. loop'[l] \in LoopState /\ loop'[l].pc = "pull" /\ loop'[l].since = cursor[m]
      BY <1>13, <3>1, LoopPlaces
    <3> QED BY <1>7, <1>13, <3>2 DEF LoopInv
  <2>2. CASE ids # <<>>
    <3>1. loop'[l] = Posting(ops)
      BY <1>1, <1>7, <2>2 DEF TypeOK, ops
    <3>2. loop'[l] \in LoopState /\ loop'[l].pc = "posting" /\ loop'[l].ops = ops
      BY <1>8, <3>1, LoopPlaces
    <3>3. ops # <<>>
      BY <1>6, <1>8, <2>2
    <3>4. \A n \in DOMAIN ops : ops[n].origin = m /\ HasRow(outbox', ops[n])
      BY <1>1, <1>8, <1>11, GrowsKeeps
    <3> QED BY <3>2, <3>3, <3>4 DEF LoopInv
  <2> QED BY <2>1, <2>2
<1>15. loop' \in [Loops -> LoopState] /\ \A k \in Loops \ {l} : loop'[k] = loop[k]
  BY <1>1, <1>7, <1>14 DEF TypeOK
<1>16. Typed'
  BY <1>1, <1>7, <1>9, <1>15 DEF Typed, TypeOK, OutboxKept
<1> QED BY <1>7, <1>9, <1>10, <1>11, <1>12, <1>14, <1>15, <1>16 DEF KeepsBooks, OutboxKept

(* A served batch adds ops that have rows, and its answers are true.        *)
LEMMA Served ==
  ASSUME IInv, NEW ops \in Seq(Wire), \A n \in DOMAIN ops : HasRow(outbox, ops[n])
  PROVE  LET served == Post(ops) IN
         /\ served.log \in Logs /\ Extends(log, served.log)
         /\ \A k \in (Len(log) + 1)..Len(served.log) : HasRow(outbox, served.log[k])
         /\ served.answers \in Seq(Answer) /\ Len(served.answers) = Len(ops)
         /\ \A n \in DOMAIN ops : TrueOf(served.log, outbox, ops[n].origin, served.answers[n])
<1> DEFINE served == Post(ops)
<1>1. log \in Logs
  BY DEF IInv, TypeOK, Logs
<1>2. PostedTo(served, ops, Len(ops))
  BY <1>1, PostCorrect
<1> HIDE DEF served
<1>3. /\ served.log \in Logs /\ Extends(log, served.log)
      /\ served.answers \in Seq(Answer) /\ Len(served.answers) = Len(ops)
  BY <1>2 DEF PostedTo, Accs
<1>4. DOMAIN ops = 1..Len(ops)
  OBVIOUS
<1>5. \A k \in (Len(log) + 1)..Len(served.log) : HasRow(outbox, served.log[k])
  <2> SUFFICES ASSUME NEW k \in (Len(log) + 1)..Len(served.log)
               PROVE  HasRow(outbox, served.log[k])
    OBVIOUS
  <2>1. PICK n \in 1..Len(ops) : Carries(served.log[k], ops[n])
    BY <1>2 DEF PostedTo
  <2>2. HasRow(outbox, ops[n])
    BY <1>4
  <2> QED BY <2>1, <2>2 DEF Carries, SameRow, HasRow
<1>6. \A n \in DOMAIN ops : TrueOf(served.log, outbox, ops[n].origin, served.answers[n])
  <2> SUFFICES ASSUME NEW n \in 1..Len(ops)
               PROVE  TrueOf(served.log, outbox, ops[n].origin, served.answers[n])
    BY <1>4
  <2>1. /\ served.answers[n].cseq = ops[n].cseq
        /\ served.answers[n].version <=
             VersionAt(served.log, ops[n].gid, "content", Len(served.log))
        /\ FindByClientSeq(served.log, ops[n].origin, ops[n].cseq) # {}
    BY <1>2 DEF PostedTo
  <2>2. HasRow(outbox, ops[n])
    BY <1>4
  <2> QED BY <2>1, <2>2 DEF TrueOf, HasRow
<1> QED BY <1>3, <1>5, <1>6 DEF served

\* A request on its way: its ops are well formed and have rows.
Request(ops) == ops \in Seq(Wire) /\ \A n \in DOMAIN ops : HasRow(outbox, ops[n])

LEMMA PostingRequest ==
  ASSUME IInv, NEW l \in Loops, loop[l].pc = "posting"
  PROVE  Request(loop[l].ops) /\ Host[l] \in Machines
         /\ loop[l].ops # <<>> /\ \A n \in DOMAIN loop[l].ops : loop[l].ops[n].origin = Host[l]
BY LoopFields, LoopsAssumption DEF IInv, TypeOK, LoopInv, Request

LEMMA ServeKeepsBooks ==
  ASSUME IInv, NEW l \in Loops, Serve(l)
  PROVE  KeepsBooks
<1> DEFINE m == Host[l]
           ops == loop[l].ops
           served == Post(ops)
<1>1. TypeOK /\ RowsOK
  BY DEF IInv
<1>2. /\ loop[l].pc = "posting"
      /\ log' = served.log
      /\ loop' = [loop EXCEPT ![l] = Answered(served.answers)]
      /\ UNCHANGED <<machineVars, net, faults>>
  BY DEF Serve
<1>3. Request(ops) /\ m \in Machines /\ ops # <<>> /\ \A n \in DOMAIN ops : ops[n].origin = m
  BY <1>2, PostingRequest
<1> HIDE DEF ops, served
<1>4. /\ served.log \in Logs /\ Extends(log, served.log)
      /\ \A k \in (Len(log) + 1)..Len(served.log) : HasRow(outbox, served.log[k])
      /\ served.answers \in Seq(Answer) /\ Len(served.answers) = Len(ops)
      /\ \A n \in DOMAIN ops : TrueOf(served.log, outbox, ops[n].origin, served.answers[n])
  BY <1>3, Served DEF Request, served
<1>5. OutboxKept /\ \A x \in Machines : IdsIn(x, {"acked"})' = IdsIn(x, {"acked"})
  BY <1>1, <1>2, OutboxStays DEF machineVars
<1>6. Grows
  BY <1>2, <1>4, <1>5 DEF Grows, OutboxKept, machineVars
<1>7. /\ loop'[l] \in LoopState /\ loop'[l].pc = "answered"
      /\ loop'[l].answers = served.answers
      /\ loop' \in [Loops -> LoopState] /\ \A k \in Loops \ {l} : loop'[k] = loop[k]
  <2> DEFINE s == Answered(served.answers)
  <2>1. s \in LoopState /\ s.pc = "answered" /\ s.answers = served.answers
    BY <1>4, LoopPlaces
  <2> HIDE DEF s
  <2>2. loop' = [loop EXCEPT ![l] = s] /\ loop \in [Loops -> LoopState]
    BY <1>1, <1>2 DEF TypeOK, s
  <2> QED BY <2>1, <2>2
<1>8. LoopInv(l)'
  <2>1. served.answers # <<>> /\ DOMAIN served.answers = DOMAIN ops
    BY <1>3, <1>4 DEF Request
  <2> QED BY <1>2, <1>3, <1>4, <1>7, <2>1 DEF LoopInv, machineVars
<1>9. Typed'
  <2>1. Len(log') \in Nat /\ Len(log) \in Nat /\ Len(log) <= Len(log')
    BY <1>1, <1>2, <1>4 DEF Extends, Logs, TypeOK
  <2> QED BY <1>1, <1>2, <1>5, <1>7, <2>1 DEF Typed, TypeOK, OutboxKept, machineVars
<1> QED BY <1>2, <1>4, <1>5, <1>6, <1>7, <1>8, <1>9 DEF KeepsBooks, OutboxKept, machineVars

LEMMA ServeLateKeepsBooks ==
  ASSUME IInv, ServeLate
  PROVE  KeepsBooks
<1>1. TypeOK /\ RowsOK
  BY DEF IInv
<1>2. PICK ops \in net :
        /\ log' = Post(ops).log
        /\ net' = net \ {ops}
        /\ UNCHANGED <<machineVars, loop, faults>>
  BY DEF ServeLate
<1> DEFINE served == Post(ops)
<1>3. ops \in Seq(Wire) /\ \A n \in DOMAIN ops : HasRow(outbox, ops[n])
  BY DEF IInv, TypeOK, OpsHaveRows
<1>4. /\ served.log \in Logs /\ Extends(log, served.log)
      /\ \A k \in (Len(log) + 1)..Len(served.log) : HasRow(outbox, served.log[k])
  BY <1>3, Served
<1> HIDE DEF served
<1>5. log' = served.log
  BY <1>2 DEF served
<1>6. OutboxKept /\ \A x \in Machines : IdsIn(x, {"acked"})' = IdsIn(x, {"acked"})
  BY <1>1, <1>2, OutboxStays DEF machineVars
<1>7. Grows
  BY <1>2, <1>4, <1>5, <1>6 DEF Grows, OutboxKept, machineVars
<1>8. Typed'
  <2>1. Len(log') \in Nat /\ Len(log) \in Nat /\ Len(log) <= Len(log')
    BY <1>1, <1>4, <1>5 DEF Extends, Logs, TypeOK
  <2> QED BY <1>1, <1>2, <1>6, <2>1 DEF Typed, TypeOK, OutboxKept, machineVars
<1> QED BY <1>2, <1>4, <1>5, <1>6, <1>7, <1>8 DEF KeepsBooks, OutboxKept, machineVars

(* Giving a batch up restates its rows, and the loop holds nothing.         *)
LEMMA GaveUp ==
  ASSUME IInv, NEW l \in Loops, GiveUp(l)
  PROVE  /\ OutboxKept
         /\ \A x \in Machines : \A i \in IdsIn(x, {"acked"})' : i \in IdsIn(x, {"acked"})
         /\ loop' \in [Loops -> LoopState] /\ \A k \in Loops \ {l} : loop'[k] = loop[k]
         /\ LoopInv(l)'
         /\ UNCHANGED <<files, known, lost, fork, copies, cursor, skipped, seen>>
<1> DEFINE m == Host[l]
           ids == {loop[l].ops[n].cseq : n \in DOMAIN loop[l].ops} \ IdsIn(m, {"acked"})
           rows == SetStatus(outbox[m], ids, "waiting")
<1>1. TypeOK /\ RowsOK /\ m \in Machines /\ outbox[m] \in Seq(Row) /\ "waiting" \in Statuses
  BY LoopsAssumption DEF IInv, TypeOK, Statuses
<1>2. /\ outbox' = [outbox EXCEPT ![m] = rows]
      /\ loop' = [loop EXCEPT ![l] = Backoff]
      /\ UNCHANGED <<files, known, lost, fork, copies, cursor, skipped, seen>>
  BY <1>1 DEF GiveUp, TypeOK
<1> HIDE DEF ids
<1>3. /\ Restated(outbox[m], rows)
      /\ \A i \in DOMAIN outbox[m] :
           rows[i].status = IF i \in ids THEN "waiting" ELSE outbox[m][i].status
  BY <1>1, SetStatusCorrect
<1> HIDE DEF rows
<1>4. OutboxKept /\ outbox'[m] = rows /\ \A x \in Machines \ {m} : outbox'[x] = outbox[x]
  BY <1>1, <1>2, <1>3, RestatedKept
<1>5. \A x \in Machines : \A i \in IdsIn(x, {"acked"})' : i \in IdsIn(x, {"acked"})
  BY <1>3, <1>4 DEF IdsIn, Restated
<1>6. /\ loop'[l] = Backoff /\ loop' \in [Loops -> LoopState]
      /\ \A k \in Loops \ {l} : loop'[k] = loop[k]
  BY <1>1, <1>2, LoopPlaces DEF TypeOK
<1>7. LoopInv(l)'
  BY <1>6, LoopPlaces DEF LoopInv
<1> QED BY <1>2, <1>4, <1>5, <1>6, <1>7

(* ... whatever became of the request: lost, served, or still on its way.   *)
LEMMA GiveUpKeepsBooks ==
  ASSUME IInv, NEW l \in Loops, loop[l].pc = "posting", GiveUp(l), faults' \in 0..MaxFaults,
         log' = log \/ log' = Post(loop[l].ops).log,
         net' = net \/ net' = net \cup {loop[l].ops}
  PROVE  KeepsBooks
<1> DEFINE ops == loop[l].ops
           served == Post(ops)
<1>1. TypeOK
  BY DEF IInv
<1>2. Request(ops)
  BY PostingRequest
<1>3. /\ OutboxKept
      /\ \A x \in Machines : \A i \in IdsIn(x, {"acked"})' : i \in IdsIn(x, {"acked"})
      /\ loop' \in [Loops -> LoopState] /\ \A k \in Loops \ {l} : loop'[k] = loop[k]
      /\ LoopInv(l)'
      /\ UNCHANGED <<files, known, lost, fork, copies, cursor, skipped, seen>>
  BY GaveUp
<1> HIDE DEF ops, served
<1>4. /\ log' \in Logs /\ Extends(log, log')
      /\ \A k \in (Len(log) + 1)..Len(log') : HasRow(outbox, log'[k])
  <2>1. CASE log' = log
    BY <1>1, <2>1, LogStays
  <2>2. CASE log' = served.log
    <3>1. /\ served.log \in Logs /\ Extends(log, served.log)
          /\ \A k \in (Len(log) + 1)..Len(served.log) : HasRow(outbox, served.log[k])
      BY <1>2, Served DEF Request, served
    <3> QED BY <2>2, <3>1
  <2> QED BY <2>1, <2>2 DEF ops, served
<1>5. Grows
  BY <1>3, <1>4 DEF Grows, OutboxKept
<1>6. \A op : op.origin \in Machines /\ HasRow(outbox, op) => HasRow(outbox', op)
  BY <1>1, <1>5, GrowsKeeps
<1>7. \A k \in (Len(log) + 1)..Len(log') : HasRow(outbox', log'[k])
  <2> SUFFICES ASSUME NEW k \in (Len(log) + 1)..Len(log') PROVE HasRow(outbox', log'[k])
    OBVIOUS
  <2>1. k \in 1..Len(log')
    BY <1>1, <1>4 DEF TypeOK, Logs
  <2>2. log'[k] \in LogEntry(Gids, Machines)
    BY <1>4, <2>1 DEF Logs
  <2> QED BY <1>4, <1>6, <2>2 DEF LogEntry
<1>8. \A n \in DOMAIN ops : HasRow(outbox', ops[n])
  <2> SUFFICES ASSUME NEW n \in DOMAIN ops PROVE HasRow(outbox', ops[n])
    OBVIOUS
  <2>1. ops[n] \in Wire
    BY <1>2 DEF Request
  <2> QED BY <1>2, <1>6, <2>1 DEF Wire, Request
<1>9. Typed'
  <2>1. Len(log') \in Nat /\ Len(log) \in Nat /\ Len(log) <= Len(log')
    BY <1>1, <1>4 DEF Extends, Logs, TypeOK
  <2>2. net' \in SUBSET Seq(Wire)
    BY <1>1, <1>2 DEF TypeOK, Request, ops
  <2> QED BY <1>1, <1>3, <2>1, <2>2 DEF Typed, TypeOK, OutboxKept
<1> QED BY <1>3, <1>5, <1>7, <1>8, <1>9 DEF KeepsBooks, OutboxKept, ops

LEMMA FaultCounted ==
  ASSUME TypeOK, NEW kind, Fault(kind)
  PROVE  faults' \in 0..MaxFaults
BY BoundsAssumption DEF TypeOK, Fault

LEMMA LostRequestsKeepBooks ==
  ASSUME IInv, NEW l \in Loops, RequestLost(l) \/ AnswerLost(l) \/ RequestLate(l)
  PROVE  KeepsBooks
<1>1. TypeOK
  BY DEF IInv
<1>2. CASE RequestLost(l)
  <2>1. faults' \in 0..MaxFaults
    BY <1>1, <1>2, FaultCounted DEF RequestLost
  <2> QED BY <1>2, <2>1, GiveUpKeepsBooks DEF RequestLost
<1>3. CASE AnswerLost(l)
  <2>1. faults' \in 0..MaxFaults
    BY <1>1, <1>3, FaultCounted DEF AnswerLost
  <2> QED BY <1>3, <2>1, GiveUpKeepsBooks DEF AnswerLost
<1>4. CASE RequestLate(l)
  <2>1. faults' \in 0..MaxFaults
    BY <1>1, <1>4, FaultCounted DEF RequestLate
  <2> QED BY <1>4, <2>1, GiveUpKeepsBooks DEF RequestLate
<1> QED BY <1>2, <1>3, <1>4

(* A version that the log has may be written down as known.                 *)
LEMMA VersionRecorded ==
  ASSUME TypeOK, log' = log, NEW m \in Machines, NEW g \in Gids, NEW v \in Nat,
         v <= VersionAt(log, g, "content", Len(log)), RecordVersion(m, g, v)
  PROVE  /\ known' \in [Machines -> [Gids -> Nat]]
         /\ \A x \in Machines, h \in Gids :
              known'[x][h] = known[x][h] \/ known'[x][h] <= VersionAt(log', h, "content", Len(log'))
<1>1. known \in [Machines -> [Gids -> Nat]] /\ known[m][g] \in Nat
  BY DEF TypeOK
<1>2. known' = [known EXCEPT ![m][g] = Max({known[m][g], v})]
  BY <1>1 DEF RecordVersion
<1>3. Max({known[m][g], v}) \in {known[m][g], v}
  BY <1>1, MaxOfTwo
<1> DEFINE w == Max({known[m][g], v})
<1> HIDE DEF w
<1>4. w \in Nat /\ w \in {known[m][g], v} /\ known' = [known EXCEPT ![m][g] = w]
  BY <1>1, <1>2, <1>3 DEF w
<1>5. known' \in [Machines -> [Gids -> Nat]]
  BY <1>1, <1>4
<1>6. known'[m][g] = w /\ \A x \in Machines, h \in Gids :
        x # m \/ h # g => known'[x][h] = known[x][h]
  BY <1>1, <1>4
<1> QED BY <1>4, <1>5, <1>6

(* The first of the answers in hand is true, and so are the rest.           *)
LEMMA FirstAnswer ==
  ASSUME IInv, NEW l \in Loops, loop[l].pc = "answered"
  PROVE  LET a == Head(loop[l].answers)
             rest == Tail(loop[l].answers) IN
         /\ Host[l] \in Machines /\ a \in Answer /\ TrueOf(log, outbox, Host[l], a)
         /\ rest \in Seq(Answer)
         /\ \A n \in DOMAIN rest : rest[n] \in Answer /\ TrueOf(log, outbox, Host[l], rest[n])
<1> DEFINE answers == loop[l].answers
<1>1. Host[l] \in Machines /\ answers \in Seq(Answer)
  BY LoopFields, LoopsAssumption DEF IInv, TypeOK
<1>2. answers # <<>> /\ \A n \in DOMAIN answers : TrueOf(log, outbox, Host[l], answers[n])
  BY DEF IInv, LoopInv
<1> HIDE DEF answers
<1>3. /\ Len(answers) \in Nat \ {0} /\ DOMAIN answers = 1..Len(answers)
      /\ Head(answers) = answers[1] /\ Tail(answers) \in Seq(Answer)
      /\ DOMAIN Tail(answers) = 1..(Len(answers) - 1)
      /\ \A n \in 1..(Len(answers) - 1) : Tail(answers)[n] = answers[n + 1]
  BY <1>1, <1>2
<1>4. \A n \in 1..(Len(answers) - 1) : n + 1 \in DOMAIN answers
  BY <1>3
<1>5. Head(answers) \in Answer /\ TrueOf(log, outbox, Host[l], Head(answers))
  BY <1>1, <1>2, <1>3
<1> QED BY <1>1, <1>2, <1>3, <1>4, <1>5 DEF answers

(* Acking a row the log holds, with or without a bump of later bases.       *)
LEMMA RowAcked ==
  ASSUME IInv, NEW m \in Machines, NEW a \in Answer, TrueOf(log, outbox, m, a), log' = log,
         NEW rows, outbox' = [outbox EXCEPT ![m] = rows],
         \/ rows = SetStatus(outbox[m], {a.cseq}, "acked")
         \/ rows = BumpPendingBases(SetStatus(outbox[m], {a.cseq}, "acked"), a.cseq),
         MarkAnswered(m, a)
  PROVE  /\ OutboxKept
         /\ \A x \in Machines : \A i \in IdsIn(x, {"acked"})' :
              i \in IdsIn(x, {"acked"}) \/ FindByClientSeq(log', x, i) # {}
         /\ lost' \in [Machines -> SUBSET Gids]
<1> DEFINE acked == SetStatus(outbox[m], {a.cseq}, "acked")
<1>1. TypeOK /\ RowsOK /\ outbox[m] \in Seq(Row) /\ "acked" \in Statuses
  BY DEF IInv, TypeOK, Statuses
<1>2. /\ Restated(outbox[m], acked)
      /\ \A i \in DOMAIN outbox[m] :
           acked[i].status = IF i \in {a.cseq} THEN "acked" ELSE outbox[m][i].status
  BY <1>1, SetStatusCorrect
<1> HIDE DEF acked
<1>3. /\ Restated(outbox[m], rows)
      /\ \A i \in DOMAIN outbox[m] :
           rows[i].status = IF i = a.cseq THEN "acked" ELSE outbox[m][i].status
  <2>1. acked \in Seq(Row) /\ DOMAIN acked = DOMAIN outbox[m]
    BY <1>2 DEF Restated
  <2>2. /\ Restated(acked, BumpPendingBases(acked, a.cseq))
        /\ \A i \in DOMAIN acked : BumpPendingBases(acked, a.cseq)[i].status = acked[i].status
    BY <2>1, BumpCorrect
  <2>3. rows = acked \/ rows = BumpPendingBases(acked, a.cseq)
    BY DEF acked
  <2>4. Restated(outbox[m], BumpPendingBases(acked, a.cseq))
    BY <1>2, <2>2, RestatedTwice
  <2> QED BY <1>2, <2>1, <2>2, <2>3, <2>4
<1>4. OutboxKept /\ outbox'[m] = rows /\ \A x \in Machines \ {m} : outbox'[x] = outbox[x]
  BY <1>1, <1>3, RestatedKept
<1>5. ASSUME NEW x \in Machines, NEW i \in IdsIn(x, {"acked"})'
      PROVE  i \in IdsIn(x, {"acked"}) \/ FindByClientSeq(log', x, i) # {}
  BY <1>3, <1>4 DEF IdsIn, Restated, TrueOf
<1>6. lost' \in [Machines -> SUBSET Gids]
  <2>1. a.cseq \in DOMAIN outbox[m]
    BY DEF TrueOf
  <2>2. outbox[m][a.cseq] \in Row
    BY <1>1, <2>1
  <2>3. outbox[m][a.cseq].gid \in Gids
    BY <2>2 DEF Row
  <2>4. lost \in [Machines -> SUBSET Gids]
    BY <1>1 DEF TypeOK
  <2> QED BY <2>3, <2>4 DEF MarkAnswered
<1> QED BY <1>4, <1>5, <1>6

LEMMA AcknowledgeKeepsBooks ==
  ASSUME IInv, NEW l \in Loops, Acknowledge(l)
  PROVE  KeepsBooks
<1> DEFINE m == Host[l]
           a == Head(loop[l].answers)
           rest == Tail(loop[l].answers)
           acked == SetStatus(outbox[m], {a.cseq}, "acked")
           rows == Bumped(acked, a)
           s == IF rest = <<>> THEN ToPull(cursor[m]) ELSE Answered(rest)
<1>1. /\ loop[l].pc = "answered"
      /\ MarkAnswered(m, a)
      /\ outbox' = [outbox EXCEPT ![m] = rows]
      /\ RecordVersion(m, acked[a.cseq].gid, a.version)
      /\ loop' = [loop EXCEPT ![l] = s]
      /\ UNCHANGED <<log, files, fork, copies, cursor, skipped, net, faults, seen>>
  BY DEF Acknowledge
<1>2. /\ m \in Machines /\ a \in Answer /\ TrueOf(log, outbox, m, a)
      /\ rest \in Seq(Answer)
      /\ \A n \in DOMAIN rest : rest[n] \in Answer /\ TrueOf(log, outbox, m, rest[n])
  BY <1>1, FirstAnswer
<1>3. TypeOK /\ RowsOK /\ outbox[m] \in Seq(Row) /\ "acked" \in Statuses
  BY <1>2 DEF IInv, TypeOK, Statuses
<1> HIDE DEF m, a, rest
<1>4. acked[a.cseq].gid = outbox[m][a.cseq].gid /\ outbox[m][a.cseq].gid \in Gids
  <2>1. a.cseq \in DOMAIN outbox[m]
    BY <1>2 DEF TrueOf
  <2>2. outbox[m][a.cseq] \in Row
    BY <1>3, <2>1
  <2>3. Restated(outbox[m], acked)
    BY <1>3, SetStatusCorrect
  <2> QED BY <2>1, <2>2, <2>3 DEF Row, Restated
<1>5. rows = acked \/ rows = BumpPendingBases(acked, a.cseq)
  BY DEF Bumped
<1>6. /\ OutboxKept
      /\ \A x \in Machines : \A i \in IdsIn(x, {"acked"})' :
           i \in IdsIn(x, {"acked"}) \/ FindByClientSeq(log', x, i) # {}
      /\ lost' \in [Machines -> SUBSET Gids]
  <2> HIDE DEF rows
  <2> QED BY <1>1, <1>2, <1>5, RowAcked
<1> HIDE DEF acked, rows
<1>7. log' \in Logs /\ Extends(log, log') /\ (Len(log) + 1)..Len(log') = {}
  BY <1>1, <1>3, LogStays
<1>8. /\ known' \in [Machines -> [Gids -> Nat]]
      /\ \A x \in Machines, h \in Gids :
           known'[x][h] = known[x][h] \/ known'[x][h] <= VersionAt(log', h, "content", Len(log'))
  <2>1. a.version \in Nat
    BY <1>2 DEF Answer
  <2>2. a.version <= VersionAt(log, outbox[m][a.cseq].gid, "content", Len(log))
    BY <1>2 DEF TrueOf
  <2> QED BY <1>1, <1>2, <1>3, <1>4, <2>1, <2>2, VersionRecorded
<1>9. Grows
  BY <1>1, <1>6, <1>7 DEF Grows, OutboxKept
<1>10. cursor[m] \in Nat /\ cursor[m] <= Len(log) /\ \A k \in 1..cursor[m] : Passed(m, k)'
  BY <1>2, <1>9, PassedAfter
<1>11. /\ s \in LoopState
       /\ rest = <<>> => s.pc = "pull" /\ s.since = cursor[m]
       /\ rest # <<>> => s.pc = "answered" /\ s.answers = rest
  BY <1>2, <1>10, LoopPlaces
<1> HIDE DEF s
<1>12. loop'[l] = s /\ loop' \in [Loops -> LoopState] /\ \A k \in Loops \ {l} : loop'[k] = loop[k]
  BY <1>1, <1>3, <1>11 DEF TypeOK
<1>13. LoopInv(l)'
  <2>1. CASE rest = <<>>
    BY <1>1, <1>10, <1>11, <1>12, <2>1 DEF LoopInv, m
  <2>2. CASE rest # <<>>
    <3>1. \A n \in DOMAIN rest : TrueOf(log', outbox', m, rest[n])
      BY <1>2, <1>3, <1>9, GrowsKeeps
    <3> QED BY <1>11, <1>12, <2>2, <3>1 DEF LoopInv, m
  <2> QED BY <2>1, <2>2
<1>14. Typed'
  BY <1>1, <1>3, <1>6, <1>8, <1>12 DEF Typed, TypeOK, OutboxKept
<1> QED BY <1>1, <1>6, <1>7, <1>8, <1>9, <1>12, <1>13, <1>14, Zenon DEF KeepsBooks, OutboxKept

LEMMA TornAckKeepsBooks ==
  ASSUME IInv, NEW l \in Loops, TornAck(l)
  PROVE  KeepsBooks
<1> DEFINE m == Host[l]
           a == Head(loop[l].answers)
           rows == SetStatus(outbox[m], {a.cseq}, "acked")
<1>1. loop[l].pc = "answered" /\ MarkAnswered(m, a)
  BY DEF TornAck
<1>2. m \in Machines /\ a \in Answer /\ TrueOf(log, outbox, m, a)
  BY <1>1, FirstAnswer
<1>3. TypeOK /\ RowsOK
  BY DEF IInv
<1>4. /\ outbox' = [outbox EXCEPT ![m] = rows]
      /\ loop' = [loop EXCEPT ![l] = Idle]
      /\ Fault("torn ack")
      /\ UNCHANGED <<log, files, known, fork, copies, cursor, skipped, net, seen>>
  BY <1>2, <1>3 DEF TornAck, TypeOK
<1>5. /\ OutboxKept
      /\ \A x \in Machines : \A i \in IdsIn(x, {"acked"})' :
           i \in IdsIn(x, {"acked"}) \/ FindByClientSeq(log', x, i) # {}
      /\ lost' \in [Machines -> SUBSET Gids]
  BY <1>1, <1>2, <1>4, RowAcked
<1>6. log' \in Logs /\ Extends(log, log') /\ (Len(log) + 1)..Len(log') = {}
  BY <1>3, <1>4, LogStays
<1>7. Grows
  BY <1>4, <1>5, <1>6 DEF Grows, OutboxKept
<1>8. /\ loop'[l] = Idle /\ loop' \in [Loops -> LoopState]
      /\ \A k \in Loops \ {l} : loop'[k] = loop[k]
  <2>1. loop \in [Loops -> LoopState] /\ loop' = [loop EXCEPT ![l] = Idle]
    BY <1>3, <1>4 DEF TypeOK
  <2> QED BY <2>1, LoopPlaces
<1>9. LoopInv(l)'
  BY <1>8, LoopPlaces DEF LoopInv
<1>10. Typed'
  <2>1. faults' \in 0..MaxFaults
    BY <1>3, <1>4, FaultCounted
  <2> QED BY <1>3, <1>4, <1>5, <1>8, <2>1 DEF Typed, TypeOK, OutboxKept
<1> QED BY <1>4, <1>5, <1>6, <1>7, <1>8, <1>9, <1>10 DEF KeepsBooks, OutboxKept

LEMMA ElapseKeepsBooks ==
  ASSUME IInv, NEW m \in Machines, Elapse(m)
  PROVE  KeepsBooks
<1> DEFINE rows == SetStatus(outbox[m], IdsIn(m, {"waiting"}), "failed")
<1>1. TypeOK /\ RowsOK /\ outbox[m] \in Seq(Row) /\ "failed" \in Statuses
  BY DEF IInv, TypeOK, Statuses
<1>2. /\ outbox' = [outbox EXCEPT ![m] = rows]
      /\ UNCHANGED <<log, files, known, lost, fork, copies, cursor, skipped, loop, net, faults, seen>>
  BY <1>1 DEF Elapse, TypeOK
<1>3. /\ Restated(outbox[m], rows)
      /\ \A i \in DOMAIN outbox[m] :
           rows[i].status = IF i \in IdsIn(m, {"waiting"}) THEN "failed" ELSE outbox[m][i].status
  BY <1>1, SetStatusCorrect
<1> HIDE DEF rows
<1>4. OutboxKept /\ outbox'[m] = rows /\ \A x \in Machines \ {m} : outbox'[x] = outbox[x]
  BY <1>1, <1>2, <1>3, RestatedKept
<1>5. \A x \in Machines : \A i \in IdsIn(x, {"acked"})' : i \in IdsIn(x, {"acked"})
  BY <1>3, <1>4 DEF IdsIn, Restated
<1>6. log' \in Logs /\ Extends(log, log') /\ (Len(log) + 1)..Len(log') = {}
  BY <1>1, <1>2, LogStays
<1>7. Grows
  BY <1>2, <1>4, <1>6 DEF Grows, OutboxKept
<1>8. Typed'
  BY <1>1, <1>2, <1>4 DEF Typed, TypeOK, OutboxKept
<1> QED BY <1>2, <1>4, <1>5, <1>6, <1>7, <1>8 DEF KeepsBooks, OutboxKept

-----------------------------------------------------------------------------
(* ... and the loops' pulls.                                                *)

(* An op of the log carries a row: a file's, with the text it brings.       *)
LEMMA LogRow ==
  ASSUME IInv, NEW k \in DOMAIN log
  PROVE  /\ log[k].origin \in Machines /\ log[k].gid \in Gids
         /\ KindFamily(log[k].kind) = "content"
         /\ RowOf(k).text \in Texts \cup {NoText} /\ RowOf(k).saw \subseteq Texts
         /\ IF log[k].kind = "file.delete" THEN RowOf(k).text = NoText ELSE RowOf(k).text \in Texts
<1>1. TypeOK /\ RowsOK /\ HasRow(outbox, log[k])
  BY DEF IInv, OpsHaveRows
<1>2. log[k] \in LogEntry(Gids, Machines)
  BY <1>1 DEF TypeOK
<1>3. log[k].origin \in Machines /\ log[k].gid \in Gids
  BY <1>2 DEF LogEntry
<1>4. /\ log[k].cseq \in DOMAIN outbox[log[k].origin]
      /\ RowOf(k).kind = log[k].kind
      /\ outbox[log[k].origin] \in Seq(Row)
  BY <1>1, <1>3 DEF HasRow, RowOf, TypeOK
<1>5. RowOf(k) \in Row
  BY <1>4 DEF RowOf
<1>6. RowOf(k).kind \in PushKinds /\ RowOf(k).text \in Texts \cup {NoText}
      /\ RowOf(k).saw \subseteq Texts
  BY <1>5 DEF Row
<1>7. IF log[k].kind = "file.delete" THEN RowOf(k).text = NoText ELSE RowOf(k).text \in Texts
  BY <1>1, <1>3, <1>4 DEF RowsOK, RowOf
<1> QED BY <1>3, <1>4, <1>6, <1>7, ContentOps

\* The part of LoopState where a page is gone through.
PageState == [pc : {"paging", "applying"}, at : Nat, upto : Nat, full : BOOLEAN]

LEMMA PageTurns ==
  ASSUME NEW page \in PageState, NEW at \in Nat
  PROVE  LET next == [page EXCEPT !.at = at, !.pc = "paging"] IN
         next \in PageState /\ next.pc = "paging" /\ next.at = at /\ next.upto = page.upto
BY DEF PageState

(* A loop in a page is at an op of the log, everything before it passed.    *)
LEMMA InPage ==
  ASSUME IInv, NEW l \in Loops, loop[l].pc \in {"paging", "applying"}
  PROVE  /\ loop[l] \in PageState /\ Host[l] \in Machines
         /\ loop[l].at \in Nat /\ loop[l].upto \in Nat
         /\ loop[l].at \in 1..loop[l].upto /\ loop[l].upto <= Len(log)
         /\ loop[l].at \in DOMAIN log
         /\ \A k \in 1..(loop[l].at - 1) : Passed(Host[l], k)
<1>1. loop[l] \in LoopState /\ Host[l] \in Machines
  BY LoopsAssumption DEF IInv, TypeOK
<1>2. loop[l] \in PageState
  BY <1>1 DEF LoopState, Idle, Backoff, PageState
<1>3. loop[l].at \in Nat /\ loop[l].upto \in Nat
  BY <1>2 DEF PageState
<1>4. /\ loop[l].at \in 1..loop[l].upto /\ loop[l].upto <= Len(log)
      /\ \A k \in 1..(loop[l].at - 1) : Passed(Host[l], k)
  BY DEF IInv, LoopInv
<1>5. Len(log) \in Nat /\ DOMAIN log = 1..Len(log)
  BY DEF IInv, TypeOK
<1> QED BY <1>1, <1>2, <1>3, <1>4, <1>5

(* Moving the cursor up to where everything is passed.                      *)
LEMMA CursorAdvanced ==
  ASSUME IInv, Grows, log' = log, NEW m \in Machines, NEW upto \in Nat, upto <= Len(log),
         \A k \in 1..upto : Passed(m, k)', AdvanceCursor(m, upto)
  PROVE  /\ cursor' \in [Machines -> Nat]
         /\ \A x \in Machines :
              \/ cursor'[x] = cursor[x]
              \/ cursor'[x] <= Len(log') /\ \A k \in 1..cursor'[x] : Passed(x, k)'
<1> DEFINE to == Max({cursor[m], upto})
<1>1. cursor \in [Machines -> Nat] /\ cursor[m] \in Nat
  BY DEF IInv, TypeOK
<1>2. to = cursor[m] \/ to = upto
  BY <1>1, MaxOfTwo
<1>3. cursor' = [cursor EXCEPT ![m] = to]
  BY <1>1 DEF AdvanceCursor
<1> HIDE DEF to
<1>4. /\ cursor'[m] = to /\ cursor' \in [Machines -> Nat]
      /\ \A x \in Machines \ {m} : cursor'[x] = cursor[x]
  BY <1>1, <1>2, <1>3
<1> QED BY <1>2, <1>4

(* The row of the page the loop is at is passed: on to the next, or the     *)
(* page is done and the cursor moves.                                       *)
LEMMA RowDoneCorrect ==
  ASSUME IInv, Grows, log' = log, NEW l \in Loops, loop[l].pc \in {"paging", "applying"},
         NEW at, at = loop[l].at, Passed(Host[l], at)', RowDone(l)
  PROVE  /\ loop' \in [Loops -> LoopState] /\ \A k \in Loops \ {l} : loop'[k] = loop[k]
         /\ LoopInv(l)'
         /\ cursor' \in [Machines -> Nat]
         /\ \A x \in Machines :
              \/ cursor'[x] = cursor[x]
              \/ cursor'[x] <= Len(log') /\ \A k \in 1..cursor'[x] : Passed(x, k)'
<1> DEFINE m == Host[l]
           upto == loop[l].upto
<1>1. /\ loop[l] \in PageState /\ m \in Machines
      /\ at \in Nat /\ upto \in Nat /\ at \in 1..upto /\ upto <= Len(log)
      /\ at \in DOMAIN log
      /\ \A k \in 1..(at - 1) : Passed(m, k)
  BY InPage
<1>2. Len(log) \in Nat /\ DOMAIN log = 1..Len(log) /\ loop \in [Loops -> LoopState]
      /\ cursor \in [Machines -> Nat]
  BY DEF IInv, TypeOK
<1>3. \A k \in DOMAIN log : Passed(m, k) => Passed(m, k)'
  BY <1>1, PassedAfter
<1>4. \A k \in 1..at : Passed(m, k)'
  <2> SUFFICES ASSUME NEW k \in 1..at PROVE Passed(m, k)'
    OBVIOUS
  <2>1. CASE k = at
    BY <2>1
  <2>2. CASE k # at
    <3>1. k \in 1..(at - 1) /\ k \in DOMAIN log
      BY <1>1, <1>2, <2>2
    <3> QED BY <1>1, <1>3, <3>1
  <2> QED BY <2>1, <2>2
<1> HIDE DEF upto
<1>5. CASE at = upto
  <2> DEFINE s == IF loop[l].full THEN ToPull(upto) ELSE Idle
  <2>1. loop' = [loop EXCEPT ![l] = s] /\ AdvanceCursor(m, upto)
    BY <1>2, <1>5 DEF RowDone, upto
  <2>2. /\ s \in LoopState
        /\ s.pc = "idle" \/ (s.pc = "pull" /\ s.since = upto)
    BY <1>1, LoopPlaces
  <2> HIDE DEF s
  <2>3. loop'[l] = s /\ loop' \in [Loops -> LoopState] /\ \A k \in Loops \ {l} : loop'[k] = loop[k]
    BY <1>2, <2>1, <2>2
  <2>4. LoopInv(l)'
    BY <1>1, <1>4, <1>5, <2>2, <2>3 DEF LoopInv
  <2>5. /\ cursor' \in [Machines -> Nat]
        /\ \A x \in Machines :
             \/ cursor'[x] = cursor[x]
             \/ cursor'[x] <= Len(log') /\ \A k \in 1..cursor'[x] : Passed(x, k)'
    BY <1>1, <1>4, <1>5, <2>1, CursorAdvanced
  <2> QED BY <2>3, <2>4, <2>5
<1>6. CASE at # upto
  <2> DEFINE s == [loop[l] EXCEPT !.at = at + 1, !.pc = "paging"]
  <2>1. loop' = [loop EXCEPT ![l] = s] /\ cursor' = cursor
    BY <1>2, <1>6 DEF RowDone, upto
  <2>2. s \in PageState /\ s.pc = "paging" /\ s.at = at + 1 /\ s.upto = upto
    <3>1. at + 1 \in Nat
      BY <1>1
    <3> QED BY <1>1, <3>1, PageTurns DEF upto
  <2>3. s \in LoopState
    BY <2>2 DEF LoopState, PageState
  <2> HIDE DEF s
  <2>4. loop'[l] = s /\ loop' \in [Loops -> LoopState] /\ \A k \in Loops \ {l} : loop'[k] = loop[k]
    BY <1>2, <2>1, <2>3
  <2>5. at + 1 \in 1..upto /\ (at + 1) - 1 = at
    BY <1>1, <1>6
  <2>6. LoopInv(l)'
    BY <1>1, <1>4, <2>2, <2>4, <2>5 DEF LoopInv
  <2> QED BY <1>2, <2>1, <2>4, <2>6
<1> QED BY <1>5, <1>6

(* What a step that is done with a row of the page has to do besides.       *)
LEMMA PageStepKeepsBooks ==
  ASSUME IInv, NEW l \in Loops, loop[l].pc \in {"paging", "applying"},
         RecordPulled(l), RowDone(l), UNCHANGED <<log, outbox, net>>, faults' \in 0..MaxFaults,
         files' \in [Machines -> [Gids -> Texts \cup {NoText}]],
         lost' \in [Machines -> SUBSET Gids],
         fork' \in [Machines -> [Gids -> [remote : Texts, mine : Texts] \cup {NoFork}]],
         copies' \in [Machines -> SUBSET Texts],
         skipped' \in [Machines -> SUBSET (1..Len(log))],
         seen' \in [Machines -> SUBSET Texts],
         \A x \in Machines : seen[x] \subseteq seen'[x] /\ skipped[x] \subseteq skipped'[x],
         NEW at, at = loop[l].at, Passed(Host[l], at)'
  PROVE  KeepsBooks
<1>1. TypeOK /\ RowsOK
  BY DEF IInv
<1>2. OutboxKept /\ \A x \in Machines : IdsIn(x, {"acked"})' = IdsIn(x, {"acked"})
  BY <1>1, OutboxStays
<1>3. log' \in Logs /\ Extends(log, log') /\ (Len(log) + 1)..Len(log') = {}
  BY <1>1, LogStays
<1>4. Grows
  BY <1>2, <1>3 DEF Grows, OutboxKept
<1>5. /\ loop' \in [Loops -> LoopState] /\ \A k \in Loops \ {l} : loop'[k] = loop[k]
      /\ LoopInv(l)'
      /\ cursor' \in [Machines -> Nat]
      /\ \A x \in Machines :
           \/ cursor'[x] = cursor[x]
           \/ cursor'[x] <= Len(log') /\ \A k \in 1..cursor'[x] : Passed(x, k)'
  BY <1>4, RowDoneCorrect
<1>6. /\ known' \in [Machines -> [Gids -> Nat]]
      /\ \A x \in Machines, h \in Gids :
           known'[x][h] = known[x][h] \/ known'[x][h] <= VersionAt(log', h, "content", Len(log'))
  <2> DEFINE g == log[at].gid
             v == VersionAt(log, g, "content", at)
  <2>1. /\ Host[l] \in Machines /\ at \in DOMAIN log /\ at \in Nat
        /\ at <= Len(log)
    BY <1>1, InPage DEF TypeOK
  <2>2. g \in Gids /\ KindFamily(log[at].kind) = "content"
    BY <2>1, LogRow
  <2>3. RecordVersion(Host[l], g, v)
    BY <2>2 DEF RecordPulled, At
  <2>4. v \in Nat /\ v <= VersionAt(log, g, "content", Len(log))
    <3>1. log \in Logs /\ Extends(log, log) /\ Len(log) \in Nat
      BY <1>3 DEF Logs
    <3> HIDE DEF g
    <3> QED BY <2>1, <3>1, VersionGrows
  <2> HIDE DEF g, v
  <2> QED BY <1>1, <2>1, <2>2, <2>3, <2>4, VersionRecorded
<1>7. Typed'
  BY <1>1, <1>2, <1>5, <1>6 DEF Typed, TypeOK, OutboxKept
<1> QED BY <1>2, <1>3, <1>4, <1>5, <1>6, <1>7 DEF KeepsBooks, OutboxKept

(* Own ops and lost deletes are passed by reading them.                     *)
LEMMA SkipOwnKeepsBooks ==
  ASSUME IInv, NEW l \in Loops, SkipOwn(l)
  PROVE  KeepsBooks
<1>0. PICK at : at = loop[l].at
  OBVIOUS
<1>1. TypeOK
  BY DEF IInv
<1>2. /\ loop[l].pc = "paging" /\ (Own(l) \/ LostDelete(l))
      /\ RecordPulled(l) /\ RowDone(l)
      /\ UNCHANGED <<log, files, outbox, lost, fork, copies, skipped, net, faults, seen>>
  BY DEF SkipOwn, Handling
<1>3. at \in DOMAIN log
  BY <1>0, <1>2, InPage
<1>4. log[at].origin = Host[l] \/ RowOf(at).text = NoText
  BY <1>0, <1>2, <1>3, LogRow DEF Own, LostDelete, At
<1>5. Passed(Host[l], at)'
  BY <1>2, <1>4 DEF Passed, RowOf
<1> QED BY <1>0, <1>1, <1>2, <1>5, PageStepKeepsBooks DEF TypeOK

(* The user is shown the text, applied or as a conflict copy.               *)
LEMMA ShownIsPassed ==
  ASSUME IInv, NEW m \in Machines, NEW k \in DOMAIN log, UNCHANGED <<log, outbox>>,
         seen' = [seen EXCEPT ![m] = Shown(m, k)]
  PROVE  /\ seen' \in [Machines -> SUBSET Texts]
         /\ \A x \in Machines : seen[x] \subseteq seen'[x]
         /\ Passed(m, k)'
<1>1. seen \in [Machines -> SUBSET Texts]
  BY DEF IInv, TypeOK
<1>2. RowOf(k).text \in Texts \cup {NoText} /\ RowOf(k).saw \subseteq Texts
  BY LogRow
<1> HIDE DEF Texts
<1>3. Shown(m, k) \subseteq Texts /\ seen[m] \subseteq Shown(m, k)
      /\ RowOf(k).text \in Shown(m, k) \cup {NoText}
  BY <1>1, <1>2 DEF Shown
<1>4. seen'[m] = Shown(m, k) /\ \A x \in Machines \ {m} : seen'[x] = seen[x]
  BY <1>1
<1>5. seen' \in [Machines -> SUBSET Texts] /\ \A x \in Machines : seen[x] \subseteq seen'[x]
  BY <1>1, <1>3, <1>4
<1>6. Passed(m, k)'
  BY <1>3, <1>4 DEF Passed, RowOf
<1> QED BY <1>5, <1>6

LEMMA ForkKeepsBooks ==
  ASSUME IInv, NEW l \in Loops, Fork(l)
  PROVE  KeepsBooks
<1>0. PICK at : at = loop[l].at
  OBVIOUS
<1> DEFINE m == Host[l]
           g == log[at].gid
<1>1. TypeOK
  BY DEF IInv
<1>2. /\ loop[l].pc = "paging" /\ ShouldFork(m, at)
      /\ fork' = [fork EXCEPT ![m][g] = [remote |-> RowOf(at).text, mine |-> files[m][g]]]
      /\ copies' = [copies EXCEPT ![m] = @ \cup {RowOf(at).text}]
      /\ lost' = [lost EXCEPT ![m] = @ \ {g}]
      /\ seen' = [seen EXCEPT ![m] = Shown(m, at)]
      /\ RecordPulled(l) /\ RowDone(l)
      /\ UNCHANGED <<log, files, outbox, skipped, net, faults>>
  BY <1>0 DEF Fork, Handling
<1>3. m \in Machines /\ at \in DOMAIN log
  BY <1>0, <1>2, InPage
<1> HIDE DEF m
<1>4. g \in Gids /\ RowOf(at).text \in Texts
  BY <1>2, <1>3, LogRow DEF ShouldFork
<1>5. files[m][g] \in Texts
  BY <1>1, <1>2, <1>3, <1>4 DEF TypeOK, ShouldFork
<1> DEFINE conflict == [remote |-> RowOf(at).text, mine |-> files[m][g]]
<1>6. conflict \in [remote : Texts, mine : Texts]
  BY <1>4, <1>5
<1> HIDE DEF conflict, g, Texts
<1>7. /\ fork' \in [Machines -> [Gids -> [remote : Texts, mine : Texts] \cup {NoFork}]]
      /\ lost' \in [Machines -> SUBSET Gids]
      /\ copies' \in [Machines -> SUBSET Texts]
  <2>1. fork' = [fork EXCEPT ![m][g] = conflict]
    BY <1>2 DEF conflict, g
  <2>2. /\ fork \in [Machines -> [Gids -> [remote : Texts, mine : Texts] \cup {NoFork}]]
        /\ lost \in [Machines -> SUBSET Gids]
        /\ copies \in [Machines -> SUBSET Texts]
    BY <1>1 DEF TypeOK
  <2>3. fork' \in [Machines -> [Gids -> [remote : Texts, mine : Texts] \cup {NoFork}]]
    BY <1>3, <1>4, <1>6, <2>1, <2>2
  <2> QED BY <1>2, <1>3, <1>4, <2>2, <2>3
<1>8. /\ seen' \in [Machines -> SUBSET Texts]
      /\ \A x \in Machines : seen[x] \subseteq seen'[x]
      /\ Passed(m, at)'
  BY <1>2, <1>3, ShownIsPassed
<1> QED BY <1>0, <1>1, <1>2, <1>7, <1>8, PageStepKeepsBooks DEF TypeOK, m

LEMMA ApplyKeepsBooks ==
  ASSUME IInv, NEW l \in Loops, Apply(l)
  PROVE  KeepsBooks
<1>0. PICK at : at = loop[l].at
  OBVIOUS
<1> DEFINE m == Host[l]
           g == log[at].gid
<1>1. TypeOK
  BY DEF IInv
<1>2. /\ loop[l].pc = "applying"
      /\ files' = [files EXCEPT ![m][g] = RowOf(at).text]
      /\ lost' = IF log[at].kind = "file.delete" THEN lost ELSE [lost EXCEPT ![m] = @ \ {g}]
      /\ seen' = [seen EXCEPT ![m] = Shown(m, at)]
      /\ RecordPulled(l) /\ RowDone(l)
      /\ UNCHANGED <<log, outbox, fork, copies, skipped, net, faults>>
  BY <1>0 DEF Apply
<1>3. m \in Machines /\ at \in DOMAIN log
  BY <1>0, <1>2, InPage
<1> HIDE DEF m
<1>4. g \in Gids /\ RowOf(at).text \in Texts \cup {NoText}
  BY <1>3, LogRow
<1> HIDE DEF g, Texts
<1>5. /\ files' \in [Machines -> [Gids -> Texts \cup {NoText}]]
      /\ lost' \in [Machines -> SUBSET Gids]
  <2>1. files \in [Machines -> [Gids -> Texts \cup {NoText}]] /\ lost \in [Machines -> SUBSET Gids]
    BY <1>1 DEF TypeOK
  <2> QED BY <1>2, <1>3, <1>4, <2>1 DEF g
<1>6. /\ seen' \in [Machines -> SUBSET Texts]
      /\ \A x \in Machines : seen[x] \subseteq seen'[x]
      /\ Passed(m, at)'
  BY <1>2, <1>3, ShownIsPassed
<1> QED BY <1>0, <1>1, <1>2, <1>5, <1>6, PageStepKeepsBooks DEF TypeOK, m

LEMMA SkipOpKeepsBooks ==
  ASSUME IInv, NEW l \in Loops, SkipOp(l)
  PROVE  KeepsBooks
<1>0. PICK at : at = loop[l].at
  OBVIOUS
<1> DEFINE m == Host[l]
<1>1. TypeOK
  BY DEF IInv
<1>2. /\ loop[l].pc \in {"paging", "applying"}
      /\ Fault("unappliable")
      /\ skipped' = [skipped EXCEPT ![m] = @ \cup {at}]
      /\ RecordPulled(l) /\ RowDone(l)
      /\ UNCHANGED <<log, files, outbox, lost, fork, copies, net, seen>>
  BY <1>0 DEF SkipOp, Foreign
<1>3. m \in Machines /\ at \in DOMAIN log
  BY <1>0, <1>2, InPage
<1> HIDE DEF m
<1>4. skipped \in [Machines -> SUBSET (1..Len(log))] /\ DOMAIN log = 1..Len(log)
  BY <1>1 DEF TypeOK
<1>5. /\ skipped' \in [Machines -> SUBSET (1..Len(log))]
      /\ \A x \in Machines : skipped[x] \subseteq skipped'[x]
      /\ at \in skipped'[m]
  BY <1>2, <1>3, <1>4
<1>6. Passed(m, at)'
  BY <1>5 DEF Passed
<1>7. faults' \in 0..MaxFaults
  BY <1>1, <1>2, FaultCounted
<1> QED BY <1>0, <1>1, <1>2, <1>5, <1>6, <1>7, PageStepKeepsBooks DEF TypeOK, m

(* A page that fails ends before the op it failed at.                       *)
LEMMA FailedApplyKeepsBooks ==
  ASSUME IInv, NEW l \in Loops, FailedApply(l)
  PROVE  KeepsBooks
<1>0. PICK at : at = loop[l].at
  OBVIOUS
<1> DEFINE m == Host[l]
<1>1. TypeOK /\ RowsOK
  BY DEF IInv
<1>2. /\ loop[l].pc \in {"paging", "applying"}
      /\ Fault("failed apply")
      /\ AdvanceCursor(m, at - 1)
      /\ loop' = [loop EXCEPT ![l] = Idle]
      /\ UNCHANGED <<log, files, outbox, known, lost, fork, copies, skipped, net, seen>>
  BY <1>0 DEF FailedApply, Foreign, KeepProgress
<1>3. /\ m \in Machines /\ at \in DOMAIN log /\ at - 1 \in Nat /\ at - 1 <= Len(log)
      /\ \A k \in 1..(at - 1) : k \in DOMAIN log /\ Passed(m, k)
  <2>1. /\ m \in Machines /\ at \in DOMAIN log
        /\ \A k \in 1..(at - 1) : Passed(m, k)
    BY <1>0, <1>2, InPage
  <2>2. DOMAIN log = 1..Len(log) /\ Len(log) \in Nat
    BY <1>1 DEF TypeOK
  <2> QED BY <2>1, <2>2
<1>4. OutboxKept /\ \A x \in Machines : IdsIn(x, {"acked"})' = IdsIn(x, {"acked"})
  BY <1>1, <1>2, OutboxStays
<1>5. log' \in Logs /\ Extends(log, log') /\ (Len(log) + 1)..Len(log') = {}
  BY <1>1, <1>2, LogStays
<1>6. Grows
  BY <1>2, <1>4, <1>5 DEF Grows, OutboxKept
<1>7. \A k \in 1..(at - 1) : Passed(m, k)'
  BY <1>3, <1>6, PassedAfter
<1>8. /\ cursor' \in [Machines -> Nat]
      /\ \A x \in Machines :
           \/ cursor'[x] = cursor[x]
           \/ cursor'[x] <= Len(log') /\ \A k \in 1..cursor'[x] : Passed(x, k)'
  <2>1. PICK upto \in Nat : upto = at - 1
    BY <1>3
  <2> QED BY <1>2, <1>3, <1>6, <1>7, <2>1, CursorAdvanced
<1>9. /\ loop'[l] = Idle /\ loop' \in [Loops -> LoopState]
      /\ \A k \in Loops \ {l} : loop'[k] = loop[k]
  <2>1. loop \in [Loops -> LoopState]
    BY <1>1 DEF TypeOK
  <2> QED BY <1>2, <2>1, LoopPlaces
<1>10. LoopInv(l)'
  BY <1>9, LoopPlaces DEF LoopInv
<1>11. Typed'
  <2>1. faults' \in 0..MaxFaults
    BY <1>1, <1>2, FaultCounted
  <2> QED BY <1>1, <1>2, <1>4, <1>8, <1>9, <2>1 DEF Typed, TypeOK, OutboxKept
<1> QED BY <1>2, <1>4, <1>5, <1>6, <1>8, <1>9, <1>10, <1>11 DEF KeepsBooks, OutboxKept

(* A step that only moves one loop keeps the books if it keeps the loop's.  *)
LEMMA LoopMoveKeepsBooks ==
  ASSUME IInv, NEW l \in Loops, NEW s \in LoopState, loop' = [loop EXCEPT ![l] = s],
         UNCHANGED <<log, machineVars, net>>, faults' \in 0..MaxFaults, LoopInv(l)'
  PROVE  KeepsBooks
<1>1. TypeOK /\ RowsOK
  BY DEF IInv
<1>2. OutboxKept /\ \A x \in Machines : IdsIn(x, {"acked"})' = IdsIn(x, {"acked"})
  BY <1>1, OutboxStays DEF machineVars
<1>3. log' \in Logs /\ Extends(log, log') /\ (Len(log) + 1)..Len(log') = {}
  BY <1>1, LogStays
<1>4. Grows
  BY <1>2, <1>3 DEF Grows, OutboxKept, machineVars
<1>5. loop' \in [Loops -> LoopState] /\ \A k \in Loops \ {l} : loop'[k] = loop[k]
  BY <1>1 DEF TypeOK
<1>6. Typed'
  BY <1>1, <1>2, <1>5 DEF Typed, TypeOK, OutboxKept, machineVars
<1> QED BY <1>2, <1>3, <1>4, <1>5, <1>6 DEF KeepsBooks, OutboxKept, machineVars

(* A loop that holds nothing has nothing to bear out.                       *)
LEMMA HoldsNothing ==
  ASSUME IInv, NEW l \in Loops, NEW s \in {Idle, Backoff}, loop' = [loop EXCEPT ![l] = s],
         UNCHANGED <<log, machineVars, net>>, faults' \in 0..MaxFaults
  PROVE  KeepsBooks
<1>1. s \in LoopState /\ s.pc \in {"idle", "backoff"}
  BY LoopPlaces
<1>2. loop'[l] = s
  BY DEF IInv, TypeOK
<1>3. LoopInv(l)'
  BY <1>1, <1>2 DEF LoopInv
<1> QED BY <1>1, <1>3, LoopMoveKeepsBooks

LEMMA IdlingKeepsBooks ==
  ASSUME IInv, NEW l \in Loops, PullLost(l) \/ Restart(l) \/ Wake(l)
  PROVE  KeepsBooks
<1>1. TypeOK
  BY DEF IInv
<1>2. loop' = [loop EXCEPT ![l] = Idle] /\ UNCHANGED <<log, machineVars, net>>
  BY DEF PullLost, Restart, Wake
<1>3. faults' \in 0..MaxFaults
  <2>1. CASE PullLost(l)
    BY <1>1, <2>1, FaultCounted DEF PullLost
  <2>2. CASE Restart(l)
    BY <1>1, <2>2, FaultCounted DEF Restart
  <2>3. CASE Wake(l)
    BY <1>1, <2>3 DEF Wake, TypeOK
  <2> QED BY <2>1, <2>2, <2>3
<1> QED BY <1>2, <1>3, HoldsNothing

(* A fetched page starts where everything is passed.                        *)
LEMMA FetchKeepsBooks ==
  ASSUME IInv, NEW l \in Loops, Fetch(l)
  PROVE  KeepsBooks
<1>0. PICK since : since = loop[l].since
  OBVIOUS
<1> DEFINE m == Host[l]
           upto == PageEnd(since)
<1>1. TypeOK /\ loop[l].pc = "pull" /\ m \in Machines /\ loop[l] \in LoopState /\ LoopInv(l)
  BY LoopsAssumption DEF IInv, TypeOK, Fetch
<1>2. /\ since \in Nat /\ since <= Len(log)
      /\ \A k \in 1..since : Passed(m, k)
      /\ Len(log) \in Nat /\ PageLimit \in Nat \ {0}
  BY <1>0, <1>1, LoopFields, BoundsAssumption DEF LoopInv, TypeOK
<1>3. upto \in Nat /\ since <= upto /\ upto <= Len(log)
  BY <1>2, MinOfTwo DEF PageEnd
<1>4. /\ loop' = [loop EXCEPT ![l] = IF upto = since THEN Idle ELSE Paging(since, upto)]
      /\ UNCHANGED <<log, machineVars, net, faults>>
  BY <1>0 DEF Fetch
<1>5. faults' \in 0..MaxFaults
  BY <1>1, <1>4 DEF TypeOK
<1> HIDE DEF upto
<1>6. CASE upto = since
  BY <1>4, <1>5, <1>6, HoldsNothing
<1>7. CASE upto # since
  <2> DEFINE s == Paging(since, upto)
  <2>1. s \in LoopState /\ s.pc = "paging" /\ s.at = since + 1 /\ s.upto = upto
    BY <1>2, <1>3, LoopPlaces
  <2> HIDE DEF s
  <2>2. loop' = [loop EXCEPT ![l] = s] /\ loop'[l] = s
    BY <1>1, <1>4, <1>7 DEF TypeOK, s
  <2>3. since + 1 \in 1..upto /\ (since + 1) - 1 = since
    BY <1>2, <1>3, <1>7
  <2>4. \A k \in 1..since : Passed(m, k)'
    BY <1>2, <1>4 DEF Passed, RowOf, machineVars
  <2>5. LoopInv(l)'
    BY <1>3, <1>4, <2>1, <2>2, <2>3, <2>4 DEF LoopInv
  <2> QED BY <1>4, <1>5, <2>1, <2>2, <2>5, LoopMoveKeepsBooks
<1> QED BY <1>6, <1>7

LEMMA DecideKeepsBooks ==
  ASSUME IInv, NEW l \in Loops, Decide(l)
  PROVE  KeepsBooks
<1>1. TypeOK /\ loop[l].pc = "paging"
  BY DEF IInv, Decide, Handling
<1>2. /\ loop[l] \in PageState /\ loop[l].at \in 1..loop[l].upto /\ loop[l].upto <= Len(log)
      /\ \A k \in 1..(loop[l].at - 1) : Passed(Host[l], k)
  BY <1>1, InPage
<1> DEFINE s == [loop[l] EXCEPT !.pc = "applying"]
<1>3. s \in PageState /\ s.pc = "applying" /\ s.at = loop[l].at /\ s.upto = loop[l].upto
  BY <1>2 DEF PageState
<1>4. s \in LoopState
  BY <1>3 DEF LoopState, PageState
<1>5. loop' = [loop EXCEPT ![l] = s] /\ UNCHANGED <<log, machineVars, net, faults>>
  BY <1>1 DEF Decide, TypeOK
<1> HIDE DEF s
<1>6. loop'[l] = s /\ faults' \in 0..MaxFaults
  BY <1>1, <1>5 DEF TypeOK
<1>7. \A k \in 1..(loop[l].at - 1) : Passed(Host[l], k)'
  BY <1>2, <1>5 DEF Passed, RowOf, machineVars
<1>8. LoopInv(l)'
  BY <1>2, <1>3, <1>5, <1>6, <1>7 DEF LoopInv
<1> QED BY <1>4, <1>5, <1>6, <1>8, LoopMoveKeepsBooks

-----------------------------------------------------------------------------
(* The theorems.                                                            *)

LEMMA StepKeepsBooks ==
  ASSUME IInv, Next
  PROVE  KeepsBooks
<1>1. CASE UserStep
  BY <1>1, UserStepKeepsBooks
<1>2. ASSUME NEW l \in Loops, LoopStep(l)
      PROVE  KeepsBooks
  BY <1>2, PushKeepsBooks, ServeKeepsBooks, AcknowledgeKeepsBooks, FetchKeepsBooks,
     SkipOwnKeepsBooks, ForkKeepsBooks, DecideKeepsBooks, ApplyKeepsBooks, IdlingKeepsBooks
     DEF LoopStep
<1>3. ASSUME NEW l \in Loops, FaultStep(l)
      PROVE  KeepsBooks
  BY <1>3, LostRequestsKeepBooks, IdlingKeepsBooks, FailedApplyKeepsBooks,
     SkipOpKeepsBooks, TornAckKeepsBooks
     DEF FaultStep
<1>4. CASE ServeLate
  BY <1>4, ServeLateKeepsBooks
<1>5. ASSUME NEW m \in Machines, Elapse(m)
      PROVE  KeepsBooks
  BY <1>5, ElapseKeepsBooks
<1> QED BY <1>1, <1>2, <1>3, <1>4, <1>5 DEF Next

LEMMA InitIInv == Init => IInv
<1> SUFFICES ASSUME Init PROVE IInv
  OBVIOUS
<1> USE DEF Init
<1>1. \A m \in Machines, g \in Gids : VersionAt(log, g, "content", Len(log)) \in Nat
  <2>1. log \in Logs /\ Extends(log, log) /\ Len(log) \in Nat
    BY DEF Logs, Extends
  <2> QED BY <2>1, VersionGrows
<1>2. loop \in [Loops -> LoopState] /\ \A l \in Loops : loop[l].pc = "idle"
  BY LoopPlaces
<1>3. TypeOK
  BY <1>2, BoundsAssumption DEF TypeOK
<1>4. RowsOK
  BY BoundsAssumption DEF RowsOK
<1>5. OpsHaveRows /\ AckedMeansLogged /\ NothingPassedOver
  BY DEF OpsHaveRows, AckedMeansLogged, NothingPassedOver, IdsIn
<1>6. NeverAhead
  BY <1>1 DEF NeverAhead
<1>7. \A l \in Loops : LoopInv(l)
  BY <1>2 DEF LoopInv
<1> QED BY <1>3, <1>4, <1>5, <1>6, <1>7 DEF IInv

LEMMA StepIInv == IInv /\ [Next]_vars => IInv'
<1> SUFFICES ASSUME IInv, [Next]_vars PROVE IInv'
  OBVIOUS
<1>1. CASE Next
  BY <1>1, StepKeepsBooks, BooksKept, Zenon
<1>2. CASE UNCHANGED vars
  BY <1>2 DEF vars, machineVars, IInv, TypeOK, RowsOK, OpsHaveRows, LoopInv, Passed, RowOf,
     AckedMeansLogged, IdsIn, NeverAhead, NothingPassedOver
<1> QED BY <1>1, <1>2

LEMMA SpecIInv == Spec => []IInv
BY InitIInv, StepIInv, PTL DEF Spec

(* Whatever is lost, late, repeated, torn or restarted, and however many    *)
(* loops share a machine's database: a row marked acked is in the relay's   *)
(* log, and no cursor or known version is ahead of it.                      *)
THEOREM SpecLocalFollowsLog == Spec => []LocalFollowsLog
<1>1. IInv => LocalFollowsLog
  BY DEF IInv, LocalFollowsLog
<1> QED BY <1>1, SpecIInv, PTL

(* However pages end, fail, are cut short or read again by two loops: the   *)
(* cursor passes no op that its user was not given and that is not written  *)
(* down as skipped.                                                         *)
THEOREM SpecNothingPassedOver == Spec => []NothingPassedOver
<1>1. IInv => NothingPassedOver
  BY DEF IInv
<1> QED BY <1>1, SpecIInv, PTL

-----------------------------------------------------------------------------
(* The order of a machine's ops.                                            *)

(* A batch in order leaves the log in order.                                *)
LEMMA PostInOrder ==
  ASSUME log \in Logs, LogInOrder, NEW ops \in Seq(Wire), BatchInOrder(log, ops),
         log' = Post(ops).log
  PROVE  LogInOrder'
<1>1. PostedTo(Post(ops), ops, Len(ops))
  BY PostCorrect
<1>2. /\ log' \in Logs /\ Extends(log, log')
      /\ \A k \in (Len(log) + 1)..Len(log') : \E i \in 1..Len(ops) :
           /\ Carries(log'[k], ops[i])
           /\ \A j \in 1..(k - 1) : ~SameRow(log'[j], ops[i])
           /\ \A h \in 1..(i - 1) : \E j \in 1..(k - 1) : SameRow(log'[j], ops[h])
  BY <1>1 DEF PostedTo, Accs
<1>3. /\ Len(log) \in Nat /\ Len(log') \in Nat /\ Len(log) <= Len(log')
      /\ DOMAIN log = 1..Len(log) /\ DOMAIN log' = 1..Len(log')
      /\ \A k \in 1..Len(log) : log'[k] = log[k]
  BY <1>2 DEF Logs, Extends
<1> SUFFICES ASSUME NEW k \in 1..Len(log')
             PROVE  /\ \A j \in 1..(k - 1) : ~SameRow(log'[j], log'[k])
                    /\ \A id \in 1..(log'[k].cseq - 1) : \E j \in 1..(k - 1) :
                         log'[j].origin = log'[k].origin /\ log'[j].cseq = id
  BY <1>3 DEF LogInOrder
<1>4. CASE k \in 1..Len(log)
  <2>1. \A j \in 1..(k - 1) : log'[j] = log[j]
    BY <1>3, <1>4
  <2>2. log'[k] = log[k]
    BY <1>3, <1>4
  <2>3. /\ \A j \in 1..(k - 1) : ~SameRow(log[j], log[k])
        /\ \A id \in 1..(log[k].cseq - 1) :
             \E j \in 1..(k - 1) : log[j].origin = log[k].origin /\ log[j].cseq = id
    BY <1>3, <1>4 DEF LogInOrder
  <2>4. \A j \in 1..(k - 1) : ~SameRow(log'[j], log'[k])
    BY <2>1, <2>2, <2>3
  <2>5. ASSUME NEW id \in 1..(log'[k].cseq - 1)
        PROVE  \E j \in 1..(k - 1) : log'[j].origin = log'[k].origin /\ log'[j].cseq = id
    BY <2>1, <2>2, <2>3
  <2> QED BY <2>4, <2>5
<1>5. CASE k \in (Len(log) + 1)..Len(log')
  <2>1. PICK i \in 1..Len(ops) :
          /\ Carries(log'[k], ops[i])
          /\ \A j \in 1..(k - 1) : ~SameRow(log'[j], ops[i])
          /\ \A h \in 1..(i - 1) : \E j \in 1..(k - 1) : SameRow(log'[j], ops[h])
    BY <1>2, <1>5
  <2>2. log'[k].origin = ops[i].origin /\ log'[k].cseq = ops[i].cseq
    BY <2>1 DEF Carries, SameRow
  <2>3. \A j \in 1..(k - 1) : ~SameRow(log'[j], log'[k])
    BY <2>1, <2>2 DEF SameRow
  <2>4. ASSUME NEW id \in 1..(log'[k].cseq - 1)
        PROVE  \E j \in 1..(k - 1) : log'[j].origin = log'[k].origin /\ log'[j].cseq = id
    <3>1. i \in DOMAIN ops /\ id \in 1..(ops[i].cseq - 1)
      BY <2>2
    <3>2. CASE \E h \in 1..(i - 1) : ops[h].origin = ops[i].origin /\ ops[h].cseq = id
      BY <2>1, <2>2, <3>2 DEF SameRow
    <3>3. CASE FindByClientSeq(log, ops[i].origin, id) # {}
      <4>1. PICK j \in 1..Len(log) : log[j].origin = ops[i].origin /\ log[j].cseq = id
        BY <1>3, <3>3 DEF FindByClientSeq
      <4>2. j \in 1..(k - 1) /\ log'[j] = log[j]
        BY <1>3, <1>5
      <4> QED BY <2>2, <4>1, <4>2
    <3> QED BY <3>1, <3>2, <3>3 DEF BatchInOrder
  <2> QED BY <2>3, <2>4
<1>6. k \in 1..Len(log) \/ k \in (Len(log) + 1)..Len(log')
  BY <1>3
<1> QED BY <1>4, <1>5, <1>6

(* The rows due are in order when all rows not ready are acked.             *)
LEMMA DueInOrder ==
  ASSUME IInv, NEW m \in Machines, IdsIn(m, {"waiting"}) = {}
  PROVE  BatchInOrder(log, WireOps(m, Due(Requeued(m))))
<1> DEFINE queued == Requeued(m)
           ids == Due(queued)
           ops == WireOps(m, ids)
<1>1. outbox[m] \in Seq(Row) /\ AckedMeansLogged /\ "pending" \in Statuses
  BY DEF IInv, TypeOK, Statuses
<1>2. /\ Restated(outbox[m], queued)
      /\ \A i \in DOMAIN outbox[m] :
           queued[i].status = IF i \in IdsIn(m, {"sent"}) THEN "pending" ELSE outbox[m][i].status
  BY <1>1, SetStatusCorrect DEF Requeued
<1> HIDE DEF queued
<1>3. queued \in Seq(Row) /\ DOMAIN queued = DOMAIN outbox[m]
  BY <1>2 DEF Restated
<1>4. /\ ids \in Seq(Ready(queued))
      /\ \A n \in DOMAIN ids : \A i \in Ready(queued) :
           i < ids[n] => \E h \in 1..(n - 1) : ids[h] = i
  BY <1>3, DueCorrect
<1> HIDE DEF ids
<1>5. ids \in Seq(DOMAIN outbox[m])
  <2>1. Ready(queued) \subseteq DOMAIN outbox[m]
    BY <1>3 DEF Ready
  <2> QED BY <1>4, <2>1
<1>6. /\ ops \in Seq(Wire) /\ Len(ops) = Len(ids)
      /\ \A n \in DOMAIN ops : n \in DOMAIN ids /\ ops[n].origin = m /\ ops[n].cseq = ids[n]
  BY <1>1, <1>5, WireOpsCorrect
<1> HIDE DEF ops
<1> SUFFICES ASSUME NEW n \in DOMAIN ops, NEW id \in 1..(ops[n].cseq - 1)
             PROVE  \/ \E h \in 1..(n - 1) : ops[h].origin = ops[n].origin /\ ops[h].cseq = id
                    \/ FindByClientSeq(log, ops[n].origin, id) # {}
  BY DEF BatchInOrder, ops, ids, queued
<1>7. n \in DOMAIN ids /\ ops[n].origin = m /\ ops[n].cseq = ids[n]
      /\ DOMAIN ops = 1..Len(ops) /\ Len(ops) \in Nat
  BY <1>6
<1>8. ids[n] \in DOMAIN outbox[m] /\ DOMAIN outbox[m] = 1..Len(outbox[m]) /\ Len(outbox[m]) \in Nat
  BY <1>1, <1>5, <1>7
<1>9. id \in DOMAIN outbox[m] /\ id < ids[n]
  BY <1>7, <1>8
<1>10. CASE id \in Ready(queued)
  <2>1. PICK h \in 1..(n - 1) : ids[h] = id
    BY <1>4, <1>7, <1>9, <1>10
  <2>2. h \in DOMAIN ops
    BY <1>7
  <2> QED BY <1>6, <1>7, <2>1, <2>2
<1>11. CASE id \notin Ready(queued)
  <2>1. outbox[m][id] \in Row
    BY <1>1, <1>9
  <2>2. outbox[m][id].status \in Statuses
    BY <2>1 DEF Row
  <2>3. queued[id].status \notin {"pending", "failed"}
    BY <1>3, <1>9, <1>11 DEF Ready
  <2>4. outbox[m][id].status \notin {"pending", "failed", "sent", "waiting"}
    BY <1>2, <1>9, <2>3 DEF IdsIn
  <2>5. id \in IdsIn(m, {"acked"})
    BY <1>9, <2>2, <2>4 DEF IdsIn, Statuses
  <2> QED BY <1>1, <1>7, <2>5 DEF AckedMeansLogged
<1> QED BY <1>10, <1>11

\* A step keeps the order if what it serves or sends is in order, and a loop
\* that leaves its backoff, or is in none, leaves no row waiting.
KeepsOrder ==
  /\ \/ log' = log
     \/ \E ops \in Seq(Wire) : BatchInOrder(log, ops) /\ log' = Post(ops).log
  /\ \A ops \in net' :
       ops \in net \/ \E l \in Loops : loop[l].pc = "posting" /\ ops = loop[l].ops
  /\ \A l \in Loops :
       loop'[l] = loop[l] \/ loop'[l].pc # "posting" \/ BatchInOrder(log', loop'[l].ops)
  /\ \A l \in Loops :
       \/ loop'[l].pc = "backoff"
       \/ IdsIn(Host[l], {"waiting"})' = {}
       \/ IdsIn(Host[l], {"waiting"})' \subseteq IdsIn(Host[l], {"waiting"}) /\ loop'[l] = loop[l]

LEMMA OrderKept ==
  ASSUME TypeOK, OrderInv, Grows, KeepsOrder
  PROVE  OrderInv'
<1>1. log \in Logs /\ log' \in Logs /\ Extends(log, log')
  BY DEF TypeOK, Logs, Grows
<1>2. LogInOrder'
  <2>1. CASE log' = log
    BY <2>1 DEF OrderInv, LogInOrder
  <2>2. ASSUME NEW ops \in Seq(Wire), BatchInOrder(log, ops), log' = Post(ops).log
        PROVE  LogInOrder'
    BY <1>1, <2>2, PostInOrder DEF OrderInv
  <2> QED BY <2>1, <2>2 DEF KeepsOrder
<1>3. \A ops : BatchInOrder(log, ops) => BatchInOrder(log', ops)
  <2> SUFFICES ASSUME NEW ops, BatchInOrder(log, ops), NEW n \in DOMAIN ops,
                      NEW id \in 1..(ops[n].cseq - 1)
               PROVE  \/ \E h \in 1..(n - 1) : ops[h].origin = ops[n].origin /\ ops[h].cseq = id
                      \/ FindByClientSeq(log', ops[n].origin, id) # {}
    BY DEF BatchInOrder
  <2>1. FindByClientSeq(log, ops[n].origin, id) \subseteq FindByClientSeq(log', ops[n].origin, id)
    BY <1>1, FoundStays
  <2> QED BY <2>1 DEF BatchInOrder
<1>4. RequestsInOrder'
  <2>1. ASSUME NEW ops \in net'
        PROVE  BatchInOrder(log', ops)
    BY <1>3 DEF KeepsOrder, OrderInv, RequestsInOrder
  <2>2. ASSUME NEW l \in Loops, loop'[l].pc = "posting"
        PROVE  BatchInOrder(log', loop'[l].ops)
    BY <1>3, <2>2 DEF KeepsOrder, OrderInv, RequestsInOrder
  <2> QED BY <2>1, <2>2 DEF RequestsInOrder
<1>5. LoopWaitsToo'
  <2> SUFFICES ASSUME NEW l \in Loops, IdsIn(Host[l], {"waiting"})' # {}
               PROVE  loop'[l].pc = "backoff"
    BY DEF LoopWaitsToo
  <2> QED BY DEF KeepsOrder, OrderInv, LoopWaitsToo
<1> QED BY <1>2, <1>4, <1>5 DEF OrderInv

\* One loop on each machine's database, and no restart: one that comes during
\* the backoff of the tick forgets it, and the loop pushes newer rows past those
\* that wait for next_attempt_at.  A torn ack is no danger to the order.
OneLoopEach == \A l, k \in Loops : Host[l] = Host[k] => l = k
NoRestart == "restart" \notin Faults

(* A step that leaves the relay and the requests alone.                     *)
LEMMA QuietStep ==
  ASSUME UNCHANGED <<log, net>>,
         \A l \in Loops : loop'[l] = loop[l] \/ loop'[l].pc # "posting",
         \A l \in Loops :
           \/ loop'[l].pc = "backoff"
           \/ IdsIn(Host[l], {"waiting"})' = {}
           \/ /\ IdsIn(Host[l], {"waiting"})' \subseteq IdsIn(Host[l], {"waiting"})
              /\ loop'[l] = loop[l]
  PROVE  KeepsOrder
BY DEF KeepsOrder

(* One loop moves, out of any place but its backoff, and no row starts to   *)
(* wait: then no row of the loop's machine waits.                           *)
LEMMA OneLoopMoved ==
  ASSUME IInv, OrderInv, OneLoopEach, NEW l \in Loops, loop[l].pc # "backoff",
         \A k \in Loops \ {l} : loop'[k] = loop[k],
         \A x \in Machines : IdsIn(x, {"waiting"})' \subseteq IdsIn(x, {"waiting"})
  PROVE  \A k \in Loops :
           \/ loop'[k].pc = "backoff"
           \/ IdsIn(Host[k], {"waiting"})' = {}
           \/ /\ IdsIn(Host[k], {"waiting"})' \subseteq IdsIn(Host[k], {"waiting"})
              /\ loop'[k] = loop[k]
<1>1. IdsIn(Host[l], {"waiting"}) = {}
  BY DEF OrderInv, LoopWaitsToo
<1>2. \A k \in Loops : Host[k] \in Machines
  BY LoopsAssumption
<1> QED BY <1>1, <1>2

(* Rows of one machine restated, none of them waiting that was not.         *)
LEMMA WaitingShrinks ==
  ASSUME TypeOK, RowsOK, NEW m \in Machines, NEW rows, Restated(outbox[m], rows),
         outbox' = [outbox EXCEPT ![m] = rows],
         \A i \in DOMAIN outbox[m] : rows[i].status = "waiting" => outbox[m][i].status = "waiting"
  PROVE  \A x \in Machines : IdsIn(x, {"waiting"})' \subseteq IdsIn(x, {"waiting"})
<1>1. outbox'[m] = rows /\ \A x \in Machines \ {m} : outbox'[x] = outbox[x]
  BY RestatedKept
<1> QED BY <1>1 DEF IdsIn, Restated

LEMMA UserKeepsOrder ==
  ASSUME IInv, OrderInv, UserStep
  PROVE  KeepsOrder
<1>1. PICK m \in Machines, g \in Gids :
        \/ Create(m, g)
        \/ Edit(m, g)
        \/ Delete(m, g)
        \/ /\ fork[m][g] # NoFork
           /\ \/ KeepServer(m, g)
              \/ KeepMine(m, g)
              \/ Merge(m, g)
              \/ \E copy \in Gids : KeepBoth(m, g, copy)
  BY DEF UserStep
<1>2. /\ \E h, kind, text : Enqueue(m, h, kind, text)
      /\ UNCHANGED <<log, net, loop>>
  BY <1>1 DEF Create, Edit, Delete, KeepServer, KeepMine, Merge, KeepBoth, Resolve
<1>3. PICK h, kind, text : Enqueue(m, h, kind, text)
  BY <1>2
<1>4. outbox \in [Machines -> Seq(Row)]
  BY DEF IInv, TypeOK
<1> DEFINE row == [gid |-> h, kind |-> kind, text |-> text, status |-> "pending",
                   base |-> IF kind = "file.create" THEN NoBase ELSE known[m][h],
                   saw |-> seen[m]]
<1>5. outbox' = [outbox EXCEPT ![m] = Append(outbox[m], row)] /\ row.status = "pending"
  BY <1>3, <1>4 DEF Enqueue
<1> HIDE DEF row
<1>6. ASSUME NEW x \in Machines
      PROVE  IdsIn(x, {"waiting"})' \subseteq IdsIn(x, {"waiting"})
  <2> SUFFICES ASSUME NEW i \in DOMAIN outbox'[x], outbox'[x][i].status = "waiting"
               PROVE  i \in DOMAIN outbox[x] /\ outbox[x][i].status = "waiting"
    BY DEF IdsIn
  <2>1. outbox[x] \in Seq(Row) /\ DOMAIN outbox[x] = 1..Len(outbox[x]) /\ Len(outbox[x]) \in Nat
    BY <1>4
  <2>2. CASE x = m
    <3>1. /\ outbox'[x] = Append(outbox[x], row)
          /\ DOMAIN outbox'[x] = 1..(Len(outbox[x]) + 1)
          /\ outbox'[x][Len(outbox[x]) + 1] = row
          /\ \A j \in 1..Len(outbox[x]) : outbox'[x][j] = outbox[x][j]
      BY <1>4, <1>5, <2>1, <2>2
    <3>2. i # Len(outbox[x]) + 1
      BY <1>5, <3>1
    <3> QED BY <2>1, <3>1, <3>2
  <2>3. CASE x # m
    BY <1>4, <1>5, <2>3
  <2> QED BY <2>2, <2>3
<1>7. \A l \in Loops : Host[l] \in Machines
  BY LoopsAssumption
<1> QED BY <1>2, <1>6, <1>7, QuietStep

LEMMA PushKeepsOrder ==
  ASSUME IInv, OrderInv, OneLoopEach, NEW l \in Loops, Push(l)
  PROVE  KeepsOrder
<1> DEFINE m == Host[l]
           queued == Requeued(m)
           ids == Due(queued)
           sent == SetStatus(queued, ToSet(ids), "sent")
           ops == WireOps(m, ids)
<1>1. /\ TypeOK /\ RowsOK /\ m \in Machines /\ outbox[m] \in Seq(Row)
      /\ "pending" \in Statuses /\ "sent" \in Statuses
  BY LoopsAssumption DEF IInv, TypeOK, Statuses
<1>2. /\ loop[l].pc = "idle"
      /\ outbox' = [outbox EXCEPT ![m] = sent]
      /\ loop' = [loop EXCEPT ![l] = IF ids = <<>> THEN ToPull(cursor[m]) ELSE Posting(ops)]
      /\ UNCHANGED <<log, net>>
  BY DEF Push
<1>3. /\ Restated(outbox[m], queued)
      /\ \A i \in DOMAIN outbox[m] :
           queued[i].status = IF i \in IdsIn(m, {"sent"}) THEN "pending" ELSE outbox[m][i].status
  BY <1>1, SetStatusCorrect DEF Requeued
<1>4. BatchInOrder(log, ops)
  <2>1. IdsIn(m, {"waiting"}) = {}
    BY <1>2 DEF OrderInv, LoopWaitsToo
  <2> QED BY <1>1, <2>1, DueInOrder
<1> HIDE DEF queued, ids
<1>5. /\ Restated(queued, sent)
      /\ \A i \in DOMAIN queued :
           sent[i].status = IF i \in ToSet(ids) THEN "sent" ELSE queued[i].status
  <2>1. queued \in Seq(Row)
    BY <1>3 DEF Restated
  <2> QED BY <1>1, <2>1, SetStatusCorrect
<1> HIDE DEF sent, ops
<1>6. \A x \in Machines : IdsIn(x, {"waiting"})' \subseteq IdsIn(x, {"waiting"})
  <2>1. Restated(outbox[m], sent)
    BY <1>3, <1>5, RestatedTwice
  <2>2. \A i \in DOMAIN outbox[m] : sent[i].status = "waiting" => outbox[m][i].status = "waiting"
    BY <1>3, <1>5 DEF Restated
  <2> QED BY <1>1, <1>2, <2>1, <2>2, WaitingShrinks
<1>7. /\ \A k \in Loops \ {l} : loop'[k] = loop[k]
      /\ loop'[l] = IF ids = <<>> THEN ToPull(cursor[m]) ELSE Posting(ops)
  BY <1>1, <1>2 DEF TypeOK
<1>8. loop'[l].pc # "posting" \/ loop'[l].ops = ops
  BY <1>7 DEF ToPull, Posting
<1>9. \A k \in Loops :
        loop'[k] = loop[k] \/ loop'[k].pc # "posting" \/ BatchInOrder(log', loop'[k].ops)
  BY <1>2, <1>4, <1>7, <1>8
<1>10. \A k \in Loops :
         \/ loop'[k].pc = "backoff"
         \/ IdsIn(Host[k], {"waiting"})' = {}
         \/ /\ IdsIn(Host[k], {"waiting"})' \subseteq IdsIn(Host[k], {"waiting"})
            /\ loop'[k] = loop[k]
  BY <1>2, <1>6, <1>7, OneLoopMoved
<1> QED BY <1>2, <1>9, <1>10 DEF KeepsOrder

(* A served request is one on its way.                                      *)
LEMMA ServeKeepsOrder ==
  ASSUME IInv, OrderInv, OneLoopEach, NEW l \in Loops, Serve(l)
  PROVE  KeepsOrder
<1> DEFINE ops == loop[l].ops
           s == Answered(Post(ops).answers)
<1>1. /\ loop[l].pc = "posting" /\ log' = Post(ops).log
      /\ loop' = [loop EXCEPT ![l] = s]
      /\ UNCHANGED <<outbox, net>>
  BY DEF Serve, machineVars
<1>2. ops \in Seq(Wire) /\ BatchInOrder(log, ops)
  BY <1>1, PostingRequest DEF Request, OrderInv, RequestsInOrder
<1>3. s.pc = "answered"
  BY DEF Answered
<1> HIDE DEF s, ops
<1>4. loop'[l] = s /\ \A k \in Loops \ {l} : loop'[k] = loop[k]
  BY <1>1 DEF IInv, TypeOK
<1>5. \A x \in Machines : IdsIn(x, {"waiting"})' \subseteq IdsIn(x, {"waiting"})
  BY <1>1 DEF IdsIn
<1>6. \A k \in Loops :
        \/ loop'[k].pc = "backoff"
        \/ IdsIn(Host[k], {"waiting"})' = {}
        \/ /\ IdsIn(Host[k], {"waiting"})' \subseteq IdsIn(Host[k], {"waiting"})
           /\ loop'[k] = loop[k]
  BY <1>1, <1>4, <1>5, OneLoopMoved
<1> QED BY <1>1, <1>2, <1>3, <1>4, <1>6 DEF KeepsOrder

LEMMA ServeLateKeepsOrder ==
  ASSUME IInv, OrderInv, ServeLate
  PROVE  KeepsOrder
<1>1. PICK ops \in net :
        log' = Post(ops).log /\ net' = net \ {ops} /\ UNCHANGED <<outbox, loop>>
  BY DEF ServeLate, machineVars
<1>2. ops \in Seq(Wire) /\ BatchInOrder(log, ops)
  BY DEF IInv, TypeOK, OrderInv, RequestsInOrder
<1>3. \A x : IdsIn(x, {"waiting"})' = IdsIn(x, {"waiting"})
  BY <1>1 DEF IdsIn
<1> QED BY <1>1, <1>2, <1>3 DEF KeepsOrder

LEMMA GiveUpKeepsOrder ==
  ASSUME IInv, OrderInv, OneLoopEach, NEW l \in Loops,
         RequestLost(l) \/ AnswerLost(l) \/ RequestLate(l)
  PROVE  KeepsOrder
<1> DEFINE ops == loop[l].ops
           m == Host[l]
<1>1. /\ loop[l].pc = "posting" /\ GiveUp(l)
      /\ log' = log \/ log' = Post(ops).log
      /\ net' = net \/ net' = net \cup {ops}
  BY DEF RequestLost, AnswerLost, RequestLate
<1>2. ops \in Seq(Wire) /\ BatchInOrder(log, ops)
  BY <1>1, PostingRequest DEF Request, OrderInv, RequestsInOrder
<1>3. /\ loop'[l] = Backoff /\ \A k \in Loops \ {l} : loop'[k] = loop[k]
      /\ \A x \in Machines \ {m} : outbox'[x] = outbox[x]
  BY <1>1 DEF GiveUp, IInv, TypeOK
<1>4. \A k \in Loops \ {l} : Host[k] \in Machines \ {m}
  BY LoopsAssumption DEF OneLoopEach
<1>5. \A k \in Loops \ {l} : IdsIn(Host[k], {"waiting"})' \subseteq IdsIn(Host[k], {"waiting"})
  BY <1>3, <1>4 DEF IdsIn
<1>6. loop'[l].pc = "backoff"
  BY <1>3 DEF Backoff
<1> HIDE DEF ops, m
<1> QED BY <1>1, <1>2, <1>3, <1>5, <1>6 DEF KeepsOrder, ops

(* An answer acks a row, which then waits for nothing.                      *)
LEMMA AckKeepsOrder ==
  ASSUME IInv, OrderInv, OneLoopEach, NEW l \in Loops, Acknowledge(l) \/ TornAck(l)
  PROVE  KeepsOrder
<1> DEFINE m == Host[l]
           a == Head(loop[l].answers)
           acked == SetStatus(outbox[m], {a.cseq}, "acked")
           rest == Tail(loop[l].answers)
           s == IF rest = <<>> THEN ToPull(cursor[m]) ELSE Answered(rest)
<1>1. /\ TypeOK /\ RowsOK /\ m \in Machines /\ outbox[m] \in Seq(Row)
      /\ "acked" \in Statuses
  BY LoopsAssumption DEF IInv, TypeOK, Statuses
<1>2. /\ loop[l].pc = "answered"
      /\ UNCHANGED <<log, net>>
      /\ \/ outbox' = [outbox EXCEPT ![m] = acked]
         \/ outbox' = [outbox EXCEPT ![m] = BumpPendingBases(acked, a.cseq)]
      /\ \E t \in {s, Idle} : loop' = [loop EXCEPT ![l] = t]
  BY <1>1 DEF Acknowledge, TornAck, Bumped, TypeOK
<1>3. /\ Restated(outbox[m], acked)
      /\ \A i \in DOMAIN outbox[m] :
           acked[i].status = IF i \in {a.cseq} THEN "acked" ELSE outbox[m][i].status
  BY <1>1, SetStatusCorrect
<1>4. s.pc # "posting" /\ Idle.pc # "posting"
  BY DEF ToPull, Answered, Idle
<1> HIDE DEF acked, s, a
<1>5. \A x \in Machines : IdsIn(x, {"waiting"})' \subseteq IdsIn(x, {"waiting"})
  <2>1. acked \in Seq(Row) /\ DOMAIN acked = DOMAIN outbox[m]
    BY <1>3 DEF Restated
  <2>2. /\ Restated(acked, BumpPendingBases(acked, a.cseq))
        /\ \A i \in DOMAIN acked : BumpPendingBases(acked, a.cseq)[i].status = acked[i].status
    BY <2>1, BumpCorrect
  <2>3. PICK rows \in {acked, BumpPendingBases(acked, a.cseq)} :
          outbox' = [outbox EXCEPT ![m] = rows]
    BY <1>2
  <2>4. Restated(outbox[m], rows)
    BY <1>3, <2>2, <2>3, RestatedTwice
  <2>5. \A i \in DOMAIN outbox[m] : rows[i].status = "waiting" => outbox[m][i].status = "waiting"
    BY <1>3, <2>1, <2>2, <2>3
  <2> QED BY <1>1, <2>3, <2>4, <2>5, WaitingShrinks
<1>6. /\ loop'[l].pc # "posting"
      /\ \A k \in Loops \ {l} : loop'[k] = loop[k]
  BY <1>1, <1>2, <1>4 DEF TypeOK
<1>7. \A k \in Loops :
        \/ loop'[k].pc = "backoff"
        \/ IdsIn(Host[k], {"waiting"})' = {}
        \/ /\ IdsIn(Host[k], {"waiting"})' \subseteq IdsIn(Host[k], {"waiting"})
           /\ loop'[k] = loop[k]
  BY <1>2, <1>5, <1>6, OneLoopMoved
<1> QED BY <1>2, <1>6, <1>7, QuietStep

(* Reading the log touches no row of the outbox.                            *)
LEMMA PullKeepsOrder ==
  ASSUME IInv, OrderInv, OneLoopEach, NEW l \in Loops,
         \/ Fetch(l) \/ SkipOwn(l) \/ Fork(l) \/ Decide(l) \/ Apply(l)
         \/ PullLost(l) \/ FailedApply(l) \/ SkipOp(l)
  PROVE  KeepsOrder
<1>1. /\ loop[l].pc \in {"pull", "paging", "applying"}
      /\ UNCHANGED <<log, net, outbox>>
  BY DEF Fetch, SkipOwn, Fork, Decide, Apply, PullLost, FailedApply, SkipOp, Handling, Foreign,
     machineVars
<1>2. \E s : s.pc # "posting" /\ loop' = [loop EXCEPT ![l] = s]
  <2>1. CASE Fetch(l)
    BY <2>1 DEF Fetch, Paging, Idle
  <2>2. CASE PullLost(l) \/ FailedApply(l)
    BY <2>2 DEF PullLost, FailedApply, Idle
  <2>3. ASSUME loop[l].pc \in {"paging", "applying"},
               \/ RowDone(l)
               \/ loop' = [loop EXCEPT ![l].pc = "applying"]
        PROVE  \E s : s.pc # "posting" /\ loop' = [loop EXCEPT ![l] = s]
    <3>1. loop[l] \in PageState /\ loop[l].at \in Nat
      BY <2>3, InPage
    <3> DEFINE turned == [loop[l] EXCEPT !.at = loop[l].at + 1, !.pc = "paging"]
               called == [loop[l] EXCEPT !.pc = "applying"]
    <3>2. turned.pc = "paging" /\ called.pc = "applying"
      BY <3>1 DEF PageState
    <3>3. \/ loop' = [loop EXCEPT ![l] = ToPull(loop[l].upto)]
          \/ loop' = [loop EXCEPT ![l] = Idle]
          \/ loop' = [loop EXCEPT ![l] = turned]
          \/ loop' = [loop EXCEPT ![l] = called]
      BY <2>3 DEF RowDone, IInv, TypeOK
    <3>4. ToPull(loop[l].upto).pc = "pull" /\ Idle.pc = "idle"
      BY DEF ToPull, Idle
    <3> HIDE DEF turned, called
    <3> QED BY <3>2, <3>3, <3>4
  <2> QED BY <2>1, <2>2, <2>3 DEF SkipOwn, Fork, Decide, Apply, SkipOp, Handling, Foreign
<1>3. PICK s : s.pc # "posting" /\ loop' = [loop EXCEPT ![l] = s]
  BY <1>2
<1>4. loop'[l] = s /\ \A k \in Loops \ {l} : loop'[k] = loop[k]
  BY <1>3 DEF IInv, TypeOK
<1>5. \A x \in Machines : IdsIn(x, {"waiting"})' \subseteq IdsIn(x, {"waiting"})
  BY <1>1 DEF IdsIn
<1>6. \A k \in Loops :
        \/ loop'[k].pc = "backoff"
        \/ IdsIn(Host[k], {"waiting"})' = {}
        \/ /\ IdsIn(Host[k], {"waiting"})' \subseteq IdsIn(Host[k], {"waiting"})
           /\ loop'[k] = loop[k]
  BY <1>1, <1>4, <1>5, OneLoopMoved
<1> QED BY <1>1, <1>3, <1>4, <1>6, QuietStep, Zenon

(* A loop wakes when none of its rows waits any more.                       *)
LEMMA WakeKeepsOrder ==
  ASSUME IInv, OrderInv, OneLoopEach, NEW l \in Loops, Wake(l)
  PROVE  KeepsOrder
<1>1. /\ IdsIn(Host[l], {"waiting"}) = {}
      /\ loop' = [loop EXCEPT ![l] = Idle]
      /\ UNCHANGED <<log, net, outbox>>
  BY DEF Wake, machineVars
<1>2. loop'[l] = Idle /\ Idle.pc # "posting" /\ \A k \in Loops \ {l} : loop'[k] = loop[k]
  BY <1>1 DEF IInv, TypeOK, Idle
<1>3. \A x : IdsIn(x, {"waiting"})' = IdsIn(x, {"waiting"})
  BY <1>1 DEF IdsIn
<1> QED BY <1>1, <1>2, <1>3, QuietStep

LEMMA ElapseKeepsOrder ==
  ASSUME IInv, OrderInv, NEW m \in Machines, Elapse(m)
  PROVE  KeepsOrder
<1> DEFINE rows == SetStatus(outbox[m], IdsIn(m, {"waiting"}), "failed")
<1>1. TypeOK /\ RowsOK /\ outbox[m] \in Seq(Row) /\ "failed" \in Statuses
  BY DEF IInv, TypeOK, Statuses
<1>2. outbox' = [outbox EXCEPT ![m] = rows] /\ UNCHANGED <<log, net, loop>>
  BY <1>1 DEF Elapse, TypeOK
<1>3. /\ Restated(outbox[m], rows)
      /\ \A i \in DOMAIN outbox[m] :
           rows[i].status = IF i \in IdsIn(m, {"waiting"}) THEN "failed" ELSE outbox[m][i].status
  BY <1>1, SetStatusCorrect
<1> HIDE DEF rows
<1>4. \A i \in DOMAIN outbox[m] : rows[i].status = "waiting" => outbox[m][i].status = "waiting"
  BY <1>3
<1>5. \A x \in Machines : IdsIn(x, {"waiting"})' \subseteq IdsIn(x, {"waiting"})
  BY <1>1, <1>2, <1>3, <1>4, WaitingShrinks
<1>6. \A l \in Loops : Host[l] \in Machines
  BY LoopsAssumption
<1> QED BY <1>2, <1>5, <1>6, QuietStep

LEMMA StepKeepsOrder ==
  ASSUME NoRestart, OneLoopEach, IInv, OrderInv, Next
  PROVE  KeepsOrder
<1>1. CASE UserStep
  BY <1>1, UserKeepsOrder
<1>2. ASSUME NEW l \in Loops, LoopStep(l)
      PROVE  KeepsOrder
  BY <1>2, PushKeepsOrder, ServeKeepsOrder, AckKeepsOrder, PullKeepsOrder, WakeKeepsOrder
     DEF LoopStep
<1>3. ASSUME NEW l \in Loops, FaultStep(l)
      PROVE  KeepsOrder
  <2>1. ~Restart(l)
    BY DEF NoRestart, Restart, Fault
  <2> QED BY <1>3, <2>1, GiveUpKeepsOrder, PullKeepsOrder, AckKeepsOrder DEF FaultStep
<1>4. CASE ServeLate
  BY <1>4, ServeLateKeepsOrder
<1>5. ASSUME NEW m \in Machines, Elapse(m)
      PROVE  KeepsOrder
  BY <1>5, ElapseKeepsOrder
<1> QED BY <1>1, <1>2, <1>3, <1>4, <1>5 DEF Next

LEMMA StepOrderInv ==
  ASSUME NoRestart, OneLoopEach
  PROVE  IInv /\ OrderInv /\ [Next]_vars => OrderInv'
<1> SUFFICES ASSUME IInv, OrderInv, [Next]_vars PROVE OrderInv'
  OBVIOUS
<1>1. CASE Next
  <2>1. KeepsOrder /\ Grows /\ TypeOK
    BY <1>1, StepKeepsOrder, StepKeepsBooks DEF KeepsBooks, IInv
  <2> QED BY <2>1, OrderKept
<1>2. CASE UNCHANGED vars
  BY <1>2 DEF vars, machineVars, OrderInv, LogInOrder, RequestsInOrder, LoopWaitsToo, IdsIn
<1> QED BY <1>1, <1>2

LEMMA InitOrderInv == Init => OrderInv
BY LoopsAssumption, LoopPlaces
   DEF Init, OrderInv, LogInOrder, RequestsInOrder, LoopWaitsToo, IdsIn

(* Rows logged once, each after the earlier rows of its origin.             *)
LEMMA LoggedInOrder ==
  ASSUME IInv, OrderInv
  PROVE  OwnOrder
<1> SUFFICES ASSUME NEW i \in DOMAIN log, NEW j \in DOMAIN log, i < j,
                    log[i].origin = log[j].origin
             PROVE  log[i].cseq < log[j].cseq
  BY DEF OwnOrder
<1>1. log \in Logs /\ DOMAIN log = 1..Len(log) /\ Len(log) \in Nat /\ LogInOrder
  BY DEF IInv, TypeOK, Logs, OrderInv
<1>2. log[i] \in LogEntry(Gids, Machines) /\ log[j] \in LogEntry(Gids, Machines)
  BY <1>1 DEF Logs
<1>3. log[i].cseq \in Nat /\ log[j].cseq \in Nat
  BY <1>2 DEF LogEntry
<1>4. log[i].cseq # log[j].cseq
  <2>1. i \in 1..(j - 1)
    BY <1>1
  <2> QED BY <1>1, <2>1 DEF LogInOrder, SameRow
<1>5. log[j].cseq # 0
  <2>1. HasRow(outbox, log[j]) /\ log[j].origin \in Machines
    BY <1>2 DEF IInv, OpsHaveRows, LogEntry
  <2>2. outbox[log[j].origin] \in Seq(Row)
    BY <2>1 DEF IInv, TypeOK
  <2> QED BY <2>1, <2>2 DEF HasRow
<1>6. ASSUME log[j].cseq < log[i].cseq
      PROVE  FALSE
  <2>1. log[j].cseq \in 1..(log[i].cseq - 1)
    BY <1>3, <1>5, <1>6
  <2>2. PICK h \in 1..(i - 1) : log[h].origin = log[i].origin /\ log[h].cseq = log[j].cseq
    BY <1>1, <2>1 DEF LogInOrder
  <2>3. h \in 1..(j - 1)
    BY <1>1
  <2> QED BY <1>1, <2>2, <2>3 DEF LogInOrder, SameRow
<1> QED BY <1>3, <1>4, <1>6

(* With one loop to a machine and no restart, whatever is lost, late or     *)
(* repeated, a machine's ops of one file enter the log in the order its     *)
(* user made them.                                                          *)
THEOREM SpecOwnOrder ==
  ASSUME NoRestart, OneLoopEach
  PROVE  Spec => []OwnOrder
<1>1. IInv /\ OrderInv => OwnOrder
  BY LoggedInOrder
<1>2. IInv /\ OrderInv /\ [Next]_vars => OrderInv'
  BY StepOrderInv
<1> QED BY <1>1, <1>2, SpecIInv, InitOrderInv, PTL DEF Spec

-----------------------------------------------------------------------------
(* The bases of accepted ops.                                               *)

(* What the log grows by changes no version it had.                         *)
LEMMA VersionStays ==
  ASSUME NEW l \in Logs, NEW k \in Logs, Extends(l, k), NEW gid, NEW family,
         NEW s \in Nat, s <= Len(l)
  PROVE  VersionAt(k, gid, family, s) = VersionAt(l, gid, family, s)
<1>1. DOMAIN l = 1..Len(l) /\ DOMAIN k = 1..Len(k) /\ Len(l) \in Nat /\ Len(k) \in Nat
  BY DEF Logs
<1>2. AcceptedUpTo(k, gid, family, s) = AcceptedUpTo(l, gid, family, s)
  BY <1>1 DEF AcceptedUpTo, Extends
<1> QED BY <1>2 DEF VersionAt

(* An op counts for its record if it was accepted, and for no other.        *)
LEMMA VersionCounts ==
  ASSUME NEW l \in Logs, NEW s \in Nat, s < Len(l), NEW gid, NEW family
  PROVE  /\ VersionAt(l, gid, family, s) \in Nat
         /\ VersionAt(l, gid, family, s + 1) =
              VersionAt(l, gid, family, s) +
                IF /\ l[s + 1].gid = gid /\ KindFamily(l[s + 1].kind) = family
                   /\ l[s + 1].status = "accepted"
                THEN 1 ELSE 0
<1> DEFINE old == AcceptedUpTo(l, gid, family, s)
           new == AcceptedUpTo(l, gid, family, s + 1)
           counted == /\ l[s + 1].gid = gid /\ KindFamily(l[s + 1].kind) = family
                      /\ l[s + 1].status = "accepted"
<1>1. Len(l) \in Nat /\ DOMAIN l = 1..Len(l)
  BY DEF Logs
<1>2. old \subseteq 1..Len(l) /\ s + 1 \notin old
  BY <1>1 DEF AcceptedUpTo
<1>3. IsFiniteSet(old)
  <2>1. IsFiniteSet(1..Len(l))
    BY <1>1, FS_Interval
  <2> QED BY <1>2, <2>1, FS_Subset
<1>4. s + 1 \in DOMAIN l /\ \A i \in DOMAIN l : i <= s + 1 <=> i <= s \/ i = s + 1
  BY <1>1
<1>5. new = IF counted THEN old \cup {s + 1} ELSE old
  BY <1>4 DEF AcceptedUpTo
<1>6. Cardinality(old) \in Nat /\ Cardinality(old \cup {s + 1}) = Cardinality(old) + 1
  BY <1>2, <1>3, FS_AddElement, FS_CardinalityType
<1> QED BY <1>5, <1>6 DEF VersionAt

(* ... and so does an op appended.                                          *)
LEMMA VersionAppended ==
  ASSUME NEW l \in Logs, NEW e \in LogEntry(Gids, Machines), NEW gid, NEW family
  PROVE  /\ Append(l, e) \in Logs /\ Extends(l, Append(l, e))
         /\ Len(Append(l, e)) = Len(l) + 1 /\ Append(l, e)[Len(l) + 1] = e
         /\ VersionAt(l, gid, family, Len(l)) \in Nat
         /\ VersionAt(Append(l, e), gid, family, Len(l)) = VersionAt(l, gid, family, Len(l))
         /\ VersionAt(Append(l, e), gid, family, Len(l) + 1) =
              VersionAt(l, gid, family, Len(l)) +
                IF e.gid = gid /\ KindFamily(e.kind) = family /\ e.status = "accepted"
                THEN 1 ELSE 0
<1> DEFINE k == Append(l, e)
<1>1. /\ Len(l) \in Nat /\ k \in Logs /\ Len(k) = Len(l) + 1 /\ k[Len(l) + 1] = e
      /\ Extends(l, k)
  BY DEF Logs, Extends
<1> HIDE DEF k
<1>2. VersionAt(k, gid, family, Len(l)) = VersionAt(l, gid, family, Len(l))
  BY <1>1, VersionStays
<1>3. /\ VersionAt(k, gid, family, Len(l)) \in Nat
      /\ VersionAt(k, gid, family, Len(l) + 1) =
           VersionAt(k, gid, family, Len(l)) +
             IF e.gid = gid /\ KindFamily(e.kind) = family /\ e.status = "accepted"
             THEN 1 ELSE 0
  BY <1>1, VersionCounts
<1> QED BY <1>1, <1>2, <1>3 DEF k

(* An op of a row the relay does not have: it is logged, and its answer     *)
(* says what became of it, and the version its record then has.             *)
LEMMA PostOneFresh ==
  ASSUME NEW acc \in Accs, NEW op \in Wire,
         FindByClientSeq(acc.log, op.origin, op.cseq) = {}
  PROVE  LET next == PostOne(acc, op)
             version == VersionAt(acc.log, op.gid, "content", Len(acc.log)) IN
         \/ /\ Stale(op, version) \/ <<op.gid, "content">> \in acc.lost
            /\ next.log = Append(acc.log, Entry(op, "conflict"))
            /\ next.lost = acc.lost \cup {<<op.gid, "content">>}
            /\ next.answers =
                 Append(acc.answers, [cseq |-> op.cseq, status |-> "conflict", version |-> version])
         \/ /\ ~Stale(op, version) /\ <<op.gid, "content">> \notin acc.lost
            /\ next.log = Append(acc.log, Entry(op, "accepted"))
            /\ next.lost = acc.lost
            /\ next.answers =
                 Append(acc.answers,
                        [cseq |-> op.cseq, status |-> "accepted", version |-> version + 1])
<1>1. KindFamily(op.kind) = "content"
  <2>1. op.kind \in PushKinds
    BY DEF Wire
  <2> QED BY <2>1, ContentOps
<1> DEFINE version == VersionAt(acc.log, op.gid, "content", Len(acc.log))
           loses == Stale(op, version) \/ <<op.gid, "content">> \in acc.lost
           refused == [cseq |-> op.cseq, status |-> "conflict", version |-> version]
           taken == [cseq |-> op.cseq, status |-> "accepted", version |-> version + 1]
<1>2. CASE loses
  <2>1. PostOne(acc, op) = [LogLoser(acc, op) EXCEPT !.answers = Append(@, refused)]
    BY <1>1, <1>2 DEF PostOne
  <2> DEFINE l == Append(acc.log, Entry(op, "conflict"))
             losers == acc.lost \cup {<<op.gid, "content">>}
             told == Append(acc.answers, refused)
  <2>2. LogLoser(acc, op) = [acc EXCEPT !.log = l, !.lost = losers]
    BY <1>1 DEF LogLoser
  <2>3. LogLoser(acc, op).answers = acc.answers
    BY <2>2 DEF Accs
  <2>4. PostOne(acc, op) = [[acc EXCEPT !.log = l, !.lost = losers] EXCEPT !.answers = told]
    <3> HIDE DEF refused, l, losers
    <3> QED BY <2>1, <2>2, <2>3 DEF Accs
  <2> HIDE DEF l, losers, told
  <2>5. /\ PostOne(acc, op).log = l /\ PostOne(acc, op).lost = losers
        /\ PostOne(acc, op).answers = told
    BY <2>4 DEF Accs
  <2> QED BY <1>2, <2>5 DEF l, losers, told
<1>3. CASE ~loses
  <2> DEFINE l == Append(acc.log, Entry(op, "accepted"))
             told == Append(acc.answers, taken)
  <2>1. PostOne(acc, op) = [acc EXCEPT !.log = l, !.answers = told]
    BY <1>1, <1>3 DEF PostOne
  <2> HIDE DEF l, told
  <2>2. /\ PostOne(acc, op).log = l /\ PostOne(acc, op).lost = acc.lost
        /\ PostOne(acc, op).answers = told
    BY <2>1 DEF Accs
  <2> QED BY <1>3, <2>2 DEF l, told
<1> QED BY <1>2, <1>3

\* An op accepted with a base was based on the version right before it.
ExactIn(l) ==
  \A k \in 1..Len(l) :
    l[k].status = "accepted" /\ l[k].base # NoBase =>
      l[k].base = VersionAt(l, l[k].gid, "content", k - 1)

OfFile(ops, n, gid) == {k \in 1..n : ops[k].gid = gid}

\* A request for rows the log does not have, no row twice, none of them based on
\* more than the version of its file and the rows of the file before it.
AsksExactly(l, ops) ==
  \A n \in DOMAIN ops :
    /\ FindByClientSeq(l, ops[n].origin, ops[n].cseq) = {}
    /\ \A h \in 1..(n - 1) : ~SameRow(ops[h], ops[n])
    /\ ops[n].base # NoBase =>
         ops[n].base <= VersionAt(l, ops[n].gid, "content", Len(l))
                          + Cardinality(OfFile(ops, n - 1, ops[n].gid))

\* An answer says what became of op k of the log.
Tells(l, a, k) ==
  /\ a.cseq = l[k].cseq /\ a.status = l[k].status
  /\ a.version = VersionAt(l, l[k].gid, "content", k)

\* The relay's verdict on op i of a request, at its place in the log: only an op of
\* a file with a version loses, and one accepted has all those before it behind it.
JudgedInTurn(l, ops, i) ==
  LET g == ops[i].gid
      version == VersionAt(l, g, "content", Len(log) + i - 1) IN
  /\ l[Len(log) + i].base = ops[i].base
  /\ l[Len(log) + i].status = "conflict" => version # 0
  /\ l[Len(log) + i].status = "accepted" =>
       /\ ops[i].base = NoBase => version = 0
       /\ VersionAt(log, g, "content", Len(log)) + Cardinality(OfFile(ops, i - 1, g)) <= version

\* What such a request has come to after n of its ops: each was logged in its
\* turn, and answered so; a file that lost none has a version for each of them.
PostedExactly(acc, ops, n) ==
  /\ PostedTo(acc, ops, n)
  /\ Len(acc.log) = Len(log) + n
  /\ \A i \in 1..n :
       /\ Carries(acc.log[Len(log) + i], ops[i])
       /\ Tells(acc.log, acc.answers[i], Len(log) + i)
       /\ JudgedInTurn(acc.log, ops, i)
  /\ ExactIn(acc.log)
  /\ \A g \in Gids :
       <<g, "content">> \in acc.lost => VersionAt(acc.log, g, "content", Len(acc.log)) # 0
  /\ \A g \in Gids :
       \/ <<g, "content">> \in acc.lost
       \/ VersionAt(log, g, "content", Len(log)) + Cardinality(OfFile(ops, n, g))
            <= VersionAt(acc.log, g, "content", Len(acc.log))

(* The ops of a file among the first of a batch are counted one by one.     *)
LEMMA OfFileCounts ==
  ASSUME NEW ops, NEW n \in Nat, NEW gid
  PROVE  /\ Cardinality(OfFile(ops, n, gid)) \in Nat
         /\ Cardinality(OfFile(ops, n + 1, gid)) =
              Cardinality(OfFile(ops, n, gid)) + IF ops[n + 1].gid = gid THEN 1 ELSE 0
<1>1. OfFile(ops, n, gid) \subseteq 1..n /\ n + 1 \notin OfFile(ops, n, gid)
  BY DEF OfFile
<1>2. IsFiniteSet(OfFile(ops, n, gid))
  <2>1. IsFiniteSet(1..n)
    BY FS_Interval
  <2> QED BY <1>1, <2>1, FS_Subset
<1>3. \A k : k \in 1..(n + 1) <=> k \in 1..n \/ k = n + 1
  OBVIOUS
<1>4. OfFile(ops, n + 1, gid) =
        IF ops[n + 1].gid = gid THEN OfFile(ops, n, gid) \cup {n + 1} ELSE OfFile(ops, n, gid)
  BY <1>3 DEF OfFile
<1> QED BY <1>1, <1>2, <1>4, FS_AddElement, FS_CardinalityType

(* A log grown by one op tells of the ops before it what it told.           *)
LEMMA ToldStays ==
  ASSUME NEW l \in Logs, NEW k \in Logs, Extends(l, k), NEW a, NEW i \in 1..Len(l),
         Tells(l, a, i)
  PROVE  Tells(k, a, i)
<1>1. i \in Nat /\ i <= Len(l) /\ k[i] = l[i]
  BY DEF Logs, Extends
<1> QED BY <1>1, VersionStays DEF Tells

(* Appending an op keeps the bases exact if the op's own is.                *)
LEMMA ExactAppended ==
  ASSUME NEW l \in Logs, NEW e \in LogEntry(Gids, Machines), ExactIn(l),
         e.status = "accepted" /\ e.base # NoBase =>
           e.base = VersionAt(l, e.gid, "content", Len(l))
  PROVE  ExactIn(Append(l, e))
<1> DEFINE next == Append(l, e)
<1>1. /\ next \in Logs /\ Extends(l, next) /\ Len(next) = Len(l) + 1 /\ next[Len(l) + 1] = e
      /\ Len(l) \in Nat
  BY VersionAppended DEF Logs
<1> HIDE DEF next
<1> SUFFICES ASSUME NEW k \in 1..Len(next), next[k].status = "accepted", next[k].base # NoBase
             PROVE  next[k].base = VersionAt(next, next[k].gid, "content", k - 1)
  BY DEF ExactIn, next
<1>2. k - 1 \in Nat /\ k - 1 <= Len(l)
  BY <1>1
<1>3. VersionAt(next, next[k].gid, "content", k - 1) = VersionAt(l, next[k].gid, "content", k - 1)
  BY <1>1, <1>2, VersionStays
<1>4. CASE k \in 1..Len(l)
  <2>1. next[k] = l[k]
    BY <1>1, <1>4 DEF Extends
  <2> QED BY <1>3, <1>4, <2>1 DEF ExactIn
<1>5. CASE k = Len(l) + 1
  BY <1>1, <1>3, <1>5
<1> QED BY <1>1, <1>4, <1>5

LEMMA PostedExactlyNext ==
  ASSUME log \in Logs, NEW ops \in Seq(Wire), AsksExactly(log, ops),
         NEW n \in Nat, n < Len(ops), NEW acc, PostedExactly(acc, ops, n)
  PROVE  PostedExactly(PostOne(acc, ops[n + 1]), ops, n + 1)
<1> DEFINE op == ops[n + 1]
           next == PostOne(acc, op)
           version == VersionAt(acc.log, op.gid, "content", Len(acc.log))
           e(status) == Entry(op, status)
<1>1. /\ acc \in Accs /\ acc.log \in Logs /\ acc.answers \in Seq(Answer) /\ Len(acc.answers) = n
      /\ Extends(log, acc.log) /\ Len(acc.log) = Len(log) + n /\ Len(log) \in Nat
      /\ acc.lost \in SUBSET (Gids \X {"content"}) /\ DOMAIN acc.log = 1..Len(acc.log)
  BY DEF PostedExactly, PostedTo, Accs, Logs
<1>2. op \in Wire /\ n + 1 \in DOMAIN ops /\ (n + 1) - 1 = n
  OBVIOUS
<1>3. op.gid \in Gids /\ op.kind \in PushKinds /\ op.base \in Bases /\ op.origin \in Machines
      /\ op.cseq \in Nat
  BY <1>2 DEF Wire
<1>4. KindFamily(op.kind) = "content" /\ op.kind \in OpKinds
  BY <1>3, ContentOps
<1>5. FindByClientSeq(acc.log, op.origin, op.cseq) = {}
  <2> SUFFICES ASSUME NEW k \in 1..Len(acc.log), SameRow(acc.log[k], op) PROVE FALSE
    <3> HIDE DEF op
    <3> QED BY <1>1 DEF FindByClientSeq, SameRow
  <2>1. CASE k \in 1..Len(log)
    <3>1. log[k] = acc.log[k] /\ k \in DOMAIN log
      BY <1>1, <2>1 DEF Extends, Logs
    <3>2. FindByClientSeq(log, op.origin, op.cseq) = {}
      BY <1>2 DEF AsksExactly
    <3> QED BY <3>1, <3>2 DEF FindByClientSeq, SameRow
  <2>2. CASE k \notin 1..Len(log)
    <3>1. k - Len(log) \in 1..n /\ Len(log) + (k - Len(log)) = k
      BY <1>1, <2>2
    <3> DEFINE i == k - Len(log)
    <3>2. Carries(acc.log[k], ops[i])
      BY <3>1 DEF PostedExactly
    <3> HIDE DEF i
    <3>3. SameRow(ops[i], op)
      BY <3>2 DEF Carries, SameRow
    <3>4. i \in 1..n
      BY <3>1 DEF i
    <3> QED BY <1>2, <3>3, <3>4 DEF AsksExactly
  <2> QED BY <2>1, <2>2
<1>6. PICK status \in {"accepted", "conflict"} :
        /\ next.log = Append(acc.log, e(status))
        /\ next.lost = IF status = "conflict" THEN acc.lost \cup {<<op.gid, "content">>} ELSE acc.lost
        /\ next.answers =
             Append(acc.answers, [cseq |-> op.cseq, status |-> status,
                                  version |-> version + IF status = "accepted" THEN 1 ELSE 0])
        /\ status = "accepted" <=> ~(Stale(op, version) \/ <<op.gid, "content">> \in acc.lost)
  <2>1. version \in Nat
    <3>1. Extends(acc.log, acc.log) /\ Len(acc.log) \in Nat
      BY <1>1 DEF Extends, Logs
    <3> QED BY <1>1, <3>1, VersionGrows
  <2>2. version + 0 = version
    BY <2>1
  <2> QED BY <1>1, <1>2, <1>5, <2>2, PostOneFresh
<1> DEFINE entry == e(status)
           a == [cseq |-> op.cseq, status |-> status,
                 version |-> version + IF status = "accepted" THEN 1 ELSE 0]
<1>7. /\ entry \in LogEntry(Gids, Machines)
      /\ entry.gid = op.gid /\ entry.kind = op.kind /\ entry.status = status
      /\ entry.base = op.base /\ Carries(entry, op)
  BY <1>3, <1>4 DEF Entry, LogEntry, Carries, SameRow
<1>8. a.cseq = op.cseq /\ a.status = status
      /\ a.version = version + IF status = "accepted" THEN 1 ELSE 0
  OBVIOUS
<1> HIDE DEF entry, a, op, next
<1>9. /\ next.log \in Logs /\ Extends(acc.log, next.log) /\ Len(next.log) = Len(acc.log) + 1
      /\ next.log[Len(acc.log) + 1] = entry
      /\ \A g : /\ VersionAt(acc.log, g, "content", Len(acc.log)) \in Nat
                /\ VersionAt(next.log, g, "content", Len(next.log)) =
                     VersionAt(acc.log, g, "content", Len(acc.log)) +
                       IF op.gid = g /\ status = "accepted" THEN 1 ELSE 0
  <2>1. next.log = Append(acc.log, entry)
    BY <1>6 DEF entry
  <2>2. KindFamily(entry.kind) = "content"
    BY <1>4, <1>7
  <2>3. /\ next.log \in Logs /\ Extends(acc.log, next.log) /\ Len(next.log) = Len(acc.log) + 1
        /\ next.log[Len(acc.log) + 1] = entry
    <3>1. PICK l \in Logs : l = acc.log
      BY <1>1
    <3> QED BY <1>7, <2>1, <3>1 DEF Logs, Extends
  <2>4. ASSUME NEW g
        PROVE  /\ VersionAt(acc.log, g, "content", Len(acc.log)) \in Nat
               /\ VersionAt(next.log, g, "content", Len(acc.log) + 1) =
                    VersionAt(acc.log, g, "content", Len(acc.log)) +
                      IF op.gid = g /\ status = "accepted" THEN 1 ELSE 0
    <3>1. PICK l \in Logs : l = acc.log
      BY <1>1
    <3>2. /\ VersionAt(l, g, "content", Len(l)) \in Nat
          /\ VersionAt(Append(l, entry), g, "content", Len(l) + 1) =
               VersionAt(l, g, "content", Len(l)) +
                 IF entry.gid = g /\ KindFamily(entry.kind) = "content" /\ entry.status = "accepted"
                 THEN 1 ELSE 0
      BY <1>7, VersionAppended
    <3> QED BY <1>7, <2>1, <2>2, <3>1, <3>2
  <2> QED BY <2>3, <2>4
<1>10. PostedTo(next, ops, n + 1)
  BY PostedNext DEF PostedExactly, next, op
<1>11. Len(next.log) = Len(log) + (n + 1) /\ Len(acc.log) + 1 = Len(log) + (n + 1)
  BY <1>1, <1>9
<1>12. ASSUME NEW i \in 1..(n + 1)
       PROVE  /\ Carries(next.log[Len(log) + i], ops[i])
              /\ Tells(next.log, next.answers[i], Len(log) + i)
  <2>1. next.answers = Append(acc.answers, a)
    BY <1>6 DEF a
  <2>2. CASE i = n + 1
    <3>1. Len(log) + i = Len(acc.log) + 1 /\ ops[i] = op
      BY <1>1, <2>2 DEF op
    <3>2. next.answers[i] = a
      BY <1>1, <2>1, <2>2
    <3>3. next.log[Len(log) + i] = entry /\ Len(log) + i = Len(next.log)
      BY <1>9, <3>1
    <3>4. Carries(next.log[Len(log) + i], ops[i])
      BY <1>7, <3>1, <3>3
    <3>5. a.cseq = entry.cseq /\ a.status = entry.status
      BY <1>7, <1>8 DEF Carries, SameRow
    <3>6. a.version = VersionAt(next.log, entry.gid, "content", Len(next.log))
      BY <1>7, <1>8, <1>9
    <3> QED BY <3>2, <3>3, <3>4, <3>5, <3>6 DEF Tells
  <2>3. CASE i \in 1..n
    <3>1. Len(log) + i \in 1..Len(acc.log)
      BY <1>1, <2>3
    <3>2. next.answers[i] = acc.answers[i]
      BY <1>1, <2>1, <2>3
    <3>3. next.log[Len(log) + i] = acc.log[Len(log) + i]
      BY <1>9, <3>1 DEF Extends
    <3>4. Carries(acc.log[Len(log) + i], ops[i]) /\ Tells(acc.log, acc.answers[i], Len(log) + i)
      BY <2>3 DEF PostedExactly
    <3>5. Tells(next.log, acc.answers[i], Len(log) + i)
      BY <1>1, <1>9, <3>1, <3>4, ToldStays
    <3> QED BY <3>2, <3>3, <3>4, <3>5
  <2> QED BY <2>2, <2>3
<1>13. ASSUME NEW g \in Gids, <<g, "content">> \notin next.lost
       PROVE  VersionAt(log, g, "content", Len(log)) + Cardinality(OfFile(ops, n + 1, g))
                <= VersionAt(next.log, g, "content", Len(next.log))
  <2>1. <<g, "content">> \notin acc.lost /\ (op.gid = g => status = "accepted")
    BY <1>6, <1>13
  <2>2. VersionAt(log, g, "content", Len(log)) + Cardinality(OfFile(ops, n, g))
          <= VersionAt(acc.log, g, "content", Len(acc.log))
    BY <2>1 DEF PostedExactly
  <2>3. /\ Cardinality(OfFile(ops, n, g)) \in Nat
        /\ Cardinality(OfFile(ops, n + 1, g)) =
             Cardinality(OfFile(ops, n, g)) + IF op.gid = g THEN 1 ELSE 0
    BY OfFileCounts DEF op
  <2>4. VersionAt(log, g, "content", Len(log)) \in Nat
    <3>1. Extends(log, log)
      BY <1>1 DEF Extends
    <3> QED BY <1>1, <3>1, VersionGrows
  <2> QED BY <1>9, <2>1, <2>2, <2>3, <2>4
<1>14. ExactIn(next.log)
  <2>1. ASSUME status = "accepted", op.base # NoBase
        PROVE  op.base = version
    <3>1. op.base \in Nat
      BY <1>3, <2>1 DEF Bases, op
    <3>2. ~(op.base < version)
      BY <1>6, <2>1 DEF Stale
    <3>3. op.base <= VersionAt(log, op.gid, "content", Len(log)) + Cardinality(OfFile(ops, n, op.gid))
      BY <1>2, <2>1 DEF AsksExactly, op
    <3>4. VersionAt(log, op.gid, "content", Len(log)) + Cardinality(OfFile(ops, n, op.gid)) <= version
      BY <1>3, <1>6, <2>1 DEF PostedExactly
    <3>5. version \in Nat /\ Cardinality(OfFile(ops, n, op.gid)) \in Nat
      BY <1>9, OfFileCounts
    <3>6. VersionAt(log, op.gid, "content", Len(log)) \in Nat
      <4>1. Extends(log, log)
        BY <1>1 DEF Extends
      <4> QED BY <1>1, <4>1, VersionGrows
    <3> HIDE DEF version
    <3> QED BY <3>1, <3>2, <3>3, <3>4, <3>5, <3>6
  <2>2. ExactIn(Append(acc.log, entry))
    BY <1>1, <1>7, <2>1, ExactAppended DEF PostedExactly
  <2> QED BY <1>6, <2>2 DEF entry
<1>15. status = "conflict" => version # 0
  <2> SUFFICES ASSUME status = "conflict" PROVE version # 0
    OBVIOUS
  <2>1. Stale(op, version) \/ <<op.gid, "content">> \in acc.lost
    BY <1>6
  <2>2. CASE Stale(op, version)
    <3>1. version \in Nat
      BY <1>9
    <3> QED BY <1>3, <2>2, <3>1 DEF Stale, Bases
  <2>3. CASE <<op.gid, "content">> \in acc.lost
    BY <1>3, <2>3 DEF PostedExactly
  <2> QED BY <2>1, <2>2, <2>3
<1>16. ASSUME NEW i \in 1..(n + 1)
       PROVE  JudgedInTurn(next.log, ops, i)
  <2>1. /\ i - 1 \in 0..n /\ Len(log) + i - 1 \in Nat /\ Len(log) + i - 1 <= Len(acc.log)
        /\ acc.log \in Logs
    BY <1>1
  <2>2. \A g : VersionAt(next.log, g, "content", Len(log) + i - 1) =
                VersionAt(acc.log, g, "content", Len(log) + i - 1)
    BY <1>9, <2>1, VersionStays
  <2>3. CASE i = n + 1
    <3>1. Len(log) + i = Len(acc.log) + 1 /\ Len(log) + i - 1 = Len(acc.log) /\ ops[i] = op
          /\ i - 1 = n
      BY <1>1, <2>3 DEF op
    <3>2. next.log[Len(log) + i] = entry /\ entry.base = op.base /\ entry.status = status
      BY <1>7, <1>9, <3>1
    <3>3. ASSUME status = "accepted"
          PROVE  /\ op.base = NoBase => version = 0
                 /\ VersionAt(log, op.gid, "content", Len(log)) + Cardinality(OfFile(ops, n, op.gid))
                      <= version
      <4>1. <<op.gid, "content">> \notin acc.lost /\ ~Stale(op, version) /\ version \in Nat
        BY <1>6, <1>9, <3>3
      <4> QED BY <1>3, <4>1 DEF PostedExactly, Stale
    <3>4. version = VersionAt(next.log, op.gid, "content", Len(log) + i - 1)
      BY <2>2, <3>1
    <3> QED BY <1>15, <3>1, <3>2, <3>3, <3>4 DEF JudgedInTurn
  <2>4. CASE i \in 1..n
    <3>1. Len(log) + i \in 1..Len(acc.log)
      BY <1>1, <2>4
    <3>2. next.log[Len(log) + i] = acc.log[Len(log) + i]
      BY <1>9, <3>1 DEF Extends
    <3>3. JudgedInTurn(acc.log, ops, i)
      BY <2>4 DEF PostedExactly
    <3> QED BY <2>2, <3>2, <3>3 DEF JudgedInTurn
  <2> QED BY <2>3, <2>4
<1>17. ASSUME NEW g \in Gids, <<g, "content">> \in next.lost
       PROVE  VersionAt(next.log, g, "content", Len(next.log)) # 0
  <2>1. /\ VersionAt(acc.log, g, "content", Len(acc.log)) \in Nat
        /\ VersionAt(next.log, g, "content", Len(next.log)) =
             VersionAt(acc.log, g, "content", Len(acc.log)) +
               IF op.gid = g /\ status = "accepted" THEN 1 ELSE 0
    BY <1>9
  <2>2. VersionAt(acc.log, g, "content", Len(acc.log)) # 0
    <3>1. <<g, "content">> \in acc.lost \/ (op.gid = g /\ status = "conflict")
      BY <1>6, <1>17
    <3> QED BY <1>15, <3>1 DEF PostedExactly
  <2> QED BY <2>1, <2>2
<1>18. PostedExactly(next, ops, n + 1)
  BY <1>10, <1>11, <1>12, <1>13, <1>14, <1>16, <1>17 DEF PostedExactly
<1> QED BY <1>18 DEF next, op

LEMMA PostExactly ==
  ASSUME log \in Logs, ExactIn(log), NEW ops \in Seq(Wire), AsksExactly(log, ops)
  PROVE  PostedExactly(Post(ops), ops, Len(ops))
<1> DEFINE Done == {n \in Nat : n <= Len(ops) => PostedExactly(Posted(ops)[n], ops, n)}
           start == [log |-> log, lost |-> {}, answers |-> <<>>]
<1>1. Len(ops) \in Nat /\ Len(log) \in Nat
  BY DEF Logs
<1>2. \A n \in 0..Len(ops) :
        Posted(ops)[n] = IF n = 0 THEN start ELSE PostOne(Posted(ops)[n - 1], ops[n])
  BY <1>1, PostedUnfolds
<1>3. 0 \in Done
  <2>1. start \in Accs /\ start.log = log /\ start.answers = <<>> /\ start.lost = {}
    <3>1. {} \in SUBSET (Gids \X {"content"}) /\ <<>> \in Seq(Answer)
      OBVIOUS
    <3> QED BY <3>1 DEF Accs
  <2>2. Posted(ops)[0] = start
    <3>1. 0 \in 0..Len(ops)
      BY <1>1
    <3> QED BY <1>2, <3>1
  <2> HIDE DEF start
  <2>3. Extends(log, log) /\ Len(start.answers) = 0 /\ 1..0 = {}
        /\ (Len(log) + 1)..Len(start.log) = {}
    BY <1>1, <2>1 DEF Extends
  <2>4. PostedTo(start, ops, 0)
    BY <2>1, <2>3 DEF PostedTo
  <2>5. ASSUME NEW g \in Gids
        PROVE  VersionAt(log, g, "content", Len(log)) + Cardinality(OfFile(ops, 0, g))
                 <= VersionAt(start.log, g, "content", Len(start.log))
    <3>1. OfFile(ops, 0, g) = {}
      BY <2>3 DEF OfFile
    <3>2. Cardinality(OfFile(ops, 0, g)) = 0
      BY <3>1, FS_EmptySet
    <3>3. VersionAt(log, g, "content", Len(log)) \in Nat
      BY <1>1, <2>3, VersionGrows
    <3> QED BY <2>1, <3>2, <3>3
  <2>6. Len(start.log) = Len(log) + 0
    BY <1>1, <2>1
  <2>7. PostedExactly(start, ops, 0)
    BY <2>1, <2>3, <2>4, <2>5, <2>6 DEF PostedExactly
  <2> QED BY <2>2, <2>7
<1>4. \A n \in Nat : n \in Done => n + 1 \in Done
  <2> SUFFICES ASSUME NEW n \in Nat, n + 1 <= Len(ops), PostedExactly(Posted(ops)[n], ops, n)
               PROVE  PostedExactly(Posted(ops)[n + 1], ops, n + 1)
    BY <1>1
  <2>1. Posted(ops)[n + 1] = PostOne(Posted(ops)[n], ops[n + 1])
    BY <1>1, <1>2
  <2>2. n < Len(ops)
    BY <1>1
  <2> QED BY <2>1, <2>2, PostedExactlyNext
<1>5. Nat \subseteq Done
  <2> HIDE DEF Done
  <2> QED BY <1>3, <1>4, NatSetInduction
<1>6. PostedExactly(Posted(ops)[Len(ops)], ops, Len(ops))
  BY <1>1, <1>5
<1> QED BY <1>6 DEF Post

\* The rows the log does not have, and the versions the machine knows, go back to
\* op p of the log or to an earlier one.
BasedUpTo(m, p) ==
  /\ \A g \in Gids : known[m][g] <= VersionAt(log, g, "content", p)
  /\ \A i \in DOMAIN outbox[m] :
       \/ FindByClientSeq(log, m, i) # {}
       \/ outbox[m][i].base = NoBase
       \/ outbox[m][i].base <= VersionAt(log, outbox[m][i].gid, "content", p)

\* Answers in hand tell of the machine's ops that follow op p.
TellsAfter(m, answers, p) ==
  /\ p + Len(answers) <= Len(log)
  /\ \A n \in DOMAIN answers : log[p + n].origin = m /\ Tells(log, answers[n], p + n)

InHand(m, i) ==
  \E l \in Loops :
    /\ Host[l] = m /\ loop[l].pc = "answered"
    /\ \E n \in DOMAIN loop[l].answers : loop[l].answers[n].cseq = i

\* What makes a machine's bases exact: it has taken in its answers up to some op,
\* and no more of the log; an answer it still holds is all that can keep a row
\* the log has from being acked; and its request asks for no more than that.
MachineInv(m) ==
  /\ \E p \in 0..Len(log) :
       /\ BasedUpTo(m, p)
       /\ \A l \in Loops : Host[l] = m /\ loop[l].pc = "answered" =>
            TellsAfter(m, loop[l].answers, p)
  /\ \A i \in DOMAIN outbox[m] :
       outbox[m][i].status = "acked" \/ FindByClientSeq(log, m, i) = {} \/ InHand(m, i)
  /\ \A l \in Loops : Host[l] = m /\ loop[l].pc = "posting" => AsksExactly(log, loop[l].ops)

BasesInv == net = {} /\ ExactIn(log) /\ \A m \in Machines : MachineInv(m)

\* A step of one machine: the others' rows, versions and loops stay.
StepOf(m) ==
  /\ net' = net
  /\ \A x \in Machines \ {m} : outbox'[x] = outbox[x] /\ known'[x] = known[x]
  /\ \A l \in Loops : Host[l] # m => loop'[l] = loop[l]
  /\ \A k \in (Len(log) + 1)..Len(log') : log'[k].origin = m

(* A step of one machine leaves what the others rely on.                    *)
LEMMA OthersKeepBases ==
  ASSUME IInv, Grows, NEW m \in Machines, StepOf(m), NEW x \in Machines \ {m}, MachineInv(x)
  PROVE  MachineInv(x)'
<1>1. /\ log \in Logs /\ log' \in Logs /\ Extends(log, log')
      /\ Len(log) \in Nat /\ Len(log') \in Nat /\ Len(log) <= Len(log')
      /\ DOMAIN log = 1..Len(log) /\ DOMAIN log' = 1..Len(log')
      /\ \A k \in 1..Len(log) : log'[k] = log[k]
  BY DEF IInv, TypeOK, Grows, Logs, Extends
<1>2. outbox'[x] = outbox[x] /\ known'[x] = known[x]
      /\ \A l \in Loops : Host[l] = x => loop'[l] = loop[l]
  BY DEF StepOf
<1>3. ASSUME NEW i
      PROVE  FindByClientSeq(log', x, i) = FindByClientSeq(log, x, i)
  <2> SUFFICES ASSUME NEW k \in 1..Len(log'), log'[k].origin = x, log'[k].cseq = i
               PROVE  k \in 1..Len(log)
    BY <1>1 DEF FindByClientSeq
  <2> QED BY <1>1 DEF StepOf
<1>4. PICK p \in 0..Len(log) :
        /\ BasedUpTo(x, p)
        /\ \A l \in Loops : Host[l] = x /\ loop[l].pc = "answered" =>
             TellsAfter(x, loop[l].answers, p)
  BY DEF MachineInv
<1>5. \A g : VersionAt(log', g, "content", p) = VersionAt(log, g, "content", p)
  BY <1>1, VersionStays
<1>6. BasedUpTo(x, p)'
  BY <1>2, <1>3, <1>4, <1>5 DEF BasedUpTo
<1>7. ASSUME NEW l \in Loops, Host[l] = x, loop'[l].pc = "answered"
      PROVE  TellsAfter(x, loop[l].answers, p)'
  <2> DEFINE answers == loop[l].answers
  <2>1. loop'[l] = loop[l] /\ TellsAfter(x, answers, p)
    BY <1>2, <1>4, <1>7
  <2>2. answers \in Seq(Answer)
    BY <1>7, <2>1, LoopFields DEF IInv, TypeOK
  <2> HIDE DEF answers
  <2>3. p + Len(answers) <= Len(log')
    BY <1>1, <2>1, <2>2 DEF TellsAfter
  <2>4. ASSUME NEW n \in DOMAIN answers
        PROVE  log'[p + n].origin = x /\ Tells(log', answers[n], p + n)
    <3>1. p + n \in 1..Len(log)
      BY <1>1, <2>1, <2>2 DEF TellsAfter
    <3>2. log[p + n].origin = x /\ Tells(log, answers[n], p + n)
      BY <2>1 DEF TellsAfter
    <3> QED BY <1>1, <3>1, <3>2, ToldStays
  <2> QED BY <2>1, <2>3, <2>4 DEF TellsAfter, answers
<1>8. ASSUME NEW i \in DOMAIN outbox'[x]
      PROVE  outbox'[x][i].status = "acked" \/ FindByClientSeq(log', x, i) = {} \/ InHand(x, i)'
  BY <1>2, <1>3 DEF MachineInv, InHand
<1>9. ASSUME NEW l \in Loops, Host[l] = x, loop'[l].pc = "posting"
      PROVE  AsksExactly(log', loop'[l].ops)
  <2> DEFINE ops == loop[l].ops
  <2>1. loop'[l] = loop[l] /\ AsksExactly(log, ops)
    BY <1>2, <1>9 DEF MachineInv
  <2>2. ops \in Seq(Wire) /\ \A n \in DOMAIN ops : ops[n].origin = x
    BY <1>9, <2>1, PostingRequest DEF Request
  <2> HIDE DEF ops
  <2> SUFFICES ASSUME NEW n \in DOMAIN ops
               PROVE  /\ FindByClientSeq(log', ops[n].origin, ops[n].cseq) = {}
                      /\ ops[n].base # NoBase =>
                           ops[n].base <= VersionAt(log', ops[n].gid, "content", Len(log'))
                                            + Cardinality(OfFile(ops, n - 1, ops[n].gid))
    BY <2>1 DEF AsksExactly, ops
  <2>3. FindByClientSeq(log', ops[n].origin, ops[n].cseq) = {}
    BY <1>3, <2>1, <2>2 DEF AsksExactly
  <2>4. ASSUME ops[n].base # NoBase
        PROVE  ops[n].base <= VersionAt(log', ops[n].gid, "content", Len(log'))
                                + Cardinality(OfFile(ops, n - 1, ops[n].gid))
    <3> DEFINE g == ops[n].gid
    <3>1. /\ VersionAt(log, g, "content", Len(log)) \in Nat
          /\ VersionAt(log', g, "content", Len(log')) \in Nat
          /\ VersionAt(log, g, "content", Len(log)) <= VersionAt(log', g, "content", Len(log'))
      BY <1>1, VersionGrows
    <3>2. Cardinality(OfFile(ops, n - 1, g)) \in Nat
      <4>1. n - 1 \in Nat
        BY <2>2
      <4> QED BY <4>1, OfFileCounts
    <3>3. ops[n].base \in Nat
      <4>1. ops[n] \in Wire
        BY <2>2
      <4> QED BY <2>4, <4>1 DEF Wire, Bases
    <3>4. ops[n].base <= VersionAt(log, g, "content", Len(log))
                           + Cardinality(OfFile(ops, n - 1, g))
      BY <2>1, <2>4 DEF AsksExactly
    <3> HIDE DEF g
    <3>5. ops[n].base <= VersionAt(log', g, "content", Len(log'))
                           + Cardinality(OfFile(ops, n - 1, g))
      BY <3>1, <3>2, <3>3, <3>4
    <3> QED BY <3>5 DEF g
  <2> QED BY <2>3, <2>4
<1>10. p \in 0..Len(log')
  BY <1>1
<1> QED BY <1>6, <1>7, <1>8, <1>9, <1>10 DEF MachineInv

LEMMA StepKeepsBases ==
  ASSUME IInv, BasesInv, Grows, NEW m \in Machines, StepOf(m), ExactIn(log'), MachineInv(m)'
  PROVE  BasesInv'
<1>1. \A x \in Machines \ {m} : MachineInv(x)'
  BY OthersKeepBases DEF BasesInv
<1> QED BY <1>1 DEF BasesInv, StepOf

(* A row is based no later than the end of the log.                         *)
LEMMA BasedUpToEnd ==
  ASSUME IInv, NEW m \in Machines, MachineInv(m), NEW i \in DOMAIN outbox[m],
         FindByClientSeq(log, m, i) = {}, outbox[m][i].base # NoBase
  PROVE  outbox[m][i].base <= VersionAt(log, outbox[m][i].gid, "content", Len(log))
<1> DEFINE row == outbox[m][i]
<1>1. PICK p \in 0..Len(log) : BasedUpTo(m, p)
  BY DEF MachineInv
<1>2. row.base <= VersionAt(log, row.gid, "content", p)
  BY <1>1 DEF BasedUpTo
<1>3. row.base \in Nat
  <2>1. outbox[m] \in Seq(Row)
    BY DEF IInv, TypeOK
  <2>2. row \in Row
    BY <2>1
  <2> HIDE DEF row
  <2>3. row.base \in Bases
    BY <2>2 DEF Row
  <2> QED BY <2>3 DEF Bases, row
<1>4. log \in Logs /\ Extends(log, log) /\ Len(log) \in Nat /\ p \in Nat /\ p <= Len(log)
  BY DEF IInv, TypeOK, Logs, Extends
<1>5. /\ VersionAt(log, row.gid, "content", p) \in Nat
      /\ VersionAt(log, row.gid, "content", Len(log)) \in Nat
      /\ VersionAt(log, row.gid, "content", p) <= VersionAt(log, row.gid, "content", Len(log))
  BY <1>4, VersionGrows
<1> HIDE DEF row
<1>6. row.base <= VersionAt(log, row.gid, "content", Len(log))
  BY <1>2, <1>3, <1>5
<1> QED BY <1>6 DEF row

\* Rows of a machine that keep what they were based on; none leaves "acked".
BasesStay(m) ==
  /\ DOMAIN outbox'[m] = DOMAIN outbox[m]
  /\ \A i \in DOMAIN outbox[m] :
       /\ outbox'[m][i].gid = outbox[m][i].gid
       /\ outbox'[m][i].base = outbox[m][i].base
       /\ outbox[m][i].status = "acked" => outbox'[m][i].status = "acked"

(* A loop with no answers in hand moves, but not to its request: whatever   *)
(* it pulled or gave up, nothing goes past the end of the log.              *)
LEMMA LoopMovesOn ==
  ASSUME IInv, IInv', OneLoopEach, NEW l \in Loops, MachineInv(Host[l]), log' = log,
         loop[l].pc # "answered", loop'[l].pc \notin {"posting", "answered"}, BasesStay(Host[l])
  PROVE  MachineInv(Host[l])'
<1> DEFINE m == Host[l]
<1>1. m \in Machines /\ Len(log) \in Nat
  BY LoopsAssumption DEF IInv, TypeOK
<1>2. \A k \in Loops : Host[k] = m => k = l
  BY DEF OneLoopEach
<1>3. \A i : ~InHand(m, i)
  BY <1>2 DEF InHand
<1>4. BasedUpTo(m, Len(log))'
  <2>1. \A g \in Gids : known'[m][g] <= VersionAt(log', g, "content", Len(log'))
    BY <1>1 DEF IInv, NeverAhead
  <2>2. \A i \in DOMAIN outbox[m] :
          \/ FindByClientSeq(log, m, i) # {}
          \/ outbox[m][i].base = NoBase
          \/ outbox[m][i].base <= VersionAt(log, outbox[m][i].gid, "content", Len(log))
    BY <1>1, BasedUpToEnd
  <2> QED BY <2>1, <2>2 DEF BasedUpTo, BasesStay
<1>5. \A i \in DOMAIN outbox'[m] :
        outbox'[m][i].status = "acked" \/ FindByClientSeq(log', m, i) = {}
  BY <1>3 DEF MachineInv, BasesStay
<1>6. Len(log') \in 0..Len(log')
  BY <1>1
<1> QED BY <1>2, <1>4, <1>5, <1>6 DEF MachineInv

(* The loops stay where they are, rows keep their bases, and a row that is  *)
(* new is based on a version the machine knows.                             *)
LEMMA RowsChange ==
  ASSUME IInv, NEW m \in Machines, MachineInv(m), UNCHANGED <<log, loop, known>>,
         \A i \in DOMAIN outbox'[m] :
           \/ /\ i \in DOMAIN outbox[m]
              /\ outbox'[m][i].gid = outbox[m][i].gid
              /\ outbox'[m][i].base = outbox[m][i].base
              /\ outbox[m][i].status = "acked" => outbox'[m][i].status = "acked"
           \/ /\ FindByClientSeq(log, m, i) = {}
              /\ outbox'[m][i].gid \in Gids
              /\ outbox'[m][i].base \in {NoBase, known[m][outbox'[m][i].gid]}
  PROVE  MachineInv(m)'
<1>1. PICK p \in 0..Len(log) :
        /\ BasedUpTo(m, p)
        /\ \A l \in Loops : Host[l] = m /\ loop[l].pc = "answered" =>
             TellsAfter(m, loop[l].answers, p)
  BY DEF MachineInv
<1>2. BasedUpTo(m, p)'
  BY <1>1 DEF BasedUpTo
<1>3. \A i : InHand(m, i) => InHand(m, i)'
  BY DEF InHand
<1>4. \A i \in DOMAIN outbox'[m] :
        outbox'[m][i].status = "acked" \/ FindByClientSeq(log', m, i) = {} \/ InHand(m, i)'
  BY <1>3 DEF MachineInv
<1> QED BY <1>1, <1>2, <1>4 DEF MachineInv, TellsAfter

(* Setting statuses changes no base, and nothing of what a row's author saw. *)
LEMMA StatusKeepsBases ==
  ASSUME NEW rows \in Seq(Row), NEW ids, NEW status
  PROVE  \A i \in DOMAIN rows :
           /\ SetStatus(rows, ids, status)[i].base = rows[i].base
           /\ SetStatus(rows, ids, status)[i].saw = rows[i].saw
<1> SUFFICES ASSUME NEW i \in DOMAIN rows
             PROVE  /\ SetStatus(rows, ids, status)[i].base = rows[i].base
                    /\ SetStatus(rows, ids, status)[i].saw = rows[i].saw
  OBVIOUS
<1>1. rows[i] \in Row
  OBVIOUS
<1> QED BY <1>1 DEF SetStatus, Row

(* A row the user adds is not in the log, and is based on what is known.    *)
LEMMA UserKeepsBases ==
  ASSUME IInv, BasesInv, UserStep
  PROVE  BasesInv'
<1>1. PICK m \in Machines, g \in Gids :
        \/ Create(m, g)
        \/ Edit(m, g)
        \/ Delete(m, g)
        \/ /\ fork[m][g] # NoFork
           /\ \/ KeepServer(m, g)
              \/ KeepMine(m, g)
              \/ Merge(m, g)
              \/ \E copy \in Gids : KeepBoth(m, g, copy)
  BY DEF UserStep
<1>2. /\ \E h \in Gids : \E kind, text : Enqueue(m, h, kind, text)
      /\ UNCHANGED <<log, net, loop, known>>
  BY <1>1 DEF Create, Edit, Delete, KeepServer, KeepMine, Merge, KeepBoth, Resolve
<1>3a. PICK h \in Gids : \E kind, text : Enqueue(m, h, kind, text)
  BY <1>2
<1>3. PICK kind, text : Enqueue(m, h, kind, text)
  BY <1>3a
<1>4. outbox \in [Machines -> Seq(Row)] /\ Grows /\ Len(log) \in Nat /\ DOMAIN log = 1..Len(log)
  BY UserStepKeepsBooks DEF IInv, TypeOK, KeepsBooks
<1> DEFINE row == [gid |-> h, kind |-> kind, text |-> text, status |-> "pending",
                   base |-> IF kind = "file.create" THEN NoBase ELSE known[m][h],
                   saw |-> seen[m]]
<1>5. /\ outbox' = [outbox EXCEPT ![m] = Append(outbox[m], row)]
      /\ row.gid = h /\ row.base \in {NoBase, known[m][h]}
  BY <1>3, <1>4 DEF Enqueue
<1> HIDE DEF row
<1>6. /\ outbox[m] \in Seq(Row) /\ DOMAIN outbox[m] = 1..Len(outbox[m]) /\ Len(outbox[m]) \in Nat
      /\ outbox'[m] = Append(outbox[m], row)
      /\ \A x \in Machines \ {m} : outbox'[x] = outbox[x]
  BY <1>4, <1>5
<1>7. /\ DOMAIN outbox'[m] = 1..(Len(outbox[m]) + 1)
      /\ outbox'[m][Len(outbox[m]) + 1] = row
      /\ \A i \in 1..Len(outbox[m]) : outbox'[m][i] = outbox[m][i]
  BY <1>6
<1>8. FindByClientSeq(log, m, Len(outbox[m]) + 1) = {}
  <2> SUFFICES ASSUME NEW k \in DOMAIN log, log[k].origin = m,
                      log[k].cseq = Len(outbox[m]) + 1
               PROVE  FALSE
    BY DEF FindByClientSeq
  <2>1. HasRow(outbox, log[k])
    BY DEF IInv, OpsHaveRows
  <2> QED BY <1>6, <2>1 DEF HasRow
<1>9. \A i \in DOMAIN outbox'[m] :
        \/ /\ i \in DOMAIN outbox[m]
           /\ outbox'[m][i].gid = outbox[m][i].gid
           /\ outbox'[m][i].base = outbox[m][i].base
           /\ outbox[m][i].status = "acked" => outbox'[m][i].status = "acked"
        \/ /\ FindByClientSeq(log, m, i) = {}
           /\ outbox'[m][i].gid \in Gids
           /\ outbox'[m][i].base \in {NoBase, known[m][outbox'[m][i].gid]}
  BY <1>5, <1>6, <1>7, <1>8
<1>10. MachineInv(m)'
  BY <1>2, <1>9, RowsChange DEF BasesInv
<1>11. StepOf(m) /\ ExactIn(log')
  BY <1>2, <1>4, <1>6 DEF StepOf, BasesInv
<1> QED BY <1>4, <1>10, <1>11, StepKeepsBases

LEMMA ElapseKeepsBases ==
  ASSUME IInv, BasesInv, NEW m \in Machines, Elapse(m)
  PROVE  BasesInv'
<1> DEFINE rows == SetStatus(outbox[m], IdsIn(m, {"waiting"}), "failed")
<1>1. /\ outbox \in [Machines -> Seq(Row)] /\ "failed" \in Statuses /\ Grows
      /\ Len(log) \in Nat
  BY ElapseKeepsBooks DEF IInv, TypeOK, Statuses, KeepsBooks
<1>2. /\ outbox' = [outbox EXCEPT ![m] = rows]
      /\ UNCHANGED <<log, net, loop, known>>
  BY <1>1 DEF Elapse
<1>3. /\ DOMAIN rows = DOMAIN outbox[m]
      /\ \A i \in DOMAIN outbox[m] :
           /\ rows[i].gid = outbox[m][i].gid /\ rows[i].base = outbox[m][i].base
           /\ outbox[m][i].status = "acked" => rows[i].status = "acked"
  <2>1. /\ Restated(outbox[m], rows)
        /\ \A i \in DOMAIN outbox[m] :
             rows[i].status = IF i \in IdsIn(m, {"waiting"}) THEN "failed" ELSE outbox[m][i].status
    BY <1>1, SetStatusCorrect
  <2>2. \A i \in DOMAIN outbox[m] : rows[i].base = outbox[m][i].base
    BY <1>1, StatusKeepsBases
  <2> HIDE DEF rows
  <2> QED BY <2>1, <2>2 DEF Restated, IdsIn
<1> HIDE DEF rows
<1>4. outbox'[m] = rows /\ \A x \in Machines \ {m} : outbox'[x] = outbox[x]
  BY <1>1, <1>2
<1>5. MachineInv(m)'
  BY <1>2, <1>3, <1>4, RowsChange DEF BasesInv
<1>6. StepOf(m) /\ ExactIn(log')
  BY <1>1, <1>2, <1>4 DEF StepOf, BasesInv
<1> QED BY <1>1, <1>5, <1>6, StepKeepsBases

(* A loop's own step, leaving the log and the requests on their way.        *)
LEMMA LoopStepOf ==
  ASSUME IInv, NEW l \in Loops, UNCHANGED <<log, net>>,
         \A k \in Loops \ {l} : loop'[k] = loop[k],
         \A x \in Machines \ {Host[l]} : outbox'[x] = outbox[x] /\ known'[x] = known[x]
  PROVE  StepOf(Host[l])
<1>1. Len(log) \in Nat
  BY DEF IInv, TypeOK
<1> QED BY <1>1 DEF StepOf

(* Recording a version is a machine's own affair.                           *)
LEMMA RecordsItsOwn ==
  ASSUME IInv, NEW m \in Machines, NEW g, NEW v, RecordVersion(m, g, v)
  PROVE  \A x \in Machines \ {m} : known'[x] = known[x]
BY DEF IInv, TypeOK, RecordVersion

(* Going through the log, or failing to, keeps the bases.                   *)
LEMMA PullKeepsBases ==
  ASSUME IInv, IInv', BasesInv, OneLoopEach, Grows, NEW l \in Loops,
         \/ Fetch(l) \/ SkipOwn(l) \/ Fork(l) \/ Decide(l) \/ Apply(l) \/ Wake(l)
         \/ PullLost(l) \/ FailedApply(l) \/ SkipOp(l)
  PROVE  BasesInv'
<1> DEFINE m == Host[l]
<1>1. m \in Machines /\ TypeOK
  BY LoopsAssumption, Zenon DEF IInv
<1>2. /\ loop[l].pc \in {"pull", "paging", "applying", "backoff"}
      /\ UNCHANGED <<log, net, outbox>>
      /\ known' = known \/ \E g, v : RecordVersion(m, g, v)
  BY DEF Fetch, SkipOwn, Fork, Decide, Apply, Wake, PullLost, FailedApply, SkipOp, Handling,
     Foreign, RecordPulled, machineVars
<1>3. \E s : s.pc \notin {"posting", "answered"} /\ loop' = [loop EXCEPT ![l] = s]
  <2>1. CASE Fetch(l)
    BY <2>1 DEF Fetch, Paging, Idle
  <2>2. CASE PullLost(l) \/ FailedApply(l) \/ Wake(l)
    BY <2>2 DEF PullLost, FailedApply, Wake, Idle
  <2>3. ASSUME loop[l].pc \in {"paging", "applying"},
               \/ RowDone(l)
               \/ loop' = [loop EXCEPT ![l].pc = "applying"]
        PROVE  \E s : s.pc \notin {"posting", "answered"} /\ loop' = [loop EXCEPT ![l] = s]
    <3>1. loop[l] \in PageState /\ loop[l].at \in Nat
      BY <2>3, InPage
    <3> DEFINE turned == [loop[l] EXCEPT !.at = loop[l].at + 1, !.pc = "paging"]
               called == [loop[l] EXCEPT !.pc = "applying"]
    <3>2. turned.pc = "paging" /\ called.pc = "applying"
      BY <3>1 DEF PageState
    <3>3. \/ loop' = [loop EXCEPT ![l] = ToPull(loop[l].upto)]
          \/ loop' = [loop EXCEPT ![l] = Idle]
          \/ loop' = [loop EXCEPT ![l] = turned]
          \/ loop' = [loop EXCEPT ![l] = called]
      BY <1>1, <2>3 DEF RowDone, TypeOK
    <3>4. ToPull(loop[l].upto).pc = "pull" /\ Idle.pc = "idle"
      BY DEF ToPull, Idle
    <3> HIDE DEF turned, called
    <3> QED BY <3>2, <3>3, <3>4
  <2> QED BY <2>1, <2>2, <2>3 DEF SkipOwn, Fork, Decide, Apply, SkipOp, Handling, Foreign
<1>4. PICK s : s.pc \notin {"posting", "answered"} /\ loop' = [loop EXCEPT ![l] = s]
  BY <1>3
<1>5. loop'[l] = s /\ \A k \in Loops \ {l} : loop'[k] = loop[k]
  BY <1>1, <1>4 DEF TypeOK
<1>6. \A x \in Machines \ {m} : outbox'[x] = outbox[x] /\ known'[x] = known[x]
  BY <1>1, <1>2, RecordsItsOwn
<1>7. StepOf(m) /\ ExactIn(log')
  BY <1>2, <1>5, <1>6, LoopStepOf DEF BasesInv
<1>8. BasesStay(m) /\ MachineInv(m)
  BY <1>1, <1>2 DEF BasesStay, BasesInv
<1>9. MachineInv(m)'
  BY <1>2, <1>4, <1>5, <1>8, LoopMovesOn
<1> QED BY <1>1, <1>7, <1>9, StepKeepsBases

(* A batch takes no row twice.                                              *)
LEMMA DueOnce ==
  ASSUME NEW rows \in Seq(Row)
  PROVE  \A n \in DOMAIN Due(rows) : \A h \in 1..(n - 1) : Due(rows)[h] # Due(rows)[n]
<1> DEFINE S == Ready(rows)
           N == Min({Cardinality(S), PushLimit})
           before(i) == Cardinality({j \in S : j < i})
<1>1. DOMAIN rows = 1..Len(rows) /\ Len(rows) \in Nat
  OBVIOUS
<1>2. S \subseteq 1..Len(rows)
  BY <1>1 DEF Ready
<1>3. IsFiniteSet(S)
  <2>1. IsFiniteSet(1..Len(rows))
    BY <1>1, FS_Interval
  <2> QED BY <1>2, <2>1, FS_Subset
<1>4. Cardinality(S) \in Nat /\ S \in SUBSET Nat
  BY <1>2, <1>3, FS_CardinalityType
<1>5. N \in Nat /\ N <= Cardinality(S)
  BY <1>4, BoundsAssumption, MinOfTwo
<1>6. DOMAIN Due(rows) = 1..N /\ \A n \in 1..N : Due(rows)[n] = Nth(S, n)
  BY DEF Due
<1> HIDE DEF N, S
<1>7. ASSUME NEW n \in 1..N
      PROVE  before(Due(rows)[n]) = n - 1
  <2>1. n \in 1..Cardinality(S)
    BY <1>4, <1>5
  <2> QED BY <1>3, <1>4, <1>6, <2>1, NthExists
<1> HIDE DEF before
<1>8. ASSUME NEW n \in 1..N, NEW h \in 1..(n - 1)
      PROVE  Due(rows)[h] # Due(rows)[n]
  <2>1. h \in 1..N /\ h - 1 # n - 1
    BY <1>5
  <2> QED BY <1>7, <2>1
<1> QED BY <1>6, <1>8

(* What a machine has written down goes back to the end of the log at most. *)
LEMMA BasedToEnd ==
  ASSUME IInv, NEW m \in Machines, MachineInv(m)
  PROVE  BasedUpTo(m, Len(log))
BY BasedUpToEnd DEF BasedUpTo, IInv, NeverAhead

(* The base of a row on the wire: its own, and one more for each row of the *)
(* file before it in the batch.                                             *)
LEMMA WireBaseBound ==
  ASSUME IInv, NEW m \in Machines, NEW p \in 0..Len(log), BasedUpTo(m, p),
         NEW ids \in Seq(DOMAIN outbox[m]),
         NEW n \in DOMAIN ids, FindByClientSeq(log, m, ids[n]) = {}
  PROVE  LET ops == WireOps(m, ids) IN
         /\ ops[n].base # NoBase =>
              ops[n].base <= VersionAt(log, ops[n].gid, "content", p)
                               + Cardinality(OfFile(ops, n - 1, ops[n].gid))
         /\ OfFile(ops, n - 1, ops[n].gid) = {} => ops[n].base = outbox[m][ids[n]].base
<1> DEFINE ops == WireOps(m, ids)
           rows == outbox[m]
           row == rows[ids[n]]
           v == VersionAt(log, row.gid, "content", p)
           earlier == Cardinality({k \in 1..(n - 1) : SameRecord(rows, ids[k], ids[n])})
<1>1. rows \in Seq(Row) /\ log \in Logs /\ Len(log) \in Nat /\ Extends(log, log)
  BY DEF IInv, TypeOK, Logs, Extends
<1>2. /\ n \in Nat \ {0} /\ n - 1 \in Nat
      /\ \A k \in 1..n : k \in DOMAIN ids /\ ids[k] \in DOMAIN rows
  OBVIOUS
<1>3. \A k \in 1..n : rows[ids[k]] \in Row
  BY <1>1, <1>2
<1>4. \A k \in 1..n : ops[k].gid = rows[ids[k]].gid
  BY <1>2 DEF WireOps
<1>5. ops[n].gid = row.gid /\ ops[n].base = WireBase(rows, ids, n)
  BY DEF WireOps
<1> HIDE DEF ops, rows
<1>6. earlier = Cardinality(OfFile(ops, n - 1, row.gid))
  <2>1. ASSUME NEW k \in 1..(n - 1)
        PROVE  SameRecord(rows, ids[k], ids[n]) <=> ops[k].gid = row.gid
    <3>1. k \in 1..n /\ n \in 1..n
      BY <1>2
    <3>2. rows[ids[k]].kind \in PushKinds /\ row.kind \in PushKinds
      BY <1>3, <3>1 DEF Row
    <3>3. KindFamily(rows[ids[k]].kind) = "content" /\ KindFamily(row.kind) = "content"
      BY <3>2, ContentOps
    <3> QED BY <1>4, <3>1, <3>3 DEF SameRecord
  <2>2. {k \in 1..(n - 1) : SameRecord(rows, ids[k], ids[n])} = OfFile(ops, n - 1, row.gid)
    BY <2>1 DEF OfFile
  <2> QED BY <2>2
<1>7. earlier \in Nat
  <2>1. n - 1 \in Nat
    BY <1>2
  <2>2. Cardinality(OfFile(ops, n - 1, row.gid)) \in Nat
    BY ONLY <2>1, OfFileCounts, Zenon
  <2> QED BY <1>6, <2>2, Zenon
<1>8. v \in Nat
  <2>1. p \in Nat /\ p <= Len(log)
    BY <1>1
  <2> QED BY <1>1, <2>1, VersionGrows
<1>9. row.base \in Bases
  <2>1. n \in 1..n
    BY <1>2
  <2>2. row \in Row
    BY <1>3, <2>1
  <2> HIDE DEF row
  <2> QED BY <2>2 DEF Row
<1>10. row.base # NoBase => row.base <= v
  BY <1>2 DEF rows, BasedUpTo
<1>11. WireBase(rows, ids, n) =
         IF row.base = NoBase /\ earlier = 0 THEN NoBase
         ELSE (IF row.base = NoBase THEN 0 ELSE row.base) + earlier
  BY DEF WireBase
<1>13. OfFile(ops, n - 1, row.gid) = {} => earlier = 0
  BY <1>6, FS_EmptySet
<1> HIDE DEF v, earlier
<1>14. ASSUME OfFile(ops, n - 1, row.gid) = {}
       PROVE  ops[n].base = row.base
  <2>1. CASE row.base = NoBase
    BY <1>5, <1>11, <1>13, <1>14, <2>1
  <2>2. CASE row.base # NoBase
    <3>1. row.base \in Nat
      BY <1>9, <2>2 DEF Bases
    <3> QED BY <1>5, <1>11, <1>13, <1>14, <2>2, <3>1
  <2> QED BY <2>1, <2>2
<1> HIDE DEF row
<1>12. ASSUME ops[n].base # NoBase
       PROVE  ops[n].base <= v + earlier
  <2>1. ops[n].base = (IF row.base = NoBase THEN 0 ELSE row.base) + earlier
    BY <1>5, <1>11, <1>12
  <2>2. CASE row.base = NoBase
    BY <1>7, <1>8, <2>1, <2>2
  <2>3. CASE row.base # NoBase
    <3>1. row.base \in Nat
      BY <1>9, <2>3 DEF Bases
    <3> QED BY <1>7, <1>8, <1>10, <2>1, <2>3, <3>1
  <2> QED BY <2>2, <2>3
<1> QED BY <1>5, <1>6, <1>12, <1>14 DEF ops, v, row, rows

(* The rows due are none the log has: the batch asks exactly.               *)
LEMMA PushKeepsBases ==
  ASSUME IInv, IInv', BasesInv, OneLoopEach, Grows, NEW l \in Loops, Push(l)
  PROVE  BasesInv'
<1> DEFINE m == Host[l]
           queued == Requeued(m)
           ids == Due(queued)
           sent == SetStatus(queued, ToSet(ids), "sent")
           ops == WireOps(m, ids)
<1>1. /\ TypeOK /\ m \in Machines /\ outbox[m] \in Seq(Row) /\ MachineInv(m)
      /\ "pending" \in Statuses /\ "sent" \in Statuses
  BY LoopsAssumption DEF IInv, TypeOK, Statuses, BasesInv
<1>2. /\ loop[l].pc = "idle"
      /\ outbox' = [outbox EXCEPT ![m] = sent]
      /\ loop' = [loop EXCEPT ![l] = IF ids = <<>> THEN ToPull(cursor[m]) ELSE Posting(ops)]
      /\ UNCHANGED <<log, net, known>>
  BY DEF Push
<1>3. /\ Restated(outbox[m], queued)
      /\ \A i \in DOMAIN outbox[m] :
           /\ queued[i].status = IF i \in IdsIn(m, {"sent"}) THEN "pending" ELSE outbox[m][i].status
           /\ queued[i].base = outbox[m][i].base
  BY <1>1, SetStatusCorrect, StatusKeepsBases DEF Requeued
<1> HIDE DEF queued
<1>4. queued \in Seq(Row) /\ DOMAIN queued = DOMAIN outbox[m]
  BY <1>3 DEF Restated
<1>5. /\ ids \in Seq(Ready(queued))
      /\ \A n \in DOMAIN ids : \A h \in 1..(n - 1) : ids[h] # ids[n]
  BY <1>4, DueCorrect, DueOnce
<1> HIDE DEF ids
<1>6. ASSUME NEW n \in DOMAIN ids
      PROVE  ids[n] \in DOMAIN outbox[m] /\ outbox[m][ids[n]].status # "acked"
             /\ ids[n] \in Ready(queued)
  <2>1. ids[n] \in Ready(queued)
    BY <1>5
  <2>2. ids[n] \in DOMAIN outbox[m] /\ queued[ids[n]].status \in {"pending", "failed"}
    BY <1>4, <2>1 DEF Ready
  <2> QED BY <1>3, <2>1, <2>2 DEF IdsIn
<1>7. ids \in Seq(DOMAIN outbox[m])
  <2>1. Ready(queued) \subseteq DOMAIN outbox[m]
    BY <1>4 DEF Ready
  <2> QED BY <1>5, <2>1
<1>8. /\ Restated(queued, sent)
      /\ \A i \in DOMAIN queued :
           /\ sent[i].status = IF i \in ToSet(ids) THEN "sent" ELSE queued[i].status
           /\ sent[i].base = queued[i].base
  BY <1>1, <1>4, SetStatusCorrect, StatusKeepsBases
<1> HIDE DEF sent
<1>9. /\ outbox'[m] = sent /\ \A x \in Machines \ {m} : outbox'[x] = outbox[x]
      /\ \A k \in Loops \ {l} : loop'[k] = loop[k]
      /\ loop'[l] = IF ids = <<>> THEN ToPull(cursor[m]) ELSE Posting(ops)
  BY <1>1, <1>2 DEF TypeOK
<1>10. BasesStay(m)
  <2>1. DOMAIN sent = DOMAIN outbox[m]
    BY <1>4, <1>8 DEF Restated
  <2>2. ASSUME NEW i \in DOMAIN outbox[m]
        PROVE  /\ sent[i].gid = outbox[m][i].gid /\ sent[i].base = outbox[m][i].base
               /\ outbox[m][i].status = "acked" => sent[i].status = "acked"
    <3>1. sent[i].gid = outbox[m][i].gid /\ sent[i].base = outbox[m][i].base
      BY <1>3, <1>4, <1>8 DEF Restated
    <3>2. ASSUME outbox[m][i].status = "acked"
          PROVE  sent[i].status = "acked"
      <4>1. i \notin ToSet(ids)
        BY <1>6, <3>2 DEF ToSet
      <4>2. queued[i].status = "acked"
        BY <1>3, <3>2 DEF IdsIn
      <4> QED BY <1>4, <1>8, <4>1, <4>2
    <3> QED BY <3>1, <3>2
  <2> QED BY <1>9, <2>1, <2>2 DEF BasesStay
<1>11. StepOf(m) /\ ExactIn(log')
  BY <1>2, <1>9, LoopStepOf DEF BasesInv
<1>12. MachineInv(m)'
  <2>1. CASE ids = <<>>
    <3>1. loop'[l].pc = "pull"
      BY <1>9, <2>1 DEF ToPull
    <3> QED BY <1>1, <1>2, <1>10, <3>1, LoopMovesOn
  <2>2. CASE ids # <<>>
    <3>1. loop'[l].pc = "posting" /\ loop'[l].ops = ops
      BY <1>9, <2>2 DEF Posting
    <3>2. \A k \in Loops : Host[k] = m => k = l
      BY DEF OneLoopEach
    <3>3. \A i : ~InHand(m, i)
      BY <1>2, <3>2 DEF InHand
    <3>4. ASSUME NEW n \in DOMAIN ids
          PROVE  FindByClientSeq(log, m, ids[n]) = {}
      BY <1>1, <1>6, <3>3 DEF MachineInv
    <3>5. /\ ops \in Seq(Wire) /\ Len(ops) = Len(ids)
          /\ \A n \in DOMAIN ops : n \in DOMAIN ids /\ ops[n].origin = m /\ ops[n].cseq = ids[n]
      BY <1>1, <1>7, WireOpsCorrect
    <3>6. AsksExactly(log, ops)
      <4> SUFFICES ASSUME NEW n \in DOMAIN ops
                   PROVE  /\ FindByClientSeq(log, ops[n].origin, ops[n].cseq) = {}
                          /\ \A h \in 1..(n - 1) : ~SameRow(ops[h], ops[n])
                          /\ ops[n].base # NoBase =>
                               ops[n].base <= VersionAt(log, ops[n].gid, "content", Len(log))
                                                + Cardinality(OfFile(ops, n - 1, ops[n].gid))
        BY DEF AsksExactly
      <4>1. n \in DOMAIN ids /\ ops[n].origin = m /\ ops[n].cseq = ids[n]
        BY <3>5
      <4>2. FindByClientSeq(log, m, ids[n]) = {}
        BY <3>4, <4>1
      <4>3. ASSUME NEW h \in 1..(n - 1)
            PROVE  ~SameRow(ops[h], ops[n])
        <5>1. h \in DOMAIN ops
          BY <3>5
        <5>2. ops[h].cseq = ids[h] /\ ids[h] # ids[n]
          BY <1>5, <3>5, <4>1, <5>1
        <5> QED BY <4>1, <5>2 DEF SameRow
      <4>4. ops[n].base # NoBase =>
              ops[n].base <= VersionAt(log, ops[n].gid, "content", Len(log))
                               + Cardinality(OfFile(ops, n - 1, ops[n].gid))
        <5>1. BasedUpTo(m, Len(log)) /\ Len(log) \in 0..Len(log)
          BY <1>1, BasedToEnd DEF TypeOK
        <5> QED BY <1>1, <1>7, <4>1, <4>2, <5>1, WireBaseBound
      <4> QED BY <4>1, <4>2, <4>3, <4>4
    <3> HIDE DEF ops
    <3>7. PICK p \in 0..Len(log) : BasedUpTo(m, p)
      BY <1>1 DEF MachineInv
    <3>8. BasedUpTo(m, p)'
      BY <1>2, <1>10, <3>7 DEF BasedUpTo, BasesStay
    <3>9. \A i \in DOMAIN outbox'[m] :
            outbox'[m][i].status = "acked" \/ FindByClientSeq(log', m, i) = {}
      BY <1>1, <1>2, <1>10, <3>3 DEF MachineInv, BasesStay
    <3> QED BY <1>2, <3>1, <3>2, <3>6, <3>8, <3>9 DEF MachineInv
  <2> QED BY <2>1, <2>2
<1> QED BY <1>1, <1>11, <1>12, StepKeepsBases

(* Rows given up keep their bases.                                          *)
LEMMA RequestLostKeepsBases ==
  ASSUME IInv, IInv', BasesInv, OneLoopEach, Grows, NEW l \in Loops, RequestLost(l)
  PROVE  BasesInv'
<1> DEFINE m == Host[l]
           ids == {loop[l].ops[n].cseq : n \in DOMAIN loop[l].ops} \ IdsIn(m, {"acked"})
           rows == SetStatus(outbox[m], ids, "waiting")
<1>1. /\ TypeOK /\ m \in Machines /\ outbox[m] \in Seq(Row) /\ MachineInv(m)
      /\ "waiting" \in Statuses
  BY LoopsAssumption DEF IInv, TypeOK, Statuses, BasesInv
<1>2. /\ loop[l].pc = "posting"
      /\ outbox' = [outbox EXCEPT ![m] = rows]
      /\ loop' = [loop EXCEPT ![l] = Backoff]
      /\ UNCHANGED <<log, net, known>>
  BY <1>1 DEF RequestLost, GiveUp, TypeOK
<1>3. /\ Restated(outbox[m], rows)
      /\ \A i \in DOMAIN outbox[m] :
           /\ rows[i].status = IF i \in ids THEN "waiting" ELSE outbox[m][i].status
           /\ rows[i].base = outbox[m][i].base
  <2> HIDE DEF ids
  <2> QED BY <1>1, SetStatusCorrect, StatusKeepsBases
<1>4. \A i \in DOMAIN outbox[m] : outbox[m][i].status = "acked" => i \notin ids
  BY DEF IdsIn
<1> HIDE DEF rows, ids
<1>5. /\ outbox'[m] = rows /\ \A x \in Machines \ {m} : outbox'[x] = outbox[x]
      /\ \A k \in Loops \ {l} : loop'[k] = loop[k]
      /\ loop'[l].pc = "backoff"
  BY <1>1, <1>2 DEF TypeOK, Backoff
<1>6. BasesStay(m)
  BY <1>3, <1>4, <1>5 DEF BasesStay, Restated
<1>7. StepOf(m) /\ ExactIn(log')
  BY <1>2, <1>5, LoopStepOf DEF BasesInv
<1>8. MachineInv(m)'
  BY <1>1, <1>2, <1>5, <1>6, LoopMovesOn
<1> QED BY <1>1, <1>7, <1>8, StepKeepsBases

(* A request served becomes answers in hand, which tell of its ops.         *)
LEMMA ServeKeepsBases ==
  ASSUME IInv, BasesInv, OneLoopEach, Grows, NEW l \in Loops, Serve(l)
  PROVE  BasesInv'
<1> DEFINE m == Host[l]
           ops == loop[l].ops
           served == Post(ops)
           answers == served.answers
<1>1. /\ TypeOK /\ m \in Machines /\ MachineInv(m)
      /\ log \in Logs /\ Len(log) \in Nat /\ ExactIn(log)
  BY LoopsAssumption DEF IInv, TypeOK, BasesInv, Logs
<1>2. /\ loop[l].pc = "posting"
      /\ log' = served.log
      /\ loop' = [loop EXCEPT ![l] = Answered(answers)]
      /\ UNCHANGED <<outbox, known, net>>
  BY DEF Serve, machineVars
<1>3. /\ ops \in Seq(Wire) /\ \A n \in DOMAIN ops : ops[n].origin = m
      /\ AsksExactly(log, ops)
  BY <1>1, <1>2, PostingRequest DEF Request, MachineInv
<1> HIDE DEF ops
<1>4. PostedExactly(served, ops, Len(ops))
  BY <1>1, <1>3, PostExactly
<1> HIDE DEF served
<1>5. /\ log' \in Logs /\ Extends(log, log') /\ Len(log') = Len(log) + Len(ops)
      /\ Len(ops) \in Nat /\ DOMAIN ops = 1..Len(ops)
      /\ answers \in Seq(Answer) /\ Len(answers) = Len(ops) /\ DOMAIN answers = 1..Len(ops)
      /\ ExactIn(log')
  BY <1>2, <1>3, <1>4 DEF PostedExactly, PostedTo, Accs
<1>0. PICK told \in Seq(Answer) : told = answers
  BY <1>5
<1>6. ASSUME NEW n \in 1..Len(ops)
      PROVE  log'[Len(log) + n].origin = m /\ Tells(log', told[n], Len(log) + n)
  <2>1. Carries(log'[Len(log) + n], ops[n]) /\ Tells(log', told[n], Len(log) + n)
    BY <1>0, <1>2, <1>4 DEF PostedExactly
  <2>2. ops[n].origin = m
    BY <1>3, <1>5
  <2> QED BY <2>1, <2>2 DEF Carries, SameRow
<1> HIDE DEF answers
<1>7. /\ loop'[l].pc = "answered" /\ loop'[l].answers = told
      /\ \A k \in Loops \ {l} : loop'[k] = loop[k]
  <2> DEFINE s == Answered(answers)
  <2>1. s.pc = "answered" /\ s.answers = answers
    BY DEF Answered
  <2> HIDE DEF s
  <2>2. loop' = [loop EXCEPT ![l] = s]
    BY <1>2 DEF s
  <2> QED BY <1>0, <1>1, <2>1, <2>2 DEF TypeOK
<1>8. \A k \in Loops : Host[k] = m => k = l
  BY DEF OneLoopEach
<1>9. StepOf(m)
  <2>1. ASSUME NEW k \in (Len(log) + 1)..Len(log')
        PROVE  log'[k].origin = m
    <3>1. k - Len(log) \in 1..Len(ops) /\ Len(log) + (k - Len(log)) = k
      BY <1>1, <1>5
    <3>2. PICK n \in 1..Len(ops) : Len(log) + n = k
      BY <3>1
    <3> QED BY <1>6, <3>2
  <2> QED BY <1>2, <1>7, <2>1 DEF StepOf
<1>10. PICK p \in 0..Len(log') : p = Len(log)
  BY <1>1, <1>5
<1>11. BasedUpTo(m, p)'
  <2>1. DOMAIN log = 1..Len(log) /\ \A g : VersionAt(log', g, "content", p) =
                                             VersionAt(log, g, "content", Len(log))
    BY <1>1, <1>5, <1>10, VersionStays DEF Logs
  <2>2. ASSUME NEW g \in Gids
        PROVE  known'[m][g] <= VersionAt(log', g, "content", p)
    BY <1>1, <1>2, <2>1 DEF IInv, NeverAhead
  <2>3. ASSUME NEW i \in DOMAIN outbox'[m]
        PROVE  \/ FindByClientSeq(log', m, i) # {}
               \/ outbox'[m][i].base = NoBase
               \/ outbox'[m][i].base <= VersionAt(log', outbox'[m][i].gid, "content", p)
    <3>1. FindByClientSeq(log, m, i) \subseteq FindByClientSeq(log', m, i)
      BY <1>1, <1>5, FoundStays
    <3>2. outbox'[m] = outbox[m]
      BY <1>2
    <3> QED BY <1>1, <2>1, <3>1, <3>2, BasedUpToEnd
  <2> QED BY <2>2, <2>3 DEF BasedUpTo
<1>12. TellsAfter(m, told, p)'
  <2>1. p + Len(told) <= Len(log') /\ DOMAIN told = 1..Len(ops)
    BY <1>0, <1>1, <1>5, <1>10
  <2>2. \A n \in DOMAIN told : log'[p + n].origin = m /\ Tells(log', told[n], p + n)
    BY <1>6, <1>10, <2>1
  <2> QED BY <2>1, <2>2 DEF TellsAfter
<1>13. ASSUME NEW i \in DOMAIN outbox'[m]
       PROVE  \/ outbox'[m][i].status = "acked"
              \/ FindByClientSeq(log', m, i) = {}
              \/ InHand(m, i)'
  <2> SUFFICES ASSUME outbox[m][i].status # "acked", FindByClientSeq(log', m, i) # {}
               PROVE  InHand(m, i)'
    BY <1>2
  <2>1. FindByClientSeq(log, m, i) = {}
    BY <1>1, <1>2, <1>8 DEF MachineInv, InHand
  <2>2. PICK k \in 1..Len(log') : log'[k].origin = m /\ log'[k].cseq = i
    BY <1>5 DEF FindByClientSeq, Logs
  <2>3. k \notin 1..Len(log)
    <3>1. \A j \in 1..Len(log) : j \in DOMAIN log /\ log'[j] = log[j]
      BY <1>1, <1>5 DEF Logs, Extends
    <3> QED BY <2>1, <2>2, <3>1 DEF FindByClientSeq
  <2>4. k - Len(log) \in 1..Len(ops) /\ Len(log) + (k - Len(log)) = k
    BY <1>1, <1>5, <2>3
  <2>5. told[k - Len(log)].cseq = i /\ k - Len(log) \in DOMAIN told
    BY <1>0, <1>5, <1>6, <2>2, <2>4 DEF Tells
  <2> QED BY <1>7, <2>5 DEF InHand
<1>14. MachineInv(m)'
  <2>1. ASSUME NEW k \in Loops, Host[k] = m
        PROVE  TellsAfter(m, loop[k].answers, p)'
    <3>1. k = l
      BY <1>8, <2>1
    <3> QED BY <1>7, <1>12, <3>1 DEF TellsAfter
  <2>2. \A k \in Loops : ~(Host[k] = m /\ loop'[k].pc = "posting")
    BY <1>7, <1>8
  <2> QED BY <1>11, <1>13, <2>1, <2>2 DEF MachineInv
<1> QED BY <1>1, <1>5, <1>9, <1>14, StepKeepsBases

(* What acking does to the rows: one is acked, and the later rows of its    *)
(* file are based on one version more if the op was accepted.               *)
LEMMA AckedRows ==
  ASSUME NEW rows \in Seq(Row), NEW a \in Answer, a.cseq \in DOMAIN rows
  PROVE  LET new == Bumped(SetStatus(rows, {a.cseq}, "acked"), a) IN
         /\ DOMAIN new = DOMAIN rows
         /\ \A i \in DOMAIN rows :
              /\ new[i].gid = rows[i].gid /\ new[i].kind = rows[i].kind
              /\ new[i].text = rows[i].text /\ new[i].saw = rows[i].saw
              /\ new[i].status = IF i = a.cseq THEN "acked" ELSE rows[i].status
              /\ \/ new[i].base = rows[i].base
                 \/ /\ rows[i].gid = rows[a.cseq].gid /\ a.status # "conflict"
                    /\ rows[i].base # NoBase /\ new[i].base = rows[i].base + 1
<1> DEFINE acked == SetStatus(rows, {a.cseq}, "acked")
           bumped == BumpPendingBases(acked, a.cseq)
<1>1. "acked" \in Statuses
  BY DEF Statuses
<1>2. /\ Restated(rows, acked)
      /\ \A i \in DOMAIN rows :
           /\ acked[i].status = IF i \in {a.cseq} THEN "acked" ELSE rows[i].status
           /\ acked[i].base = rows[i].base /\ acked[i].saw = rows[i].saw
  BY <1>1, SetStatusCorrect, StatusKeepsBases
<1> HIDE DEF acked
<1>3. acked \in Seq(Row) /\ DOMAIN acked = DOMAIN rows
  BY <1>2 DEF Restated
<1>4. Restated(acked, bumped) /\ \A i \in DOMAIN acked : bumped[i].status = acked[i].status
  BY <1>3, BumpCorrect
<1>5. ASSUME NEW i \in DOMAIN acked
      PROVE  /\ bumped[i].saw = acked[i].saw
             /\ \/ bumped[i].base = acked[i].base
                \/ /\ acked[i].gid = acked[a.cseq].gid /\ acked[i].base # NoBase
                   /\ bumped[i].base = acked[i].base + 1
  <2>1. acked[i] \in Row
    BY <1>3
  <2>2. \/ bumped[i] = acked[i]
        \/ /\ SameRecord(acked, i, a.cseq) /\ acked[i].base # NoBase
           /\ bumped[i] = [acked[i] EXCEPT !.base = acked[i].base + 1]
    BY <2>1 DEF BumpPendingBases, Row
  <2> HIDE DEF bumped
  <2> QED BY <2>1, <2>2 DEF SameRecord, Row
<1> HIDE DEF bumped
<1>6. ASSUME NEW new \in {acked, bumped}, a.status = "conflict" => new = acked
      PROVE  /\ DOMAIN new = DOMAIN rows
             /\ \A i \in DOMAIN rows :
                  /\ new[i].gid = rows[i].gid /\ new[i].kind = rows[i].kind
                  /\ new[i].text = rows[i].text /\ new[i].saw = rows[i].saw
                  /\ new[i].status = IF i = a.cseq THEN "acked" ELSE rows[i].status
                  /\ \/ new[i].base = rows[i].base
                     \/ /\ rows[i].gid = rows[a.cseq].gid /\ a.status # "conflict"
                        /\ rows[i].base # NoBase /\ new[i].base = rows[i].base + 1
  <2>1. CASE new = acked
    BY <1>2, <2>1 DEF Restated
  <2>2. CASE new = bumped /\ a.status # "conflict"
    BY <1>2, <1>3, <1>4, <1>5, <2>2 DEF Restated
  <2> QED BY <1>6, <2>1, <2>2
<1> DEFINE last == Bumped(acked, a)
<1>7. last \in {acked, bumped} /\ (a.status = "conflict" => last = acked)
  BY DEF Bumped, bumped
<1> HIDE DEF last
<1>8. /\ DOMAIN last = DOMAIN rows
      /\ \A i \in DOMAIN rows :
           /\ last[i].gid = rows[i].gid /\ last[i].kind = rows[i].kind
           /\ last[i].text = rows[i].text /\ last[i].saw = rows[i].saw
           /\ last[i].status = IF i = a.cseq THEN "acked" ELSE rows[i].status
           /\ \/ last[i].base = rows[i].base
              \/ /\ rows[i].gid = rows[a.cseq].gid /\ a.status # "conflict"
                 /\ rows[i].base # NoBase /\ last[i].base = rows[i].base + 1
  BY <1>6, <1>7
<1> QED BY <1>8 DEF last, acked

\* The loop takes in answer a of its machine's op p + 1, on file g; rest is left.
TakesAnswer(l, p, g, a, rest) ==
  LET m == Host[l] IN
  /\ BasedUpTo(m, p) /\ TellsAfter(m, loop[l].answers, p)
  /\ loop[l].pc = "answered" /\ loop[l].answers[1] = a
  /\ DOMAIN loop[l].answers = 1..(Len(rest) + 1) /\ Len(loop[l].answers) = Len(rest) + 1
  /\ \A n \in 1..Len(rest) : rest[n] = loop[l].answers[n + 1]
  /\ p + 1 \in 1..Len(log) /\ log[p + 1].origin = m /\ log[p + 1].gid = g
  /\ KindFamily(log[p + 1].kind) = "content" /\ Tells(log, a, p + 1)
  /\ a.cseq \in DOMAIN outbox[m] /\ outbox[m][a.cseq].gid = g
  /\ DOMAIN outbox'[m] = DOMAIN outbox[m]
  /\ \A i \in DOMAIN outbox[m] :
       /\ outbox'[m][i].gid = outbox[m][i].gid /\ outbox'[m][i].kind = outbox[m][i].kind
       /\ outbox'[m][i].text = outbox[m][i].text /\ outbox'[m][i].saw = outbox[m][i].saw
       /\ outbox'[m][i].status = IF i = a.cseq THEN "acked" ELSE outbox[m][i].status
       /\ \/ outbox'[m][i].base = outbox[m][i].base
          \/ /\ outbox[m][i].gid = g /\ a.status # "conflict"
             /\ outbox[m][i].base # NoBase /\ outbox'[m][i].base = outbox[m][i].base + 1
  /\ \A x \in Machines \ {m} : outbox'[x] = outbox[x]
  /\ RecordVersion(m, g, a.version) /\ MarkAnswered(m, a)
  /\ loop'[l] = IF rest = <<>> THEN ToPull(cursor[m]) ELSE Answered(rest)
  /\ \A k \in Loops \ {l} : loop'[k] = loop[k]
  /\ UNCHANGED <<log, files, fork, copies, cursor, skipped, net, seen>>

(* What is left of a sequence without its head.                            *)
LEMMA TailOf ==
  ASSUME NEW S, NEW s \in Seq(S), s # <<>>
  PROVE  \E t \in Seq(S) :
           /\ t = Tail(s) /\ Len(t) + 1 = Len(s) /\ DOMAIN t = 1..Len(t)
           /\ Len(t) \in Nat /\ DOMAIN s = 1..(Len(t) + 1)
           /\ \A n \in 1..Len(t) : t[n] = s[n + 1]
<1>1. /\ Tail(s) \in Seq(S) /\ Len(Tail(s)) + 1 = Len(s)
      /\ DOMAIN Tail(s) = 1..Len(Tail(s)) /\ Len(Tail(s)) \in Nat
      /\ DOMAIN s = 1..Len(s)
      /\ \A n \in 1..Len(Tail(s)) : Tail(s)[n] = s[n + 1]
  OBVIOUS
<1> QED BY <1>1

LEMMA AnswerTaken ==
  ASSUME IInv, BasesInv, OneLoopEach, NEW l \in Loops, Acknowledge(l)
  PROVE  \E p \in 0..Len(log), g \in Gids, a \in Answer, rest \in Seq(Answer) :
           TakesAnswer(l, p, g, a, rest)
<1> DEFINE m == Host[l]
           rows == Bumped(SetStatus(outbox[m], {Head(loop[l].answers).cseq}, "acked"),
                          Head(loop[l].answers))
           s(t) == IF t = <<>> THEN ToPull(cursor[m]) ELSE Answered(t)
<1>1. /\ TypeOK /\ m \in Machines /\ outbox[m] \in Seq(Row) /\ MachineInv(m)
      /\ log \in Logs /\ Len(log) \in Nat /\ DOMAIN log = 1..Len(log) /\ loop[l].pc = "answered"
  <2>1. loop[l].pc = "answered"
    BY DEF Acknowledge
  <2>2. TypeOK /\ m \in Machines /\ \A x \in Machines : MachineInv(x)
    BY LoopsAssumption DEF IInv, BasesInv
  <2> HIDE DEF m
  <2> QED BY <2>1, <2>2, SMTT(20) DEF TypeOK, Logs
<1>2. PICK told \in Seq(Answer) : told = loop[l].answers
  BY <1>1, LoopFields DEF TypeOK
<1>3. PICK a \in Answer : a = Head(told) /\ a = told[1] /\ told # <<>>
  <2>1. told # <<>>
    BY <1>1, <1>2, Zenon DEF IInv, LoopInv
  <2> QED BY <2>1
<1>4. PICK rest \in Seq(Answer) :
        /\ rest = Tail(told) /\ Len(rest) + 1 = Len(told) /\ DOMAIN rest = 1..Len(rest)
        /\ Len(rest) \in Nat /\ DOMAIN told = 1..(Len(rest) + 1)
        /\ \A n \in 1..Len(rest) : rest[n] = told[n + 1]
  BY <1>3, TailOf
<1>5. /\ outbox' = [outbox EXCEPT ![m] = rows]
      /\ rows = Bumped(SetStatus(outbox[m], {a.cseq}, "acked"), a)
      /\ RecordVersion(m, SetStatus(outbox[m], {a.cseq}, "acked")[a.cseq].gid, a.version)
      /\ loop' = [loop EXCEPT ![l] = s(rest)]
      /\ MarkAnswered(m, a)
      /\ UNCHANGED <<log, files, fork, copies, cursor, skipped, net, seen>>
  BY <1>2, <1>3, <1>4 DEF Acknowledge
<1>6. \A k \in Loops : Host[k] = m => k = l
  BY DEF OneLoopEach
<1>7. PICK p \in 0..Len(log) : BasedUpTo(m, p) /\ TellsAfter(m, told, p)
  BY <1>1, <1>2 DEF MachineInv
<1>8. PICK q \in 1..Len(log) : q = p + 1
  <2>1. p + Len(told) <= Len(log)
    BY <1>7 DEF TellsAfter
  <2> QED BY <1>1, <1>4, <2>1
<1>9. log[q].origin = m /\ Tells(log, a, q)
  <2>1. 1 \in DOMAIN told
    BY <1>4
  <2> QED BY <1>3, <1>7, <1>8, <2>1 DEF TellsAfter
<1>10. PICK g \in Gids : /\ g = log[q].gid
                         /\ a.cseq \in DOMAIN outbox[m] /\ outbox[m][a.cseq].gid = g
                         /\ KindFamily(log[q].kind) = "content"
  <2>1. HasRow(outbox, log[q]) /\ log[q].cseq = a.cseq
    BY <1>1, <1>9 DEF IInv, OpsHaveRows, Tells
  <2>2. log[q].gid \in Gids /\ KindFamily(log[q].kind) = "content"
    BY <1>1, LogRow
  <2> QED BY <1>9, <2>1, <2>2 DEF HasRow
<1>11. /\ DOMAIN rows = DOMAIN outbox[m]
       /\ \A i \in DOMAIN outbox[m] :
            /\ rows[i].gid = outbox[m][i].gid /\ rows[i].kind = outbox[m][i].kind
            /\ rows[i].text = outbox[m][i].text /\ rows[i].saw = outbox[m][i].saw
            /\ rows[i].status = IF i = a.cseq THEN "acked" ELSE outbox[m][i].status
            /\ \/ rows[i].base = outbox[m][i].base
               \/ /\ outbox[m][i].gid = g /\ a.status # "conflict"
                  /\ outbox[m][i].base # NoBase /\ rows[i].base = outbox[m][i].base + 1
  <2> DEFINE old == outbox[m]
             new == Bumped(SetStatus(old, {a.cseq}, "acked"), a)
  <2>1. old \in Seq(Row) /\ a.cseq \in DOMAIN old /\ old[a.cseq].gid = g
    BY <1>1, <1>10
  <2> HIDE DEF old
  <2>2. /\ DOMAIN new = DOMAIN old
        /\ \A i \in DOMAIN old :
             /\ new[i].gid = old[i].gid /\ new[i].kind = old[i].kind
             /\ new[i].text = old[i].text /\ new[i].saw = old[i].saw
             /\ new[i].status = IF i = a.cseq THEN "acked" ELSE old[i].status
             /\ \/ new[i].base = old[i].base
                \/ /\ old[i].gid = old[a.cseq].gid /\ a.status # "conflict"
                   /\ old[i].base # NoBase /\ new[i].base = old[i].base + 1
    BY <2>1, AckedRows
  <2>3. rows = new
    BY <1>5 DEF old
  <2> HIDE DEF new, rows
  <2> QED BY <2>1, <2>2, <2>3 DEF old
<1>12. RecordVersion(m, g, a.version) /\ a.version \in Nat
  <2>1. Restated(outbox[m], SetStatus(outbox[m], {a.cseq}, "acked"))
    BY <1>1, SetStatusCorrect DEF Statuses
  <2> QED BY <1>5, <1>10, <2>1 DEF Restated, Answer
<1> HIDE DEF rows
<1>13. /\ outbox'[m] = rows /\ \A x \in Machines \ {m} : outbox'[x] = outbox[x]
       /\ loop'[l] = s(rest) /\ \A k \in Loops \ {l} : loop'[k] = loop[k]
  BY <1>1, <1>5 DEF TypeOK
<1> HIDE DEF m, s
<1>14. TakesAnswer(l, p, g, a, rest)
  <2>1. Len(told) = Len(rest) + 1 /\ p + 1 = q /\ Host[l] = m
    BY <1>4, <1>8 DEF m
  <2>2. s(rest) = IF rest = <<>> THEN ToPull(cursor[m]) ELSE Answered(rest)
    BY DEF s
  <2>3. /\ BasedUpTo(Host[l], p) /\ TellsAfter(Host[l], loop[l].answers, p)
        /\ loop[l].pc = "answered" /\ loop[l].answers[1] = a
        /\ DOMAIN loop[l].answers = 1..(Len(rest) + 1) /\ Len(loop[l].answers) = Len(rest) + 1
        /\ \A n \in 1..Len(rest) : rest[n] = loop[l].answers[n + 1]
    BY <1>1, <1>2, <1>3, <1>4, <1>7, <2>1
  <2>4. /\ p + 1 \in 1..Len(log) /\ log[p + 1].origin = Host[l] /\ log[p + 1].gid = g
        /\ KindFamily(log[p + 1].kind) = "content" /\ Tells(log, a, p + 1)
        /\ a.cseq \in DOMAIN outbox[Host[l]] /\ outbox[Host[l]][a.cseq].gid = g
    BY <1>9, <1>10, <2>1
  <2>5. /\ DOMAIN outbox'[Host[l]] = DOMAIN outbox[Host[l]]
        /\ \A i \in DOMAIN outbox[Host[l]] :
             /\ outbox'[Host[l]][i].gid = outbox[Host[l]][i].gid
             /\ outbox'[Host[l]][i].kind = outbox[Host[l]][i].kind
             /\ outbox'[Host[l]][i].text = outbox[Host[l]][i].text
             /\ outbox'[Host[l]][i].saw = outbox[Host[l]][i].saw
             /\ outbox'[Host[l]][i].status =
                  IF i = a.cseq THEN "acked" ELSE outbox[Host[l]][i].status
             /\ \/ outbox'[Host[l]][i].base = outbox[Host[l]][i].base
                \/ /\ outbox[Host[l]][i].gid = g /\ a.status # "conflict"
                   /\ outbox[Host[l]][i].base # NoBase
                   /\ outbox'[Host[l]][i].base = outbox[Host[l]][i].base + 1
    BY <1>11, <1>13, <2>1
  <2>6. /\ \A x \in Machines \ {Host[l]} : outbox'[x] = outbox[x]
        /\ RecordVersion(Host[l], g, a.version) /\ MarkAnswered(Host[l], a)
        /\ loop'[l] = IF rest = <<>> THEN ToPull(cursor[Host[l]]) ELSE Answered(rest)
        /\ \A k \in Loops \ {l} : loop'[k] = loop[k]
        /\ UNCHANGED <<log, files, fork, copies, cursor, skipped, net, seen>>
    BY <1>5, <1>12, <1>13, <2>1, <2>2
  <2> HIDE DEF TakesAnswer
  <2> QED BY <2>3, <2>4, <2>5, <2>6 DEF TakesAnswer
<1> QED BY <1>14

(* An answer taken in: the machine is one op further.                       *)
LEMMA AckKeepsBases ==
  ASSUME IInv, BasesInv, OneLoopEach, Grows, NEW l \in Loops, Acknowledge(l)
  PROVE  BasesInv'
<1> DEFINE m == Host[l]
<1>1. /\ TypeOK /\ m \in Machines /\ outbox[m] \in Seq(Row) /\ MachineInv(m)
      /\ log \in Logs /\ Len(log) \in Nat /\ DOMAIN log = 1..Len(log) /\ loop[l].pc = "answered"
  <2>1. loop[l].pc = "answered"
    BY DEF Acknowledge
  <2>2. TypeOK /\ m \in Machines /\ \A x \in Machines : MachineInv(x)
    BY LoopsAssumption DEF IInv, BasesInv
  <2> HIDE DEF m
  <2> QED BY <2>1, <2>2 DEF TypeOK, Logs
<1>2. PICK told \in Seq(Answer) : told = loop[l].answers
  BY <1>1, LoopFields DEF TypeOK
<1>3. PICK p \in 0..Len(log), g \in Gids, a \in Answer, rest \in Seq(Answer) :
        TakesAnswer(l, p, g, a, rest)
  BY AnswerTaken
<1>4. /\ Len(told) = Len(rest) + 1 /\ DOMAIN rest = 1..Len(rest)
      /\ Len(rest) \in Nat /\ DOMAIN told = 1..(Len(rest) + 1)
      /\ \A n \in 1..Len(rest) : rest[n] = told[n + 1]
      /\ a = told[1]
  BY <1>2, <1>3 DEF TakesAnswer
<1>5. UNCHANGED <<log, net>>
  BY <1>3 DEF TakesAnswer
<1>6. \A k \in Loops : Host[k] = m => k = l
  BY DEF OneLoopEach
<1>7. BasedUpTo(m, p) /\ TellsAfter(m, told, p)
  BY <1>2, <1>3 DEF TakesAnswer
<1>8. PICK q \in 1..Len(log) : q = p + 1
  BY <1>3 DEF TakesAnswer
<1>9. log[q].origin = m /\ Tells(log, a, q)
  BY <1>3, <1>8 DEF TakesAnswer
<1>10. g = log[q].gid /\ KindFamily(log[q].kind) = "content"
  BY <1>3, <1>8 DEF TakesAnswer
<1>11. /\ DOMAIN outbox'[m] = DOMAIN outbox[m]
       /\ \A i \in DOMAIN outbox[m] :
            /\ outbox'[m][i].gid = outbox[m][i].gid
            /\ outbox'[m][i].status = IF i = a.cseq THEN "acked" ELSE outbox[m][i].status
            /\ \/ outbox'[m][i].base = outbox[m][i].base
               \/ /\ outbox[m][i].gid = g /\ a.status # "conflict"
                  /\ outbox[m][i].base # NoBase /\ outbox'[m][i].base = outbox[m][i].base + 1
  BY <1>3 DEF TakesAnswer
<1>12. RecordVersion(m, g, a.version) /\ a.version \in Nat
  BY <1>3 DEF TakesAnswer, Answer
<1>13. /\ \A x \in Machines \ {m} : outbox'[x] = outbox[x]
       /\ loop'[l] = IF rest = <<>> THEN ToPull(cursor[m]) ELSE Answered(rest)
       /\ \A k \in Loops \ {l} : loop'[k] = loop[k]
  BY <1>3 DEF TakesAnswer
<1>14. /\ loop'[l].pc # "posting"
       /\ loop'[l].pc = "answered" <=> rest # <<>>
       /\ rest # <<>> => loop'[l].answers = rest
  BY <1>13 DEF ToPull, Answered
<1>15. StepOf(m) /\ ExactIn(log')
  <2>1. \A x \in Machines \ {m} : known'[x] = known[x]
    BY <1>1, <1>12, RecordsItsOwn
  <2> QED BY <1>5, <1>13, <2>1, LoopStepOf DEF BasesInv
<1>16. \A h : /\ VersionAt(log, h, "content", p) \in Nat
              /\ VersionAt(log, h, "content", q) =
                   VersionAt(log, h, "content", p)
                     + IF h = g /\ a.status = "accepted" THEN 1 ELSE 0
  <2> SUFFICES ASSUME NEW h
               PROVE  /\ VersionAt(log, h, "content", p) \in Nat
                      /\ VersionAt(log, h, "content", q) =
                           VersionAt(log, h, "content", p)
                             + IF h = g /\ a.status = "accepted" THEN 1 ELSE 0
    OBVIOUS
  <2>1. p \in Nat /\ p < Len(log) /\ log[p + 1] = log[q] /\ log[q].status = a.status
    BY <1>1, <1>8, <1>9 DEF Tells
  <2>2. /\ VersionAt(log, h, "content", p) \in Nat
        /\ VersionAt(log, h, "content", p + 1) =
             VersionAt(log, h, "content", p) +
               IF /\ log[p + 1].gid = h /\ KindFamily(log[p + 1].kind) = "content"
                  /\ log[p + 1].status = "accepted"
               THEN 1 ELSE 0
    BY <1>1, <2>1, VersionCounts
  <2> QED BY <1>8, <1>10, <2>1, <2>2
<1>17. BasedUpTo(m, q)'
  <2>1. ASSUME NEW h \in Gids
        PROVE  known'[m][h] <= VersionAt(log, h, "content", q)
    <3>1. known \in [Machines -> [Gids -> Nat]]
      BY <1>1 DEF TypeOK
    <3>2. known[m][h] \in Nat /\ known[m][g] \in Nat
      BY <1>1, <3>1
    <3>3. known[m][h] <= VersionAt(log, h, "content", p)
          /\ known[m][g] <= VersionAt(log, g, "content", p)
      BY <1>7 DEF BasedUpTo
    <3>4. a.version = VersionAt(log, g, "content", q)
      BY <1>9, <1>10 DEF Tells
    <3>5. known'[m][h] = IF h = g THEN Max({known[m][g], a.version}) ELSE known[m][h]
      BY <1>1, <1>12, <3>1 DEF RecordVersion
    <3>6. Max({known[m][g], a.version}) = IF known[m][g] >= a.version THEN known[m][g] ELSE a.version
      BY <1>12, <3>2, MaxOfTwo
    <3> DEFINE vhp == VersionAt(log, h, "content", p)
               vgp == VersionAt(log, g, "content", p)
               vhq == VersionAt(log, h, "content", q)
               vgq == VersionAt(log, g, "content", q)
    <3>7. vhp \in Nat /\ vgp \in Nat /\ vhq \in Nat /\ vgq \in Nat /\ vhp <= vhq /\ vgp <= vgq
          /\ (h = g => vhq = vgq)
      BY <1>16
    <3>8. CASE h = g
      BY <1>12, <3>2, <3>3, <3>4, <3>5, <3>6, <3>7, <3>8
    <3>9. CASE h # g
      BY <3>2, <3>3, <3>5, <3>7, <3>9
    <3> QED BY <3>8, <3>9
  <2>2. ASSUME NEW i \in DOMAIN outbox[m], FindByClientSeq(log, m, i) = {},
               outbox'[m][i].base # NoBase
        PROVE  outbox'[m][i].base <= VersionAt(log, outbox'[m][i].gid, "content", q)
    <3> DEFINE h == outbox[m][i].gid
               base == outbox[m][i].base
    <3>1. outbox[m][i] \in Row
      BY <1>1
    <3>2. base \in Bases
      BY <3>1 DEF Row
    <3>3. /\ outbox'[m][i].gid = h
          /\ \/ outbox'[m][i].base = base
             \/ h = g /\ a.status # "conflict" /\ base # NoBase /\ outbox'[m][i].base = base + 1
      BY <1>11
    <3>4. base # NoBase
      BY <2>2, <3>3
    <3>5. base \in Nat /\ base <= VersionAt(log, h, "content", p)
      BY <1>7, <2>2, <3>2, <3>4 DEF BasedUpTo, Bases
    <3>6. a.status # "conflict" => a.status = "accepted"
      BY DEF Answer
    <3>7. /\ VersionAt(log, h, "content", p) \in Nat
          /\ VersionAt(log, h, "content", q) =
               VersionAt(log, h, "content", p) + IF h = g /\ a.status = "accepted" THEN 1 ELSE 0
      BY <1>16
    <3> HIDE DEF h, base
    <3> QED BY <3>3, <3>5, <3>6, <3>7
  <2> QED BY <1>5, <1>11, <1>13, <2>1, <2>2 DEF BasedUpTo
<1>18. TellsAfter(m, rest, q)'
  <2>1. p + Len(told) <= Len(log)
    BY <1>7 DEF TellsAfter
  <2>2. q + Len(rest) <= Len(log)
    BY <1>1, <1>4, <1>8, <2>1
  <2>3. ASSUME NEW n \in DOMAIN rest
        PROVE  log[q + n].origin = m /\ Tells(log, rest[n], q + n)
    <3>1. n + 1 \in DOMAIN told /\ rest[n] = told[n + 1] /\ p + (n + 1) = q + n
      <4>1. n \in 1..Len(rest) /\ p \in Nat
        BY <1>1, <1>4
      <4>2. \A j, k \in Nat : j \in 1..k => j + 1 \in 1..(k + 1)
        OBVIOUS
      <4>3. n \in Nat /\ n + 1 \in 1..(Len(rest) + 1) /\ p + (n + 1) = (p + 1) + n
        <5>1. n \in Nat /\ Len(rest) \in Nat
          BY <1>4, <4>1
        <5>2. n + 1 \in 1..(Len(rest) + 1)
          BY <4>1, <4>2, <5>1
        <5>3. p + (n + 1) = (p + 1) + n
          BY <4>1, <5>1
        <5> QED BY <5>1, <5>2, <5>3
      <4> QED BY <1>4, <1>8, <4>1, <4>3
    <3>2. log[p + (n + 1)].origin = m /\ Tells(log, told[n + 1], p + (n + 1))
      BY <1>7, <3>1 DEF TellsAfter
    <3> QED BY <3>1, <3>2
  <2> QED BY <1>5, <2>2, <2>3 DEF TellsAfter
<1>19. ASSUME NEW i \in DOMAIN outbox'[m]
       PROVE  \/ outbox'[m][i].status = "acked"
              \/ FindByClientSeq(log', m, i) = {}
              \/ InHand(m, i)'
  <2> SUFFICES ASSUME outbox'[m][i].status # "acked", FindByClientSeq(log, m, i) # {}
               PROVE  InHand(m, i)'
    BY <1>5
  <2>1. i \in DOMAIN outbox[m] /\ outbox[m][i].status # "acked" /\ i # a.cseq
    BY <1>11, <1>13
  <2>2. InHand(m, i)
    BY <1>1, <2>1 DEF MachineInv
  <2>3. PICK n \in DOMAIN told : told[n].cseq = i
    BY <1>2, <1>6, <2>2 DEF InHand
  <2>4. n # 1
    BY <1>4, <2>1, <2>3
  <2>5. n - 1 \in DOMAIN rest /\ rest[n - 1] = told[n]
    <3>1. n - 1 \in 1..Len(rest) /\ (n - 1) + 1 = n
      BY <1>4, <2>4
    <3> QED BY <1>4, <3>1
  <2>6. rest # <<>>
    BY <2>5
  <2> QED BY <1>14, <2>3, <2>5, <2>6 DEF InHand
<1>20. MachineInv(m)'
  <2>1. ASSUME NEW k \in Loops, Host[k] = m, loop'[k].pc = "answered"
        PROVE  TellsAfter(m, loop[k].answers, q)'
    <3>1. k = l
      BY <1>6, <2>1
    <3>2. rest # <<>> /\ loop'[k].answers = rest
      BY <1>14, <2>1, <3>1
    <3> QED BY <1>18, <3>2 DEF TellsAfter
  <2>2. \A k \in Loops : ~(Host[k] = m /\ loop'[k].pc = "posting")
    BY <1>6, <1>14
  <2>3. q \in 0..Len(log')
    BY <1>5
  <2> QED BY <1>17, <1>19, <2>1, <2>2, <2>3 DEF MachineInv
<1> QED BY <1>1, <1>15, <1>20, StepKeepsBases

\* Every request the relay serves is answered, in time and to a loop that takes
\* the answers in; requests it never sees may still be lost.
AnswersArrive == Faults \cap {"lost answer", "late request", "torn ack"} = {}

LEMMA StepBasesInv ==
  ASSUME AnswersArrive, NoRestart, OneLoopEach
  PROVE  IInv /\ BasesInv /\ [Next]_vars => BasesInv'
<1> SUFFICES ASSUME IInv, BasesInv, [Next]_vars PROVE BasesInv'
  OBVIOUS
<1>0. IInv'
  BY StepIInv
<1>1. CASE Next
  <2>1. Grows
    BY <1>1, StepKeepsBooks DEF KeepsBooks
  <2>2. CASE UserStep
    BY <2>2, UserKeepsBases
  <2>3. ASSUME NEW l \in Loops, LoopStep(l)
        PROVE  BasesInv'
    BY <1>0, <2>1, <2>3, PushKeepsBases, ServeKeepsBases, AckKeepsBases, PullKeepsBases
       DEF LoopStep
  <2>4. ASSUME NEW l \in Loops, FaultStep(l)
        PROVE  BasesInv'
    <3>1. ~Restart(l) /\ ~AnswerLost(l) /\ ~RequestLate(l) /\ ~TornAck(l)
      BY DEF NoRestart, AnswersArrive, Restart, AnswerLost, RequestLate, TornAck, Fault
    <3> QED BY <1>0, <2>1, <2>4, <3>1, RequestLostKeepsBases, PullKeepsBases DEF FaultStep
  <2>5. ~ServeLate
    BY DEF BasesInv, ServeLate
  <2>6. ASSUME NEW m \in Machines, Elapse(m)
        PROVE  BasesInv'
    BY <2>6, ElapseKeepsBases
  <2> QED BY <1>1, <2>2, <2>3, <2>4, <2>5, <2>6 DEF Next
<1>2. CASE UNCHANGED vars
  <2>1. UNCHANGED <<log, outbox, known, loop, net>>
    BY <1>2 DEF vars, machineVars
  <2>2. ASSUME NEW m \in Machines
        PROVE  MachineInv(m)'
    <3>1. MachineInv(m)
      BY DEF BasesInv
    <3> QED BY <2>1, <3>1 DEF MachineInv, BasedUpTo, TellsAfter, InHand
  <2> QED BY <2>1, <2>2 DEF BasesInv
<1> QED BY <1>1, <1>2

LEMMA InitBasesInv == Init => BasesInv
<1> SUFFICES ASSUME Init PROVE BasesInv
  OBVIOUS
<1>1. /\ log = <<>> /\ Len(log) = 0 /\ net = {}
      /\ \A l \in Loops : loop[l].pc = "idle"
      /\ \A m \in Machines : outbox[m] = <<>> /\ \A g \in Gids : known[m][g] = 0
  BY LoopPlaces DEF Init
<1>2. ExactIn(log)
  BY <1>1 DEF ExactIn
<1>3. ASSUME NEW m \in Machines
      PROVE  MachineInv(m)
  <2>1. \A g : VersionAt(log, g, "content", 0) \in Nat
    <3>1. log \in Logs /\ Extends(log, log)
      BY <1>1 DEF Logs, Extends
    <3> QED BY <1>1, <3>1, VersionGrows
  <2>2. BasedUpTo(m, 0)
    BY <1>1, <2>1 DEF BasedUpTo
  <2>3. 0 \in 0..Len(log)
    BY <1>1
  <2> QED BY <1>1, <2>2, <2>3 DEF MachineInv
<1> QED BY <1>1, <1>2, <1>3 DEF BasesInv

(* With one loop to a machine, and unless a restart, a lost answer, a late  *)
(* request or a torn ack keeps a machine from hearing what became of its    *)
(* rows, an accepted op was based on exactly the version it replaced,       *)
(* however users edit, delete and resolve, requests are lost and pulls      *)
(* fail: the bases that pushOutbox and bumpPendingBases count up are never  *)
(* counted too high.                                                        *)
THEOREM SpecBasesExact ==
  ASSUME AnswersArrive, NoRestart, OneLoopEach
  PROVE  Spec => []BasesExact
<1>1. IInv /\ BasesInv => BasesExact
  <2> SUFFICES ASSUME IInv, BasesInv, NEW k \in DOMAIN log, log[k].status = "accepted",
                      log[k].base # NoBase
               PROVE  log[k].base =
                        VersionAt(log, log[k].gid, KindFamily(log[k].kind), k - 1)
    BY DEF BasesExact
  <2>1. k \in 1..Len(log)
    BY DEF IInv, TypeOK
  <2>2. KindFamily(log[k].kind) = "content"
    BY LogRow
  <2> QED BY <2>1, <2>2 DEF BasesInv, ExactIn
<1>2. IInv /\ BasesInv /\ [Next]_vars => BasesInv'
  BY StepBasesInv
<1> QED BY <1>1, <1>2, SpecIInv, InitBasesInv, PTL DEF Spec

-----------------------------------------------------------------------------
(* What users lose to a sync loop, where nothing but requests is lost: the *)
(* steps that are left, and what each does to rows and files.              *)

\* Every edit and every resolution writes a text of its own, and no file is deleted.
OwnTexts == Users \subseteq {"edit", "merged"}
OnlyRequestsLost == Faults \subseteq {"lost request"}
Orderly == OneLoopEach /\ Serialized = TRUE /\ OwnTexts /\ OnlyRequestsLost

Writes(m, g) ==
  /\ ~Applying(m)
  /\ \/ Create(m, g)
     \/ Edit(m, g)
     \/ fork[m][g] # NoFork /\ Merge(m, g)

Passes(l) == SkipOwn(l) \/ Fork(l) \/ Apply(l)
Moves(l) == Fetch(l) \/ Decide(l) \/ Wake(l)

LEMMA OrderlySteps ==
  ASSUME Orderly, net = {}, Next
  PROVE  \/ \E m \in Machines, g \in Gids : Writes(m, g)
         \/ \E l \in Loops :
              \/ Push(l) \/ Serve(l) \/ Acknowledge(l) \/ RequestLost(l)
              \/ Passes(l) \/ Moves(l)
         \/ \E m \in Machines : Elapse(m)
<1>1. CASE UserStep
  <2>1. PICK m \in Machines, g \in Gids :
          /\ ~(Serialized /\ Applying(m))
          /\ \/ Create(m, g)
             \/ Edit(m, g)
             \/ Delete(m, g)
             \/ /\ fork[m][g] # NoFork
                /\ \/ KeepServer(m, g)
                   \/ KeepMine(m, g)
                   \/ Merge(m, g)
                   \/ \E copy \in Gids : KeepBoth(m, g, copy)
    BY <1>1 DEF UserStep
  <2>2. "delete" \notin Users /\ "keep-server" \notin Users /\ "keep-mine" \notin Users
        /\ "keep-both" \notin Users
    BY DEF Orderly, OwnTexts
  <2>3. ~Delete(m, g) /\ ~KeepServer(m, g) /\ ~KeepMine(m, g)
        /\ \A copy : ~KeepBoth(m, g, copy)
    BY <2>2 DEF Delete, KeepServer, KeepMine, KeepBoth, Resolve
  <2>4. ~Applying(m)
    BY <2>1 DEF Orderly
  <2>5. Writes(m, g)
    BY <2>1, <2>3, <2>4 DEF Writes
  <2> QED BY <2>5
<1>2. ASSUME NEW l \in Loops, FaultStep(l)
      PROVE  RequestLost(l)
  <2>1. \A kind : kind # "lost request" => ~Fault(kind)
    BY DEF Orderly, OnlyRequestsLost, Fault
  <2> QED BY <1>2, <2>1 DEF FaultStep, AnswerLost, RequestLate, PullLost, FailedApply, SkipOp,
                             Restart, TornAck
<1>3. ASSUME NEW l \in Loops, LoopStep(l)
      PROVE  Push(l) \/ Serve(l) \/ Acknowledge(l) \/ Passes(l) \/ Moves(l)
  BY <1>3 DEF LoopStep, Passes, Moves
<1>4. ~ServeLate
  BY DEF ServeLate
<1> QED BY <1>1, <1>2, <1>3, <1>4 DEF Next

\* The user's step writes row n of machine m, for file g.
WroteRow(m, g, n) ==
  /\ n \in Nat /\ <<m, n>> \in Texts
  /\ DOMAIN outbox[m] = 1..(n - 1) /\ DOMAIN outbox'[m] = 1..n
  /\ \A i \in DOMAIN outbox[m] : outbox'[m][i] = outbox[m][i]
  /\ outbox'[m][n].gid = g /\ outbox'[m][n].text = <<m, n>>
  /\ outbox'[m][n].kind \in {"file.create", "file.update"}
  /\ outbox'[m][n].status = "pending" /\ outbox'[m][n].saw = seen[m]
  /\ outbox'[m][n].base \in {NoBase, known[m][g]}
  /\ seen'[m] = seen[m] \cup {<<m, n>>}
  /\ \A x \in Machines \ {m} : outbox'[x] = outbox[x] /\ seen'[x] = seen[x]
  /\ FindByClientSeq(log, m, n) = {}
  /\ UNCHANGED <<log, known, cursor, skipped, loop, net>>

\* ... and no other file of it.
WroteFile(m, g, n) ==
  /\ files'[m][g] = <<m, n>> \/ (fork[m][g] # NoFork /\ files[m][g] = NoText)
  /\ \A x \in Machines, h \in Gids : x # m \/ h # g =>
       /\ files'[x][h] = files[x][h] /\ fork'[x][h] = fork[x][h]
       /\ h \in lost'[x] <=> h \in lost[x]

LEMMA WritesOne ==
  ASSUME IInv, NEW m \in Machines, NEW g \in Gids, Writes(m, g)
  PROVE  \E n : WroteRow(m, g, n) /\ WroteFile(m, g, n)
<1> DEFINE n == Len(outbox[m]) + 1
<1>1. PICK kind \in {"file.create", "file.update"} :
        /\ Enqueue(m, g, kind, NewText(m))
        /\ UNCHANGED <<log, known, cursor, skipped, loop, net>>
  BY DEF Writes, Create, Edit, Merge, Resolve
<1>2. /\ TypeOK
      /\ outbox \in [Machines -> Seq(Row)] /\ outbox[m] \in Seq(Row) /\ seen \in [Machines -> SUBSET Texts]
      /\ Len(outbox[m]) \in Nat /\ DOMAIN outbox[m] = 1..Len(outbox[m])
      /\ files \in [Machines -> [Gids -> Texts \cup {NoText}]]
      /\ lost \in [Machines -> SUBSET Gids]
      /\ fork \in [Machines -> [Gids -> [remote : Texts, mine : Texts] \cup {NoFork}]]
  BY DEF IInv, TypeOK
<1>3. NewText(m) = <<m, n>> /\ NewText(m) \in Texts
  BY <1>1, <1>2, NewTextIsText DEF Enqueue, NewText
<1>4. NewText(m) # NoText
  BY <1>3, TokensAssumption
<1> DEFINE row == [gid |-> g, kind |-> kind, text |-> NewText(m), status |-> "pending",
                   base |-> IF kind = "file.create" THEN NoBase ELSE known[m][g],
                   saw |-> seen[m]]
<1>5. /\ outbox' = [outbox EXCEPT ![m] = Append(outbox[m], row)]
      /\ seen' = [seen EXCEPT ![m] = seen[m] \cup {NewText(m)}]
  <2>1. {NewText(m)} \ {NoText} = {NewText(m)}
    BY <1>4
  <2> QED BY <1>1, <2>1 DEF Enqueue
<1>6. /\ row.gid = g /\ row.text = <<m, n>> /\ row.kind \in {"file.create", "file.update"}
      /\ row.status = "pending" /\ row.saw = seen[m] /\ row.base \in {NoBase, known[m][g]}
  BY <1>3
<1> HIDE DEF row
<1>7. /\ outbox'[m] = Append(outbox[m], row) /\ seen'[m] = seen[m] \cup {<<m, n>>}
      /\ \A x \in Machines \ {m} : outbox'[x] = outbox[x] /\ seen'[x] = seen[x]
  <2> HIDE DEF n, Texts
  <2> QED BY <1>2, <1>3, <1>5
<1>8. /\ DOMAIN outbox'[m] = 1..n /\ outbox'[m][n] = row
      /\ \A i \in DOMAIN outbox[m] : outbox'[m][i] = outbox[m][i]
  BY <1>2, <1>7
<1>9. FindByClientSeq(log, m, n) = {}
  <2> SUFFICES ASSUME NEW k \in DOMAIN log, log[k].origin = m, log[k].cseq = n
               PROVE  FALSE
    BY DEF FindByClientSeq
  <2>1. HasRow(outbox, log[k])
    BY DEF IInv, OpsHaveRows
  <2> QED BY <1>2, <2>1 DEF HasRow
<1>10. WroteRow(m, g, n)
  <2>1. n \in Nat /\ n - 1 = Len(outbox[m])
    BY <1>2
  <2> QED BY <1>1, <1>2, <1>3, <1>6, <1>7, <1>8, <1>9, <2>1 DEF WroteRow
<1>11. WroteFile(m, g, n)
  <2> HIDE DEF n
  <2>1. CASE Create(m, g) \/ Edit(m, g)
    BY <1>2, <1>3, <2>1 DEF Create, Edit, WroteFile
  <2>2. CASE fork[m][g] # NoFork /\ Merge(m, g)
    <3>1. /\ files' = [files EXCEPT ![m][g] = IF files[m][g] = NoText THEN files[m][g] ELSE <<m, n>>]
          /\ fork' = [fork EXCEPT ![m][g] = NoFork]
          /\ lost' = [lost EXCEPT ![m] = lost[m] \ {g}]
      BY <1>2, <1>3, <2>2 DEF Merge, Resolve
    <3> QED BY <1>2, <2>2, <3>1 DEF WroteFile
  <2> QED BY <2>1, <2>2 DEF Writes
<1> QED BY <1>10, <1>11

\* The rows of machine x stay as they are, but for what a status says of a row's way
\* to its ack.
RowsStay(x) ==
  /\ DOMAIN outbox'[x] = DOMAIN outbox[x]
  /\ \A i \in DOMAIN outbox[x] :
       /\ outbox'[x][i].gid = outbox[x][i].gid /\ outbox'[x][i].kind = outbox[x][i].kind
       /\ outbox'[x][i].text = outbox[x][i].text /\ outbox'[x][i].saw = outbox[x][i].saw
       /\ outbox'[x][i].base = outbox[x][i].base
       /\ outbox'[x][i].status = "acked" <=> outbox[x][i].status = "acked"

\* A step that neither the relay's log nor any file or sight of one changes in.
Rests ==
  /\ \A x \in Machines : RowsStay(x)
  /\ UNCHANGED <<files, known, lost, fork, cursor, skipped, net, seen>>

(* Statuses set, on one machine, on rows of which none is acked before or   *)
(* after.                                                                   *)
LEMMA StatusRests ==
  ASSUME TypeOK, NEW m \in Machines, NEW ids, NEW status \in Statuses \ {"acked"},
         \A i \in ids : i \in DOMAIN outbox[m] => outbox[m][i].status # "acked",
         outbox' = [outbox EXCEPT ![m] = SetStatus(outbox[m], ids, status)]
  PROVE  \A x \in Machines : RowsStay(x)
<1> DEFINE new == SetStatus(outbox[m], ids, status)
<1>1. outbox \in [Machines -> Seq(Row)] /\ outbox[m] \in Seq(Row)
  BY DEF TypeOK
<1>2. /\ Restated(outbox[m], new)
      /\ \A i \in DOMAIN outbox[m] :
           /\ new[i].status = IF i \in ids THEN status ELSE outbox[m][i].status
           /\ new[i].base = outbox[m][i].base /\ new[i].saw = outbox[m][i].saw
  BY <1>1, SetStatusCorrect, StatusKeepsBases
<1> HIDE DEF new
<1>3. outbox'[m] = new /\ \A x \in Machines \ {m} : outbox'[x] = outbox[x]
  BY <1>1 DEF new
<1>4. RowsStay(m)
  BY <1>2, <1>3 DEF RowsStay, Restated
<1>5. \A x \in Machines \ {m} : RowsStay(x)
  BY <1>3 DEF RowsStay
<1> QED BY <1>4, <1>5

LEMMA PushRests ==
  ASSUME IInv, NEW l \in Loops, Push(l)
  PROVE  Rests /\ UNCHANGED log
<1> DEFINE m == Host[l]
           queued == Requeued(m)
           ids == Due(queued)
           sent == SetStatus(queued, ToSet(ids), "sent")
<1>1. /\ TypeOK /\ m \in Machines /\ outbox[m] \in Seq(Row)
      /\ "pending" \in Statuses /\ "sent" \in Statuses
  BY LoopsAssumption DEF IInv, TypeOK, Statuses
<1>2. /\ outbox' = [outbox EXCEPT ![m] = sent]
      /\ UNCHANGED <<log, files, known, lost, fork, cursor, skipped, net, seen>>
  BY DEF Push
<1>3. /\ Restated(outbox[m], queued)
      /\ \A i \in DOMAIN outbox[m] :
           /\ queued[i].status =
                IF i \in IdsIn(m, {"sent"}) THEN "pending" ELSE outbox[m][i].status
           /\ queued[i].base = outbox[m][i].base /\ queued[i].saw = outbox[m][i].saw
  BY <1>1, SetStatusCorrect, StatusKeepsBases DEF Requeued
<1> HIDE DEF queued
<1>4. queued \in Seq(Row) /\ DOMAIN queued = DOMAIN outbox[m]
  BY <1>3 DEF Restated
<1>5. /\ Restated(queued, sent)
      /\ \A i \in DOMAIN queued :
           /\ sent[i].status = IF i \in ToSet(ids) THEN "sent" ELSE queued[i].status
           /\ sent[i].base = queued[i].base /\ sent[i].saw = queued[i].saw
  BY <1>1, <1>4, SetStatusCorrect, StatusKeepsBases
<1>6. \A i \in ToSet(ids) : queued[i].status \in {"pending", "failed"}
  <2>1. ids \in Seq(Ready(queued))
    BY <1>4, DueCorrect
  <2>2. \A i \in Ready(queued) : queued[i].status \in {"pending", "failed"}
    BY DEF Ready
  <2> HIDE DEF ids
  <2> QED BY <2>1, <2>2 DEF ToSet
<1> HIDE DEF sent, ids
<1>7. outbox'[m] = sent /\ \A x \in Machines \ {m} : outbox'[x] = outbox[x]
  BY <1>1, <1>2 DEF TypeOK
<1>8. RowsStay(m)
  <2> SUFFICES ASSUME NEW i \in DOMAIN outbox[m]
               PROVE  sent[i].status = "acked" <=> outbox[m][i].status = "acked"
    BY <1>3, <1>4, <1>5, <1>7 DEF RowsStay, Restated
  <2>1. queued[i].status = "acked" <=> outbox[m][i].status = "acked"
    BY <1>3 DEF IdsIn
  <2>2. sent[i].status = "acked" <=> queued[i].status = "acked"
    BY <1>4, <1>5, <1>6
  <2> QED BY <2>1, <2>2
<1>9. \A x \in Machines \ {m} : RowsStay(x)
  BY <1>7 DEF RowsStay
<1> QED BY <1>2, <1>8, <1>9 DEF Rests

(* The other steps that write no text, ack no row and are done with no op.  *)
LEMMA OthersRest ==
  ASSUME IInv
  PROVE  /\ \A l \in Loops : Moves(l) => Rests /\ UNCHANGED log
         /\ \A l \in Loops : RequestLost(l) => Rests /\ UNCHANGED log
         /\ \A l \in Loops : Serve(l) => Rests
         /\ \A m \in Machines : Elapse(m) => Rests /\ UNCHANGED <<log, loop>>
<1>1. TypeOK
  BY DEF IInv
<1>2. ASSUME NEW l \in Loops, Moves(l)
      PROVE  Rests /\ UNCHANGED log
  BY <1>2 DEF Moves, Fetch, Decide, Wake, machineVars, Rests, RowsStay
<1>3. ASSUME NEW l \in Loops, Serve(l)
      PROVE  Rests
  BY <1>3 DEF Serve, machineVars, Rests, RowsStay
<1>4. ASSUME NEW l \in Loops, RequestLost(l)
      PROVE  Rests /\ UNCHANGED log
  <2> DEFINE m == Host[l]
             ids == {loop[l].ops[n].cseq : n \in DOMAIN loop[l].ops} \ IdsIn(m, {"acked"})
  <2>1. /\ m \in Machines /\ "waiting" \in Statuses \ {"acked"}
        /\ \A i \in ids : i \in DOMAIN outbox[m] => outbox[m][i].status # "acked"
    BY LoopsAssumption DEF Statuses, IdsIn
  <2>2. /\ outbox' = [outbox EXCEPT ![m] = SetStatus(outbox[m], ids, "waiting")]
        /\ UNCHANGED <<log, files, known, lost, fork, cursor, skipped, net, seen>>
    BY <1>1, <1>4, <2>1 DEF RequestLost, GiveUp, TypeOK
  <2> HIDE DEF m, ids
  <2> QED BY <1>1, <2>1, <2>2, StatusRests DEF Rests
<1>5. ASSUME NEW m \in Machines, Elapse(m)
      PROVE  Rests /\ UNCHANGED <<log, loop>>
  <2> DEFINE ids == IdsIn(m, {"waiting"})
  <2>1. /\ "failed" \in Statuses \ {"acked"}
        /\ \A i \in ids : i \in DOMAIN outbox[m] => outbox[m][i].status # "acked"
    BY DEF Statuses, IdsIn
  <2>2. /\ outbox' = [outbox EXCEPT ![m] = SetStatus(outbox[m], ids, "failed")]
        /\ UNCHANGED <<log, loop, files, known, lost, fork, cursor, skipped, net, seen>>
    BY <1>1, <1>5 DEF Elapse, TypeOK
  <2> HIDE DEF ids
  <2> QED BY <1>1, <2>1, <2>2, StatusRests DEF Rests
<1> QED BY <1>2, <1>3, <1>4, <1>5

-----------------------------------------------------------------------------
(* Where a machine is in the log: what it is done with of it, and what its  *)
(* requests and pages say of its cursor.                                    *)

\* Machine m is done with op k of the log, in a page or before it.
Handled(m, k) ==
  \/ k <= cursor[m]
  \/ \E l \in Loops :
       Host[l] = m /\ loop[l].pc \in {"paging", "applying"} /\ k < loop[l].at

\* Nothing of machine m goes past op p of the log: its versions, bases or ops.
CaughtUp(m, p) == BasedUpTo(m, p) /\ \A k \in DOMAIN log : log[k].origin = m => k <= p

\* A request asks no more of the log than up to op p; and the first of its ops of a
\* file has the base of its row.
AsksUpTo(ops, p) ==
  \A n \in DOMAIN ops :
    /\ ops[n].base # NoBase =>
         ops[n].base <= VersionAt(log, ops[n].gid, "content", p)
                          + Cardinality(OfFile(ops, n - 1, ops[n].gid))
    /\ OfFile(ops, n - 1, ops[n].gid) = {} =>
         ops[n].base = outbox[ops[n].origin][ops[n].cseq].base

\* Where a loop is, its machine's cursor says: a page is read from the cursor on, a
\* machine that has read its last page is caught up to the cursor, and what it then
\* pushes is logged after it.
PlaceInv(l) ==
  LET m == Host[l] IN
  /\ loop[l].pc \in {"idle", "posting", "backoff"} => CaughtUp(m, cursor[m])
  /\ loop[l].pc = "posting" => AsksUpTo(loop[l].ops, cursor[m])
  /\ loop[l].pc = "answered" =>
       \A n \in DOMAIN loop[l].answers :
         \A k \in FindByClientSeq(log, m, loop[l].answers[n].cseq) : cursor[m] < k
  /\ loop[l].pc = "pull" => loop[l].since = cursor[m]
  /\ loop[l].pc \in {"paging", "applying"} =>
       cursor[m] < loop[l].at /\ (~loop[l].full => CaughtUp(m, loop[l].upto))
  /\ loop[l].pc = "applying" => ~Own(l) /\ ~ShouldFork(m, loop[l].at)

PlacesInv == \A l \in Loops : PlaceInv(l)

\* A loop is done with op k of its machine's page.
PassesOp(l, k) ==
  LET m == Host[l] IN
  /\ loop[l].pc \in {"paging", "applying"} /\ loop[l].at = k /\ k \in DOMAIN log
  /\ RecordVersion(m, log[k].gid, VersionAt(log, log[k].gid, "content", k))
  /\ \A x \in Machines \ {m} : cursor'[x] = cursor[x]
  /\ \A j \in Loops \ {l} : loop'[j] = loop[j]
  /\ \/ /\ k # loop[l].upto /\ cursor'[m] = cursor[m]
        /\ loop'[l].pc = "paging" /\ loop'[l].at = k + 1
        /\ loop'[l].upto = loop[l].upto /\ loop'[l].full = loop[l].full
     \/ /\ k = loop[l].upto /\ cursor'[m] = k
        /\ \/ loop[l].full /\ loop'[l].pc = "pull" /\ loop'[l].since = k
           \/ ~loop[l].full /\ loop'[l].pc = "idle"
  /\ UNCHANGED <<log, outbox, skipped, net>>

LEMMA PassesOne ==
  ASSUME IInv, PlacesInv, NEW l \in Loops, Passes(l)
  PROVE  PassesOp(l, loop[l].at)
<1> DEFINE m == Host[l]
<1>0. PICK k : k = loop[l].at
  OBVIOUS
<1>1. loop[l].pc \in {"paging", "applying"}
  BY DEF Passes, SkipOwn, Fork, Apply, Handling
<1>2. /\ loop[l] \in PageState /\ m \in Machines
      /\ k \in Nat /\ loop[l].upto \in Nat /\ k \in 1..loop[l].upto /\ k \in DOMAIN log
  BY <1>0, <1>1, InPage
<1>3. cursor \in [Machines -> Nat] /\ cursor[m] \in Nat /\ loop \in [Loops -> LoopState]
  BY <1>2 DEF IInv, TypeOK
<1>4. cursor[m] < k
  BY <1>0, <1>1 DEF PlacesInv, PlaceInv
<1>5. RecordPulled(l) /\ RowDone(l) /\ UNCHANGED <<log, outbox, skipped, net>>
  BY DEF Passes, SkipOwn, Fork, Apply
<1>6. RecordVersion(m, log[k].gid, VersionAt(log, log[k].gid, "content", k))
  <2>1. KindFamily(log[k].kind) = "content"
    BY <1>2, LogRow
  <2> QED BY <1>0, <1>5, <2>1 DEF RecordPulled, At
<1> HIDE DEF m
<1>7. CASE k = loop[l].upto
  <2> DEFINE s == IF loop[l].full THEN ToPull(k) ELSE Idle
  <2>1. loop' = [loop EXCEPT ![l] = s] /\ AdvanceCursor(m, k)
    BY <1>0, <1>3, <1>5, <1>7 DEF RowDone, m
  <2>2. \/ loop[l].full /\ s.pc = "pull" /\ s.since = k
        \/ ~loop[l].full /\ s.pc = "idle"
    BY DEF ToPull, Idle
  <2>3. Max({cursor[m], k}) = k
    BY <1>2, <1>3, <1>4, MaxOfTwo
  <2>4. cursor'[m] = k /\ \A x \in Machines \ {m} : cursor'[x] = cursor[x]
    BY <1>2, <1>3, <2>1, <2>3 DEF AdvanceCursor
  <2> HIDE DEF s
  <2>5. loop'[l] = s /\ \A j \in Loops \ {l} : loop'[j] = loop[j]
    BY <1>3, <2>1
  <2> QED BY <1>0, <1>1, <1>2, <1>5, <1>6, <1>7, <2>2, <2>4, <2>5 DEF PassesOp, m
<1>8. CASE k # loop[l].upto
  <2> DEFINE s == [loop[l] EXCEPT !.at = k + 1, !.pc = "paging"]
  <2>1. loop' = [loop EXCEPT ![l] = s] /\ cursor' = cursor
    BY <1>0, <1>3, <1>5, <1>8 DEF RowDone
  <2>2. s.pc = "paging" /\ s.at = k + 1 /\ s.upto = loop[l].upto /\ s.full = loop[l].full
    BY <1>2 DEF PageState
  <2> HIDE DEF s
  <2>3. loop'[l] = s /\ \A j \in Loops \ {l} : loop'[j] = loop[j]
    BY <1>3, <2>1
  <2> QED BY <1>0, <1>1, <1>2, <1>5, <1>6, <1>8, <2>1, <2>2, <2>3 DEF PassesOp, m
<1> QED BY <1>7, <1>8

(* ... and then it has handled that op too, and no machine any other.       *)
LEMMA HandlesOne ==
  ASSUME IInv, OneLoopEach, PlacesInv, NEW l \in Loops, NEW k, PassesOp(l, k)
  PROVE  /\ ~Handled(Host[l], k) /\ \A j \in 1..(k - 1) : Handled(Host[l], j)
         /\ \A j \in Int : Handled(Host[l], j) => j < k
         /\ \A x \in Machines, j \in Int :
              Handled(x, j)' <=> Handled(x, j) \/ (x = Host[l] /\ j = k)
<1> DEFINE m == Host[l]
<1>1. /\ loop[l].pc \in {"paging", "applying"} /\ k = loop[l].at
      /\ m \in Machines /\ k \in Nat /\ loop[l].upto \in Nat
  BY InPage DEF PassesOp
<1>2. cursor[m] < k /\ cursor[m] \in Nat
  BY <1>1 DEF PlacesInv, PlaceInv, IInv, TypeOK
<1>3. \A j \in Loops : Host[j] = m => j = l
  BY DEF OneLoopEach
<1>4. \A j \in Int : Handled(m, j) <=> j < k
  BY <1>1, <1>2, <1>3 DEF Handled
<1>5. \A j \in Int : Handled(m, j)' <=> j < k \/ j = k
  <2>1. CASE k # loop[l].upto
    <3>1. /\ loop'[l].pc = "paging" /\ loop'[l].at = k + 1 /\ cursor'[m] = cursor[m]
      BY <2>1 DEF PassesOp
    <3> QED BY <1>1, <1>2, <1>3, <3>1 DEF Handled
  <2>2. CASE k = loop[l].upto
    <3>1. /\ loop'[l].pc \notin {"paging", "applying"} /\ cursor'[m] = k
      BY <2>2 DEF PassesOp
    <3> QED BY <1>1, <1>3, <3>1 DEF Handled
  <2> QED BY <2>1, <2>2
<1>6. ASSUME NEW x \in Machines \ {m}, NEW j
      PROVE  Handled(x, j)' <=> Handled(x, j)
  <2>1. cursor'[x] = cursor[x] /\ \A i \in Loops : Host[i] = x => loop'[i] = loop[i]
    BY <1>6 DEF PassesOp
  <2> QED BY <2>1 DEF Handled
<1>7. \A j \in 1..(k - 1) : j \in Int /\ j < k
  BY <1>1
<1> QED BY <1>1, <1>4, <1>5, <1>6, <1>7

(* No machine handles an op the log does not have yet.                      *)
LEMMA HandledInLog ==
  ASSUME IInv, NEW m \in Machines, NEW k \in Nat, Handled(m, k)
  PROVE  k <= Len(log)
<1>1. Len(log) \in Nat /\ cursor[m] \in Nat /\ cursor[m] <= Len(log)
  BY DEF IInv, TypeOK, NeverAhead
<1>2. ASSUME NEW l \in Loops, loop[l].pc \in {"paging", "applying"}, k < loop[l].at
      PROVE  k <= Len(log)
  BY <1>1, <1>2, InPage
<1> QED BY <1>1, <1>2 DEF Handled

(* A loop that moves without being done with an op leaves what is handled.  *)
LEMMA HandledStays ==
  ASSUME IInv, OneLoopEach, PlacesInv, UNCHANGED cursor, NEW l \in Loops,
         \A k \in Loops \ {l} : loop'[k] = loop[k],
         \/ /\ loop[l].pc \notin {"pull", "paging", "applying"}
            /\ loop'[l].pc \notin {"paging", "applying"}
         \/ Fetch(l) \/ Decide(l)
  PROVE  \A x \in Machines, k \in Int : Handled(x, k)' <=> Handled(x, k)
<1> DEFINE m == Host[l]
<1>1. m \in Machines /\ cursor[m] \in Nat /\ loop \in [Loops -> LoopState]
  BY LoopsAssumption DEF IInv, TypeOK
<1>2. \A k \in Loops : Host[k] = m => k = l
  BY DEF OneLoopEach
<1>3. ASSUME NEW k \in Int
      PROVE  Handled(m, k)' <=> Handled(m, k)
  <2>1. CASE /\ loop[l].pc \notin {"pull", "paging", "applying"}
             /\ loop'[l].pc \notin {"paging", "applying"}
    BY <1>2, <2>1 DEF Handled
  <2>2. CASE Fetch(l)
    <3>1. PICK since \in Nat : since = loop[l].since /\ since = cursor[m] /\ loop[l].pc = "pull"
      BY <1>1, <2>2 DEF Fetch, PlacesInv, PlaceInv
    <3> DEFINE s == IF PageEnd(since) = since THEN Idle ELSE Paging(since, PageEnd(since))
    <3>2. s.pc = "idle" \/ (s.pc = "paging" /\ s.at = since + 1)
      BY DEF Idle, Paging
    <3>3. loop' = [loop EXCEPT ![l] = s]
      BY <2>2, <3>1 DEF Fetch
    <3> HIDE DEF s
    <3>4. loop'[l] = s
      BY <1>1, <3>3
    <3> QED BY <1>1, <1>2, <3>1, <3>2, <3>4 DEF Handled
  <2>3. CASE Decide(l)
    <3>1. loop[l].pc = "paging" /\ loop' = [loop EXCEPT ![l].pc = "applying"]
      BY <2>3 DEF Decide, Handling
    <3>2. loop[l] \in PageState
      BY <3>1, InPage
    <3>3. loop'[l] = [loop[l] EXCEPT !.pc = "applying"]
      BY <1>1, <3>1
    <3>4. loop'[l].pc = "applying" /\ loop'[l].at = loop[l].at
      BY <3>2, <3>3 DEF PageState
    <3> QED BY <1>2, <3>1, <3>4 DEF Handled
  <2> QED BY <2>1, <2>2, <2>3
<1>4. ASSUME NEW x \in Machines \ {m}, NEW k
      PROVE  Handled(x, k)' <=> Handled(x, k)
  <2>1. \A j \in Loops : Host[j] = x => loop'[j] = loop[j]
    BY <1>4
  <2> QED BY <2>1 DEF Handled
<1> QED BY <1>3, <1>4

-----------------------------------------------------------------------------
(* Texts, and who has had them before them.                                 *)

\* With a text, a set of texts has every text that its author had before them.
Closed(rows, S) ==
  \A t \in S : t[2] \in DOMAIN rows[t[1]] /\ rows[t[1]][t[2]].saw \subseteq S

\* A row carries the text named after it, its author had their earlier texts before
\* them, and whoever has had a text has had what its author had.
TextsInv ==
  \A m \in Machines :
    /\ skipped[m] = {}
    /\ Closed(outbox, seen[m])
    /\ \A i \in DOMAIN outbox[m] :
         /\ outbox[m][i].kind # "file.delete" /\ outbox[m][i].text = <<m, i>>
         /\ <<m, i>> \in seen[m] /\ \A j \in 1..(i - 1) : <<m, j>> \in outbox[m][i].saw
         /\ Closed(outbox, outbox[m][i].saw)

\* The text of op k of the log.
Text(k) == <<log[k].origin, log[k].cseq>>

LEMMA ClosedStays ==
  ASSUME NEW rows, NEW new, NEW S \in SUBSET Texts, Closed(rows, S),
         \A x \in Machines : \A i \in DOMAIN rows[x] :
           i \in DOMAIN new[x] /\ new[x][i].saw = rows[x][i].saw
  PROVE  Closed(new, S)
<1> SUFFICES ASSUME NEW t \in S
             PROVE  t[2] \in DOMAIN new[t[1]] /\ new[t[1]][t[2]].saw \subseteq S
  BY DEF Closed
<1>1. t[2] \in DOMAIN rows[t[1]] /\ rows[t[1]][t[2]].saw \subseteq S
  BY DEF Closed
<1>2. t[1] \in Machines
  BY DEF Texts
<1> QED BY <1>1, <1>2

(* No row and no sight of a text is new.                                    *)
LEMMA TextsStay ==
  ASSUME TypeOK, TextsInv, UNCHANGED <<seen, skipped>>,
         \A x \in Machines :
           /\ DOMAIN outbox'[x] = DOMAIN outbox[x]
           /\ \A i \in DOMAIN outbox[x] :
                /\ outbox'[x][i].kind = outbox[x][i].kind
                /\ outbox'[x][i].text = outbox[x][i].text
                /\ outbox'[x][i].saw = outbox[x][i].saw
  PROVE  TextsInv'
<1> SUFFICES ASSUME NEW m \in Machines
             PROVE  /\ skipped[m] = {}
                    /\ Closed(outbox', seen[m])
                    /\ \A i \in DOMAIN outbox[m] :
                         /\ outbox'[m][i].kind # "file.delete" /\ outbox'[m][i].text = <<m, i>>
                         /\ <<m, i>> \in seen[m]
                         /\ \A j \in 1..(i - 1) : <<m, j>> \in outbox'[m][i].saw
                         /\ Closed(outbox', outbox'[m][i].saw)
  BY DEF TextsInv
<1>1. /\ seen[m] \in SUBSET Texts
      /\ \A i \in DOMAIN outbox[m] : outbox[m][i].saw \in SUBSET Texts
  <2>1. seen[m] \in SUBSET Texts /\ outbox[m] \in Seq(Row)
    BY DEF TypeOK
  <2>2. \A i \in DOMAIN outbox[m] : outbox[m][i] \in Row
    BY <2>1
  <2> QED BY <2>1, <2>2 DEF Row
<1>2. Closed(outbox', seen[m])
  <2>1. Closed(outbox, seen[m])
    BY DEF TextsInv
  <2> QED BY <1>1, <2>1, ClosedStays
<1>3. ASSUME NEW i \in DOMAIN outbox[m]
      PROVE  Closed(outbox', outbox'[m][i].saw)
  <2>1. Closed(outbox, outbox[m][i].saw)
    BY DEF TextsInv
  <2>2. Closed(outbox', outbox[m][i].saw)
    BY <1>1, <2>1, ClosedStays
  <2> QED BY <2>2
<1> QED BY <1>2, <1>3 DEF TextsInv

(* The user writes the next text of their machine.                          *)
LEMMA WritesKeepTexts ==
  ASSUME IInv, TextsInv, NEW m \in Machines, NEW g \in Gids, NEW n, WroteRow(m, g, n)
  PROVE  TextsInv'
<1>1. /\ n \in Nat /\ <<m, n>> \in Texts
      /\ DOMAIN outbox[m] = 1..(n - 1) /\ DOMAIN outbox'[m] = 1..n
      /\ \A i \in DOMAIN outbox[m] : outbox'[m][i] = outbox[m][i]
      /\ outbox'[m][n].text = <<m, n>> /\ outbox'[m][n].kind # "file.delete"
      /\ outbox'[m][n].saw = seen[m] /\ seen'[m] = seen[m] \cup {<<m, n>>}
      /\ \A x \in Machines \ {m} : outbox'[x] = outbox[x] /\ seen'[x] = seen[x]
      /\ skipped' = skipped
  BY DEF WroteRow
<1>2. \A x \in Machines :
        /\ seen[x] \in SUBSET Texts
        /\ \A i \in DOMAIN outbox[x] : outbox[x][i].saw \in SUBSET Texts
  <2>1. \A x \in Machines : seen[x] \in SUBSET Texts /\ outbox[x] \in Seq(Row)
    BY DEF IInv, TypeOK
  <2>2. \A x \in Machines : \A i \in DOMAIN outbox[x] : outbox[x][i] \in Row
    BY <2>1
  <2> QED BY <2>1, <2>2 DEF Row
<1>3. \A x \in Machines : \A i \in DOMAIN outbox[x] :
        i \in DOMAIN outbox'[x] /\ outbox'[x][i] = outbox[x][i]
  <2>1. \A i \in 1..(n - 1) : i \in 1..n
    BY <1>1
  <2> QED BY <1>1, <2>1
<1>4. ASSUME NEW S \in SUBSET Texts, Closed(outbox, S)
      PROVE  Closed(outbox', S)
  BY <1>3, <1>4, ClosedStays
<1>5. Closed(outbox', seen[m] \cup {<<m, n>>})
  <2>1. Closed(outbox', seen[m])
    BY <1>2, <1>4 DEF TextsInv
  <2>2. n \in 1..n
    <3>1. n # 0
      BY <1>1 DEF Texts
    <3> QED BY <1>1, <3>1
  <2> QED BY <1>1, <2>1, <2>2 DEF Closed
<1>6. ASSUME NEW x \in Machines
      PROVE  Closed(outbox', seen'[x])
  <2>1. CASE x = m
    BY <1>1, <1>5, <2>1
  <2>2. CASE x # m
    <3>1. Closed(outbox', seen[x])
      BY <1>2, <1>4 DEF TextsInv
    <3> QED BY <1>1, <2>2, <3>1
  <2> QED BY <2>1, <2>2
<1>7. ASSUME NEW x \in Machines, NEW i \in DOMAIN outbox'[x]
      PROVE  /\ outbox'[x][i].kind # "file.delete" /\ outbox'[x][i].text = <<x, i>>
             /\ <<x, i>> \in seen'[x] /\ \A j \in 1..(i - 1) : <<x, j>> \in outbox'[x][i].saw
             /\ Closed(outbox', outbox'[x][i].saw)
  <2>1. CASE i \in DOMAIN outbox[x]
    <3>1. outbox'[x][i] = outbox[x][i] /\ seen[x] \subseteq seen'[x]
      BY <1>1, <1>3, <2>1
    <3>2. Closed(outbox', outbox[x][i].saw)
      BY <1>2, <1>4, <2>1 DEF TextsInv
    <3> QED BY <2>1, <3>1, <3>2 DEF TextsInv
  <2>2. CASE i \notin DOMAIN outbox[x]
    <3>1. x = m /\ i = n
      BY <1>1, <2>2
    <3>2. \A j \in 1..(n - 1) : <<m, j>> \in seen[m]
      BY <1>1 DEF TextsInv
    <3>3. Closed(outbox', seen[m])
      BY <1>2, <1>4 DEF TextsInv
    <3> QED BY <1>1, <3>1, <3>2, <3>3
  <2> QED BY <2>1, <2>2
<1> QED BY <1>1, <1>6, <1>7 DEF TextsInv

(* The row of an op of the log.                                             *)
LEMMA RowOfText ==
  ASSUME IInv, TextsInv, NEW k \in DOMAIN log
  PROVE  /\ log[k].origin \in Machines /\ log[k].gid \in Gids
         /\ log[k].cseq \in DOMAIN outbox[log[k].origin]
         /\ RowOf(k).gid = log[k].gid /\ RowOf(k).kind = log[k].kind
         /\ log[k].kind \in {"file.create", "file.update"}
         /\ RowOf(k).text = Text(k) /\ Text(k) \in Texts /\ Text(k) # NoText
         /\ RowOf(k).saw \subseteq Texts /\ Closed(outbox, RowOf(k).saw)
<1>1. log[k].origin \in Machines /\ log[k].gid \in Gids /\ RowOf(k).saw \subseteq Texts
      /\ (log[k].kind # "file.delete" => RowOf(k).text \in Texts)
  BY LogRow
<1>2. HasRow(outbox, log[k])
  BY DEF IInv, OpsHaveRows
<1>3. /\ log[k].cseq \in DOMAIN outbox[log[k].origin]
      /\ RowOf(k).gid = log[k].gid /\ RowOf(k).kind = log[k].kind
  BY <1>2 DEF HasRow, RowOf
<1>4. RowOf(k).kind # "file.delete" /\ RowOf(k).text = Text(k) /\ Closed(outbox, RowOf(k).saw)
  BY <1>1, <1>3 DEF TextsInv, RowOf, Text
<1>5. RowOf(k) \in Row
  <2>1. outbox[log[k].origin] \in Seq(Row)
    BY <1>1 DEF IInv, TypeOK
  <2> QED BY <1>3, <2>1 DEF RowOf
<1>6. log[k].kind \in {"file.create", "file.update"}
  BY <1>3, <1>4, <1>5 DEF Row, PushKinds
<1>7. Text(k) \in Texts /\ Text(k) # NoText
  BY <1>1, <1>4, <1>6, TokensAssumption
<1> QED BY <1>1, <1>3, <1>4, <1>6, <1>7

\* What the machine of loop l makes of op k: its own is let be, another's becomes a
\* conflict, or its file's text.
PassesFile(l, k) ==
  LET m == Host[l]
      g == log[k].gid IN
  /\ \A x \in Machines, h \in Gids : x # m \/ h # g =>
       /\ files'[x][h] = files[x][h] /\ fork'[x][h] = fork[x][h]
       /\ h \in lost'[x] <=> h \in lost[x]
  /\ \A x \in Machines \ {m} : seen'[x] = seen[x]
  /\ \/ /\ log[k].origin = m /\ seen'[m] = seen[m]
        /\ files'[m][g] = files[m][g] /\ fork'[m][g] = fork[m][g]
        /\ g \in lost'[m] <=> g \in lost[m]
     \/ /\ log[k].origin # m /\ seen'[m] = seen[m] \cup RowOf(k).saw \cup {Text(k)}
        /\ g \notin lost'[m]
        /\ \/ /\ ShouldFork(m, k)
              /\ files'[m][g] = files[m][g] /\ fork'[m][g] # NoFork
           \/ /\ loop[l].pc = "applying" /\ ~ShouldFork(m, k)
              /\ files'[m][g] = Text(k) /\ fork'[m][g] = fork[m][g]

LEMMA PassesOneFile ==
  ASSUME IInv, TextsInv, PlacesInv, NEW l \in Loops, Passes(l)
  PROVE  PassesFile(l, loop[l].at)
<1> DEFINE m == Host[l]
<1>0. PICK k : k = loop[l].at
  BY Zenon
<1>1. loop[l].pc \in {"paging", "applying"}
  BY DEF Passes, SkipOwn, Fork, Apply, Handling
<1>2. m \in Machines /\ k \in DOMAIN log
  BY <1>0, <1>1, InPage
<1> DEFINE g == log[k].gid
<1>3. /\ g \in Gids /\ RowOf(k).text = Text(k) /\ Text(k) \in Texts /\ Text(k) # NoText
      /\ log[k].kind # "file.delete"
  BY <1>2, RowOfText
<1>4. /\ files \in [Machines -> [Gids -> Texts \cup {NoText}]]
      /\ lost \in [Machines -> SUBSET Gids]
      /\ fork \in [Machines -> [Gids -> [remote : Texts, mine : Texts] \cup {NoFork}]]
      /\ seen \in [Machines -> SUBSET Texts]
  BY DEF IInv, TypeOK
<1>5. Shown(m, k) = seen[m] \cup RowOf(k).saw \cup {Text(k)}
  <2>1. {Text(k)} \ {NoText} = {Text(k)}
    BY <1>3
  <2> QED BY <1>3, <2>1 DEF Shown
<1>6. Own(l) <=> log[k].origin = m
  BY <1>0 DEF Own, At
<1>7. CASE SkipOwn(l)
  <2>1. ~LostDelete(l)
    BY <1>0, <1>3 DEF LostDelete, At
  <2> QED BY <1>0, <1>6, <1>7, <2>1 DEF SkipOwn, PassesFile
<1>8. CASE Fork(l)
  <2> DEFINE new == [remote |-> RowOf(k).text, mine |-> files[m][g]]
  <2>1. /\ ShouldFork(m, k) /\ log[k].origin # m /\ files' = files
        /\ fork' = [fork EXCEPT ![m][g] = new]
        /\ lost' = [lost EXCEPT ![m] = lost[m] \ {g}]
        /\ seen' = [seen EXCEPT ![m] = Shown(m, k)]
    BY <1>0, <1>2, <1>4, <1>6, <1>8 DEF Fork
  <2>2. new # NoFork
    <3>1. files[m][g] \in Texts
      BY <1>2, <1>3, <1>4, <2>1 DEF ShouldFork
    <3> QED BY <1>3, <3>1, TokensAssumption
  <2> HIDE DEF new, m, g
  <2>3. /\ fork'[m][g] = new /\ lost'[m] = lost[m] \ {g} /\ seen'[m] = Shown(m, k)
        /\ \A x \in Machines, h \in Gids : x # m \/ h # g =>
             fork'[x][h] = fork[x][h] /\ (h \in lost'[x] <=> h \in lost[x])
        /\ \A x \in Machines \ {m} : seen'[x] = seen[x]
    BY <1>2, <1>3, <1>4, <2>1
  <2>4. files'[m][g] = files[m][g] /\ g \notin lost'[m]
    BY <2>1, <2>3
  <2>5. \A x \in Machines, h \in Gids : files'[x][h] = files[x][h]
    BY <2>1
  <2>6. PassesFile(l, k)
    BY <1>5, <2>1, <2>2, <2>3, <2>4, <2>5 DEF PassesFile, m, g
  <2> QED BY <1>0, <2>6
<1>9. CASE Apply(l)
  <2>1. /\ loop[l].pc = "applying" /\ fork' = fork
        /\ files' = [files EXCEPT ![m][g] = RowOf(k).text]
        /\ lost' = [lost EXCEPT ![m] = lost[m] \ {g}]
        /\ seen' = [seen EXCEPT ![m] = Shown(m, k)]
    BY <1>0, <1>2, <1>3, <1>4, <1>9 DEF Apply
  <2>2. ~ShouldFork(m, k) /\ log[k].origin # m
    BY <1>0, <1>6, <2>1 DEF PlacesInv, PlaceInv
  <2> HIDE DEF m, g
  <2>3. /\ files'[m][g] = Text(k) /\ lost'[m] = lost[m] \ {g} /\ seen'[m] = Shown(m, k)
        /\ \A x \in Machines, h \in Gids : x # m \/ h # g =>
             files'[x][h] = files[x][h] /\ (h \in lost'[x] <=> h \in lost[x])
        /\ \A x \in Machines \ {m} : seen'[x] = seen[x]
    BY <1>2, <1>3, <1>4, <2>1
  <2>4. fork'[m][g] = fork[m][g] /\ g \notin lost'[m] /\ loop[l].pc = "applying"
    BY <2>1, <2>3
  <2>5. \A x \in Machines, h \in Gids : fork'[x][h] = fork[x][h]
    BY <2>1
  <2>6. PassesFile(l, k)
    BY <1>5, <2>2, <2>3, <2>4, <2>5 DEF PassesFile, m, g
  <2> QED BY <1>0, <2>6
<1> QED BY <1>7, <1>8, <1>9 DEF Passes

LEMMA PassingKeepsTexts ==
  ASSUME IInv, TextsInv, PlacesInv, NEW l \in Loops, Passes(l)
  PROVE  TextsInv'
<1>1. PICK k : k = loop[l].at
  OBVIOUS
<1>2. PICK m \in Machines : m = Host[l]
  BY LoopsAssumption, Zenon
<1>3. /\ k \in DOMAIN log /\ UNCHANGED <<outbox, skipped>>
      /\ \A x \in Machines \ {m} : seen'[x] = seen[x]
      /\ seen'[m] = seen[m] \/ seen'[m] = seen[m] \cup RowOf(k).saw \cup {Text(k)}
  BY <1>1, <1>2, PassesOne, PassesOneFile DEF PassesOp, PassesFile
<1>4. ASSUME NEW x \in Machines
      PROVE  Closed(outbox, seen'[x]) /\ seen[x] \subseteq seen'[x]
  <2>1. Closed(outbox, seen[x])
    BY DEF TextsInv
  <2>2. Closed(outbox, seen[x] \cup RowOf(k).saw \cup {Text(k)})
    <3>1. /\ Closed(outbox, RowOf(k).saw)
          /\ Text(k)[2] \in DOMAIN outbox[Text(k)[1]]
          /\ outbox[Text(k)[1]][Text(k)[2]].saw = RowOf(k).saw
      BY <1>3, RowOfText DEF RowOf, Text
    <3> QED BY <2>1, <3>1 DEF Closed
  <2> QED BY <1>3, <2>1, <2>2
<1> QED BY <1>3, <1>4 DEF TextsInv

(* An answer taken in leaves what rows carry.                               *)
LEMMA AckingKeepsTexts ==
  ASSUME IInv, TextsInv, NEW l \in Loops, NEW p, NEW g, NEW a, NEW rest,
         TakesAnswer(l, p, g, a, rest)
  PROVE  TextsInv'
<1>1. PICK m \in Machines : m = Host[l]
  BY LoopsAssumption
<1>2. /\ DOMAIN outbox'[m] = DOMAIN outbox[m]
      /\ \A i \in DOMAIN outbox[m] :
           /\ outbox'[m][i].kind = outbox[m][i].kind
           /\ outbox'[m][i].text = outbox[m][i].text /\ outbox'[m][i].saw = outbox[m][i].saw
      /\ \A x \in Machines \ {m} : outbox'[x] = outbox[x]
      /\ UNCHANGED <<seen, skipped>>
  BY <1>1 DEF TakesAnswer
<1> QED BY <1>2, TextsStay DEF IInv

LEMMA StepTextsInv ==
  ASSUME Orderly, IInv, BasesInv, TextsInv, PlacesInv, Next
  PROVE  TextsInv'
<1>1. TypeOK /\ OneLoopEach
  BY DEF IInv, Orderly
<1>2. ASSUME Rests
      PROVE  TextsInv'
  BY <1>1, <1>2, TextsStay DEF Rests, RowsStay
<1>3. ASSUME NEW m \in Machines, NEW g \in Gids, Writes(m, g)
      PROVE  TextsInv'
  BY <1>3, WritesOne, WritesKeepTexts
<1>4. ASSUME NEW l \in Loops, Acknowledge(l)
      PROVE  TextsInv'
  BY <1>1, <1>4, AnswerTaken, AckingKeepsTexts
<1>5. ASSUME NEW l \in Loops, Push(l) \/ Serve(l) \/ RequestLost(l) \/ Moves(l)
      PROVE  TextsInv'
  BY <1>2, <1>5, PushRests, OthersRest
<1>6. ASSUME NEW m \in Machines, Elapse(m)
      PROVE  TextsInv'
  BY <1>2, <1>6, OthersRest
<1> QED BY <1>3, <1>4, <1>5, <1>6, PassingKeepsTexts, OrderlySteps DEF BasesInv

-----------------------------------------------------------------------------
(* PlacesInv is inductive, one kind of step after the other.                *)

\* The log is only added to, and none of what is added is machine m's.
AddsForOthers(m) ==
  /\ log \in Logs /\ log' \in Logs /\ Extends(log, log')
  /\ \A k \in (Len(log) + 1)..Len(log') : log'[k].origin # m

LEMMA NothingAdded ==
  ASSUME IInv, log' = log
  PROVE  \A m : AddsForOthers(m)
BY LogStays DEF AddsForOthers, IInv, TypeOK, Logs

(* Then m's own ops are where they were.                                    *)
LEMMA OwnOpsStay ==
  ASSUME NEW m, AddsForOthers(m)
  PROVE  /\ \A i : FindByClientSeq(log', m, i) = FindByClientSeq(log, m, i)
         /\ \A k \in DOMAIN log' : log'[k].origin = m => k \in DOMAIN log
         /\ \A k \in DOMAIN log : k \in DOMAIN log' /\ log'[k] = log[k]
<1>1. /\ DOMAIN log = 1..Len(log) /\ DOMAIN log' = 1..Len(log')
      /\ Len(log) \in Nat /\ Len(log') \in Nat /\ Len(log) <= Len(log')
      /\ \A k \in 1..Len(log) : log'[k] = log[k]
  BY DEF AddsForOthers, Logs, Extends
<1>2. \A k \in DOMAIN log' : log'[k].origin = m => k \in DOMAIN log
  BY <1>1 DEF AddsForOthers
<1>3. \A k \in DOMAIN log : k \in DOMAIN log' /\ log'[k] = log[k]
  BY <1>1
<1> QED BY <1>2, <1>3 DEF FindByClientSeq

\* The rows of machine m keep their bases, and those that are new are based on what
\* it knows.
RowsBasedAsBefore(m) ==
  /\ \A i \in DOMAIN outbox[m] :
       /\ i \in DOMAIN outbox'[m]
       /\ outbox'[m][i].gid = outbox[m][i].gid /\ outbox'[m][i].base = outbox[m][i].base
  /\ \A i \in DOMAIN outbox'[m] : i \notin DOMAIN outbox[m] =>
       outbox'[m][i].gid \in Gids
         /\ outbox'[m][i].base \in {NoBase, known[m][outbox'[m][i].gid]}

LEMMA CaughtUpStays ==
  ASSUME NEW m \in Machines, NEW p \in 0..Len(log), CaughtUp(m, p), AddsForOthers(m),
         RowsBasedAsBefore(m),
         \A g \in Gids : \/ known'[m][g] = known[m][g]
                         \/ known'[m][g] <= VersionAt(log, g, "content", p)
  PROVE  CaughtUp(m, p)'
<1>1. p \in Nat /\ p <= Len(log)
  BY DEF AddsForOthers, Logs
<1>2. \A g : VersionAt(log', g, "content", p) = VersionAt(log, g, "content", p)
  BY <1>1, VersionStays DEF AddsForOthers
<1>3. BasedUpTo(m, p)'
  <2>1. ASSUME NEW g \in Gids
        PROVE  known'[m][g] <= VersionAt(log', g, "content", p)
    BY <1>2 DEF CaughtUp, BasedUpTo
  <2>2. ASSUME NEW i \in DOMAIN outbox'[m], FindByClientSeq(log', m, i) = {},
               outbox'[m][i].base # NoBase
        PROVE  outbox'[m][i].base <= VersionAt(log', outbox'[m][i].gid, "content", p)
    <3>1. FindByClientSeq(log, m, i) = {}
      BY <2>2, OwnOpsStay
    <3>2. CASE i \in DOMAIN outbox[m]
      BY <1>2, <2>2, <3>1, <3>2 DEF CaughtUp, BasedUpTo, RowsBasedAsBefore
    <3>3. CASE i \notin DOMAIN outbox[m]
      <4>1. outbox'[m][i].gid \in Gids /\ outbox'[m][i].base = known[m][outbox'[m][i].gid]
        BY <2>2, <3>3 DEF RowsBasedAsBefore
      <4> QED BY <1>2, <4>1 DEF CaughtUp, BasedUpTo
    <3> QED BY <3>2, <3>3
  <2> QED BY <2>1, <2>2 DEF BasedUpTo
<1>4. \A k \in DOMAIN log' : log'[k].origin = m => k <= p
  BY OwnOpsStay DEF CaughtUp
<1> QED BY <1>3, <1>4 DEF CaughtUp

(* The end of the log is always far enough.                                 *)
LEMMA CaughtUpToEnd ==
  ASSUME IInv, NEW m \in Machines, MachineInv(m)
  PROVE  CaughtUp(m, Len(log))
BY BasedToEnd DEF CaughtUp, IInv, TypeOK

\* Of machine m's files, nothing ShouldFork asks changes.
FilesRest(m) ==
  /\ RowsStay(m)
  /\ \A g \in Gids : /\ files'[m][g] = files[m][g] /\ fork'[m][g] = fork[m][g]
                     /\ g \in lost'[m] <=> g \in lost[m]

LEMMA SameVerdict ==
  ASSUME IInv, Grows, NEW m \in Machines, FilesRest(m), NEW k \in DOMAIN log
  PROVE  ShouldFork(m, k)' <=> ShouldFork(m, k)
<1> DEFINE g == log[k].gid
<1>1. g \in Gids /\ HasRow(outbox, log[k]) /\ log[k].origin \in Machines
  BY LogRow DEF IInv, OpsHaveRows
<1>2. log'[k] = log[k]
  <2>1. k \in 1..Len(log)
    BY DEF IInv, TypeOK
  <2> QED BY <2>1 DEF Grows, Extends
<1>3. RowOf(k).text' = RowOf(k).text
  BY <1>1, <1>2 DEF Grows, HasRow, RowOf
<1>4. Unsent(m, g)' <=> Unsent(m, g)
  BY <1>2, Zenon DEF FilesRest, RowsStay, Unsent
<1> QED BY <1>1, <1>2, <1>3, <1>4 DEF ShouldFork, FilesRest

(* Nothing a request asked up to op p has changed.                          *)
LEMMA AsksStay ==
  ASSUME IInv, NEW l \in Loops, loop[l].pc = "posting", NEW p \in 0..Len(log),
         AsksUpTo(loop[l].ops, p), AddsForOthers(Host[l]), RowsBasedAsBefore(Host[l]),
         loop'[l] = loop[l]
  PROVE  AsksUpTo(loop[l].ops, p)'
<1>1. PICK ops : ops = loop[l].ops
  OBVIOUS
<1>2. \A n \in DOMAIN ops : ops[n].origin = Host[l] /\ HasRow(outbox, ops[n])
  BY <1>1, PostingRequest DEF Request
<1>3. p \in Nat /\ p <= Len(log)
  BY DEF AddsForOthers, Logs
<1>4. \A g : VersionAt(log', g, "content", p) = VersionAt(log, g, "content", p)
  BY <1>3, VersionStays DEF AddsForOthers
<1>5. \A n \in DOMAIN ops :
        outbox'[ops[n].origin][ops[n].cseq].base = outbox[ops[n].origin][ops[n].cseq].base
  BY <1>2, Zenon DEF HasRow, RowsBasedAsBefore
<1>6. AsksUpTo(ops, p)'
  BY <1>1, <1>4, <1>5 DEF AsksUpTo
<1> QED BY <1>1, <1>6 DEF AsksUpTo

(* A loop that stays where it is.                                           *)
LEMMA PlaceStays ==
  ASSUME IInv, Grows, NEW l \in Loops, PlaceInv(l), loop'[l] = loop[l],
         cursor'[Host[l]] = cursor[Host[l]], known'[Host[l]] = known[Host[l]],
         AddsForOthers(Host[l]), RowsBasedAsBefore(Host[l]),
         loop[l].pc = "applying" => FilesRest(Host[l])
  PROVE  PlaceInv(l)'
<1>1. PICK m \in Machines : m = Host[l]
  BY LoopsAssumption
<1>2. PICK p : p = cursor[m]
  OBVIOUS
<1>3. p \in 0..Len(log) /\ cursor'[m] = p
  BY <1>1, <1>2 DEF IInv, TypeOK, NeverAhead
<1>4. CaughtUp(m, p) => CaughtUp(m, p)'
  BY <1>1, <1>3, CaughtUpStays
<1>5. loop[l].pc \in {"idle", "posting", "backoff"} => CaughtUp(m, cursor[m])'
  <2> SUFFICES ASSUME loop[l].pc \in {"idle", "posting", "backoff"}
               PROVE  CaughtUp(m, cursor[m])'
    OBVIOUS
  <2>1. CaughtUp(m, p)
    BY <1>1, <1>2, Zenon DEF PlaceInv
  <2> QED BY <1>3, <1>4, <2>1 DEF CaughtUp, BasedUpTo
<1>6. loop[l].pc = "posting" => AsksUpTo(loop[l].ops, cursor[m])'
  <2> SUFFICES ASSUME loop[l].pc = "posting"
               PROVE  AsksUpTo(loop[l].ops, cursor[m])'
    OBVIOUS
  <2>1. AsksUpTo(loop[l].ops, p)'
    BY <1>1, <1>2, <1>3, AsksStay DEF PlaceInv
  <2> QED BY <1>3, <2>1 DEF AsksUpTo
<1>7. loop[l].pc = "answered" =>
        \A n \in DOMAIN loop[l].answers :
          \A k \in FindByClientSeq(log', m, loop[l].answers[n].cseq) : cursor'[m] < k
  BY <1>1, OwnOpsStay DEF PlaceInv
<1>8. loop[l].pc = "pull" => loop[l].since = cursor'[m]
  BY <1>1 DEF PlaceInv
<1>9. ASSUME loop[l].pc \in {"paging", "applying"}
      PROVE  /\ cursor'[m] < loop[l].at /\ (~loop[l].full => CaughtUp(m, loop[l].upto)')
             /\ loop[l].pc = "applying" => ~Own(l)' /\ ~ShouldFork(m, loop[l].at)'
  <2>1. PICK at \in DOMAIN log, upto \in 0..Len(log) :
          at = loop[l].at /\ upto = loop[l].upto
    <3>1. loop[l].at \in DOMAIN log /\ loop[l].upto \in Nat /\ loop[l].upto <= Len(log)
      BY <1>9, InPage
    <3>2. loop[l].upto \in 0..Len(log)
      BY <3>1 DEF IInv, TypeOK
    <3> QED BY <3>1, <3>2
  <2>2. cursor'[m] < at
    BY <1>1, <1>9, <2>1 DEF PlaceInv
  <2>3. ASSUME ~loop[l].full
        PROVE  CaughtUp(m, loop[l].upto)'
    <3>1. CaughtUp(m, upto)
      BY <1>1, <1>9, <2>1, <2>3 DEF PlaceInv
    <3>2. CaughtUp(m, upto)'
      BY <1>1, <3>1, CaughtUpStays, Zenon
    <3> QED BY <2>1, <3>2 DEF CaughtUp, BasedUpTo
  <2>4. ASSUME loop[l].pc = "applying"
        PROVE  ~Own(l)' /\ ~ShouldFork(m, loop[l].at)'
    <3>1. ~Own(l) /\ ~ShouldFork(m, at) /\ FilesRest(m)
      BY <1>1, <2>1, <2>4 DEF PlaceInv
    <3>2. ~ShouldFork(m, at)'
      BY <3>1, SameVerdict
    <3>3. log'[at] = log[at]
      BY <1>1, OwnOpsStay
    <3> QED BY <2>1, <3>1, <3>2, <3>3 DEF Own, At, ShouldFork, RowOf, Unsent
  <2> QED BY <2>1, <2>2, <2>3, <2>4
<1> QED BY <1>1, <1>5, <1>6, <1>7, <1>8, <1>9 DEF PlaceInv

(* The user writes: no loop moves.                                          *)
LEMMA WritesKeepPlaces ==
  ASSUME IInv, Grows, PlacesInv, NEW m \in Machines, NEW g \in Gids, Writes(m, g)
  PROVE  PlacesInv'
<1>1. PICK n : WroteRow(m, g, n) /\ WroteFile(m, g, n)
  BY WritesOne
<1>2. UNCHANGED <<log, known, cursor, loop>>
  BY <1>1 DEF WroteRow
<1>3. ASSUME NEW x \in Machines
      PROVE  RowsBasedAsBefore(x)
  <2>1. CASE x = m
    <3>1. n \in Nat /\ \A i \in 1..n : i \in 1..(n - 1) \/ i = n
      BY <1>1 DEF WroteRow
    <3>2. \A i \in 1..(n - 1) : i \in 1..n
      BY <3>1
    <3>3. \A i \in DOMAIN outbox[m] : i \in DOMAIN outbox'[m] /\ outbox'[m][i] = outbox[m][i]
      BY <1>1, <3>2 DEF WroteRow
    <3>4. \A i \in DOMAIN outbox'[m] : i \notin DOMAIN outbox[m] =>
            outbox'[m][i].gid = g /\ outbox'[m][i].base \in {NoBase, known[m][g]}
      BY <1>1, <3>1 DEF WroteRow
    <3> QED BY <2>1, <3>3, <3>4 DEF RowsBasedAsBefore
  <2>2. CASE x # m
    <3>1. outbox'[x] = outbox[x]
      BY <1>1, <2>2 DEF WroteRow
    <3> QED BY <3>1 DEF RowsBasedAsBefore
  <2> QED BY <2>1, <2>2
<1>4. ASSUME NEW x \in Machines \ {m}
      PROVE  FilesRest(x)
  BY <1>1 DEF WroteRow, WroteFile, FilesRest, RowsStay
<1>5. \A l \in Loops : loop[l].pc = "applying" => Host[l] # m
  BY DEF Writes, Applying
<1>6. \A x : AddsForOthers(x)
  BY <1>2, NothingAdded
<1>7. ASSUME NEW l \in Loops
      PROVE  PlaceInv(l)'
  <2>1. Host[l] \in Machines /\ PlaceInv(l)
    BY LoopsAssumption DEF PlacesInv
  <2> QED BY <1>2, <1>3, <1>4, <1>5, <1>6, <2>1, PlaceStays
<1> QED BY <1>7 DEF PlacesInv

(* A step of loop l leaves the places of the other machines' loops.         *)
LEMMA OthersKeepPlaces ==
  ASSUME IInv, Grows, PlacesInv, OneLoopEach, NEW l \in Loops,
         \A k \in Loops \ {l} : loop'[k] = loop[k],
         \A x \in Machines \ {Host[l]} :
           /\ cursor'[x] = cursor[x] /\ known'[x] = known[x]
           /\ AddsForOthers(x) /\ FilesRest(x),
         PlaceInv(l)'
  PROVE  PlacesInv'
<1> SUFFICES ASSUME NEW k \in Loops, k # l PROVE PlaceInv(k)'
  BY DEF PlacesInv
<1>1. Host[k] \in Machines \ {Host[l]} /\ PlaceInv(k)
  BY LoopsAssumption DEF OneLoopEach, PlacesInv
<1>2. RowsBasedAsBefore(Host[k])
  BY <1>1 DEF FilesRest, RowsStay, RowsBasedAsBefore
<1> QED BY <1>1, <1>2, PlaceStays

(* Where the step changes no file, and the log at most for l's machine, it  *)
(* is enough to look at l.                                                  *)
LEMMA RestsKeepPlaces ==
  ASSUME IInv, Grows, PlacesInv, OneLoopEach, Rests, NEW l \in Loops,
         \A k \in Loops \ {l} : loop'[k] = loop[k],
         \A x \in Machines \ {Host[l]} : AddsForOthers(x),
         PlaceInv(l)'
  PROVE  PlacesInv'
<1>1. \A x \in Machines \ {Host[l]} : FilesRest(x)
  BY DEF Rests, FilesRest
<1> QED BY <1>1, OthersKeepPlaces DEF Rests

LEMMA ElapseKeepsPlaces ==
  ASSUME IInv, Grows, PlacesInv, NEW m \in Machines, Elapse(m)
  PROVE  PlacesInv'
<1>1. Rests /\ UNCHANGED <<log, loop>>
  BY OthersRest
<1>2. \A x : AddsForOthers(x)
  BY <1>1, NothingAdded
<1>3. \A x \in Machines : FilesRest(x) /\ RowsBasedAsBefore(x)
  BY <1>1 DEF Rests, FilesRest, RowsStay, RowsBasedAsBefore
<1>4. ASSUME NEW l \in Loops
      PROVE  PlaceInv(l)'
  <2>1. Host[l] \in Machines /\ PlaceInv(l)
    BY LoopsAssumption DEF PlacesInv
  <2> QED BY <1>1, <1>2, <1>3, <2>1, PlaceStays DEF Rests
<1> QED BY <1>4 DEF PlacesInv

(* What a machine's loop keeps when it goes to a place that is not a page.  *)
LEMMA StillCaughtUp ==
  ASSUME IInv, NEW m \in Machines, CaughtUp(m, cursor[m]), Rests, log' = log
  PROVE  CaughtUp(m, cursor[m])'
<1>1. PICK p \in 0..Len(log) : p = cursor[m] /\ p = cursor'[m]
  <2>1. cursor[m] \in 0..Len(log) /\ cursor'[m] = cursor[m]
    BY DEF IInv, TypeOK, NeverAhead, Rests
  <2> QED BY <2>1
<1>2. RowsBasedAsBefore(m) /\ AddsForOthers(m)
  BY NothingAdded DEF Rests, RowsStay, RowsBasedAsBefore
<1>3. CaughtUp(m, p)'
  BY <1>1, <1>2, CaughtUpStays DEF Rests
<1> QED BY <1>1, <1>3 DEF CaughtUp, BasedUpTo

(* A push goes on to pull, or asks for rows that the log does not have.     *)
LEMMA PushAsks ==
  ASSUME IInv, BasesInv, OneLoopEach, NEW l \in Loops, Push(l)
  PROVE  /\ loop[l].pc = "idle" /\ \A k \in Loops \ {l} : loop'[k] = loop[k]
         /\ \/ loop'[l].pc = "pull" /\ loop'[l].since = cursor[Host[l]]
            \/ \E ids \in Seq(DOMAIN outbox[Host[l]]) :
                 /\ loop'[l].pc = "posting" /\ loop'[l].ops = WireOps(Host[l], ids)
                 /\ \A n \in DOMAIN ids : FindByClientSeq(log, Host[l], ids[n]) = {}
<1> DEFINE m == Host[l]
           queued == Requeued(m)
           ids == Due(queued)
           ops == WireOps(m, ids)
<1>1. /\ TypeOK /\ m \in Machines /\ outbox[m] \in Seq(Row) /\ MachineInv(m)
      /\ "pending" \in Statuses
  BY LoopsAssumption DEF IInv, TypeOK, Statuses, BasesInv
<1>2. /\ loop[l].pc = "idle"
      /\ loop' = [loop EXCEPT ![l] = IF ids = <<>> THEN ToPull(cursor[m]) ELSE Posting(ops)]
  BY DEF Push
<1>3. /\ Restated(outbox[m], queued)
      /\ \A i \in DOMAIN outbox[m] :
           queued[i].status = IF i \in IdsIn(m, {"sent"}) THEN "pending" ELSE outbox[m][i].status
  BY <1>1, SetStatusCorrect DEF Requeued
<1> HIDE DEF queued
<1>4. queued \in Seq(Row) /\ DOMAIN queued = DOMAIN outbox[m]
  BY <1>3 DEF Restated
<1>5. ids \in Seq(Ready(queued))
  BY <1>4, DueCorrect
<1> HIDE DEF ids
<1>6. ids \in Seq(DOMAIN outbox[m])
  <2>1. Ready(queued) \subseteq DOMAIN outbox[m]
    BY <1>4 DEF Ready
  <2> QED BY <1>5, <2>1
<1>7. ASSUME NEW n \in DOMAIN ids
      PROVE  FindByClientSeq(log, m, ids[n]) = {}
  <2>1. ids[n] \in Ready(queued)
    BY <1>5
  <2>2. ids[n] \in DOMAIN outbox[m] /\ queued[ids[n]].status \in {"pending", "failed"}
    BY <1>4, <2>1 DEF Ready
  <2>3. outbox[m][ids[n]].status # "acked"
    BY <1>3, <2>2 DEF IdsIn
  <2>4. ~InHand(m, ids[n])
    BY <1>2 DEF InHand, OneLoopEach
  <2> QED BY <1>1, <2>2, <2>3, <2>4 DEF MachineInv
<1>8. /\ loop'[l] = IF ids = <<>> THEN ToPull(cursor[m]) ELSE Posting(ops)
      /\ \A k \in Loops \ {l} : loop'[k] = loop[k]
  BY <1>1, <1>2 DEF TypeOK
<1>9. /\ ids = <<>> => loop'[l].pc = "pull" /\ loop'[l].since = cursor[m]
      /\ ids # <<>> => loop'[l].pc = "posting" /\ loop'[l].ops = ops
  BY <1>8 DEF ToPull, Posting
<1> QED BY <1>2, <1>6, <1>7, <1>8, <1>9

(* What the rows of a request are based on is in the log up to the cursor.  *)
LEMMA AsksToCursor ==
  ASSUME IInv, NEW m \in Machines, NEW p \in 0..Len(log), CaughtUp(m, p), Rests, log' = log,
         NEW ids \in Seq(DOMAIN outbox[m]), NEW ops, ops = WireOps(m, ids),
         \A n \in DOMAIN ids : FindByClientSeq(log, m, ids[n]) = {}
  PROVE  AsksUpTo(ops, p)'
<1>1. outbox[m] \in Seq(Row) /\ BasedUpTo(m, p)
  BY DEF IInv, TypeOK, CaughtUp
<1>2. \A n \in DOMAIN ops : n \in DOMAIN ids /\ ops[n].origin = m /\ ops[n].cseq = ids[n]
  BY <1>1, WireOpsCorrect
<1>3. ASSUME NEW n \in DOMAIN ops
      PROVE  /\ ops[n].base # NoBase =>
                  ops[n].base <= VersionAt(log, ops[n].gid, "content", p)
                                   + Cardinality(OfFile(ops, n - 1, ops[n].gid))
             /\ OfFile(ops, n - 1, ops[n].gid) = {} =>
                  ops[n].base = outbox[m][ids[n]].base
  <2>1. n \in DOMAIN ids /\ FindByClientSeq(log, m, ids[n]) = {}
    BY <1>2
  <2> QED BY <1>1, <2>1, WireBaseBound
<1>4. \A n \in DOMAIN ops : outbox'[m][ids[n]].base = outbox[m][ids[n]].base
  <2>1. \A n \in DOMAIN ops : ids[n] \in DOMAIN outbox[m]
    BY <1>2
  <2> QED BY <2>1 DEF Rests, RowsStay
<1>5. \A n \in DOMAIN ops :
        /\ ops[n].base # NoBase =>
             ops[n].base <= VersionAt(log', ops[n].gid, "content", p)
                              + Cardinality(OfFile(ops, n - 1, ops[n].gid))
        /\ OfFile(ops, n - 1, ops[n].gid) = {} =>
             ops[n].base = outbox'[ops[n].origin][ops[n].cseq].base
  BY <1>2, <1>3, <1>4
<1> QED BY <1>5 DEF AsksUpTo

LEMMA PushKeepsPlaces ==
  ASSUME IInv, Grows, BasesInv, PlacesInv, OneLoopEach, NEW l \in Loops, Push(l)
  PROVE  PlacesInv'
<1>1. PICK m \in Machines : m = Host[l]
  BY LoopsAssumption
<1>2. /\ loop[l].pc = "idle" /\ \A k \in Loops \ {l} : loop'[k] = loop[k]
      /\ \/ loop'[l].pc = "pull" /\ loop'[l].since = cursor[m]
         \/ \E ids \in Seq(DOMAIN outbox[m]) :
              /\ loop'[l].pc = "posting" /\ loop'[l].ops = WireOps(m, ids)
              /\ \A n \in DOMAIN ids : FindByClientSeq(log, m, ids[n]) = {}
  BY <1>1, PushAsks
<1>3. Rests /\ log' = log
  BY PushRests
<1>4. PICK p \in 0..Len(log) : p = cursor[m] /\ p = cursor'[m]
  <2>1. cursor[m] \in 0..Len(log) /\ cursor'[m] = cursor[m]
    BY <1>3 DEF IInv, TypeOK, NeverAhead, Rests
  <2> QED BY <2>1
<1>5. CaughtUp(m, p)
  BY <1>1, <1>2, <1>4 DEF PlacesInv, PlaceInv
<1>6. CaughtUp(m, cursor[m])'
  BY <1>3, <1>4, <1>5, StillCaughtUp
<1>7. PlaceInv(l)'
  <2>1. CASE loop'[l].pc = "pull" /\ loop'[l].since = cursor[m]
    BY <1>1, <1>4, <2>1 DEF PlaceInv
  <2>2. CASE \E ids \in Seq(DOMAIN outbox[m]) :
               /\ loop'[l].pc = "posting" /\ loop'[l].ops = WireOps(m, ids)
               /\ \A n \in DOMAIN ids : FindByClientSeq(log, m, ids[n]) = {}
    <3>1. PICK ids \in Seq(DOMAIN outbox[m]) :
            /\ loop'[l].pc = "posting" /\ loop'[l].ops = WireOps(m, ids)
            /\ \A n \in DOMAIN ids : FindByClientSeq(log, m, ids[n]) = {}
      BY <2>2
    <3>2. PICK ops : ops = loop'[l].ops
      OBVIOUS
    <3>3. AsksUpTo(ops, p)'
      BY <1>3, <1>5, <3>1, <3>2, AsksToCursor
    <3>4. AsksUpTo(loop[l].ops, cursor[m])'
      BY <1>4, <3>2, <3>3 DEF AsksUpTo
    <3> QED BY <1>1, <1>6, <3>1, <3>4 DEF PlaceInv
  <2> QED BY <1>2, <2>1, <2>2
<1>8. \A x : AddsForOthers(x)
  BY <1>3, NothingAdded
<1> QED BY <1>2, <1>3, <1>7, <1>8, RestsKeepPlaces

\* The relay logs the request ops of loop l, its machine's rows, after what it has.
ServesOps(l, ops) ==
  LET m == Host[l] IN
  /\ loop[l].pc = "posting" /\ loop[l].ops = ops
  /\ ops \in Seq(Wire) /\ DOMAIN ops = 1..Len(ops) /\ Len(ops) \in Nat
  /\ \A n \in DOMAIN ops : ops[n].origin = m /\ HasRow(outbox, ops[n])
  /\ AsksExactly(log, ops)
  /\ log \in Logs /\ log' \in Logs /\ Extends(log, log') /\ Len(log') = Len(log) + Len(ops)
  /\ \A n \in DOMAIN ops : Carries(log'[Len(log) + n], ops[n]) /\ JudgedInTurn(log', ops, n)
  /\ \A k \in (Len(log) + 1)..Len(log') : \E n \in DOMAIN ops : k = Len(log) + n
  /\ ExactIn(log')
  /\ loop'[l].pc = "answered" /\ DOMAIN loop'[l].answers = DOMAIN ops
  /\ \A n \in DOMAIN ops : loop'[l].answers[n].cseq = ops[n].cseq
  /\ \A k \in Loops \ {l} : loop'[k] = loop[k]
  /\ \A x \in Machines \ {m} : AddsForOthers(x)

LEMMA OpsServed ==
  ASSUME IInv, BasesInv, NEW l \in Loops, Serve(l)
  PROVE  \E ops : ServesOps(l, ops)
<1> DEFINE m == Host[l]
           ops == loop[l].ops
           served == Post(ops)
           answers == served.answers
<1>1. /\ TypeOK /\ m \in Machines /\ MachineInv(m)
      /\ log \in Logs /\ Len(log) \in Nat /\ ExactIn(log)
  BY LoopsAssumption DEF IInv, TypeOK, BasesInv, Logs
<1>2. /\ loop[l].pc = "posting"
      /\ log' = served.log
      /\ loop' = [loop EXCEPT ![l] = Answered(answers)]
  BY DEF Serve
<1>3. /\ ops \in Seq(Wire) /\ \A n \in DOMAIN ops : ops[n].origin = m /\ HasRow(outbox, ops[n])
      /\ AsksExactly(log, ops)
  BY <1>1, <1>2, PostingRequest DEF Request, MachineInv
<1> HIDE DEF ops
<1>4. PostedExactly(served, ops, Len(ops))
  BY <1>1, <1>3, PostExactly
<1> HIDE DEF served
<1>5. /\ log' \in Logs /\ Extends(log, log') /\ Len(log') = Len(log) + Len(ops)
      /\ Len(ops) \in Nat /\ DOMAIN ops = 1..Len(ops)
      /\ answers \in Seq(Answer) /\ Len(answers) = Len(ops) /\ DOMAIN answers = 1..Len(ops)
      /\ ExactIn(log')
  BY <1>2, <1>3, <1>4 DEF PostedExactly, PostedTo, Accs
<1>6. ASSUME NEW n \in DOMAIN ops
      PROVE  /\ Carries(log'[Len(log) + n], ops[n]) /\ JudgedInTurn(log', ops, n)
             /\ answers[n].cseq = ops[n].cseq
  <2>1. n \in 1..Len(ops)
    BY <1>5
  <2> QED BY <1>2, <1>4, <2>1 DEF PostedExactly, PostedTo
<1> HIDE DEF answers
<1>7. /\ loop'[l].pc = "answered" /\ loop'[l].answers = answers
      /\ \A k \in Loops \ {l} : loop'[k] = loop[k]
  <2> DEFINE s == Answered(answers)
  <2>1. s.pc = "answered" /\ s.answers = answers
    BY DEF Answered
  <2> HIDE DEF s
  <2>2. loop' = [loop EXCEPT ![l] = s]
    BY <1>2 DEF s
  <2> QED BY <1>1, <2>1, <2>2 DEF TypeOK
<1>8. ASSUME NEW k \in (Len(log) + 1)..Len(log')
      PROVE  \E n \in DOMAIN ops : k = Len(log) + n
  <2>1. k - Len(log) \in 1..Len(ops) /\ Len(log) + (k - Len(log)) = k
    BY <1>1, <1>5
  <2> QED BY <1>5, <2>1
<1>9. ASSUME NEW x \in Machines \ {m}
      PROVE  AddsForOthers(x)
  <2>1. \A k \in (Len(log) + 1)..Len(log') : log'[k].origin # x
    BY <1>3, <1>6, <1>8 DEF Carries, SameRow
  <2> QED BY <1>1, <1>5, <2>1 DEF AddsForOthers
<1>10. loop[l].ops = ops
  BY DEF ops
<1>11. DOMAIN loop'[l].answers = DOMAIN ops
       /\ \A n \in DOMAIN ops : loop'[l].answers[n].cseq = ops[n].cseq
  BY <1>5, <1>6, <1>7
<1> QED BY <1>1, <1>2, <1>3, <1>5, <1>6, <1>7, <1>8, <1>9, <1>10, <1>11 DEF ServesOps

LEMMA ServeKeepsPlaces ==
  ASSUME IInv, Grows, PlacesInv, OneLoopEach, Rests, NEW l \in Loops, NEW ops, ServesOps(l, ops)
  PROVE  PlacesInv'
<1>1. PICK m \in Machines : m = Host[l]
  BY LoopsAssumption
<1>2. /\ cursor'[m] = cursor[m] /\ cursor[m] \in Nat /\ cursor[m] <= Len(log)
      /\ Len(log) \in Nat
  BY DEF IInv, TypeOK, NeverAhead, Rests
<1>3. ASSUME NEW n \in DOMAIN ops, NEW k \in FindByClientSeq(log', m, ops[n].cseq)
      PROVE  cursor'[m] < k
  <2>1. k \in 1..Len(log') /\ log'[k].origin = m /\ log'[k].cseq = ops[n].cseq
    BY DEF FindByClientSeq, ServesOps, Logs
  <2>2. FindByClientSeq(log, m, ops[n].cseq) = {}
    BY <1>1 DEF ServesOps, AsksExactly
  <2>3. k \notin 1..Len(log)
    <3>1. \A j \in 1..Len(log) : j \in DOMAIN log /\ log'[j] = log[j]
      BY DEF ServesOps, Extends, Logs
    <3> QED BY <2>1, <2>2, <3>1 DEF FindByClientSeq
  <2>4. k \in Nat
    BY <2>1 DEF ServesOps, Logs
  <2> QED BY <1>2, <2>1, <2>3, <2>4
<1>4. PlaceInv(l)'
  BY <1>1, <1>3 DEF ServesOps, PlaceInv
<1>5. /\ \A k \in Loops \ {l} : loop'[k] = loop[k]
      /\ \A x \in Machines \ {Host[l]} : AddsForOthers(x)
  BY DEF ServesOps
<1> QED BY <1>4, <1>5, RestsKeepPlaces

LEMMA AckKeepsPlaces ==
  ASSUME IInv, Grows, PlacesInv, OneLoopEach, NEW l \in Loops,
         NEW p, NEW g \in Gids, NEW a \in Answer, NEW rest \in Seq(Answer),
         TakesAnswer(l, p, g, a, rest)
  PROVE  PlacesInv'
<1>1. PICK m \in Machines : m = Host[l]
  BY LoopsAssumption
<1>2. /\ loop[l].pc = "answered" /\ DOMAIN rest = 1..Len(rest) /\ Len(rest) \in Nat
      /\ DOMAIN loop[l].answers = 1..(Len(rest) + 1)
      /\ \A n \in 1..Len(rest) : rest[n] = loop[l].answers[n + 1]
      /\ UNCHANGED <<log, files, fork, cursor>>
      /\ \A k \in Loops \ {l} : loop'[k] = loop[k]
      /\ \A x \in Machines \ {m} : outbox'[x] = outbox[x]
      /\ RecordVersion(m, g, a.version) /\ MarkAnswered(m, a)
  BY <1>1 DEF TakesAnswer
<1>3. \A x \in Machines \ {m} : known'[x] = known[x]
  BY <1>2, RecordsItsOwn
<1>4. \A x \in Machines \ {m} : lost'[x] = lost[x]
  BY <1>2 DEF IInv, TypeOK, MarkAnswered
<1>5. ASSUME NEW x \in Machines \ {m}
      PROVE  FilesRest(x)
  BY <1>2, <1>4 DEF FilesRest, RowsStay
<1>6. \A x : AddsForOthers(x)
  BY <1>2, NothingAdded
<1>7. PlaceInv(l)'
  <2>1. CASE loop'[l].pc = "pull" /\ loop'[l].since = cursor[m]
    BY <1>1, <1>2, <2>1 DEF PlaceInv
  <2>2. CASE loop'[l].pc = "answered" /\ loop'[l].answers = rest
    <3>1. ASSUME NEW n \in DOMAIN rest, NEW k \in FindByClientSeq(log, m, rest[n].cseq)
          PROVE  cursor[m] < k
      <4>1. n + 1 \in DOMAIN loop[l].answers /\ rest[n] = loop[l].answers[n + 1]
        BY <1>2
      <4> QED BY <1>1, <1>2, <3>1, <4>1 DEF PlacesInv, PlaceInv
    <3> QED BY <1>1, <1>2, <2>2, <3>1 DEF PlaceInv
  <2>3. loop'[l] = IF rest = <<>> THEN ToPull(cursor[m]) ELSE Answered(rest)
    BY <1>1 DEF TakesAnswer
  <2> QED BY <2>1, <2>2, <2>3 DEF ToPull, Answered
<1> QED BY <1>1, <1>2, <1>3, <1>5, <1>6, <1>7, OthersKeepPlaces

(* A loop that gives up its request, or wakes up from that.                 *)
LEMMA BackingOffKeepsPlaces ==
  ASSUME IInv, Grows, PlacesInv, OneLoopEach, NEW l \in Loops, RequestLost(l) \/ Wake(l)
  PROVE  PlacesInv'
<1>1. PICK m \in Machines : m = Host[l]
  BY LoopsAssumption
<1>2. Rests /\ log' = log
  BY OthersRest DEF Moves
<1>3. PICK s \in {Backoff, Idle} :
        loop[l].pc \in {"posting", "backoff"} /\ loop' = [loop EXCEPT ![l] = s]
  BY DEF RequestLost, GiveUp, Wake
<1>4. s.pc \in {"backoff", "idle"}
  BY <1>3 DEF Backoff, Idle
<1>5. loop'[l] = s /\ \A k \in Loops \ {l} : loop'[k] = loop[k]
  BY <1>3 DEF IInv, TypeOK
<1>6. CaughtUp(m, cursor[m])'
  <2>1. CaughtUp(m, cursor[m])
    BY <1>1, <1>3 DEF PlacesInv, PlaceInv
  <2> QED BY <1>2, <2>1, StillCaughtUp
<1>7. PlaceInv(l)'
  BY <1>1, <1>4, <1>5, <1>6 DEF PlaceInv
<1>8. \A x : AddsForOthers(x)
  BY <1>2, NothingAdded
<1> QED BY <1>2, <1>5, <1>7, <1>8, RestsKeepPlaces

LEMMA FetchKeepsPlaces ==
  ASSUME IInv, BasesInv, Grows, PlacesInv, OneLoopEach, NEW l \in Loops, Fetch(l)
  PROVE  PlacesInv'
<1>1. PICK m \in Machines : m = Host[l]
  BY LoopsAssumption
<1>2. PICK since \in 0..Len(log) : since = loop[l].since /\ since = cursor[m]
  <2>1. cursor[m] \in 0..Len(log) /\ loop[l].since = cursor[m]
    BY <1>1 DEF IInv, TypeOK, NeverAhead, PlacesInv, PlaceInv, Fetch
  <2> QED BY <2>1
<1>3. Rests /\ log' = log
  BY OthersRest DEF Moves
<1>4. Len(log) \in Nat /\ PageLimit \in Nat \ {0} /\ since \in Nat
  BY BoundsAssumption DEF IInv, TypeOK
<1>5. PICK upto \in 0..Len(log) :
        /\ upto = PageEnd(since) /\ since <= upto
        /\ upto = since \/ upto - since # PageLimit => upto = Len(log)
  BY <1>4, MinOfTwo DEF PageEnd
<1> DEFINE s == IF upto = since THEN Idle ELSE Paging(since, upto)
<1>6. loop' = [loop EXCEPT ![l] = s]
  BY <1>2, <1>5 DEF Fetch
<1>7. \/ s.pc = "idle" /\ upto = since
      \/ s.pc = "paging" /\ s.at = since + 1 /\ s.upto = upto /\ (s.full <=> upto - since = PageLimit)
  BY DEF Idle, Paging
<1> HIDE DEF s
<1>8. loop'[l] = s /\ \A k \in Loops \ {l} : loop'[k] = loop[k]
  BY <1>6 DEF IInv, TypeOK
<1>9. \A x : AddsForOthers(x)
  BY <1>3, NothingAdded
<1>10. ASSUME upto = Len(log)
       PROVE  CaughtUp(m, upto)'
  <2>1. MachineInv(m)
    BY DEF BasesInv
  <2>2. CaughtUp(m, upto)
    BY <1>10, <2>1, CaughtUpToEnd
  <2>3. RowsBasedAsBefore(m)
    BY <1>3 DEF Rests, RowsStay, RowsBasedAsBefore
  <2> QED BY <1>3, <1>9, <2>2, <2>3, CaughtUpStays DEF Rests
<1>11. cursor'[m] = since
  BY <1>2, <1>3 DEF Rests
<1>12. PlaceInv(l)'
  <2>1. CASE s.pc = "idle" /\ upto = since
    <3>1. CaughtUp(m, cursor[m])'
      BY <1>5, <1>10, <1>11, <2>1 DEF CaughtUp, BasedUpTo
    <3> QED BY <1>1, <1>8, <2>1, <3>1 DEF PlaceInv
  <2>2. CASE /\ s.pc = "paging" /\ s.at = since + 1 /\ s.upto = upto
             /\ s.full <=> upto - since = PageLimit
    <3>1. cursor'[m] < s.at
      BY <1>4, <1>11, <2>2
    <3>2. ~s.full => CaughtUp(m, upto)'
      BY <1>5, <1>10, <2>2
    <3>3. ~s.full => CaughtUp(m, loop[l].upto)'
      BY <1>8, <2>2, <3>2 DEF CaughtUp, BasedUpTo
    <3> QED BY <1>1, <1>8, <2>2, <3>1, <3>3 DEF PlaceInv
  <2> QED BY <1>7, <2>1, <2>2
<1> QED BY <1>3, <1>8, <1>9, <1>12, RestsKeepPlaces

LEMMA DecideKeepsPlaces ==
  ASSUME IInv, Grows, PlacesInv, OneLoopEach, NEW l \in Loops, Decide(l)
  PROVE  PlacesInv'
<1>1. PICK m \in Machines : m = Host[l]
  BY LoopsAssumption
<1>2. Rests /\ log' = log
  BY OthersRest DEF Moves
<1>3. loop[l].pc = "paging" /\ ~Own(l) /\ ~ShouldFork(m, loop[l].at)
  BY <1>1 DEF Decide, Handling
<1>4. PICK at \in DOMAIN log, upto \in 0..Len(log) : at = loop[l].at /\ upto = loop[l].upto
  <2>1. loop[l].at \in DOMAIN log /\ loop[l].upto \in 0..Len(log)
    <3>1. loop[l].at \in DOMAIN log /\ loop[l].upto \in Nat /\ loop[l].upto <= Len(log)
      BY <1>3, InPage
    <3> QED BY <3>1 DEF IInv, TypeOK
  <2> QED BY <2>1
<1>5. /\ loop'[l].pc = "applying" /\ loop'[l].at = at /\ loop'[l].upto = upto
      /\ loop'[l].full = loop[l].full
      /\ \A k \in Loops \ {l} : loop'[k] = loop[k]
  <2>1. loop[l] \in PageState
    BY <1>3, InPage
  <2>2. loop' = [loop EXCEPT ![l] = [loop[l] EXCEPT !.pc = "applying"]]
    BY DEF Decide, IInv, TypeOK
  <2> DEFINE s == [loop[l] EXCEPT !.pc = "applying"]
  <2>3. s.pc = "applying" /\ s.at = at /\ s.upto = upto /\ s.full = loop[l].full
    BY <1>4, <2>1 DEF PageState
  <2> HIDE DEF s
  <2>4. loop'[l] = s /\ \A k \in Loops \ {l} : loop'[k] = loop[k]
    BY <2>2 DEF s, IInv, TypeOK
  <2> QED BY <2>3, <2>4
<1>6. \A x : AddsForOthers(x)
  BY <1>2, NothingAdded
<1>7. FilesRest(m) /\ RowsBasedAsBefore(m)
  BY <1>2, Zenon DEF Rests, FilesRest, RowsStay, RowsBasedAsBefore
<1>8. ~ShouldFork(m, loop[l].at)' /\ ~Own(l)'
  <2>1. ~ShouldFork(m, at)'
    BY <1>3, <1>4, <1>7, SameVerdict
  <2> QED BY <1>2, <1>3, <1>4, <1>5, <2>1 DEF Own, At, ShouldFork, RowOf, Unsent
<1>9. ~loop'[l].full => CaughtUp(m, loop[l].upto)'
  <2> SUFFICES ASSUME ~loop[l].full PROVE CaughtUp(m, loop[l].upto)'
    BY <1>5
  <2>1. CaughtUp(m, upto)
    BY <1>1, <1>3, <1>4 DEF PlacesInv, PlaceInv
  <2>2. CaughtUp(m, upto)'
    BY <1>2, <1>6, <1>7, <2>1, CaughtUpStays DEF Rests
  <2> QED BY <1>5, <2>2 DEF CaughtUp, BasedUpTo
<1>10. cursor'[m] < at
  BY <1>1, <1>2, <1>3, <1>4 DEF PlacesInv, PlaceInv, Rests
<1>11. PlaceInv(l)'
  BY <1>1, <1>5, <1>8, <1>9, <1>10 DEF PlaceInv
<1> QED BY <1>2, <1>5, <1>6, <1>11, RestsKeepPlaces

(* What an op passed makes known is a version up to that op.                *)
LEMMA KnownByPassing ==
  ASSUME IInv, NEW l \in Loops, NEW k, PassesOp(l, k), NEW p \in 0..Len(log), k <= p
  PROVE  \A g \in Gids : \/ known'[Host[l]][g] = known[Host[l]][g]
                         \/ known'[Host[l]][g] <= VersionAt(log, g, "content", p)
<1> DEFINE m == Host[l]
           h == log[k].gid
           v == VersionAt(log, h, "content", k)
<1>1. /\ m \in Machines /\ h \in Gids /\ k \in DOMAIN log
      /\ log \in Logs /\ Extends(log, log) /\ Len(log) \in Nat
      /\ known \in [Machines -> [Gids -> Nat]]
  BY LoopsAssumption, LogRow DEF PassesOp, IInv, TypeOK, Logs, Extends
<1>2. k \in Nat /\ k <= Len(log)
  BY <1>1
<1>3. v \in Nat /\ v <= VersionAt(log, h, "content", p)
  BY <1>1, <1>2, VersionGrows
<1>4. known' = [known EXCEPT ![m][h] = Max({known[m][h], v})]
  BY <1>1 DEF PassesOp, RecordVersion
<1> DEFINE w == Max({known[m][h], v})
<1>5. w \in {known[m][h], v}
  <2>1. known[m][h] \in Nat
    BY <1>1
  <2> HIDE DEF v, h, m
  <2> QED BY <1>3, <2>1, MaxOfTwo
<1> HIDE DEF w, v, h, m
<1>6. known'[m][h] = w /\ \A g \in Gids \ {h} : known'[m][g] = known[m][g]
  BY <1>1, <1>4 DEF w
<1> QED BY <1>3, <1>5, <1>6 DEF m

LEMMA PassingKeepsPlaces ==
  ASSUME IInv, Grows, PlacesInv, OneLoopEach, NEW l \in Loops,
         NEW k, PassesOp(l, k), PassesFile(l, k)
  PROVE  PlacesInv'
<1>1. PICK m \in Machines : m = Host[l]
  BY LoopsAssumption
<1>2. /\ loop[l].pc \in {"paging", "applying"} /\ loop[l].at = k
      /\ UNCHANGED <<log, outbox>>
      /\ \A j \in Loops \ {l} : loop'[j] = loop[j]
      /\ \A x \in Machines \ {m} : cursor'[x] = cursor[x]
  BY <1>1 DEF PassesOp
<1>3. PICK upto \in 0..Len(log) : upto = loop[l].upto /\ k \in 1..upto /\ Len(log) \in Nat
  <2>1. loop[l].upto \in Nat /\ loop[l].upto <= Len(log) /\ k \in 1..loop[l].upto
    BY <1>2, InPage
  <2> QED BY <2>1 DEF IInv, TypeOK
<1>4. k \in 0..Len(log) /\ k <= upto /\ k \in Nat
  BY <1>3
<1>5. \A x : AddsForOthers(x)
  BY <1>2, NothingAdded
<1>6. RowsBasedAsBefore(m) /\ \A x \in Machines : RowsStay(x)
  BY <1>2 DEF RowsStay, RowsBasedAsBefore
<1>7. ASSUME ~loop[l].full
      PROVE  CaughtUp(m, upto)'
  <2>1. CaughtUp(m, upto)
    BY <1>1, <1>2, <1>3, <1>7 DEF PlacesInv, PlaceInv
  <2> QED BY <1>1, <1>4, <1>5, <1>6, <2>1, KnownByPassing, CaughtUpStays
<1>8. ASSUME k # loop[l].upto
      PROVE  PlaceInv(l)'
  <2>1. /\ cursor'[m] = cursor[m] /\ loop'[l].pc = "paging" /\ loop'[l].at = k + 1
        /\ loop'[l].upto = upto /\ loop'[l].full = loop[l].full
    BY <1>1, <1>3, <1>8 DEF PassesOp
  <2>2. cursor'[m] < k + 1
    <3>1. cursor[m] < k /\ cursor[m] \in Nat
      BY <1>1, <1>2 DEF PlacesInv, PlaceInv, IInv, TypeOK
    <3> QED BY <1>4, <2>1, <3>1
  <2>3. ~loop'[l].full => CaughtUp(m, loop[l].upto)'
    BY <1>7, <2>1 DEF CaughtUp, BasedUpTo
  <2> QED BY <1>1, <2>1, <2>2, <2>3 DEF PlaceInv
<1>9. ASSUME k = loop[l].upto
      PROVE  PlaceInv(l)'
  <2>1. /\ cursor'[m] = upto
        /\ \/ loop[l].full /\ loop'[l].pc = "pull" /\ loop'[l].since = k
           \/ ~loop[l].full /\ loop'[l].pc = "idle"
    BY <1>1, <1>3, <1>9 DEF PassesOp
  <2>2. ~loop[l].full => CaughtUp(m, cursor[m])'
    BY <1>7, <2>1 DEF CaughtUp, BasedUpTo
  <2> QED BY <1>1, <1>3, <1>9, <2>1, <2>2 DEF PlaceInv
<1>10. PlaceInv(l)'
  BY <1>8, <1>9
<1>11. ASSUME NEW x \in Machines \ {m}
       PROVE  FilesRest(x) /\ known'[x] = known[x]
  <2>1. known'[x] = known[x]
    <3>1. log[k].gid \in Gids
      BY <1>1, LogRow DEF PassesOp
    <3> QED BY <1>1, <3>1, RecordsItsOwn DEF PassesOp
  <2> QED BY <1>1, <1>6, <2>1 DEF PassesFile, FilesRest
<1> QED BY <1>1, <1>2, <1>5, <1>10, <1>11, OthersKeepPlaces

-----------------------------------------------------------------------------
(* All of it together: CalmInv.                                             *)

LEMMA StepPlacesInv ==
  ASSUME Orderly, IInv, Grows, BasesInv, TextsInv, PlacesInv, Next
  PROVE  PlacesInv'
<1>1. OneLoopEach /\ net = {}
  BY DEF Orderly, BasesInv
<1>2. ASSUME NEW m \in Machines, NEW g \in Gids, Writes(m, g)
      PROVE  PlacesInv'
  BY <1>2, WritesKeepPlaces
<1>3. ASSUME NEW l \in Loops, Push(l)
      PROVE  PlacesInv'
  BY <1>1, <1>3, PushKeepsPlaces
<1>4. ASSUME NEW l \in Loops, Serve(l)
      PROVE  PlacesInv'
  BY <1>1, <1>4, OpsServed, OthersRest, ServeKeepsPlaces
<1>5. ASSUME NEW l \in Loops, Acknowledge(l)
      PROVE  PlacesInv'
  BY <1>1, <1>5, AnswerTaken, AckKeepsPlaces
<1>6. ASSUME NEW l \in Loops, RequestLost(l) \/ Moves(l)
      PROVE  PlacesInv'
  BY <1>1, <1>6, BackingOffKeepsPlaces, FetchKeepsPlaces, DecideKeepsPlaces DEF Moves
<1>7. ASSUME NEW l \in Loops, Passes(l)
      PROVE  PlacesInv'
  BY <1>1, <1>7, PassesOne, PassesOneFile, PassingKeepsPlaces
<1>8. ASSUME NEW m \in Machines, Elapse(m)
      PROVE  PlacesInv'
  BY <1>8, ElapseKeepsPlaces
<1> QED BY <1>1, <1>2, <1>3, <1>4, <1>5, <1>6, <1>7, <1>8, OrderlySteps

(* Nothing happened yet.                                                    *)
LEMMA Nothing ==
  ASSUME Init
  PROVE  /\ log = <<>> /\ Len(log) = 0 /\ DOMAIN log = {} /\ net = {}
         /\ \A l \in Loops : loop[l].pc = "idle"
         /\ \A m \in Machines :
              /\ outbox[m] = <<>> /\ DOMAIN outbox[m] = {} /\ seen[m] = {} /\ skipped[m] = {}
              /\ cursor[m] = 0 /\ lost[m] = {}
              /\ \A g \in Gids : known[m][g] = 0 /\ files[m][g] = NoText /\ fork[m][g] = NoFork
BY LoopPlaces DEF Init

LEMMA InitTextsInv == Init => TextsInv
<1> SUFFICES ASSUME Init PROVE TextsInv
  OBVIOUS
<1>1. \A m \in Machines : DOMAIN outbox[m] = {} /\ seen[m] = {} /\ skipped[m] = {}
  BY Nothing
<1> QED BY <1>1 DEF TextsInv, Closed

LEMMA InitPlacesInv == Init => PlacesInv
<1> SUFFICES ASSUME Init, NEW l \in Loops PROVE PlaceInv(l)
  BY DEF PlacesInv
<1>1. PICK m \in Machines : m = Host[l]
  BY LoopsAssumption
<1>2. loop[l].pc = "idle" /\ DOMAIN log = {} /\ Len(log) = 0 /\ cursor[m] = 0
  BY Nothing
<1>3. CaughtUp(m, 0)
  BY <1>2, InitIInv, InitBasesInv, CaughtUpToEnd DEF BasesInv
<1> QED BY <1>1, <1>2, <1>3 DEF PlaceInv

\* What has been proved of every state so far, where machines hear of their rows.
CalmInv == IInv /\ OrderInv /\ BasesInv /\ TextsInv /\ PlacesInv

\* A step from such a state to such a state.
CalmStep == Orderly /\ CalmInv /\ CalmInv' /\ Grows /\ Next

LEMMA InitCalmInv == Init => CalmInv
BY InitIInv, InitOrderInv, InitBasesInv, InitTextsInv, InitPlacesInv DEF CalmInv

LEMMA StillCalm ==
  ASSUME Orderly, CalmInv, UNCHANGED vars
  PROVE  CalmInv'
<1>1. UNCHANGED <<log, files, outbox, known, lost, fork, cursor, skipped, loop, net, seen>>
  BY DEF vars, machineVars
<1>2. IInv' /\ OrderInv'
  <2>1. NoRestart /\ OneLoopEach
    BY DEF Orderly, OnlyRequestsLost, NoRestart
  <2> QED BY <2>1, StepIInv, StepOrderInv DEF CalmInv
<1>3. BasesInv'
  <2>1. ASSUME NEW m \in Machines, MachineInv(m)
        PROVE  MachineInv(m)'
    BY <1>1, <2>1 DEF MachineInv, BasedUpTo, TellsAfter, InHand
  <2> QED BY <1>1, <2>1 DEF CalmInv, BasesInv
<1>4. TextsInv'
  BY <1>1 DEF CalmInv, TextsInv
<1>5. PlacesInv'
  <2>1. ASSUME NEW l \in Loops, PlaceInv(l)
        PROVE  PlaceInv(l)'
    BY <1>1, <2>1 DEF PlaceInv, CaughtUp, BasedUpTo, AsksUpTo, Own, At, ShouldFork, RowOf, Unsent
  <2> QED BY <2>1 DEF CalmInv, PlacesInv
<1> QED BY <1>2, <1>3, <1>4, <1>5 DEF CalmInv

LEMMA StepCalmInv ==
  ASSUME Orderly, CalmInv, Next
  PROVE  CalmStep
<1>1. IInv /\ OrderInv /\ BasesInv /\ TextsInv /\ PlacesInv
  BY DEF CalmInv
<1>2. Grows
  BY <1>1, StepKeepsBooks DEF KeepsBooks
<1>3. AnswersArrive /\ NoRestart /\ OneLoopEach
  BY DEF Orderly, OnlyRequestsLost, AnswersArrive, NoRestart
<1>4. IInv' /\ OrderInv' /\ BasesInv'
  BY <1>1, <1>3, StepIInv, StepOrderInv, StepBasesInv
<1>5. TextsInv' /\ PlacesInv'
  BY <1>1, <1>2, StepTextsInv, StepPlacesInv
<1> QED BY <1>1, <1>2, <1>4, <1>5 DEF CalmStep, CalmInv

-----------------------------------------------------------------------------
(* The kinds of steps there are from such states.                           *)

SameHandled == \A x \in Machines, k \in Int : Handled(x, k)' <=> Handled(x, k)

(* Five kinds of steps are left.                                            *)
LEMMA CalmSteps ==
  ASSUME CalmStep
  PROVE  \/ /\ SameHandled
            /\ \/ \E m \in Machines, g \in Gids : \E n : WroteRow(m, g, n) /\ WroteFile(m, g, n)
               \/ Rests /\ log' = log
               \/ Rests /\ \E l \in Loops : \E ops : ServesOps(l, ops)
               \/ \E l \in Loops, p \in 0..Len(log), g \in Gids, a \in Answer, rest \in Seq(Answer) :
                    TakesAnswer(l, p, g, a, rest)
         \/ \E l \in Loops : PassesOp(l, loop[l].at) /\ PassesFile(l, loop[l].at)
<1>1. OneLoopEach /\ net = {} /\ IInv /\ BasesInv /\ TextsInv /\ PlacesInv /\ Orderly /\ Next
  BY DEF CalmStep, CalmInv, Orderly, BasesInv
<1>2. ASSUME NEW m \in Machines, NEW g \in Gids, Writes(m, g)
      PROVE  SameHandled /\ \E n : WroteRow(m, g, n) /\ WroteFile(m, g, n)
  <2>1. PICK n : WroteRow(m, g, n) /\ WroteFile(m, g, n)
    BY <1>1, <1>2, WritesOne
  <2>2. UNCHANGED <<cursor, loop>>
    BY <2>1 DEF WroteRow
  <2> QED BY <2>1, <2>2 DEF SameHandled, Handled
<1>3. ASSUME NEW l \in Loops, Push(l)
      PROVE  SameHandled /\ Rests /\ log' = log
  <2>1. Rests /\ log' = log
    BY <1>1, <1>3, PushRests
  <2>2. /\ loop[l].pc = "idle" /\ loop'[l].pc \in {"pull", "posting"}
        /\ \A k \in Loops \ {l} : loop'[k] = loop[k]
    BY <1>1, <1>3, PushAsks
  <2> QED BY <1>1, <2>1, <2>2, HandledStays DEF SameHandled, Rests
<1>4. ASSUME NEW l \in Loops, Serve(l)
      PROVE  SameHandled /\ Rests /\ \E ops : ServesOps(l, ops)
  <2>1. Rests
    BY <1>1, <1>4, OthersRest
  <2>2. PICK ops : ServesOps(l, ops)
    BY <1>1, <1>4, OpsServed
  <2>3. /\ loop[l].pc = "posting" /\ loop'[l].pc = "answered"
        /\ \A k \in Loops \ {l} : loop'[k] = loop[k]
    BY <2>2 DEF ServesOps
  <2> QED BY <1>1, <2>1, <2>2, <2>3, HandledStays DEF SameHandled, Rests
<1>5. ASSUME NEW l \in Loops, Acknowledge(l)
      PROVE  SameHandled /\ \E p \in 0..Len(log), g \in Gids, a \in Answer, rest \in Seq(Answer) :
                              TakesAnswer(l, p, g, a, rest)
  <2>1. PICK p \in 0..Len(log), g \in Gids, a \in Answer, rest \in Seq(Answer) :
          TakesAnswer(l, p, g, a, rest)
    BY <1>1, <1>5, AnswerTaken
  <2>2. /\ loop[l].pc = "answered" /\ UNCHANGED cursor
        /\ loop'[l] = IF rest = <<>> THEN ToPull(cursor[Host[l]]) ELSE Answered(rest)
        /\ \A k \in Loops \ {l} : loop'[k] = loop[k]
    BY <2>1 DEF TakesAnswer
  <2>3. loop'[l].pc \in {"pull", "answered"}
    BY <2>2 DEF ToPull, Answered
  <2> QED BY <1>1, <2>1, <2>2, <2>3, HandledStays DEF SameHandled
<1>6. ASSUME NEW l \in Loops, RequestLost(l) \/ Wake(l)
      PROVE  SameHandled /\ Rests /\ log' = log
  <2>1. Rests /\ log' = log
    BY <1>1, <1>6, OthersRest DEF Moves
  <2>2. PICK s \in {Backoff, Idle} :
          loop[l].pc \in {"posting", "backoff"} /\ loop' = [loop EXCEPT ![l] = s]
    BY <1>6 DEF RequestLost, GiveUp, Wake
  <2>3. s.pc \in {"backoff", "idle"}
    BY <2>2 DEF Backoff, Idle
  <2>4. loop'[l] = s /\ \A k \in Loops \ {l} : loop'[k] = loop[k]
    BY <1>1, <2>2 DEF IInv, TypeOK
  <2> QED BY <1>1, <2>1, <2>2, <2>3, <2>4, HandledStays DEF SameHandled, Rests
<1>7. ASSUME NEW l \in Loops, Fetch(l) \/ Decide(l)
      PROVE  SameHandled /\ Rests /\ log' = log
  <2>1. Rests /\ log' = log
    BY <1>1, <1>7, OthersRest DEF Moves
  <2>2. \A k \in Loops \ {l} : loop'[k] = loop[k]
    BY <1>1, <1>7 DEF Fetch, Decide, IInv, TypeOK
  <2> QED BY <1>1, <1>7, <2>1, <2>2, HandledStays DEF SameHandled, Rests
<1>8. ASSUME NEW l \in Loops, Passes(l)
      PROVE  PassesOp(l, loop[l].at) /\ PassesFile(l, loop[l].at)
  BY <1>1, <1>8, PassesOne, PassesOneFile
<1>9. ASSUME NEW m \in Machines, Elapse(m)
      PROVE  SameHandled /\ Rests /\ log' = log
  <2>1. Rests /\ UNCHANGED <<log, loop>>
    BY <1>1, <1>9, OthersRest
  <2> QED BY <2>1 DEF SameHandled, Handled, Rests
<1>10. CASE \E m \in Machines, g \in Gids : Writes(m, g)
  BY <1>2, <1>10
<1>11. CASE \E m \in Machines : Elapse(m)
  BY <1>9, <1>11
<1>12. ASSUME NEW l \in Loops,
              Push(l) \/ Serve(l) \/ Acknowledge(l) \/ RequestLost(l) \/ Moves(l)
       PROVE  /\ SameHandled
              /\ \/ Rests /\ log' = log
                 \/ Rests /\ \E k \in Loops : \E ops : ServesOps(k, ops)
                 \/ \E k \in Loops, p \in 0..Len(log), g \in Gids, a \in Answer, rest \in Seq(Answer) :
                      TakesAnswer(k, p, g, a, rest)
  BY <1>3, <1>4, <1>5, <1>6, <1>7, <1>12 DEF Moves
<1> QED BY <1>1, <1>8, <1>10, <1>11, <1>12, OrderlySteps

(* What is handled stays handled.                                           *)
LEMMA HandledGrows ==
  ASSUME CalmStep, NEW x \in Machines, NEW k \in Int, Handled(x, k)
  PROVE  Handled(x, k)'
<1>1. CASE SameHandled
  BY <1>1 DEF SameHandled
<1>2. CASE \E l \in Loops : PassesOp(l, loop[l].at) /\ PassesFile(l, loop[l].at)
  BY <1>2, HandlesOne DEF CalmStep, CalmInv, Orderly
<1> QED BY <1>1, <1>2, CalmSteps

(* Nor is it when the log grows that more of it is handled.                 *)
LEMMA LogOnlyServed ==
  ASSUME CalmStep
  PROVE  \/ log' = log
         \/ SameHandled /\ Rests /\ \E l \in Loops : \E ops : ServesOps(l, ops)
<1>1. \A m \in Machines, g \in Gids : \A n : WroteRow(m, g, n) => log' = log
  BY DEF WroteRow
<1>2. \A l \in Loops : \A p, g, a, rest : TakesAnswer(l, p, g, a, rest) => log' = log
  BY DEF TakesAnswer
<1>3. \A l \in Loops : \A k : PassesOp(l, k) => log' = log
  BY DEF PassesOp
<1> QED BY <1>1, <1>2, <1>3, CalmSteps


\* Op k is an accepted op of file g.
Accepted(l, g, k) == l[k].gid = g /\ l[k].status = "accepted"

(* An accepted op is counted from its place on...                           *)
LEMMA AcceptedCounts ==
  ASSUME NEW l \in Logs, NEW k \in 1..Len(l), NEW g, Accepted(l, g, k),
         KindFamily(l[k].kind) = "content", NEW s \in Nat, NEW t \in Nat, s < k, k <= t
  PROVE  VersionAt(l, g, "content", s) < VersionAt(l, g, "content", t)
<1>1. Len(l) \in Nat /\ k \in Nat /\ k - 1 \in Nat /\ k - 1 < Len(l) /\ s <= k - 1 /\ (k - 1) + 1 = k
      /\ s <= Len(l) /\ k <= Len(l) /\ Extends(l, l)
  BY DEF Logs, Extends
<1>2. /\ VersionAt(l, g, "content", s) \in Nat /\ VersionAt(l, g, "content", k - 1) \in Nat
      /\ VersionAt(l, g, "content", s) <= VersionAt(l, g, "content", k - 1)
  BY <1>1, VersionGrows
<1>3. VersionAt(l, g, "content", k) = VersionAt(l, g, "content", k - 1) + 1
  BY <1>1, VersionCounts DEF Accepted
<1>4. VersionAt(l, g, "content", t) \in Nat
      /\ VersionAt(l, g, "content", k) <= VersionAt(l, g, "content", t)
  BY <1>1, VersionGrows
<1> QED BY <1>2, <1>3, <1>4

(* ... and where no op of the file is, its version stays.                   *)
LEMMA NoneCounts ==
  ASSUME NEW l \in Logs, NEW g, NEW s \in Nat, NEW t \in Nat, s <= t,
         \A k \in 1..Len(l) : s < k /\ k <= t => l[k].gid # g
  PROVE  VersionAt(l, g, "content", t) = VersionAt(l, g, "content", s)
<1>1. DOMAIN l = 1..Len(l) /\ Len(l) \in Nat
  BY DEF Logs
<1>2. AcceptedUpTo(l, g, "content", t) = AcceptedUpTo(l, g, "content", s)
  BY <1>1 DEF AcceptedUpTo
<1> QED BY <1>2 DEF VersionAt

(* A version says that an op was accepted.                                  *)
LEMMA VersionOfSome ==
  ASSUME NEW l \in Logs, NEW g, NEW s \in Nat, VersionAt(l, g, "content", s) # 0
  PROVE  \E k \in 1..Len(l) : k <= s /\ Accepted(l, g, k)
<1>1. AcceptedUpTo(l, g, "content", s) # {}
  BY FS_EmptySet DEF VersionAt
<1> QED BY <1>1 DEF AcceptedUpTo, Accepted, Logs

-----------------------------------------------------------------------------
(* What the log says of who has seen what.                                  *)

\* The log as a whole: of files, in each machine's order.
FileLog ==
  /\ OwnOrder
  /\ \A k \in DOMAIN log :
       /\ KindFamily(log[k].kind) = "content"
       /\ log[k].gid \in Gids /\ log[k].origin \in Machines

LEMMA CalmLog == CalmInv => FileLog
BY LoggedInOrder, LogRow DEF CalmInv, FileLog

LEMMA CalmLogNext == CalmInv' => FileLog'
<1>1. CalmInv => FileLog
  BY CalmLog
<1> QED BY <1>1, PTL

(* Rows keep what they carry.                                               *)
LEMMA RowsKept ==
  ASSUME CalmStep
  PROVE  /\ \A x \in Machines : \A i \in DOMAIN outbox[x] :
              /\ i \in DOMAIN outbox'[x]
              /\ outbox'[x][i].gid = outbox[x][i].gid /\ outbox'[x][i].saw = outbox[x][i].saw
              /\ outbox'[x][i].text = outbox[x][i].text
         /\ \A x \in Machines : seen[x] \subseteq seen'[x]
         /\ \A i \in 1..Len(log) : i \in DOMAIN log' /\ log'[i] = log[i]
<1>1. \A x \in Machines : seen[x] \subseteq seen'[x]
  BY DEF CalmStep, Grows
<1>2. \A x \in Machines : \A i \in DOMAIN outbox[x] :
        /\ i \in DOMAIN outbox'[x] /\ outbox'[x][i].gid = outbox[x][i].gid
        /\ outbox'[x][i].text = outbox[x][i].text
  BY DEF CalmStep, Grows
<1>3. \A i \in 1..Len(log) : i \in DOMAIN log' /\ log'[i] = log[i]
  <2>1. /\ DOMAIN log = 1..Len(log) /\ Len(log) \in Nat
        /\ DOMAIN log' = 1..Len(log') /\ Len(log') \in Nat
        /\ Len(log) <= Len(log') /\ \A i \in 1..Len(log) : log'[i] = log[i]
    BY DEF CalmStep, CalmInv, IInv, TypeOK, Grows, Extends, Logs
  <2> QED BY <2>1
<1>4. ASSUME NEW x \in Machines, NEW i \in DOMAIN outbox[x]
      PROVE  outbox'[x][i].saw = outbox[x][i].saw
  <2>1. ASSUME NEW m, NEW g, NEW n, WroteRow(m, g, n)
        PROVE  outbox'[x][i].saw = outbox[x][i].saw
    BY <2>1 DEF WroteRow
  <2>2. ASSUME NEW l \in Loops, NEW p, NEW g, NEW a, NEW rest, TakesAnswer(l, p, g, a, rest)
        PROVE  outbox'[x][i].saw = outbox[x][i].saw
    BY <2>2 DEF TakesAnswer
  <2>3. ASSUME Rests
        PROVE  outbox'[x][i].saw = outbox[x][i].saw
    BY <2>3 DEF Rests, RowsStay
  <2>4. ASSUME NEW l \in Loops, NEW k, PassesOp(l, k)
        PROVE  outbox'[x][i].saw = outbox[x][i].saw
    BY <2>4 DEF PassesOp
  <2> QED BY <2>1, <2>2, <2>3, <2>4, CalmSteps
<1> QED BY <1>1, <1>2, <1>3, <1>4

(* What the relay makes of op n of a request.                               *)
LEMMA ServedOp ==
  ASSUME CalmStep, NEW l \in Loops, NEW ops, ServesOps(l, ops), NEW n \in DOMAIN ops,
         NEW m, m = Host[l], NEW g, g = ops[n].gid, NEW j, j = Len(log) + n
  PROVE  /\ m \in Machines /\ g \in Gids /\ n \in Nat
         /\ j \in Nat /\ j - 1 \in Nat /\ Len(log) < j /\ j \in 1..Len(log') /\ j \in DOMAIN log'
         /\ log'[j].gid = g /\ log'[j].origin = m /\ log'[j].cseq = ops[n].cseq
         /\ ops[n].cseq \in DOMAIN outbox[m] /\ outbox[m][ops[n].cseq].gid = g
         /\ FindByClientSeq(log, m, ops[n].cseq) = {}
         /\ Cardinality(OfFile(ops, n - 1, g)) \in Nat
         /\ log'[j].base \in Bases
         /\ log'[j].base # NoBase =>
              log'[j].base <= VersionAt(log, g, "content", cursor[m])
                                + Cardinality(OfFile(ops, n - 1, g))
         /\ OfFile(ops, n - 1, g) = {} => log'[j].base = outbox[m][ops[n].cseq].base
         /\ log'[j].status = "conflict" => VersionAt(log', g, "content", j - 1) # 0
         /\ log'[j].status = "accepted" =>
              /\ log'[j].base = NoBase => VersionAt(log', g, "content", j - 1) = 0
              /\ log'[j].base # NoBase => log'[j].base = VersionAt(log', g, "content", j - 1)
              /\ VersionAt(log, g, "content", Len(log)) + Cardinality(OfFile(ops, n - 1, g))
                   <= VersionAt(log', g, "content", j - 1)
<1>1. /\ m \in Machines /\ ops \in Seq(Wire) /\ DOMAIN ops = 1..Len(ops) /\ Len(ops) \in Nat
      /\ Len(log) \in Nat /\ Len(log') = Len(log) + Len(ops) /\ DOMAIN log' = 1..Len(log')
  BY LoopsAssumption DEF ServesOps, Logs
<1>2. /\ n \in Nat /\ n - 1 \in Nat /\ j \in Nat /\ j - 1 \in Nat /\ Len(log) < j
      /\ j \in 1..Len(log') /\ Len(log) + n - 1 = j - 1
  BY <1>1
<1>3. ops[n] \in Wire /\ ops[n].origin = m /\ HasRow(outbox, ops[n])
  BY <1>1 DEF ServesOps
<1>4. g \in Gids /\ ops[n].base \in Bases
  BY <1>3 DEF Wire
<1>5. Carries(log'[j], ops[n]) /\ JudgedInTurn(log', ops, n)
  BY DEF ServesOps
<1>6. FindByClientSeq(log, m, ops[n].cseq) = {}
  BY <1>3 DEF ServesOps, AsksExactly
<1>7. AsksUpTo(ops, cursor[m])
  BY DEF CalmStep, CalmInv, PlacesInv, PlaceInv, ServesOps
<1>8. Cardinality(OfFile(ops, n - 1, g)) \in Nat
  BY <1>2, OfFileCounts
<1>9. log'[j].gid = g /\ log'[j].origin = m /\ log'[j].cseq = ops[n].cseq
  BY <1>3, <1>5 DEF Carries, SameRow
<1>10. ops[n].cseq \in DOMAIN outbox[m] /\ outbox[m][ops[n].cseq].gid = g
  BY <1>3 DEF HasRow
<1>11. /\ log'[j].base = ops[n].base
       /\ log'[j].status = "conflict" => VersionAt(log', g, "content", j - 1) # 0
       /\ log'[j].status = "accepted" =>
            /\ ops[n].base = NoBase => VersionAt(log', g, "content", j - 1) = 0
            /\ VersionAt(log, g, "content", Len(log)) + Cardinality(OfFile(ops, n - 1, g))
                 <= VersionAt(log', g, "content", j - 1)
  BY <1>2, <1>5 DEF JudgedInTurn
<1>12. log'[j].status = "accepted" /\ log'[j].base # NoBase =>
         log'[j].base = VersionAt(log', g, "content", j - 1)
  BY <1>2, <1>9 DEF ServesOps, ExactIn
<1>13. /\ ops[n].base # NoBase =>
            ops[n].base <= VersionAt(log, g, "content", cursor[m])
                             + Cardinality(OfFile(ops, n - 1, g))
       /\ OfFile(ops, n - 1, g) = {} => ops[n].base = outbox[m][ops[n].cseq].base
  BY <1>3, <1>7 DEF AsksUpTo
<1> QED BY <1>1, <1>2, <1>4, <1>6, <1>8, <1>9, <1>10, <1>11, <1>12, <1>13


\* Only an op of a file that has an accepted op loses.
FirstAccepted ==
  \A k \in DOMAIN log : log[k].status = "conflict" =>
    \E j \in 1..(k - 1) : Accepted(log, log[k].gid, j)

\* Where a machine has not got to its own accepted op yet, it has got to the others'
\* accepted ops of that file before it.
NoPassing ==
  \A c \in DOMAIN log : \A k \in 1..(c - 1) :
    LET m == log[c].origin IN
    /\ log[c].status = "accepted" /\ Accepted(log, log[c].gid, k)
    /\ log[k].origin # m /\ ~Handled(m, c)
    => Handled(m, k)

LEMMA StepFirstAccepted ==
  ASSUME CalmStep, FirstAccepted
  PROVE  FirstAccepted'
<1> SUFFICES ASSUME NEW k \in DOMAIN log', log'[k].status = "conflict"
             PROVE  \E j \in 1..(k - 1) : Accepted(log', log'[k].gid, j)
  BY DEF FirstAccepted
<1>1. DOMAIN log = 1..Len(log) /\ Len(log) \in Nat
  BY DEF CalmStep, CalmInv, IInv, TypeOK
<1>2. CASE k \in DOMAIN log
  <2>1. log'[k] = log[k]
    BY <1>1, <1>2, RowsKept
  <2>2. PICK j \in 1..(k - 1) : Accepted(log, log[k].gid, j)
    BY <1>2, <2>1 DEF FirstAccepted
  <2>3. log'[j] = log[j]
    <3>1. j \in 1..Len(log)
      BY <1>1, <1>2
    <3> QED BY <3>1, RowsKept
  <2> QED BY <2>1, <2>2, <2>3 DEF Accepted
<1>3. CASE k \notin DOMAIN log
  <2>1. PICK l \in Loops : \E o : ServesOps(l, o)
    BY <1>3, LogOnlyServed
  <2>2. PICK ops : ServesOps(l, ops)
    BY <2>1
  <2>3. log' \in Logs /\ k \in (Len(log) + 1)..Len(log')
    BY <1>1, <1>3, <2>2 DEF ServesOps, Logs
  <2>4. PICK n \in DOMAIN ops : k = Len(log) + n
    BY <2>2, <2>3 DEF ServesOps
  <2>5. log'[k].gid = ops[n].gid /\ VersionAt(log', ops[n].gid, "content", k - 1) # 0
        /\ k \in Nat /\ k - 1 \in Nat
    BY <2>2, <2>4, ServedOp
  <2>6. PICK j \in 1..Len(log') : j <= k - 1 /\ Accepted(log', ops[n].gid, j)
    BY <2>3, <2>5, VersionOfSome
  <2>7. j \in 1..(k - 1)
    BY <2>3, <2>5, <2>6
  <2> QED BY <2>5, <2>6, <2>7
<1> QED BY <1>2, <1>3

LEMMA StepNoPassing ==
  ASSUME CalmStep, NoPassing
  PROVE  NoPassing'
<1> SUFFICES ASSUME NEW c \in DOMAIN log', NEW k \in 1..(c - 1), NEW m, m = log'[c].origin,
                    log'[c].status = "accepted", Accepted(log', log'[c].gid, k),
                    log'[k].origin # m, ~Handled(m, c)'
             PROVE  Handled(m, k)'
  BY DEF NoPassing
<1>1. DOMAIN log = 1..Len(log) /\ Len(log) \in Nat /\ DOMAIN log' = 1..Len(log')
      /\ Len(log') \in Nat
  BY DEF CalmStep, CalmInv, IInv, TypeOK
<1>2. m \in Machines /\ KindFamily(log'[k].kind) = "content" /\ log'[c].gid \in Gids
      /\ c \in Int /\ k \in Int /\ k \in Nat /\ k < c
  <2>1. FileLog'
    BY CalmLogNext DEF CalmStep
  <2>2. k \in DOMAIN log'
    BY <1>1
  <2> QED BY <1>1, <2>1, <2>2 DEF FileLog
<1>3. CASE c \in DOMAIN log
  <2>1. k \in 1..Len(log) /\ log'[c] = log[c] /\ log'[k] = log[k]
    BY <1>1, <1>3, RowsKept
  <2>2. ~Handled(m, c)
    BY <1>2, HandledGrows
  <2>3. Handled(m, k)
    BY <1>3, <2>1, <2>2 DEF NoPassing, Accepted
  <2> QED BY <1>2, <2>3, HandledGrows
<1>4. CASE c \notin DOMAIN log
  <2>1. SameHandled /\ \E l \in Loops : \E o : ServesOps(l, o)
    BY <1>4, LogOnlyServed
  <2>2. PICK l \in Loops : \E o : ServesOps(l, o)
    BY <2>1
  <2>3. PICK ops : ServesOps(l, ops)
    BY <2>2
  <2>4. log \in Logs /\ log' \in Logs /\ Extends(log, log') /\ c \in (Len(log) + 1)..Len(log')
    BY <1>1, <1>4, <2>3 DEF ServesOps
  <2>5. PICK n \in DOMAIN ops : c = Len(log) + n
    BY <2>3, <2>4 DEF ServesOps
  <2>6. PICK g : g = ops[n].gid
    OBVIOUS
  <2>7. m = Host[l] /\ log'[c].gid = g
    BY <2>3, <2>5, <2>6, ServedOp, SMTT(20)
  <2>8. k \in 1..Len(log) /\ log'[k] = log[k]
    <3>1. ASSUME k \notin 1..Len(log)
          PROVE  FALSE
      <4>1. k \in (Len(log) + 1)..Len(log')
        BY <1>1, <1>2, <3>1
      <4>2. PICK h \in DOMAIN ops : k = Len(log) + h
        BY <2>3, <4>1 DEF ServesOps
      <4>3. log'[k].origin = m
        BY <2>3, <2>7, <4>2, ServedOp
      <4> QED BY <4>3
    <3> QED BY <3>1, RowsKept
  <2>9. PICK s \in Nat : s = cursor[m] /\ s <= Len(log)
    BY <1>2 DEF CalmStep, CalmInv, IInv, TypeOK, NeverAhead
  <2>10. PICK b : b = Cardinality(OfFile(ops, n - 1, g))
    OBVIOUS
  <2>11. /\ b \in Nat /\ c - 1 \in Nat /\ log'[c].base \in Bases
         /\ log'[c].base # NoBase => log'[c].base <= VersionAt(log, g, "content", s) + b
         /\ log'[c].base = NoBase => VersionAt(log', g, "content", c - 1) = 0
         /\ log'[c].base # NoBase => log'[c].base = VersionAt(log', g, "content", c - 1)
         /\ VersionAt(log, g, "content", Len(log)) + b <= VersionAt(log', g, "content", c - 1)
    BY <2>3, <2>5, <2>6, <2>7, <2>9, <2>10, ServedOp, SMTT(20)
  <2>12. ASSUME s < k
         PROVE  FALSE
    <3>1. Accepted(log, g, k) /\ KindFamily(log[k].kind) = "content"
      BY <1>2, <2>7, <2>8 DEF Accepted
    <3>2. VersionAt(log, g, "content", s) < VersionAt(log, g, "content", Len(log))
      BY <1>1, <1>2, <2>4, <2>8, <2>9, <2>12, <3>1, AcceptedCounts
    <3>3. VersionAt(log', g, "content", 0) < VersionAt(log', g, "content", c - 1)
      <4>1. k \in 1..Len(log') /\ Accepted(log', g, k) /\ k <= c - 1 /\ 0 < k
        BY <1>1, <1>2, <2>7
      <4> QED BY <1>2, <2>4, <2>11, <4>1, AcceptedCounts
    <3>4. /\ VersionAt(log', g, "content", 0) \in Nat /\ VersionAt(log', g, "content", c - 1) \in Nat
          /\ VersionAt(log, g, "content", s) \in Nat
          /\ VersionAt(log, g, "content", Len(log)) \in Nat
      <4>1. Extends(log', log') /\ Extends(log, log)
        BY DEF Extends, Logs
      <4>2. 0 \in Nat /\ 0 <= Len(log') /\ 0 <= c - 1
        BY <1>1, <2>11
      <4> QED BY <1>1, <2>4, <2>9, <2>11, <4>1, <4>2, VersionGrows
    <3> HIDE DEF VersionAt
    <3> QED BY <2>11, <3>2, <3>3, <3>4, NoBaseAssumption
  <2>13. Handled(m, k)
    BY <1>2, <2>9, <2>12 DEF Handled
  <2> QED BY <1>2, <2>13, HandledGrows
<1> QED BY <1>3, <1>4

\* Version v of file g is no news: whoever accepts S as read has the text it was
\* accepted with, or machine m has an op of the file in the log from there on.
KnowsFrom(l, m, g, v, S) ==
  \A c \in DOMAIN l :
    Accepted(l, g, c) /\ VersionAt(l, g, "content", c) = v =>
      \/ <<l[c].origin, l[c].cseq>> \in S
      \/ \E q \in DOMAIN l : c <= q /\ l[q].gid = g /\ l[q].origin = m

\* What a machine knows or bases a row on, its user had before them.
KnownSeen ==
  \A m \in Machines :
    /\ \A g \in Gids : KnowsFrom(log, m, g, known[m][g], seen[m])
    /\ \A i \in DOMAIN outbox[m] :
         \/ FindByClientSeq(log, m, i) # {}
         \/ outbox[m][i].base = NoBase
         \/ KnowsFrom(log, m, outbox[m][i].gid, outbox[m][i].base, outbox[m][i].saw)

LEMMA KnowsMore ==
  ASSUME NEW l, NEW m, NEW g, NEW v, NEW S, NEW T, KnowsFrom(l, m, g, v, S), S \subseteq T
  PROVE  KnowsFrom(l, m, g, v, T)
BY DEF KnowsFrom

(* A version the log had is not that of an op logged since.                 *)
LEMMA KnowsStays ==
  ASSUME NEW l \in Logs, NEW k \in Logs, Extends(l, k),
         \A i \in DOMAIN k : KindFamily(k[i].kind) = "content",
         NEW m, NEW g, NEW v \in Nat, v <= VersionAt(l, g, "content", Len(l)),
         NEW S, KnowsFrom(l, m, g, v, S)
  PROVE  KnowsFrom(k, m, g, v, S)
<1>1. /\ DOMAIN l = 1..Len(l) /\ DOMAIN k = 1..Len(k) /\ Len(l) \in Nat /\ Len(k) \in Nat
      /\ Len(l) <= Len(k) /\ \A i \in 1..Len(l) : k[i] = l[i]
  BY DEF Logs, Extends
<1> SUFFICES ASSUME NEW c \in DOMAIN k, Accepted(k, g, c), VersionAt(k, g, "content", c) = v
             PROVE  \/ <<k[c].origin, k[c].cseq>> \in S
                    \/ \E q \in DOMAIN k : c <= q /\ k[q].gid = g /\ k[q].origin = m
  BY DEF KnowsFrom
<1>2. CASE c \in DOMAIN l
  <2>1. k[c] = l[c] /\ VersionAt(l, g, "content", c) = v
    BY <1>1, <1>2, VersionStays
  <2>2. \/ <<l[c].origin, l[c].cseq>> \in S
        \/ \E q \in DOMAIN l : c <= q /\ l[q].gid = g /\ l[q].origin = m
    BY <1>2, <2>1 DEF KnowsFrom, Accepted
  <2> QED BY <1>1, <2>1, <2>2
<1>3. CASE c \notin DOMAIN l
  <2>1. Len(l) < c /\ c \in Nat
    BY <1>1, <1>3
  <2>2. VersionAt(k, g, "content", Len(l)) < VersionAt(k, g, "content", c)
    BY <1>1, <2>1, AcceptedCounts
  <2>3. VersionAt(k, g, "content", Len(l)) = VersionAt(l, g, "content", Len(l))
    BY <1>1, VersionStays
  <2>4. VersionAt(l, g, "content", Len(l)) \in Nat
    BY <1>1, VersionGrows
  <2> QED BY <2>2, <2>3, <2>4
<1> QED BY <1>2, <1>3

(* What op k says of its file's version is of ops up to k.                  *)
LEMMA VersionOfOp ==
  ASSUME NEW l \in Logs, NEW g, NEW k \in 1..Len(l), NEW c \in DOMAIN l, Accepted(l, g, c),
         KindFamily(l[c].kind) = "content",
         VersionAt(l, g, "content", c) <= VersionAt(l, g, "content", k)
  PROVE  c <= k
<1>1. DOMAIN l = 1..Len(l) /\ Len(l) \in Nat /\ Extends(l, l)
  BY DEF Logs, Extends
<1>2. ASSUME k < c
      PROVE  FALSE
  <2>1. VersionAt(l, g, "content", k) < VersionAt(l, g, "content", c)
    BY <1>1, <1>2, AcceptedCounts
  <2>2. VersionAt(l, g, "content", k) \in Nat /\ VersionAt(l, g, "content", c) \in Nat
    BY <1>1, VersionGrows
  <2> QED BY <2>1, <2>2
<1> QED BY <1>1, <1>2

(* A row that the log does not have was not there, or not in it, before.    *)
LEMMA WritingKeepsSight ==
  ASSUME CalmStep, KnownSeen, NEW m \in Machines, NEW g \in Gids, NEW n, WroteRow(m, g, n)
  PROVE  KnownSeen'
<1>1. /\ DOMAIN outbox[m] = 1..(n - 1) /\ DOMAIN outbox'[m] = 1..n /\ n \in Nat
      /\ \A i \in DOMAIN outbox[m] : outbox'[m][i] = outbox[m][i]
      /\ outbox'[m][n].gid = g /\ outbox'[m][n].saw = seen[m]
      /\ outbox'[m][n].base \in {NoBase, known[m][g]}
      /\ \A x \in Machines \ {m} : outbox'[x] = outbox[x]
      /\ UNCHANGED <<log, known>>
  BY DEF WroteRow
<1>2. ASSUME NEW x \in Machines, NEW h \in Gids
      PROVE  KnowsFrom(log', x, h, known'[x][h], seen'[x])
  <2>1. seen[x] \subseteq seen'[x]
    BY RowsKept
  <2>2. KnowsFrom(log, x, h, known[x][h], seen[x])
    BY DEF KnownSeen
  <2> QED BY <1>1, <2>1, <2>2, KnowsMore
<1>3. ASSUME NEW x \in Machines, NEW i \in DOMAIN outbox'[x]
      PROVE  \/ FindByClientSeq(log', x, i) # {}
             \/ outbox'[x][i].base = NoBase
             \/ KnowsFrom(log', x, outbox'[x][i].gid, outbox'[x][i].base, outbox'[x][i].saw)
  <2>1. CASE i \in DOMAIN outbox[x]
    <3>1. outbox'[x][i] = outbox[x][i]
      BY <1>1, <2>1
    <3> QED BY <1>1, <2>1, <3>1 DEF KnownSeen
  <2>2. CASE i \notin DOMAIN outbox[x]
    <3>1. x = m /\ i = n
      BY <1>1, <2>2
    <3>2. KnowsFrom(log, m, g, known[m][g], seen[m])
      BY DEF KnownSeen
    <3> QED BY <1>1, <3>1, <3>2
  <2> QED BY <2>1, <2>2
<1> QED BY <1>2, <1>3 DEF KnownSeen

LEMMA RestingKeepsSight ==
  ASSUME CalmStep, KnownSeen, Rests
  PROVE  KnownSeen'
<1>1. log \in Logs /\ log' \in Logs /\ Extends(log, log')
  BY DEF CalmStep, CalmInv, IInv, TypeOK, Grows, Logs
<1>2. \A i \in DOMAIN log' : KindFamily(log'[i].kind) = "content"
  BY CalmLogNext DEF CalmStep, FileLog
<1>3. ASSUME NEW m \in Machines, NEW g \in Gids
      PROVE  KnowsFrom(log', m, g, known'[m][g], seen'[m])
  <2>1. KnowsFrom(log, m, g, known[m][g], seen[m])
    BY DEF KnownSeen
  <2>2. known[m][g] \in Nat /\ known[m][g] <= VersionAt(log, g, "content", Len(log))
    BY DEF CalmStep, CalmInv, IInv, TypeOK, NeverAhead
  <2> QED BY <1>1, <1>2, <2>1, <2>2, KnowsStays DEF Rests
<1>4. ASSUME NEW m \in Machines, NEW i \in DOMAIN outbox'[m],
             FindByClientSeq(log', m, i) = {}, outbox'[m][i].base # NoBase
      PROVE  KnowsFrom(log', m, outbox'[m][i].gid, outbox'[m][i].base, outbox'[m][i].saw)
  <2>1. /\ i \in DOMAIN outbox[m] /\ outbox'[m][i].gid = outbox[m][i].gid
        /\ outbox'[m][i].base = outbox[m][i].base /\ outbox'[m][i].saw = outbox[m][i].saw
    BY DEF Rests, RowsStay
  <2>2. FindByClientSeq(log, m, i) = {}
    <3>1. FindByClientSeq(log, m, i) \subseteq FindByClientSeq(log', m, i)
      BY <1>1, FoundStays
    <3> QED BY <1>4, <3>1
  <2> DEFINE g == outbox[m][i].gid
             b == outbox[m][i].base
             S == outbox[m][i].saw
  <2>3. KnowsFrom(log, m, g, b, S)
    BY <1>4, <2>1, <2>2 DEF KnownSeen
  <2>4. b <= VersionAt(log, g, "content", Len(log))
    <3>1. IInv /\ MachineInv(m)
      BY DEF CalmStep, CalmInv, BasesInv
    <3> QED BY <1>4, <2>1, <2>2, <3>1, BasedUpToEnd
  <2>5. b \in Nat
    <3>1. outbox[m] \in Seq(Row)
      BY DEF CalmStep, CalmInv, IInv, TypeOK
    <3>2. outbox[m][i] \in Row
      BY <2>1, <3>1
    <3> QED BY <1>4, <2>1, <3>2 DEF Row, Bases
  <2> HIDE DEF g, b, S
  <2>6. KnowsFrom(log', m, g, b, S)
    BY <1>1, <1>2, <2>3, <2>4, <2>5, KnowsStays
  <2> QED BY <2>1, <2>6 DEF g, b, S
<1> QED BY <1>3, <1>4 DEF KnownSeen

LEMMA AckingKeepsSight ==
  ASSUME CalmStep, KnownSeen, NEW l \in Loops, NEW p \in 0..Len(log), NEW g \in Gids,
         NEW a \in Answer, NEW rest, TakesAnswer(l, p, g, a, rest)
  PROVE  KnownSeen'
<1>0. PICK m \in Machines : m = Host[l]
  BY LoopsAssumption, Zenon
<1>1. /\ BasedUpTo(m, p) /\ p + 1 \in 1..Len(log) /\ p + 1 \in DOMAIN log
      /\ log[p + 1].origin = m /\ log[p + 1].gid = g
      /\ KindFamily(log[p + 1].kind) = "content"
      /\ a.status = log[p + 1].status /\ a.version = VersionAt(log, g, "content", p + 1)
      /\ RecordVersion(m, g, a.version)
      /\ DOMAIN outbox'[m] = DOMAIN outbox[m]
      /\ \A x \in Machines \ {m} : outbox'[x] = outbox[x]
      /\ log' = log /\ seen' = seen
  BY <1>0 DEF TakesAnswer, Tells, CalmStep, CalmInv, IInv, TypeOK
<1>2. \A i \in DOMAIN outbox[m] :
        /\ outbox'[m][i].gid = outbox[m][i].gid /\ outbox'[m][i].saw = outbox[m][i].saw
        /\ \/ outbox'[m][i].base = outbox[m][i].base
           \/ /\ outbox[m][i].gid = g /\ a.status # "conflict"
              /\ outbox[m][i].base # NoBase /\ outbox'[m][i].base = outbox[m][i].base + 1
  BY <1>0 DEF TakesAnswer
<1>3. log \in Logs /\ Len(log) \in Nat /\ p \in Nat /\ p + 1 \in Nat /\ p < Len(log)
  BY <1>1 DEF CalmStep, CalmInv, IInv, TypeOK, Logs
<1>4. \A i \in DOMAIN log : KindFamily(log[i].kind) = "content"
  BY CalmLog DEF CalmStep, FileLog
<1>5. ASSUME NEW v, v <= VersionAt(log, g, "content", p + 1), NEW S
      PROVE  KnowsFrom(log, m, g, v, S)
  <2> SUFFICES ASSUME NEW c \in DOMAIN log, Accepted(log, g, c),
                      VersionAt(log, g, "content", c) = v
               PROVE  c <= p + 1
    BY <1>1 DEF KnowsFrom
  <2> QED BY <1>1, <1>3, <1>4, <1>5, VersionOfOp
<1>6. ASSUME NEW x \in Machines, NEW h \in Gids
      PROVE  KnowsFrom(log, x, h, known'[x][h], seen[x])
  <2>1. KnowsFrom(log, x, h, known[x][h], seen[x])
    BY DEF KnownSeen
  <2>2. known \in [Machines -> [Gids -> Nat]] /\ a.version \in Nat
    BY DEF CalmStep, CalmInv, IInv, TypeOK, Answer
  <2> DEFINE w == Max({known[m][g], a.version})
  <2>3. known' = [known EXCEPT ![m][g] = w]
    BY <1>1, <2>2 DEF RecordVersion
  <2>4. w \in {known[m][g], a.version}
    <3>1. known[m][g] \in Nat
      BY <2>2
    <3> QED BY <2>2, <3>1, MaxOfTwo
  <2> HIDE DEF w
  <2>5. known'[x][h] = IF x = m /\ h = g THEN w ELSE known[x][h]
    BY <2>2, <2>3
  <2>6. CASE x = m /\ h = g /\ w = a.version
    <3>1. a.version <= VersionAt(log, g, "content", p + 1)
      BY <1>1, <2>2
    <3> QED BY <1>5, <2>5, <2>6, <3>1
  <2> QED BY <2>1, <2>4, <2>5, <2>6
<1>7. ASSUME NEW i \in DOMAIN outbox[m], FindByClientSeq(log, m, i) = {},
             outbox'[m][i].base # NoBase
      PROVE  KnowsFrom(log, m, outbox'[m][i].gid, outbox'[m][i].base, outbox'[m][i].saw)
  <2>1. CASE outbox'[m][i].base = outbox[m][i].base
    BY <1>2, <1>7, <2>1 DEF KnownSeen
  <2>2. CASE /\ outbox[m][i].gid = g /\ a.status # "conflict"
             /\ outbox[m][i].base # NoBase /\ outbox'[m][i].base = outbox[m][i].base + 1
    <3>1. outbox[m][i].base <= VersionAt(log, g, "content", p)
      BY <1>1, <1>7, <2>2 DEF BasedUpTo
    <3>2. a.status = "accepted"
      BY <2>2 DEF Answer
    <3>3. VersionAt(log, g, "content", p) \in Nat
          /\ VersionAt(log, g, "content", p + 1) = VersionAt(log, g, "content", p) + 1
      BY <1>1, <1>3, <3>2, VersionCounts
    <3>4. outbox[m][i].base \in Nat
      <4>1. outbox[m] \in Seq(Row)
        BY DEF CalmStep, CalmInv, IInv, TypeOK
      <4>2. outbox[m][i] \in Row
        BY <4>1
      <4> QED BY <2>2, <4>2 DEF Row, Bases
    <3>5. outbox'[m][i].base <= VersionAt(log, g, "content", p + 1)
      BY <2>2, <3>1, <3>3, <3>4
    <3> QED BY <1>2, <1>5, <2>2, <3>5
  <2> QED BY <1>2, <2>1, <2>2
<1>8. ASSUME NEW x \in Machines, NEW i \in DOMAIN outbox'[x],
             FindByClientSeq(log, x, i) = {}, outbox'[x][i].base # NoBase
      PROVE  KnowsFrom(log, x, outbox'[x][i].gid, outbox'[x][i].base, outbox'[x][i].saw)
  <2>1. CASE x = m
    BY <1>1, <1>7, <1>8, <2>1
  <2>2. CASE x # m
    BY <1>1, <1>8, <2>2 DEF KnownSeen
  <2> QED BY <2>1, <2>2
<1> QED BY <1>1, <1>6, <1>8 DEF KnownSeen

LEMMA PassingKeepsSight ==
  ASSUME CalmStep, KnownSeen, NEW l \in Loops, NEW k, PassesOp(l, k), PassesFile(l, k)
  PROVE  KnownSeen'
<1>1. PICK m \in Machines : m = Host[l]
  BY LoopsAssumption
<1>2. PICK g : g = log[k].gid
  OBVIOUS
<1>3. /\ k \in DOMAIN log /\ loop[l].pc \in {"paging", "applying"} /\ loop[l].at = k
      /\ RecordVersion(m, g, VersionAt(log, g, "content", k))
      /\ outbox' = outbox /\ log' = log
  BY <1>1, <1>2 DEF PassesOp
<1>4. /\ log \in Logs /\ DOMAIN log = 1..Len(log) /\ Len(log) \in Nat /\ Extends(log, log)
      /\ known \in [Machines -> [Gids -> Nat]] /\ IInv
  BY DEF CalmStep, CalmInv, IInv, TypeOK, Logs, Extends
<1>5. g \in Gids /\ \A i \in DOMAIN log : KindFamily(log[i].kind) = "content"
  BY <1>2, <1>3, CalmLog DEF CalmStep, FileLog
<1>6. ASSUME NEW c \in DOMAIN log, c <= k, log[c].origin # m
      PROVE  Text(c) \in seen'[m]
  <2>1. CASE c = k
    BY <1>1, <1>6, <2>1 DEF PassesFile
  <2>2. CASE c # k
    <3>1. c \in 1..(k - 1)
      BY <1>3, <1>4, <1>6, <2>2
    <3>2. Passed(m, c)
      BY <1>1, <1>3, <1>4, <3>1, InPage
    <3>3. RowOf(c).text = Text(c) /\ Text(c) # NoText
      BY RowOfText DEF CalmStep, CalmInv
    <3>4. skipped[m] = {}
      BY DEF CalmStep, CalmInv, TextsInv
    <3>5. Text(c) \in seen[m]
      BY <1>6, <3>2, <3>3, <3>4 DEF Passed
    <3> QED BY <3>5, RowsKept
  <2> QED BY <2>1, <2>2
<1>7. KnowsFrom(log, m, g, VersionAt(log, g, "content", k), seen'[m])
  <2> SUFFICES ASSUME NEW c \in DOMAIN log, Accepted(log, g, c),
                      VersionAt(log, g, "content", c) = VersionAt(log, g, "content", k)
               PROVE  \/ Text(c) \in seen'[m]
                      \/ \E q \in DOMAIN log : c <= q /\ log[q].gid = g /\ log[q].origin = m
    BY DEF KnowsFrom, Text
  <2>1. VersionAt(log, g, "content", k) \in Nat
    BY <1>3, <1>4, VersionGrows
  <2>2. c <= k
    BY <1>3, <1>4, <1>5, <2>1, VersionOfOp
  <2>3. CASE log[c].origin = m
    BY <1>4, <2>3 DEF Accepted
  <2>4. CASE log[c].origin # m
    BY <1>6, <2>2, <2>4
  <2> QED BY <2>3, <2>4
<1>8. ASSUME NEW x \in Machines, NEW h \in Gids
      PROVE  KnowsFrom(log', x, h, known'[x][h], seen'[x])
  <2> DEFINE v == VersionAt(log, g, "content", k)
             w == Max({known[m][g], v})
  <2>1. KnowsFrom(log, x, h, known[x][h], seen'[x])
    <3>1. KnowsFrom(log, x, h, known[x][h], seen[x]) /\ seen[x] \subseteq seen'[x]
      BY RowsKept DEF KnownSeen
    <3> QED BY <3>1, KnowsMore
  <2>2. known' = [known EXCEPT ![m][g] = w]
    BY <1>3, <1>4, <1>5 DEF RecordVersion
  <2>3. w \in {known[m][g], v}
    <3>1. known[m][g] \in Nat /\ v \in Nat
      BY <1>3, <1>4, <1>5, VersionGrows
    <3> HIDE DEF v
    <3> QED BY <3>1, MaxOfTwo
  <2> HIDE DEF w
  <2>4. known'[x][h] = IF x = m /\ h = g THEN w ELSE known[x][h]
    BY <1>4, <1>5, <2>2
  <2>5. CASE x = m /\ h = g /\ w = v
    BY <1>3, <1>7, <2>4, <2>5
  <2> QED BY <1>3, <2>1, <2>3, <2>4, <2>5
<1>9. ASSUME NEW x \in Machines, NEW i \in DOMAIN outbox[x],
             FindByClientSeq(log, x, i) = {}, outbox[x][i].base # NoBase
      PROVE  KnowsFrom(log, x, outbox[x][i].gid, outbox[x][i].base, outbox[x][i].saw)
  BY <1>9 DEF KnownSeen
<1> QED BY <1>3, <1>8, <1>9 DEF KnownSeen

LEMMA StepKnownSeen ==
  ASSUME CalmStep, KnownSeen
  PROVE  KnownSeen'
<1>1. ASSUME NEW m \in Machines, NEW g \in Gids, NEW n, WroteRow(m, g, n)
      PROVE  KnownSeen'
  BY <1>1, WritingKeepsSight
<1>2. ASSUME NEW l \in Loops, NEW p \in 0..Len(log), NEW g \in Gids, NEW a \in Answer, NEW rest,
             TakesAnswer(l, p, g, a, rest)
      PROVE  KnownSeen'
  BY <1>2, AckingKeepsSight
<1>3. ASSUME NEW l \in Loops, NEW k, PassesOp(l, k), PassesFile(l, k)
      PROVE  KnownSeen'
  BY <1>3, PassingKeepsSight
<1> QED BY <1>1, <1>2, <1>3, RestingKeepsSight, CalmSteps

\* Who has an op accepted right after another op of the file had its text before them.
SightedLog ==
  \A j \in DOMAIN log : \A c \in 1..(j - 1) :
    /\ Accepted(log, log[j].gid, c) /\ log[j].status = "accepted"
    /\ \A i \in (c + 1)..(j - 1) : log[i].gid # log[j].gid
    => Text(c) \in RowOf(j).saw

(* Author j of file g had their own earlier text before them.               *)
LEMMA OwnInSight ==
  ASSUME CalmStep, NEW j \in DOMAIN log', NEW c \in 1..(j - 1),
         log'[c].origin = log'[j].origin, log'[c].gid = log'[j].gid
  PROVE  Text(c)' \in RowOf(j)'.saw
<1>1. FileLog' /\ IInv' /\ TextsInv'
  BY CalmLogNext DEF CalmStep, CalmInv
<1>2. DOMAIN log' = 1..Len(log') /\ Len(log') \in Nat
  BY <1>1 DEF IInv, TypeOK
<1>3. c \in DOMAIN log' /\ c < j /\ log'[j] \in LogEntry(Gids, Machines)
      /\ log'[c] \in LogEntry(Gids, Machines)
  BY <1>1, <1>2 DEF IInv, TypeOK
<1>4. log'[c].cseq < log'[j].cseq
  BY <1>1, <1>3 DEF FileLog, OwnOrder
<1>5. HasRow(outbox', log'[j]) /\ HasRow(outbox', log'[c]) /\ log'[j].origin \in Machines
  BY <1>1, <1>3 DEF IInv, OpsHaveRows, LogEntry
<1>6. outbox'[log'[j].origin] \in Seq(Row)
  BY <1>1, <1>5 DEF IInv, TypeOK
<1>7. log'[j].cseq \in DOMAIN outbox'[log'[j].origin] /\ log'[c].cseq \in 1..(log'[j].cseq - 1)
  BY <1>4, <1>5, <1>6 DEF HasRow
<1> QED BY <1>1, <1>5, <1>7 DEF TextsInv, Text, RowOf

LEMMA StepSightedLog ==
  ASSUME CalmStep, KnownSeen, SightedLog
  PROVE  SightedLog'
<1> SUFFICES ASSUME NEW j \in DOMAIN log', NEW c \in 1..(j - 1), NEW g, g = log'[j].gid,
                    Accepted(log', g, c), log'[j].status = "accepted",
                    \A i \in (c + 1)..(j - 1) : log'[i].gid # g
             PROVE  Text(c)' \in RowOf(j)'.saw
  BY DEF SightedLog
<1>1. /\ DOMAIN log = 1..Len(log) /\ Len(log) \in Nat /\ DOMAIN log' = 1..Len(log')
      /\ Len(log') \in Nat /\ c \in Nat /\ c < j /\ j \in Nat
  BY DEF CalmStep, CalmInv, IInv, TypeOK
<1>2. CASE j \in DOMAIN log
  <2>1. \A i \in 1..j : log'[i] = log[i]
    <3>1. \A i \in 1..j : i \in 1..Len(log)
      BY <1>1, <1>2
    <3> QED BY <3>1, RowsKept
  <2>2. log'[j] = log[j] /\ log'[c] = log[c] /\ \A i \in (c + 1)..(j - 1) : log'[i] = log[i]
    BY <1>1, <2>1
  <2>3. Text(c) \in RowOf(j).saw
    BY <1>2, <2>2 DEF SightedLog, Accepted
  <2>4. HasRow(outbox, log[j]) /\ log[j].origin \in Machines
    BY <1>2, LogRow DEF CalmStep, CalmInv, IInv, OpsHaveRows
  <2>5. RowOf(j)'.saw = RowOf(j).saw
    BY <2>2, <2>4, RowsKept DEF RowOf, HasRow
  <2> QED BY <2>2, <2>3, <2>5 DEF Text
<1>3. CASE j \notin DOMAIN log
  <2>1. PICK l \in Loops : Rests /\ \E o : ServesOps(l, o)
    BY <1>3, LogOnlyServed
  <2>2. PICK ops : ServesOps(l, ops)
    BY <2>1
  <2>3. log \in Logs /\ log' \in Logs /\ Extends(log, log') /\ j \in (Len(log) + 1)..Len(log')
    BY <1>1, <1>3, <2>2 DEF ServesOps
  <2>4. PICK n \in DOMAIN ops : j = Len(log) + n
    BY <2>2, <2>3 DEF ServesOps
  <2>5. PICK m, id : m = Host[l] /\ id = ops[n].cseq
    OBVIOUS
  <2>6. /\ m \in Machines /\ log'[j].origin = m /\ log'[j].cseq = id
        /\ ops[n].gid = g /\ n \in Nat
        /\ id \in DOMAIN outbox[m] /\ outbox[m][id].gid = g
        /\ FindByClientSeq(log, m, id) = {}
        /\ OfFile(ops, n - 1, g) = {} => log'[j].base = outbox[m][id].base
        /\ log'[j].base = NoBase => VersionAt(log', g, "content", j - 1) = 0
        /\ log'[j].base # NoBase => log'[j].base = VersionAt(log', g, "content", j - 1)
    <3>1. log'[j].gid = ops[n].gid
      BY <2>2, <2>4, <2>5, ServedOp
    <3>2. g = ops[n].gid
      BY <3>1
    <3>3. m \in Machines /\ n \in Nat /\ log'[j].origin = m /\ log'[j].cseq = ops[n].cseq
      BY <2>2, <2>4, <2>5, <3>2, ServedOp
    <3>4. ops[n].cseq \in DOMAIN outbox[m] /\ outbox[m][ops[n].cseq].gid = g
      BY <2>2, <2>5, <3>2 DEF ServesOps, HasRow
    <3>5. FindByClientSeq(log, m, ops[n].cseq) = {}
      BY <2>2, <2>4, <2>5, <3>2, ServedOp
    <3>6. /\ OfFile(ops, n - 1, g) = {} => log'[j].base = outbox[m][ops[n].cseq].base
          /\ log'[j].base = NoBase => VersionAt(log', g, "content", j - 1) = 0
          /\ log'[j].base # NoBase => log'[j].base = VersionAt(log', g, "content", j - 1)
      BY <2>2, <2>4, <2>5, <3>2, ServedOp, SMTT(20)
    <3> QED BY <2>5, <3>2, <3>3, <3>4, <3>5, <3>6
  <2>7. CASE log'[c].origin = m
    <3>1. log'[c].origin = log'[j].origin /\ log'[c].gid = log'[j].gid
      BY <2>6, <2>7 DEF Accepted
    <3> QED BY <3>1, OwnInSight
  <2>8. CASE log'[c].origin # m
    <3>1. c \in 1..Len(log) /\ log'[c] = log[c]
      <4>1. ASSUME c \notin 1..Len(log)
            PROVE  FALSE
        <5>1. c \in (Len(log) + 1)..Len(log')
          BY <1>1, <4>1
        <5>2. PICK h \in DOMAIN ops : c = Len(log) + h
          BY <2>2, <5>1 DEF ServesOps
        <5>3. log'[c].origin = m
          BY <2>2, <2>5, <5>2, ServedOp
        <5> QED BY <2>8, <5>3
      <4> QED BY <4>1, RowsKept
    <3>2. OfFile(ops, n - 1, g) = {}
      <4>1. ASSUME NEW h \in 1..(n - 1), ops[h].gid = g
            PROVE  FALSE
        <5>1. h \in DOMAIN ops /\ Len(log) + h \in (c + 1)..(j - 1)
          BY <1>1, <2>2, <2>4, <2>6, <3>1, <4>1 DEF ServesOps
        <5>2. log'[Len(log) + h].gid = ops[h].gid
          BY <2>2, <5>1, ServedOp, SMTT(20)
        <5> QED BY <4>1, <5>1, <5>2
      <4> QED BY <4>1 DEF OfFile
    <3>3. KindFamily(log'[c].kind) = "content" /\ c \in 1..Len(log')
      <4>1. c \in DOMAIN log'
        BY <1>1
      <4> QED BY <1>1, <4>1, CalmLogNext DEF CalmStep, FileLog
    <3>4. VersionAt(log', g, "content", 0) < VersionAt(log', g, "content", j - 1)
          /\ VersionAt(log', g, "content", 0) \in Nat
          /\ VersionAt(log', g, "content", j - 1) \in Nat
      <4>1. 0 \in Nat /\ j - 1 \in Nat /\ 0 < c /\ c <= j - 1 /\ 0 <= j - 1 /\ 0 <= Len(log')
            /\ Extends(log', log')
        BY <1>1 DEF Extends
      <4> QED BY <2>3, <3>3, <4>1, AcceptedCounts, VersionGrows
    <3>5. log'[j].base # NoBase /\ log'[j].base = outbox[m][id].base
      BY <2>6, <3>2, <3>4
    <3>6. VersionAt(log', g, "content", j - 1) = VersionAt(log, g, "content", c)
      <4>1. j - 1 \in Nat /\ c <= j - 1 /\ c <= Len(log)
            /\ \A i \in 1..Len(log') : c < i /\ i <= j - 1 => i \in (c + 1)..(j - 1)
        BY <1>1, <3>1
      <4>2. VersionAt(log', g, "content", j - 1) = VersionAt(log', g, "content", c)
        BY <1>1, <2>3, <4>1, NoneCounts
      <4> QED BY <1>1, <2>3, <4>1, <4>2, VersionStays
    <3>7. KnowsFrom(log, m, g, outbox[m][id].base, outbox[m][id].saw)
      BY <2>6, <3>5 DEF KnownSeen
    <3>8. outbox[m][id].base = VersionAt(log, g, "content", c)
      BY <2>6, <3>5, <3>6
    <3>9. \/ Text(c) \in outbox[m][id].saw
          \/ \E q \in DOMAIN log : c <= q /\ log[q].gid = g /\ log[q].origin = m
      BY <1>1, <3>1, <3>7, <3>8 DEF KnowsFrom, Accepted, Text
    <3>10. ASSUME NEW q \in DOMAIN log, c <= q, log[q].gid = g, log[q].origin = m
           PROVE  FALSE
      <4>1. q # c
        BY <2>8, <3>1, <3>10
      <4>2. q \in (c + 1)..(j - 1)
        BY <1>1, <2>3, <3>10, <4>1
      <4>3. log'[q] = log[q]
        BY <1>1, RowsKept
      <4> QED BY <3>10, <4>2, <4>3
    <3>11. RowOf(j)'.saw = outbox[m][id].saw
      BY <2>6, RowsKept DEF RowOf
    <3> QED BY <3>1, <3>9, <3>10, <3>11 DEF Text
  <2> QED BY <2>7, <2>8
<1> QED BY <1>2, <1>3

\* What the relay's log says of who has seen what.
SightInv == FirstAccepted /\ NoPassing /\ KnownSeen /\ SightedLog

LEMMA StepSightInv ==
  ASSUME CalmStep, SightInv
  PROVE  SightInv'
BY StepFirstAccepted, StepNoPassing, StepKnownSeen, StepSightedLog DEF SightInv

LEMMA InitSightInv == Init => SightInv
<1> SUFFICES ASSUME Init PROVE SightInv
  OBVIOUS
<1>1. DOMAIN log = {} /\ \A m \in Machines : DOMAIN outbox[m] = {}
  BY Nothing
<1> QED BY <1>1 DEF SightInv, FirstAccepted, NoPassing, KnownSeen, SightedLog, KnowsFrom

-----------------------------------------------------------------------------
(* What a machine's files have to do with the log.                          *)

\* A file that a machine does not have has no part in anything there.
NoFile(m, g) ==
  files[m][g] = NoText =>
    /\ \A i \in DOMAIN outbox[m] : outbox[m][i].gid # g
    /\ \A k \in DOMAIN log : Handled(m, k) => log[k].gid # g
    /\ fork[m][g] = NoFork /\ g \notin lost[m]

\* A file's text is the machine's own, or came with an op.
FromSomewhere(m, g) ==
  LET t == files[m][g] IN
  t # NoText =>
    \/ t[1] = m /\ t[2] \in DOMAIN outbox[m]
    \/ \E k \in DOMAIN log : Handled(m, k) /\ Text(k) = t

\* While the machine has rows of the file to send, it holds the text of the last one.
HoldsOwnText(m, g) ==
  Unsent(m, g) =>
    \E i \in DOMAIN outbox[m] :
      /\ files[m][g] = <<m, i>> /\ outbox[m][i].gid = g
      /\ \A j \in DOMAIN outbox[m] : outbox[m][j].gid = g => j <= i

\* A push the relay refused is not forgotten before the machine has pulled up to it.
LosersKept(m, g) ==
  \A k \in DOMAIN log :
    /\ log[k].gid = g /\ log[k].origin = m /\ log[k].status = "conflict"
    /\ ~Handled(m, k) /\ outbox[m][log[k].cseq].status = "acked"
    => \/ g \in lost[m]
       \/ fork[m][g] # NoFork
       \/ \E i \in DOMAIN outbox[m] : outbox[m][i].gid = g /\ FindByClientSeq(log, m, i) = {}

\* A file with no row to send and no conflict has the text of the last op of it that
\* the machine has pulled or pushed; if no push of it lost, of one that was accepted.
HoldsLastText(m, g) ==
  files[m][g] # NoText /\ ~Unsent(m, g) /\ fork[m][g] = NoFork =>
    \E c \in DOMAIN log :
      /\ Text(c) = files[m][g] /\ log[c].gid = g
      /\ \A i \in DOMAIN log :
           log[i].gid = g /\ (Handled(m, i) \/ log[i].origin = m) => i <= c
      /\ g \notin lost[m] => log[c].status = "accepted"

\* Whoever wrote a file's text had before them what the machine's user wrote there.
OwnTextsRead(m, g) ==
  LET t == files[m][g] IN
  t # NoText => \A i \in DOMAIN outbox[m] : outbox[m][i].gid = g =>
    <<m, i>> \in outbox[t[1]][t[2]].saw \cup {t}

FileInv(m, g) ==
  /\ NoFile(m, g) /\ FromSomewhere(m, g) /\ HoldsOwnText(m, g)
  /\ LosersKept(m, g) /\ HoldsLastText(m, g) /\ OwnTextsRead(m, g)

FilesInv == \A m \in Machines, g \in Gids : FileInv(m, g)

(* A file's text is that of a row.                                          *)
LEMMA TextHasRow ==
  ASSUME CalmInv, NEW m \in Machines, NEW g \in Gids, FromSomewhere(m, g), files[m][g] # NoText
  PROVE  LET t == files[m][g] IN
         /\ t \in Texts /\ t[1] \in Machines /\ t[2] \in DOMAIN outbox[t[1]]
         /\ outbox[t[1]][t[2]].text = t
<1>1. PICK t \in Texts : t = files[m][g]
  <2>1. files[m][g] \in Texts
    BY DEF CalmInv, IInv, TypeOK
  <2> QED BY <2>1
<1>2. t[1] \in Machines /\ t = <<t[1], t[2]>>
  BY DEF Texts
<1>3. t[2] \in DOMAIN outbox[t[1]]
  <2>1. CASE t[1] = m /\ t[2] \in DOMAIN outbox[m]
    BY <2>1
  <2>2. CASE \E k \in DOMAIN log : Handled(m, k) /\ Text(k) = t
    <3>1. PICK k \in DOMAIN log : Text(k) = t
      BY <2>2
    <3>2. log[k].cseq \in DOMAIN outbox[log[k].origin]
      BY RowOfText DEF CalmInv
    <3>3. t[1] = log[k].origin /\ t[2] = log[k].cseq
      BY <3>1 DEF Text
    <3> QED BY <3>2, <3>3
  <2> QED BY <1>1, <2>1, <2>2 DEF FromSomewhere
<1>4. outbox[t[1]][t[2]].text = t
  BY <1>2, <1>3 DEF CalmInv, TextsInv
<1> QED BY <1>1, <1>2, <1>3, <1>4

(* An op has a row of its own.                                              *)
LEMMA OpsApart ==
  ASSUME CalmInv, NEW i \in DOMAIN log, NEW j \in DOMAIN log, Text(i) = Text(j)
  PROVE  i = j
<1>1. DOMAIN log = 1..Len(log) /\ Len(log) \in Nat /\ LogInOrder
  BY DEF CalmInv, IInv, TypeOK, OrderInv
<1>2. log[i].origin = log[j].origin /\ log[i].cseq = log[j].cseq
  BY DEF Text
<1>3. ~(i < j) /\ ~(j < i)
  BY <1>1, <1>2 DEF LogInOrder, SameRow
<1> QED BY <1>1, <1>3

(* Where nothing of file g changes on machine m, where nothing of the file  *)
(* is done with but its own ops, and where the log grows by ops not pulled  *)
(* yet and rows not acked yet, the file stays well.                         *)
LEMMA FileStays ==
  ASSUME CalmStep, NEW m \in Machines, NEW g \in Gids, FileInv(m, g),
         files'[m][g] = files[m][g], fork'[m][g] = fork[m][g], g \in lost'[m] <=> g \in lost[m],
         \A i \in DOMAIN outbox'[m] : outbox'[m][i].gid = g =>
           /\ i \in DOMAIN outbox[m]
           /\ outbox'[m][i].status = "acked" <=> outbox[m][i].status = "acked",
         \A k \in DOMAIN log : log[k].gid = g /\ Handled(m, k)' =>
           Handled(m, k) \/ log[k].origin = m,
         \A k \in DOMAIN log' : k \notin DOMAIN log =>
           /\ ~Handled(m, k)'
           /\ log'[k].origin = m => outbox'[m][log'[k].cseq].status # "acked",
         AddsForOthers(m) \/ \A k \in DOMAIN log : log[k].origin = m => Handled(m, k)
  PROVE  FileInv(m, g)'
<1>1. /\ DOMAIN log = 1..Len(log) /\ Len(log) \in Nat
      /\ \A k \in DOMAIN log : k \in DOMAIN log' /\ log'[k] = log[k] /\ k \in Int
  <2>1. DOMAIN log = 1..Len(log) /\ Len(log) \in Nat
    BY DEF CalmStep, CalmInv, IInv, TypeOK
  <2> QED BY <2>1, RowsKept
<1>2. \A k \in DOMAIN log : Handled(m, k) => Handled(m, k)'
  BY <1>1, HandledGrows
<1>3. /\ CalmInv /\ CalmInv' /\ IInv /\ IInv'
      /\ \A i \in DOMAIN outbox[m] :
           /\ i \in DOMAIN outbox'[m] /\ outbox'[m][i].gid = outbox[m][i].gid
           /\ outbox'[m][i].kind = outbox[m][i].kind
  BY DEF CalmStep, CalmInv, Grows
<1>4. ASSUME NEW k \in DOMAIN log', log'[k].origin = m
      PROVE  log'[k].cseq \in DOMAIN outbox'[m] /\ outbox'[m][log'[k].cseq].gid = log'[k].gid
             /\ outbox'[m][log'[k].cseq].kind \in {"file.create", "file.update"}
  <2>1. HasRow(outbox', log'[k])
    BY <1>3 DEF IInv, OpsHaveRows
  <2>2. outbox'[m][log'[k].cseq].kind # "file.delete"
    BY <1>4, <2>1 DEF HasRow, CalmStep, CalmInv, TextsInv
  <2>3. outbox'[m][log'[k].cseq] \in Row
    <3>1. outbox'[m] \in Seq(Row)
      BY <1>3 DEF IInv, TypeOK
    <3> QED BY <1>4, <2>1, <3>1 DEF HasRow
  <2> QED BY <1>4, <2>1, <2>2, <2>3 DEF HasRow, Row, PushKinds
<1>5. \A k \in DOMAIN log : Text(k)' = Text(k)
  BY <1>1 DEF Text
<1>6. NoFile(m, g)'
  <2> SUFFICES ASSUME files[m][g] = NoText
               PROVE  /\ \A i \in DOMAIN outbox'[m] : outbox'[m][i].gid # g
                      /\ \A k \in DOMAIN log' : Handled(m, k)' => log'[k].gid # g
                      /\ fork'[m][g] = NoFork /\ g \notin lost'[m]
    BY DEF NoFile
  <2>1. /\ \A i \in DOMAIN outbox[m] : outbox[m][i].gid # g
        /\ \A k \in DOMAIN log : Handled(m, k) => log[k].gid # g
        /\ fork[m][g] = NoFork /\ g \notin lost[m]
    BY DEF FileInv, NoFile
  <2>2. \A i \in DOMAIN outbox'[m] : outbox'[m][i].gid # g
    BY <1>3, <2>1
  <2>3. ASSUME NEW k \in DOMAIN log', Handled(m, k)', log'[k].gid = g
        PROVE  FALSE
    <3>1. k \in DOMAIN log /\ log[k].gid = g
      BY <1>1, <2>3
    <3>2. log[k].origin = m
      BY <2>1, <2>3, <3>1
    <3> QED BY <1>1, <1>4, <2>2, <2>3, <3>1, <3>2
  <2> QED BY <2>1, <2>2, <2>3
<1>7. FromSomewhere(m, g)'
  <2> SUFFICES ASSUME files[m][g] # NoText
               PROVE  LET t == files[m][g] IN
                      \/ t[1] = m /\ t[2] \in DOMAIN outbox'[m]
                      \/ \E k \in DOMAIN log' : Handled(m, k)' /\ Text(k)' = t
    BY DEF FromSomewhere
  <2> QED BY <1>1, <1>2, <1>3, <1>5 DEF FileInv, FromSomewhere
<1>8. Unsent(m, g)' <=> Unsent(m, g)
  BY <1>3 DEF Unsent
<1>9. HoldsOwnText(m, g)'
  <2> SUFFICES ASSUME Unsent(m, g)
               PROVE  \E i \in DOMAIN outbox'[m] :
                        /\ files[m][g] = <<m, i>> /\ outbox'[m][i].gid = g
                        /\ \A j \in DOMAIN outbox'[m] : outbox'[m][j].gid = g => j <= i
    BY <1>8 DEF HoldsOwnText
  <2>1. PICK i \in DOMAIN outbox[m] :
          /\ files[m][g] = <<m, i>> /\ outbox[m][i].gid = g
          /\ \A j \in DOMAIN outbox[m] : outbox[m][j].gid = g => j <= i
    BY DEF FileInv, HoldsOwnText
  <2>2. \A j \in DOMAIN outbox'[m] : outbox'[m][j].gid = g => j <= i
    BY <1>3, <2>1
  <2> QED BY <1>3, <2>1, <2>2
<1>10. LosersKept(m, g)'
  <2> SUFFICES ASSUME NEW k \in DOMAIN log', log'[k].gid = g, log'[k].origin = m,
                      log'[k].status = "conflict", ~Handled(m, k)',
                      outbox'[m][log'[k].cseq].status = "acked"
               PROVE  \/ g \in lost'[m]
                      \/ fork'[m][g] # NoFork
                      \/ \E i \in DOMAIN outbox'[m] :
                           outbox'[m][i].gid = g /\ FindByClientSeq(log', m, i) = {}
    BY DEF LosersKept
  <2>1. k \in DOMAIN log /\ log'[k] = log[k] /\ ~Handled(m, k)
    BY <1>1, <1>2
  <2>2. outbox[m][log[k].cseq].status = "acked"
    BY <1>4, <2>1
  <2>3. AddsForOthers(m)
    BY <2>1
  <2>4. \/ g \in lost[m]
        \/ fork[m][g] # NoFork
        \/ \E i \in DOMAIN outbox[m] : outbox[m][i].gid = g /\ FindByClientSeq(log, m, i) = {}
    BY <2>1, <2>2 DEF FileInv, LosersKept
  <2> QED BY <1>3, <2>3, <2>4, OwnOpsStay
<1>11. HoldsLastText(m, g)'
  <2> SUFFICES ASSUME files[m][g] # NoText, ~Unsent(m, g), fork[m][g] = NoFork
               PROVE  \E c \in DOMAIN log' :
                        /\ Text(c)' = files[m][g] /\ log'[c].gid = g
                        /\ \A i \in DOMAIN log' :
                             log'[i].gid = g /\ (Handled(m, i)' \/ log'[i].origin = m) => i <= c
                        /\ g \notin lost'[m] => log'[c].status = "accepted"
    BY <1>8 DEF HoldsLastText
  <2>1. PICK c \in DOMAIN log :
          /\ Text(c) = files[m][g] /\ log[c].gid = g
          /\ \A i \in DOMAIN log :
               log[i].gid = g /\ (Handled(m, i) \/ log[i].origin = m) => i <= c
          /\ g \notin lost[m] => log[c].status = "accepted"
    BY DEF FileInv, HoldsLastText
  <2>2. ASSUME NEW i \in DOMAIN log', log'[i].gid = g, Handled(m, i)' \/ log'[i].origin = m
        PROVE  i <= c
    <3>1. CASE i \in DOMAIN log
      BY <1>1, <2>1, <2>2, <3>1
    <3>2. CASE i \notin DOMAIN log
      <4>1. /\ log'[i].origin = m /\ outbox'[m][log'[i].cseq].status # "acked"
            /\ log'[i].cseq \in DOMAIN outbox'[m] /\ outbox'[m][log'[i].cseq].gid = g
            /\ outbox'[m][log'[i].cseq].kind \in {"file.create", "file.update"}
        BY <1>4, <2>2, <3>2
      <4>2. Unsent(m, g)'
        BY <4>1, Zenon DEF Unsent
      <4> QED BY <1>8, <4>2
    <3> QED BY <3>1, <3>2
  <2> QED BY <1>1, <1>5, <2>1, <2>2
<1>12. OwnTextsRead(m, g)'
  <2> DEFINE t == files[m][g]
  <2> SUFFICES ASSUME t # NoText, NEW i \in DOMAIN outbox'[m], outbox'[m][i].gid = g
               PROVE  <<m, i>> \in outbox'[t[1]][t[2]].saw \cup {t}
    BY DEF OwnTextsRead
  <2>1. i \in DOMAIN outbox[m] /\ outbox[m][i].gid = g
    BY <1>3
  <2>2. <<m, i>> \in outbox[t[1]][t[2]].saw \cup {t}
    BY <2>1 DEF FileInv, OwnTextsRead
  <2>3. t[1] \in Machines /\ t[2] \in DOMAIN outbox[t[1]]
    BY <1>3, TextHasRow DEF FileInv
  <2>4. outbox'[t[1]][t[2]].saw = outbox[t[1]][t[2]].saw
    BY <2>3, RowsKept
  <2> QED BY <2>2, <2>4
<1> QED BY <1>6, <1>7, <1>9, <1>10, <1>11, <1>12 DEF FileInv

(* Where nothing is written, acked or done with.                            *)
LEMMA RestingKeepsFiles ==
  ASSUME CalmStep, SameHandled, Rests, log' = log, FilesInv
  PROVE  FilesInv'
<1> SUFFICES ASSUME NEW m \in Machines, NEW g \in Gids
             PROVE  FileInv(m, g)'
  BY DEF FilesInv
<1>1. FileInv(m, g) /\ DOMAIN log = 1..Len(log)
  BY DEF FilesInv, CalmStep, CalmInv, IInv, TypeOK
<1>2. \A k \in DOMAIN log : Handled(m, k)' => Handled(m, k)
  BY <1>1 DEF SameHandled
<1>3. AddsForOthers(m)
  BY NothingAdded DEF CalmStep, CalmInv
<1>4. /\ files'[m][g] = files[m][g] /\ fork'[m][g] = fork[m][g]
      /\ g \in lost'[m] <=> g \in lost[m]
      /\ \A i \in DOMAIN outbox'[m] : outbox'[m][i].gid = g =>
           /\ i \in DOMAIN outbox[m]
           /\ outbox'[m][i].status = "acked" <=> outbox[m][i].status = "acked"
  BY DEF Rests, RowsStay
<1> QED BY <1>1, <1>2, <1>3, <1>4, FileStays

(* Where a request is served.                                               *)
LEMMA ServingKeepsFiles ==
  ASSUME CalmStep, SameHandled, Rests, NEW l \in Loops, NEW ops, ServesOps(l, ops), FilesInv
  PROVE  FilesInv'
<1> SUFFICES ASSUME NEW m \in Machines, NEW g \in Gids
             PROVE  FileInv(m, g)'
  BY DEF FilesInv
<1>1. FileInv(m, g) /\ DOMAIN log = 1..Len(log) /\ Len(log) \in Nat /\ IInv
      /\ DOMAIN log' = 1..Len(log') /\ Len(log') \in Nat
  BY DEF FilesInv, CalmStep, CalmInv, IInv, TypeOK
<1>2. \A k \in DOMAIN log : Handled(m, k)' => Handled(m, k)
  BY <1>1 DEF SameHandled
<1>3. ASSUME NEW k \in DOMAIN log', k \notin DOMAIN log
      PROVE  /\ ~Handled(m, k)'
             /\ log'[k].origin = m => outbox'[m][log'[k].cseq].status # "acked"
  <2>1. k \in Nat /\ k \in Int /\ Len(log) < k /\ k \in (Len(log) + 1)..Len(log')
    BY <1>1, <1>3
  <2>2. ~Handled(m, k)
    BY <1>1, <2>1, HandledInLog
  <2>3. ~Handled(m, k)'
    BY <2>1, <2>2 DEF SameHandled
  <2>4. ASSUME log'[k].origin = m
        PROVE  outbox'[m][log'[k].cseq].status # "acked"
    <3>1. PICK n \in DOMAIN ops : k = Len(log) + n
      BY <2>1 DEF ServesOps
    <3>2. PICK id, h, x : id = ops[n].cseq /\ h = ops[n].gid /\ x = Host[l]
      OBVIOUS
    <3>3. log'[k].cseq = id /\ id \in DOMAIN outbox[m] /\ FindByClientSeq(log, m, id) = {}
      <4>1. log'[k].origin = x /\ log'[k].cseq = ops[n].cseq
        BY <3>1, <3>2, ServedOp
      <4>2. ops[n].cseq \in DOMAIN outbox[x]
        BY <3>1, <3>2, ServedOp
      <4>3. FindByClientSeq(log, x, ops[n].cseq) = {}
        BY <3>1, <3>2, ServedOp
      <4> QED BY <2>4, <3>2, <4>1, <4>2, <4>3
    <3>4. outbox[m][id].status # "acked"
      BY <1>1, <3>3 DEF IInv, AckedMeansLogged, IdsIn
    <3> QED BY <3>3, <3>4 DEF Rests, RowsStay
  <2> QED BY <2>3, <2>4
<1>4. AddsForOthers(m) \/ \A k \in DOMAIN log : log[k].origin = m => Handled(m, k)
  <2>1. CASE m = Host[l]
    <3>1. CaughtUp(m, cursor[m])
      BY <2>1 DEF CalmStep, CalmInv, PlacesInv, PlaceInv, ServesOps
    <3> QED BY <3>1 DEF CaughtUp, Handled
  <2>2. CASE m # Host[l]
    BY <2>2 DEF ServesOps
  <2> QED BY <2>1, <2>2
<1>5. /\ files'[m][g] = files[m][g] /\ fork'[m][g] = fork[m][g]
      /\ g \in lost'[m] <=> g \in lost[m]
      /\ \A i \in DOMAIN outbox'[m] : outbox'[m][i].gid = g =>
           /\ i \in DOMAIN outbox[m]
           /\ outbox'[m][i].status = "acked" <=> outbox[m][i].status = "acked"
  BY DEF Rests, RowsStay
<1> QED BY <1>1, <1>2, <1>3, <1>4, <1>5, FileStays

(* The user writes a file: no other changes...                              *)
LEMMA WritingKeepsOthers ==
  ASSUME CalmStep, SameHandled, FilesInv, NEW x \in Machines, NEW h \in Gids, NEW n,
         WroteRow(x, h, n), WroteFile(x, h, n), NEW m \in Machines, NEW g \in Gids,
         m # x \/ g # h
  PROVE  FileInv(m, g)'
<1>1. FileInv(m, g) /\ DOMAIN log = 1..Len(log)
  BY DEF FilesInv, CalmStep, CalmInv, IInv, TypeOK
<1>2. /\ DOMAIN outbox[x] = 1..(n - 1) /\ DOMAIN outbox'[x] = 1..n /\ n \in Nat
      /\ \A i \in DOMAIN outbox[x] : outbox'[x][i] = outbox[x][i]
      /\ outbox'[x][n].gid = h /\ log' = log
      /\ \A y \in Machines \ {x} : outbox'[y] = outbox[y]
  BY DEF WroteRow
<1>3. \A k \in DOMAIN log : Handled(m, k)' => Handled(m, k)
  BY <1>1 DEF SameHandled
<1>4. AddsForOthers(m)
  BY <1>2, NothingAdded DEF CalmStep, CalmInv
<1>5. /\ files'[m][g] = files[m][g] /\ fork'[m][g] = fork[m][g]
      /\ g \in lost'[m] <=> g \in lost[m]
  BY DEF WroteFile
<1>6. ASSUME NEW i \in DOMAIN outbox'[m], outbox'[m][i].gid = g
      PROVE  i \in DOMAIN outbox[m] /\ outbox'[m][i] = outbox[m][i]
  <2>1. CASE m = x
    <3>1. i # n
      BY <1>2, <1>6, <2>1
    <3> QED BY <1>2, <2>1, <3>1
  <2>2. CASE m # x
    BY <1>2, <2>2
  <2> QED BY <2>1, <2>2
<1> QED BY <1>1, <1>2, <1>3, <1>4, <1>5, <1>6, FileStays

(* ... and that one has the text of the row to send.                        *)
LEMMA WritingKeepsFile ==
  ASSUME CalmStep, SameHandled, FilesInv, NEW m \in Machines, NEW g \in Gids, NEW n,
         WroteRow(m, g, n), WroteFile(m, g, n)
  PROVE  FileInv(m, g)'
<1>1. /\ DOMAIN outbox[m] = 1..(n - 1) /\ DOMAIN outbox'[m] = 1..n /\ n \in Nat
      /\ outbox'[m][n].gid = g /\ outbox'[m][n].text = <<m, n>> /\ <<m, n>> \in Texts
      /\ outbox'[m][n].kind \in {"file.create", "file.update"}
      /\ outbox'[m][n].status = "pending"
      /\ FindByClientSeq(log, m, n) = {} /\ log' = log
  BY DEF WroteRow
<1>2. n \in DOMAIN outbox'[m] /\ n \in 1..n /\ <<m, n>> # NoText
  <2>1. n # 0
    BY <1>1 DEF Texts
  <2> QED BY <1>1, <2>1, TokensAssumption
<1>3. files'[m][g] = <<m, n>>
  BY DEF WroteFile, FilesInv, FileInv, NoFile
<1>4. Unsent(m, g)'
  BY <1>1, <1>2 DEF Unsent
<1>5. NoFile(m, g)' /\ FromSomewhere(m, g)' /\ HoldsLastText(m, g)'
  BY <1>2, <1>3, <1>4 DEF NoFile, FromSomewhere, HoldsLastText
<1>6. HoldsOwnText(m, g)'
  BY <1>1, <1>2, <1>3 DEF HoldsOwnText
<1>7. LosersKept(m, g)'
  BY <1>1, <1>2 DEF LosersKept
<1>8. OwnTextsRead(m, g)'
  <2>1. ASSUME NEW i \in DOMAIN outbox'[m]
        PROVE  <<m, i>> \in outbox'[m][n].saw \cup {<<m, n>>}
    <3>1. i = n \/ i \in 1..(n - 1)
      BY <1>1
    <3>2. \A j \in 1..(n - 1) : <<m, j>> \in outbox'[m][n].saw
      BY <1>2 DEF CalmStep, CalmInv, TextsInv
    <3> QED BY <3>1, <3>2
  <2> QED BY <1>3, <2>1 DEF OwnTextsRead
<1> QED BY <1>5, <1>6, <1>7, <1>8 DEF FileInv

(* A machine takes an answer in: no file but that of the op changes...      *)
LEMMA AckingKeepsOthers ==
  ASSUME CalmStep, SameHandled, FilesInv, NEW l \in Loops, NEW p \in 0..Len(log),
         NEW h \in Gids, NEW a \in Answer, NEW rest, TakesAnswer(l, p, h, a, rest),
         NEW m \in Machines, NEW g \in Gids, m # Host[l] \/ g # h
  PROVE  FileInv(m, g)'
<1>1. FileInv(m, g) /\ DOMAIN log = 1..Len(log) /\ lost \in [Machines -> SUBSET Gids]
  BY DEF FilesInv, CalmStep, CalmInv, IInv, TypeOK
<1>2. PICK x \in Machines : x = Host[l]
  BY LoopsAssumption
<1>3. /\ a.cseq \in DOMAIN outbox[x] /\ outbox[x][a.cseq].gid = h
      /\ DOMAIN outbox'[x] = DOMAIN outbox[x]
      /\ \A i \in DOMAIN outbox[x] :
           /\ outbox'[x][i].gid = outbox[x][i].gid
           /\ outbox'[x][i].status = IF i = a.cseq THEN "acked" ELSE outbox[x][i].status
      /\ \A y \in Machines \ {x} : outbox'[y] = outbox[y]
      /\ MarkAnswered(x, a) /\ UNCHANGED <<log, files, fork>>
  BY <1>2 DEF TakesAnswer
<1>4. \A k \in DOMAIN log : Handled(m, k)' => Handled(m, k)
  BY <1>1 DEF SameHandled
<1>5. AddsForOthers(m)
  BY <1>3, NothingAdded DEF CalmStep, CalmInv
<1>6. g \in lost'[m] <=> g \in lost[m]
  BY <1>1, <1>2, <1>3 DEF MarkAnswered
<1>7. ASSUME NEW i \in DOMAIN outbox'[m], outbox'[m][i].gid = g
      PROVE  i \in DOMAIN outbox[m] /\ outbox'[m][i].status = outbox[m][i].status
  <2>1. CASE m = x
    BY <1>2, <1>3, <1>7, <2>1
  <2>2. CASE m # x
    BY <1>3, <2>2
  <2> QED BY <2>1, <2>2
<1> QED BY <1>1, <1>3, <1>4, <1>5, <1>6, <1>7, FileStays

(* A loop is done with an op: no file but the op's changes, nor that if the *)
(* op is the machine's own.                                                 *)
LEMMA PassingKeepsOthers ==
  ASSUME CalmStep, FilesInv, NEW l \in Loops, NEW k, PassesOp(l, k), PassesFile(l, k),
         NEW m \in Machines, NEW g \in Gids,
         m # Host[l] \/ g # log[k].gid \/ log[k].origin = m
  PROVE  FileInv(m, g)'
<1>1. FileInv(m, g) /\ DOMAIN log = 1..Len(log) /\ IInv /\ OneLoopEach /\ PlacesInv
  BY DEF FilesInv, CalmStep, CalmInv, IInv, TypeOK, Orderly
<1>2. log' = log /\ outbox' = outbox
  BY DEF PassesOp
<1>3. ASSUME NEW j \in DOMAIN log, log[j].gid = g, Handled(m, j)'
      PROVE  Handled(m, j) \/ log[j].origin = m
  <2>1. j \in Int
    BY <1>1
  <2>2. Handled(m, j) \/ (m = Host[l] /\ j = k)
    BY <1>1, <1>3, <2>1, HandlesOne
  <2> QED BY <1>3, <2>2
<1>4. AddsForOthers(m)
  BY <1>1, <1>2, NothingAdded
<1>5. /\ files'[m][g] = files[m][g] /\ fork'[m][g] = fork[m][g]
      /\ g \in lost'[m] <=> g \in lost[m]
  <2>1. CASE m # Host[l] \/ g # log[k].gid
    BY <2>1 DEF PassesFile
  <2>2. CASE m = Host[l] /\ g = log[k].gid
    BY <2>2 DEF PassesFile
  <2> QED BY <2>1, <2>2
<1> QED BY <1>1, <1>2, <1>3, <1>4, <1>5, FileStays

(* Where every row of a file is acked, the log has the last of them, after  *)
(* what the machine has pulled and pushed of the file.                      *)
LEMMA LastRowLogged ==
  ASSUME CalmInv, NEW m \in Machines, NEW g \in Gids, NEW i \in DOMAIN outbox[m],
         outbox[m][i].gid = g, \A j \in DOMAIN outbox[m] : outbox[m][j].gid = g => j <= i,
         FindByClientSeq(log, m, i) # {},
         NEW k \in DOMAIN log, log[k].origin = m, log[k].gid = g,
         \A j \in DOMAIN log : Handled(m, j) => j < k
  PROVE  \E c \in DOMAIN log :
           /\ Text(c) = <<m, i>> /\ log[c].gid = g /\ log[c].origin = m /\ log[c].cseq = i
           /\ ~Handled(m, c)
           /\ \A j \in DOMAIN log :
                log[j].gid = g /\ (Handled(m, j) \/ log[j].origin = m) => j <= c
<1>1. PICK c \in DOMAIN log : log[c].origin = m /\ log[c].cseq = i
  BY DEF FindByClientSeq
<1>2. /\ DOMAIN log = 1..Len(log) /\ Len(log) \in Nat /\ outbox[m] \in Seq(Row)
      /\ OwnOrder /\ OpsHaveRows
  BY LoggedInOrder DEF CalmInv, IInv, TypeOK
<1>3. HasRow(outbox, log[c]) /\ log[c].gid = g
  BY <1>1, <1>2 DEF OpsHaveRows, HasRow
<1>4. ASSUME NEW j \in DOMAIN log, log[j].gid = g, log[j].origin = m
      PROVE  j <= c
  <2>1. log[j].cseq \in DOMAIN outbox[m] /\ outbox[m][log[j].cseq].gid = g
    BY <1>2, <1>4 DEF OpsHaveRows, HasRow
  <2>2. log[j].cseq <= i
    BY <2>1
  <2>3. c < j => log[c].cseq < log[j].cseq
    BY <1>1, <1>2, <1>3, <1>4 DEF OwnOrder
  <2>4. log[j].cseq \in Int /\ i \in Int
    BY <1>2, <2>1
  <2> QED BY <1>1, <1>2, <2>2, <2>3, <2>4
<1>5. k <= c
  BY <1>4
<1>6. \A j \in DOMAIN log : Handled(m, j) => j < c
  BY <1>2, <1>5
<1>7. ~Handled(m, c)
  BY <1>2, <1>6
<1>8. \A j \in DOMAIN log : Handled(m, j) => j <= c
  BY <1>2, <1>6
<1> QED BY <1>1, <1>3, <1>4, <1>7, <1>8 DEF Text

(* ... and of that file, one row more is acked.                             *)
LEMMA AckingKeepsFile ==
  ASSUME CalmStep, SameHandled, FilesInv, NEW l \in Loops, NEW p \in 0..Len(log),
         NEW g \in Gids, NEW a \in Answer, NEW rest, TakesAnswer(l, p, g, a, rest),
         NEW m \in Machines, m = Host[l]
  PROVE  FileInv(m, g)'
<1>1. /\ FileInv(m, g) /\ DOMAIN log = 1..Len(log) /\ Len(log) \in Nat
      /\ lost \in [Machines -> SUBSET Gids]
      /\ CalmInv /\ CalmInv' /\ IInv /\ IInv' /\ OneLoopEach
  <2>1. CalmInv /\ CalmInv' /\ IInv /\ IInv' /\ OneLoopEach
    BY DEF CalmStep, CalmInv, Orderly
  <2>2. DOMAIN log = 1..Len(log) /\ Len(log) \in Nat /\ lost \in [Machines -> SUBSET Gids]
    BY <2>1 DEF IInv, TypeOK
  <2> QED BY <2>1, <2>2 DEF FilesInv
<1>2. PICK k \in DOMAIN log : k = p + 1
  BY <1>1 DEF TakesAnswer
<1>3. /\ a.cseq \in DOMAIN outbox[m] /\ outbox[m][a.cseq].gid = g
      /\ log[k].origin = m /\ log[k].gid = g /\ log[k].cseq = a.cseq
      /\ log[k].status = a.status
      /\ DOMAIN outbox'[m] = DOMAIN outbox[m]
      /\ \A i \in DOMAIN outbox[m] :
           /\ outbox'[m][i].gid = outbox[m][i].gid /\ outbox'[m][i].kind = outbox[m][i].kind
           /\ outbox'[m][i].saw = outbox[m][i].saw
           /\ outbox'[m][i].status = IF i = a.cseq THEN "acked" ELSE outbox[m][i].status
      /\ \A y \in Machines \ {m} : outbox'[y] = outbox[y]
      /\ MarkAnswered(m, a) /\ UNCHANGED <<log, files, fork>>
  BY <1>2 DEF TakesAnswer, Tells
<1>4. \A i \in DOMAIN outbox[m] : outbox[m][i].kind \in {"file.create", "file.update"}
  <2> SUFFICES ASSUME NEW i \in DOMAIN outbox[m]
               PROVE  outbox[m][i].kind \in {"file.create", "file.update"}
    OBVIOUS
  <2>1. outbox[m] \in Seq(Row)
    BY <1>1 DEF IInv, TypeOK
  <2>2. outbox[m][i] \in Row
    BY <2>1
  <2> QED BY <1>1, <2>2 DEF Row, PushKinds, CalmInv, TextsInv
<1>5. g \in lost'[m] <=> g \in lost[m] \/ a.status = "conflict"
  BY <1>1, <1>3, <1>4 DEF MarkAnswered
<1>6. \A j \in DOMAIN log : Handled(m, j)' <=> Handled(m, j)
  BY <1>1 DEF SameHandled
<1>7. \A j \in DOMAIN log : Handled(m, j) => j < k
  <2>1. loop[l].pc = "answered" /\ loop[l].answers[1] = a /\ 1 \in DOMAIN loop[l].answers
    <3>1. DOMAIN loop[l].answers = 1..(Len(rest) + 1) /\ Len(rest) \in Nat
      BY <1>1, <1>2 DEF TakesAnswer
    <3> QED BY <3>1 DEF TakesAnswer
  <2>2. cursor[m] < k
    <3>1. k \in FindByClientSeq(log, m, a.cseq)
      BY <1>3 DEF FindByClientSeq
    <3> QED BY <1>1, <2>1, <3>1 DEF CalmInv, PlacesInv, PlaceInv
  <2>3. \A j \in DOMAIN log : Handled(m, j) => j <= cursor[m]
    BY <1>1, <2>1 DEF Handled, OneLoopEach
  <2>4. cursor[m] \in Nat
    BY <1>1 DEF IInv, TypeOK
  <2> QED BY <1>1, <2>2, <2>3, <2>4
<1>8. \A i \in DOMAIN outbox[m] : FindByClientSeq(log, m, i) = {} => outbox'[m][i].status # "acked"
  BY <1>1, <1>3 DEF IInv, AckedMeansLogged, IdsIn
<1>9. Unsent(m, g)' => Unsent(m, g)
  BY <1>3 DEF Unsent
<1>10. files[m][g] # NoText
  BY <1>1, <1>3 DEF FileInv, NoFile
<1>11. NoFile(m, g)'
  BY <1>3, <1>10 DEF NoFile
<1>12. FromSomewhere(m, g)'
  BY <1>1, <1>3, <1>6 DEF FileInv, FromSomewhere, Text
<1>13. HoldsOwnText(m, g)'
  BY <1>1, <1>3, <1>9 DEF FileInv, HoldsOwnText
<1>14. LosersKept(m, g)'
  <2> SUFFICES ASSUME NEW j \in DOMAIN log, log[j].gid = g, log[j].origin = m,
                      log[j].status = "conflict", ~Handled(m, j),
                      outbox'[m][log[j].cseq].status = "acked", g \notin lost'[m],
                      fork[m][g] = NoFork
               PROVE  \E i \in DOMAIN outbox[m] :
                        outbox[m][i].gid = g /\ FindByClientSeq(log, m, i) = {}
    BY <1>3, <1>6 DEF LosersKept
  <2>1. j # k
    BY <1>3, <1>5
  <2>2. log[j].cseq # a.cseq
    BY <1>1, <1>3, <2>1, OpsApart DEF Text
  <2>3. log[j].cseq \in DOMAIN outbox[m]
    BY <1>1 DEF IInv, OpsHaveRows, HasRow
  <2>4. outbox[m][log[j].cseq].status = "acked"
    BY <1>3, <2>2, <2>3
  <2> QED BY <1>1, <1>5, <2>4 DEF FileInv, LosersKept
<1>15. HoldsLastText(m, g)'
  <2> SUFFICES ASSUME ~Unsent(m, g)', fork[m][g] = NoFork
               PROVE  \E c \in DOMAIN log :
                        /\ Text(c) = files[m][g] /\ log[c].gid = g
                        /\ \A i \in DOMAIN log :
                             log[i].gid = g /\ (Handled(m, i) \/ log[i].origin = m) => i <= c
                        /\ g \notin lost'[m] => log[c].status = "accepted"
    BY <1>3, <1>6 DEF HoldsLastText, Text
  <2>1. CASE ~Unsent(m, g)
    BY <1>1, <1>5, <1>10, <2>1 DEF FileInv, HoldsLastText
  <2>2. CASE Unsent(m, g)
    <3>1. PICK i \in DOMAIN outbox[m] :
            /\ files[m][g] = <<m, i>> /\ outbox[m][i].gid = g
            /\ \A j \in DOMAIN outbox[m] : outbox[m][j].gid = g => j <= i
      BY <1>1, <2>2 DEF FileInv, HoldsOwnText
    <3>2. \A j \in DOMAIN outbox[m] : outbox[m][j].gid = g => outbox'[m][j].status = "acked"
      BY <1>3, <1>4 DEF Unsent
    <3>3. FindByClientSeq(log, m, i) # {}
      BY <1>8, <3>1, <3>2
    <3>4. PICK c \in DOMAIN log :
            /\ Text(c) = <<m, i>> /\ log[c].gid = g /\ log[c].origin = m /\ log[c].cseq = i
            /\ ~Handled(m, c)
            /\ \A j \in DOMAIN log :
                 log[j].gid = g /\ (Handled(m, j) \/ log[j].origin = m) => j <= c
      BY <1>1, <1>3, <1>7, <3>1, <3>3, LastRowLogged
    <3>5. ASSUME g \notin lost'[m]
          PROVE  log[c].status = "accepted"
      <4>1. log[c].status \in {"accepted", "conflict"}
        <5>1. log \in Seq(LogEntry(Gids, Machines))
          BY <1>1 DEF IInv, TypeOK
        <5>2. log[c] \in LogEntry(Gids, Machines)
          BY <5>1
        <5> QED BY <5>2 DEF LogEntry
      <4>2. ASSUME log[c].status = "conflict"
            PROVE  FALSE
        <5>1. \E j \in DOMAIN outbox[m] : outbox[m][j].gid = g /\ FindByClientSeq(log, m, j) = {}
          BY <1>3, <1>6, <1>14, <3>1, <3>2, <3>4, <3>5, <4>2 DEF LosersKept
        <5> QED BY <1>8, <3>2, <5>1
      <4> QED BY <4>1, <4>2
    <3> QED BY <3>1, <3>4, <3>5
  <2> QED BY <2>1, <2>2
<1>16. OwnTextsRead(m, g)'
  <2> SUFFICES ASSUME NEW i \in DOMAIN outbox[m], outbox[m][i].gid = g
               PROVE  LET t == files[m][g] IN <<m, i>> \in outbox'[t[1]][t[2]].saw \cup {t}
    BY <1>3 DEF OwnTextsRead
  <2>1. PICK t : t = files[m][g]
    OBVIOUS
  <2>2. t[1] \in Machines /\ t[2] \in DOMAIN outbox[t[1]]
    BY <1>1, <1>10, <2>1, TextHasRow DEF FileInv
  <2>3. outbox'[t[1]][t[2]].saw = outbox[t[1]][t[2]].saw
    BY <2>2, RowsKept, Zenon
  <2>4. <<m, i>> \in outbox[t[1]][t[2]].saw \cup {t}
    BY <1>1, <1>10, <2>1 DEF FileInv, OwnTextsRead
  <2> QED BY <2>1, <2>3, <2>4
<1> QED BY <1>11, <1>12, <1>13, <1>14, <1>15, <1>16 DEF FileInv

(* What another's op is applied over: the text of an earlier op, the last   *)
(* of the file that the machine has had, which the op's author had too.     *)
LEMMA AppliedOver ==
  ASSUME CalmInv, OneLoopEach, SightInv, NEW l \in Loops, NEW m \in Machines, m = Host[l],
         NEW k, PassesOp(l, k), NEW g \in Gids, g = log[k].gid, log[k].origin # m,
         FileInv(m, g), ~ShouldFork(m, k), files[m][g] # NoText
  PROVE  /\ log[k].status = "accepted" /\ ~Unsent(m, g) /\ g \notin lost[m]
         /\ fork[m][g] = NoFork /\ files[m][g] \in RowOf(k).saw
         /\ \A i \in DOMAIN log :
              log[i].gid = g /\ (Handled(m, i) \/ log[i].origin = m) => i < k
<1>1. /\ k \in DOMAIN log /\ DOMAIN log = 1..Len(log) /\ Len(log) \in Nat
      /\ IInv /\ TextsInv /\ PlacesInv /\ log \in Seq(LogEntry(Gids, Machines))
  BY DEF PassesOp, CalmInv, IInv, TypeOK
<1>2. /\ ~Handled(m, k) /\ \A j \in 1..(k - 1) : Handled(m, j)
      /\ \A j \in Int : Handled(m, j) => j < k
  BY <1>1, HandlesOne
<1>3. log[k].kind \in {"file.create", "file.update"} /\ RowOf(k).text = Text(k)
      /\ Closed(outbox, RowOf(k).saw)
  BY <1>1, RowOfText
<1>4. ASSUME NEW c \in DOMAIN log, Text(c) = files[m][g], log[c].origin # m
      PROVE  Handled(m, c)
  <2>1. files[m][g][1] # m
    BY <1>4 DEF Text
  <2>2. PICK j \in DOMAIN log : Handled(m, j) /\ Text(j) = files[m][g]
    BY <2>1 DEF FileInv, FromSomewhere
  <2> QED BY <1>4, <2>2, OpsApart
<1>5. files[m][g] # Text(k)
  BY <1>1, <1>2, <1>4
<1>6. log[k].status = "accepted" /\ ~Unsent(m, g) /\ g \notin lost[m] /\ fork[m][g] = NoFork
  <2>1. log[k].status \in {"accepted", "conflict"}
    <3>1. log[k] \in LogEntry(Gids, Machines)
      BY <1>1
    <3> QED BY <3>1 DEF LogEntry
  <2> QED BY <1>3, <1>5, <2>1 DEF ShouldFork
<1>7. PICK c \in DOMAIN log :
        /\ Text(c) = files[m][g] /\ log[c].gid = g /\ log[c].status = "accepted"
        /\ \A i \in DOMAIN log :
             log[i].gid = g /\ (Handled(m, i) \/ log[i].origin = m) => i <= c
  BY <1>6 DEF FileInv, HoldsLastText
<1>8. c < k
  <2>1. c # k
    BY <1>5, <1>7
  <2>2. ASSUME k < c
        PROVE  FALSE
    <3>1. ~Handled(m, c)
      BY <1>1, <1>2, <2>2
    <3>2. log[c].origin = m
      BY <1>4, <1>7, <3>1
    <3>3. k \in 1..(c - 1) /\ Accepted(log, log[c].gid, k)
      BY <1>1, <1>6, <1>7, <2>2 DEF Accepted
    <3>4. Handled(m, k)
      BY <1>7, <3>1, <3>2, <3>3 DEF SightInv, NoPassing
    <3> QED BY <1>2, <3>4
  <2> QED BY <1>1, <2>1, <2>2
<1>9. Text(c) \in RowOf(k).saw
  <2>1. \A i \in (c + 1)..(k - 1) : log[i].gid # g
    <3> SUFFICES ASSUME NEW i \in (c + 1)..(k - 1), log[i].gid = g
                 PROVE  FALSE
      OBVIOUS
    <3>1. i \in DOMAIN log /\ i \in 1..(k - 1) /\ c < i
      BY <1>1
    <3>2. i <= c
      BY <1>2, <1>7, <3>1
    <3> QED BY <1>1, <3>1, <3>2
  <2>2. c \in 1..(k - 1) /\ Accepted(log, log[k].gid, c)
    BY <1>1, <1>7, <1>8 DEF Accepted
  <2> QED BY <1>1, <1>6, <2>1, <2>2 DEF SightInv, SightedLog
<1>10. \A i \in DOMAIN log :
         log[i].gid = g /\ (Handled(m, i) \/ log[i].origin = m) => i < k
  BY <1>1, <1>7, <1>8
<1> QED BY <1>6, <1>7, <1>9, <1>10

(* The first op of a file that a machine gets was accepted.                 *)
LEMMA AppliedFirst ==
  ASSUME CalmInv, OneLoopEach, SightInv, NEW l \in Loops, NEW m \in Machines, m = Host[l],
         NEW k, PassesOp(l, k), NEW g \in Gids, g = log[k].gid, log[k].origin # m,
         FileInv(m, g), files[m][g] = NoText
  PROVE  /\ log[k].status = "accepted" /\ ~Unsent(m, g)
         /\ \A i \in DOMAIN outbox[m] : outbox[m][i].gid # g
         /\ \A i \in DOMAIN log : Handled(m, i) \/ log[i].origin = m => log[i].gid # g
<1>1. /\ k \in DOMAIN log /\ DOMAIN log = 1..Len(log) /\ Len(log) \in Nat
      /\ IInv /\ TextsInv /\ PlacesInv /\ log \in Seq(LogEntry(Gids, Machines))
  BY DEF PassesOp, CalmInv, IInv, TypeOK
<1>2. \A j \in 1..(k - 1) : Handled(m, j)
  BY <1>1, HandlesOne
<1>3. /\ \A i \in DOMAIN outbox[m] : outbox[m][i].gid # g
      /\ \A i \in DOMAIN log : Handled(m, i) => log[i].gid # g
  BY DEF FileInv, NoFile
<1>4. \A i \in DOMAIN log : log[i].origin = m => log[i].gid # g
  BY <1>1, <1>3 DEF IInv, OpsHaveRows, HasRow
<1>5. log[k].status = "accepted"
  <2>1. log[k].status \in {"accepted", "conflict"}
    <3>1. log[k] \in LogEntry(Gids, Machines)
      BY <1>1
    <3> QED BY <3>1 DEF LogEntry
  <2>2. ASSUME log[k].status = "conflict"
        PROVE  FALSE
    <3>1. PICK j \in 1..(k - 1) : Accepted(log, g, j)
      BY <1>1, <2>2 DEF SightInv, FirstAccepted
    <3>2. j \in DOMAIN log
      BY <1>1
    <3> QED BY <1>2, <1>3, <3>1, <3>2 DEF Accepted
  <2> QED BY <2>1, <2>2
<1>6. ~Unsent(m, g)
  BY <1>3 DEF Unsent
<1> QED BY <1>3, <1>4, <1>5, <1>6

(* The file of the op that a loop is done with.                             *)
LEMMA PassingKeepsFile ==
  ASSUME CalmStep, SightInv, FilesInv, NEW l \in Loops, NEW m \in Machines, m = Host[l],
         NEW k, PassesOp(l, k), PassesFile(l, k),
         NEW g \in Gids, g = log[k].gid, log[k].origin # m
  PROVE  FileInv(m, g)'
<1>1. /\ CalmInv /\ IInv /\ TextsInv /\ PlacesInv /\ OneLoopEach /\ FileInv(m, g)
      /\ log' = log /\ outbox' = outbox /\ k \in DOMAIN log
  BY DEF FilesInv, CalmStep, CalmInv, Orderly, PassesOp
<1>2. DOMAIN log = 1..Len(log) /\ Len(log) \in Nat
  BY <1>1 DEF IInv, TypeOK
<1>3. \A i \in DOMAIN log : Handled(m, i)' <=> Handled(m, i) \/ i = k
  BY <1>1, <1>2, HandlesOne
<1>4. Unsent(m, g)' <=> Unsent(m, g)
  BY <1>1 DEF Unsent
<1>5. CASE files'[m][g] = files[m][g] /\ files[m][g] # NoText /\ fork'[m][g] # NoFork
  <2>1. NoFile(m, g)' /\ LosersKept(m, g)' /\ HoldsLastText(m, g)'
    BY <1>5 DEF NoFile, LosersKept, HoldsLastText
  <2>2. FromSomewhere(m, g)'
    BY <1>1, <1>3, <1>5 DEF FileInv, FromSomewhere, Text
  <2>3. HoldsOwnText(m, g)'
    BY <1>1, <1>4, <1>5, Zenon DEF FileInv, HoldsOwnText
  <2>4. OwnTextsRead(m, g)'
    BY <1>1, <1>5 DEF FileInv, OwnTextsRead
  <2> QED BY <2>1, <2>2, <2>3, <2>4 DEF FileInv
<1>6. CASE files'[m][g] = Text(k) /\ fork'[m][g] = fork[m][g] /\ ~ShouldFork(m, k)
           /\ g \notin lost'[m]
  <2>1. Text(k) # NoText /\ Closed(outbox, RowOf(k).saw)
    BY <1>1, RowOfText
  <2>2. /\ log[k].status = "accepted" /\ ~Unsent(m, g)
        /\ \A i \in DOMAIN log :
             log[i].gid = g /\ (Handled(m, i) \/ log[i].origin = m) => i < k
    BY <1>1, <1>6, AppliedFirst, AppliedOver
  <2>3. NoFile(m, g)'
    BY <1>6, <2>1 DEF NoFile
  <2>4. FromSomewhere(m, g)'
    BY <1>1, <1>3, <1>6 DEF FromSomewhere, Text
  <2>5. HoldsOwnText(m, g)'
    BY <1>4, <2>2 DEF HoldsOwnText
  <2>6. LosersKept(m, g)'
    <3> SUFFICES ASSUME NEW j \in DOMAIN log, log[j].gid = g, log[j].origin = m,
                        log[j].status = "conflict", ~Handled(m, j),
                        outbox[m][log[j].cseq].status = "acked"
                 PROVE  \E i \in DOMAIN outbox[m] :
                          outbox[m][i].gid = g /\ FindByClientSeq(log, m, i) = {}
      BY <1>1, <1>3 DEF LosersKept
    <3>1. files[m][g] # NoText
      BY <1>1, AppliedFirst
    <3>2. g \notin lost[m] /\ fork[m][g] = NoFork
      BY <1>1, <1>6, <3>1, AppliedOver
    <3> QED BY <1>1, <3>2 DEF FileInv, LosersKept
  <2>7. HoldsLastText(m, g)'
    <3>1. \A i \in DOMAIN log :
            log[i].gid = g /\ (Handled(m, i)' \/ log[i].origin = m) => i <= k
      <4> SUFFICES ASSUME NEW i \in DOMAIN log, log[i].gid = g,
                          Handled(m, i)' \/ log[i].origin = m
                   PROVE  i <= k
        OBVIOUS
      <4>1. i = k \/ Handled(m, i) \/ log[i].origin = m
        BY <1>3
      <4>2. i = k \/ i < k
        BY <2>2, <4>1
      <4>3. i \in Int /\ k \in Int
        BY <1>1, <1>2
      <4> QED BY <4>2, <4>3
    <3> QED BY <1>1, <1>6, <2>2, <3>1 DEF HoldsLastText, Text
  <2>8. OwnTextsRead(m, g)'
    <3> SUFFICES ASSUME NEW i \in DOMAIN outbox[m], outbox[m][i].gid = g
                 PROVE  <<m, i>> \in RowOf(k).saw
      BY <1>1, <1>6 DEF OwnTextsRead, Text, RowOf
    <3>1. files[m][g] # NoText
      BY <1>1, AppliedFirst
    <3>2. PICK t : t = files[m][g]
      OBVIOUS
    <3>3. t \in RowOf(k).saw
      BY <1>1, <1>6, <3>1, <3>2, AppliedOver
    <3>4. outbox[t[1]][t[2]].saw \subseteq RowOf(k).saw
      BY <2>1, <3>3, Zenon DEF Closed
    <3>5. <<m, i>> \in outbox[t[1]][t[2]].saw \cup {t}
      BY <1>1, <3>1, <3>2 DEF FileInv, OwnTextsRead
    <3> QED BY <3>3, <3>4, <3>5
  <2> QED BY <2>3, <2>4, <2>5, <2>6, <2>7, <2>8 DEF FileInv
<1>7. ShouldFork(m, k) => files[m][g] # NoText
  BY DEF ShouldFork
<1> QED BY <1>5, <1>6, <1>7 DEF PassesFile

LEMMA StepFilesInv ==
  ASSUME CalmStep, SightInv, FilesInv
  PROVE  FilesInv'
<1>1. ASSUME SameHandled, NEW x \in Machines, NEW h \in Gids, NEW n,
             WroteRow(x, h, n), WroteFile(x, h, n)
      PROVE  FilesInv'
  BY <1>1, WritingKeepsFile, WritingKeepsOthers DEF FilesInv
<1>2. ASSUME SameHandled, NEW l \in Loops, NEW p \in 0..Len(log), NEW g \in Gids,
             NEW a \in Answer, NEW rest, TakesAnswer(l, p, g, a, rest)
      PROVE  FilesInv'
  BY <1>2, AckingKeepsFile, AckingKeepsOthers DEF FilesInv
<1>3. ASSUME NEW l \in Loops, NEW k, PassesOp(l, k), PassesFile(l, k)
      PROVE  FilesInv'
  BY <1>3, PassingKeepsFile, PassingKeepsOthers DEF FilesInv
<1> QED BY <1>1, <1>2, <1>3, RestingKeepsFiles, ServingKeepsFiles, CalmSteps

LEMMA InitFilesInv == Init => FilesInv
<1> SUFFICES ASSUME Init, NEW m \in Machines, NEW g \in Gids
             PROVE  FileInv(m, g)
  BY DEF FilesInv
<1>1. /\ DOMAIN log = {} /\ DOMAIN outbox[m] = {} /\ lost[m] = {}
      /\ files[m][g] = NoText /\ fork[m][g] = NoFork
  BY Nothing
<1> QED BY <1>1 DEF FileInv, NoFile, FromSomewhere, HoldsOwnText, Unsent, LosersKept,
                    HoldsLastText, OwnTextsRead

-----------------------------------------------------------------------------
(* The theorems, from all of these.                                         *)

\* All that was proved of machines that hear of their rows, whose users write texts
\* of their own, one step at a time.
OrderlyInv == CalmInv /\ SightInv /\ FilesInv

LEMMA InitOrderlyInv == Init => OrderlyInv
BY InitCalmInv, InitSightInv, InitFilesInv DEF OrderlyInv

LEMMA StepOrderlyInv ==
  ASSUME Orderly, OrderlyInv, [Next]_vars
  PROVE  OrderlyInv'
<1>1. CASE Next
  <2>1. CalmStep
    BY <1>1, StepCalmInv DEF OrderlyInv
  <2> QED BY <2>1, StepSightInv, StepFilesInv DEF OrderlyInv, CalmStep
<1>2. CASE UNCHANGED vars
  <2>1. CalmInv'
    BY <1>2, StillCalm DEF OrderlyInv
  <2>2. UNCHANGED <<log, files, outbox, known, lost, fork, cursor, skipped, loop, net, seen>>
    BY <1>2 DEF vars, machineVars
  <2>3. \A x \in Machines : \A k : Handled(x, k)' <=> Handled(x, k)
    BY <2>2 DEF Handled
  <2>4. SightInv'
    <3>1. FirstAccepted' /\ KnownSeen' /\ SightedLog'
      BY <2>2 DEF OrderlyInv, SightInv, FirstAccepted, KnownSeen, KnowsFrom, SightedLog,
                  Text, RowOf
    <3>2. NoPassing'
      BY <2>2 DEF OrderlyInv, SightInv, NoPassing, Handled
    <3> QED BY <3>1, <3>2 DEF SightInv
  <2>5. FilesInv'
    <3>1. ASSUME NEW m \in Machines, NEW g \in Gids
          PROVE  /\ NoFile(m, g)' <=> NoFile(m, g)
                 /\ FromSomewhere(m, g)' <=> FromSomewhere(m, g)
                 /\ LosersKept(m, g)' <=> LosersKept(m, g)
      BY <2>2 DEF NoFile, FromSomewhere, LosersKept, Handled, Text
    <3>2. ASSUME NEW m \in Machines, NEW g \in Gids
          PROVE  /\ HoldsOwnText(m, g)' <=> HoldsOwnText(m, g)
                 /\ HoldsLastText(m, g)' <=> HoldsLastText(m, g)
                 /\ OwnTextsRead(m, g)' <=> OwnTextsRead(m, g)
      BY <2>2 DEF HoldsOwnText, HoldsLastText, OwnTextsRead, Unsent, Handled, Text
    <3> QED BY <3>1, <3>2 DEF OrderlyInv, FilesInv, FileInv
  <2> QED BY <2>1, <2>4, <2>5 DEF OrderlyInv
<1> QED BY <1>1, <1>2

LEMMA SpecOrderlyInv == ASSUME Orderly PROVE Spec => []OrderlyInv
BY InitOrderlyInv, StepOrderlyInv, PTL DEF Spec

\* What OverwritesOnlySeen says of a step.
OverwritesSeen ==
  \A m \in Machines, g \in Gids :
    /\ files'[m][g] # files[m][g]
    /\ files[m][g] # NoText
    /\ outbox'[m] = outbox[m]
    => \E l \in Loops : /\ Host[l] = m /\ loop[l].pc = "applying"
                         /\ files[m][g] \in RowOf(loop[l].at).saw

(* A file's text changes only by its machine's user, or by an op applied.   *)
LEMMA OverwritesOrderly ==
  ASSUME Orderly, OrderlyInv, [Next]_vars, NEW m \in Machines, NEW g \in Gids,
         files'[m][g] # files[m][g], files[m][g] # NoText, outbox'[m] = outbox[m]
  PROVE  \E l \in Loops : /\ Host[l] = m /\ loop[l].pc = "applying"
                          /\ files[m][g] \in RowOf(loop[l].at).saw
<1>1. CalmStep /\ SightInv /\ FilesInv /\ CalmInv /\ OneLoopEach
  <2>1. Next
    BY DEF vars, machineVars
  <2> QED BY <2>1, StepCalmInv DEF OrderlyInv, Orderly
<1>2. ~Rests
  BY DEF Rests
<1>3. ASSUME NEW x \in Machines, NEW h \in Gids, NEW n, WroteRow(x, h, n), WroteFile(x, h, n)
      PROVE  FALSE
  <2>1. x = m
    BY <1>3 DEF WroteFile
  <2>2. DOMAIN outbox[m] = 1..(n - 1) /\ DOMAIN outbox'[m] = 1..n /\ n \in Nat
        /\ <<m, n>> \in Texts
    BY <1>3, <2>1 DEF WroteRow
  <2>3. n \in 1..n
    <3>1. n # 0
      BY <2>2 DEF Texts
    <3> QED BY <2>2, <3>1
  <2>4. n \in 1..(n - 1)
    BY <2>2, <2>3
  <2> QED BY <2>2, <2>4
<1>4. \A l \in Loops : \A p, h, a, rest : ~TakesAnswer(l, p, h, a, rest)
  BY DEF TakesAnswer
<1>5. PICK l \in Loops : PassesOp(l, loop[l].at) /\ PassesFile(l, loop[l].at)
  BY <1>1, <1>2, <1>3, <1>4, CalmSteps
<1>6. PICK k : k = loop[l].at
  BY Zenon
<1>7. Host[l] = m /\ log[k].gid = g
  <2>1. PassesFile(l, k)
    BY <1>5, <1>6
  <2>2. ASSUME NEW x \in Machines, NEW h \in Gids, x # Host[l] \/ h # log[k].gid
        PROVE  files'[x][h] = files[x][h]
    BY <2>1, <2>2 DEF PassesFile
  <2> QED BY <2>2
<1>8. log[k].origin # m /\ loop[l].pc = "applying" /\ ~ShouldFork(m, k)
  BY <1>5, <1>6, <1>7 DEF PassesFile
<1>9. files[m][g] \in RowOf(k).saw
  BY <1>1, <1>5, <1>6, <1>7, <1>8, AppliedOver DEF FilesInv
<1> QED BY <1>6, <1>7, <1>8, <1>9

(* No edit is lost to a sync loop: where no more goes wrong than requests   *)
(* on their way to the relay, where each machine runs one loop and users    *)
(* write texts of their own, the loop replaces a file's text only by what   *)
(* its author wrote with that text before them.                             *)
THEOREM SpecOverwritesOnlySeen == ASSUME Orderly PROVE Spec => OverwritesOnlySeen
<1>1. OrderlyInv /\ [Next]_vars => [OverwritesSeen]_vars
  BY OverwritesOrderly DEF OverwritesSeen
<1> QED BY <1>1, SpecOrderlyInv, PTL DEF Spec, OverwritesOnlySeen, OverwritesSeen

-----------------------------------------------------------------------------
(* Texts survive, and machines that are done agree.                         *)


LEMMA OrderlyTextsSurvive == OrderlyInv => TextsSurvive
<1> SUFFICES ASSUME OrderlyInv, NEW m \in Machines, NEW i \in DOMAIN outbox[m],
                    outbox[m][i].text # NoText
             PROVE  \E x \in Machines : \E j \in DOMAIN outbox[x] :
                      /\ Standing(x, j)
                      /\ outbox[m][i].text \in outbox[x][j].saw \cup {outbox[x][j].text}
  BY DEF TextsSurvive
<1>1. CalmInv /\ TextsInv /\ outbox[m] \in Seq(Row)
  BY DEF OrderlyInv, CalmInv, IInv, TypeOK
<1>2. PICK g \in Gids : g = outbox[m][i].gid
  <2>1. outbox[m][i] \in Row
    BY <1>1
  <2> QED BY <2>1 DEF Row
<1>3. FileInv(m, g)
  BY DEF OrderlyInv, FilesInv
<1>4. PICK t : t = files[m][g] /\ t # NoText
  BY <1>2, <1>3 DEF FileInv, NoFile
<1>5. t[1] \in Machines /\ t[2] \in DOMAIN outbox[t[1]] /\ outbox[t[1]][t[2]].text = t
  BY <1>1, <1>3, <1>4, TextHasRow, Zenon DEF FileInv
<1>6. Standing(t[1], t[2])
  BY <1>4, <1>5 DEF Standing
<1>7. outbox[m][i].text = <<m, i>>
  BY <1>1 DEF TextsInv
<1>8. <<m, i>> \in outbox[t[1]][t[2]].saw \cup {t}
  BY <1>2, <1>3, <1>4 DEF FileInv, OwnTextsRead
<1> QED BY <1>5, <1>6, <1>7, <1>8

(* A settled machine has, of every file, the last text accepted.            *)
LEMMA SettledFile ==
  ASSUME OrderlyInv, Settled, NEW m \in Machines, NEW g \in Gids
  PROVE  /\ files[m][g] = NoText <=> \A k \in DOMAIN log : log[k].gid # g
         /\ files[m][g] # NoText => \E c \in DOMAIN log :
              /\ Text(c) = files[m][g] /\ log[c].gid = g
              /\ \A i \in DOMAIN log : log[i].gid = g => i <= c
<1>1. /\ CalmInv /\ FileInv(m, g) /\ DOMAIN log = 1..Len(log) /\ Len(log) \in Nat
      /\ outbox[m] \in Seq(Row) /\ IInv
  BY DEF OrderlyInv, CalmInv, FilesInv, IInv, TypeOK
<1>2. \A k \in DOMAIN log : Handled(m, k)
  BY <1>1 DEF Settled, Handled
<1>3. \A i \in DOMAIN outbox[m] : outbox[m][i].status = "acked"
  <2> SUFFICES ASSUME NEW i \in DOMAIN outbox[m], outbox[m][i].status # "acked"
               PROVE  FALSE
    OBVIOUS
  <2>1. outbox[m][i] \in Row
    BY <1>1
  <2>2. i \in IdsIn(m, Statuses \ {"acked"})
    BY <2>1 DEF Row, IdsIn
  <2> QED BY <2>2 DEF Settled
<1>4. ~Unsent(m, g) /\ fork[m][g] = NoFork
  BY <1>3 DEF Unsent, Settled
<1>5. CASE files[m][g] = NoText
  BY <1>1, <1>2, <1>5 DEF FileInv, NoFile
<1>6. CASE files[m][g] # NoText
  BY <1>1, <1>2, <1>4, <1>6 DEF FileInv, HoldsLastText
<1> QED BY <1>5, <1>6

LEMMA OrderlyConverged == OrderlyInv => Converged
<1> SUFFICES ASSUME OrderlyInv, Settled, NEW m \in Machines, NEW x \in Machines
             PROVE  files[m] = files[x]
  BY DEF Converged
<1>1. /\ DOMAIN log = 1..Len(log) /\ Len(log) \in Nat
      /\ files[m] \in [Gids -> Texts \cup {NoText}] /\ files[x] \in [Gids -> Texts \cup {NoText}]
  BY DEF OrderlyInv, CalmInv, IInv, TypeOK
<1>2. ASSUME NEW g \in Gids
      PROVE  files[m][g] = files[x][g]
  <2>1. CASE files[m][g] = NoText
    BY <2>1, SettledFile
  <2>2. CASE files[m][g] # NoText
    <3>1. PICK c \in DOMAIN log :
            /\ Text(c) = files[m][g] /\ log[c].gid = g
            /\ \A i \in DOMAIN log : log[i].gid = g => i <= c
      BY <2>2, SettledFile
    <3>2. files[x][g] # NoText
      BY <3>1, SettledFile
    <3>3. PICK d \in DOMAIN log :
            /\ Text(d) = files[x][g] /\ log[d].gid = g
            /\ \A i \in DOMAIN log : log[i].gid = g => i <= d
      BY <3>2, SettledFile
    <3>4. c = d
      BY <1>1, <3>1, <3>3
    <3> QED BY <3>1, <3>3, <3>4
  <2> QED BY <2>1, <2>2
<1> QED BY <1>1, <1>2

(* No text is lost behind its users' backs: under the same conditions each  *)
(* is still standing, or the author of a standing row had it before them.   *)
THEOREM SpecTextsSurvive == ASSUME Orderly PROVE Spec => []TextsSurvive
BY SpecOrderlyInv, OrderlyTextsSurvive, PTL

(* ... and once all is delivered and every conflict resolved, the machines  *)
(* have the same files.                                                     *)
THEOREM SpecConverged == ASSUME Orderly PROVE Spec => []Converged
BY SpecOrderlyInv, OrderlyConverged, PTL
=============================================================================
