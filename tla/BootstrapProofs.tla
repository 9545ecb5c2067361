--------------------------- MODULE BootstrapProofs ---------------------------
(***************************************************************************)
(* A join never overwrites what only this machine has: records of the      *)
(* snapshot are applied over a row only in the mode of a machine that had  *)
(* no row when its pass began, and after that no such text can appear.     *)
(* And the cursor a join ends with, and every pull after it, passes over   *)
(* no op whose effect is missing: what the first page's seq covers was on  *)
(* a page, or waits among the deferred, whatever landed meanwhile.         *)
(* With that, a file that differs from the brain's in the end is shown as  *)
(* a conflict: while joining, what is known of a file vouches for its      *)
(* text, afterwards the cursor does.                                       *)
(***************************************************************************)
EXTENDS Bootstrap, TLAPS, FiniteSetTheorems, WellFoundedInduction, SequenceTheorems

(* A nonempty set of naturals has a least member: < is well founded.        *)
LEMMA LeastExists ==
  ASSUME NEW S \in SUBSET Nat, S # {}
  PROVE  \E n \in S : \A m \in S : n <= m
<1> DEFINE Less == {p \in Nat \X Nat : p[1] < p[2]}
<1>1. IsWellFoundedOn(Less, Nat)
  BY NatLessThanWellFounded DEF OpToRel
<1>2. PICK n \in S : \A m \in S : ~(<<m, n>> \in Less)
  <2> HIDE DEF Less
  <2> QED BY <1>1, WFMin
<1>3. ASSUME NEW m \in S PROVE n <= m
  <2>1. <<m, n>> \in Nat \X Nat /\ m \in Nat /\ n \in Nat
    OBVIOUS
  <2>2. ~(m < n)
    BY <1>2, <2>1
  <2> QED BY <2>1, <2>2
<1> QED BY <1>3

(* So has Min of it; and a bounded one has a greatest, which is its Max:    *)
(* the distances to the bound have a least.                                 *)
LEMMA MinOfSome ==
  ASSUME NEW S \in SUBSET Nat, S # {}
  PROVE  Min(S) \in S /\ \A m \in S : Min(S) <= m
BY LeastExists DEF Min

LEMMA MaxOfBounded ==
  ASSUME NEW S \in SUBSET Nat, S # {}, NEW b \in Nat, \A x \in S : x <= b
  PROVE  Max(S) \in S /\ \A x \in S : x <= Max(S)
<1> DEFINE D == {b - x : x \in S}
<1>1. D \in SUBSET Nat /\ D # {}
  <2>1. \A x \in S : b - x \in Nat
    OBVIOUS
  <2>2. PICK x \in S : TRUE
    OBVIOUS
  <2>3. b - x \in D
    OBVIOUS
  <2> QED BY <2>1, <2>3
<1> HIDE DEF D
<1>2. PICK d \in D : \A e \in D : d <= e
  BY <1>1, LeastExists
<1>3. PICK m \in S : d = b - m
  BY DEF D
<1>4. ASSUME NEW x \in S PROVE x <= m
  <2>1. b - m <= b - x
    BY <1>2, <1>3 DEF D
  <2> QED BY <2>1
<1> QED BY <1>3, <1>4 DEF Max

LEMMA MaxOfTwo ==
  ASSUME NEW a \in Nat, NEW b \in Nat
  PROVE  Max({a, b}) \in {a, b} /\ a <= Max({a, b}) /\ b <= Max({a, b})
<1>1. PICK c \in Nat : c = a + b /\ a <= c /\ b <= c
  OBVIOUS
<1> QED BY <1>1, MaxOfBounded

-----------------------------------------------------------------------------
(* The relay: its tables describe its log, as far as a page is made of      *)
(* them.                                                                    *)

V(g, n) == VersionAt(log, g, Family(g), n)
Gone(g) == "file.delete" \in KindsOf(g)

\* A row kept from a page, or still in a table, describes its op.
Described(q) == q.seq \in DOMAIN log /\ log[q.seq].gid = q.gid

\* What is left of a gid that was not deleted is a live record with its version.
Stands(g, q) == q.gid = g /\ ~q.deleted /\ q.version >= 1 /\ q.version >= V(g, Len(log))

TablesInv ==
  /\ log \in Seq(Entries) /\ Len(log) <= MaxOps
  /\ records \subseteq Records /\ parked \subseteq ParkedOps
  /\ \A i \in DOMAIN log : KindFamily(log[i].kind) = Family(log[i].gid)
  /\ \A q \in records :
       Described(q) /\ KindFamily(q.kind) = Family(q.gid) /\ q.version <= Len(log)
  /\ \A p \in parked : Described(p)
  /\ \A g \in Gids : KindsOf(g) = {} \/ Gone(g) \/ \E q \in records : Stands(g, q)

\* An appended entry changes no other, and no version before it.
LEMMA Appends ==
  ASSUME log \in Seq(Entries), NEW e \in Entries, log' = Append(log, e)
  PROVE  LET n == Len(log) + 1 IN
         /\ Len(log) \in Nat /\ DOMAIN log = 1..Len(log)
         /\ log' \in Seq(Entries) /\ Len(log)' = n
         /\ DOMAIN log' = DOMAIN log \cup {n} /\ n \notin DOMAIN log
         /\ \A i \in DOMAIN log : log'[i] = log[i]
         /\ log'[n] = e
         /\ \A g : KindsOf(g)' = KindsOf(g) \cup (IF e.gid = g THEN {e.kind} ELSE {})
<1>1. /\ Len(log) \in Nat /\ DOMAIN log = 1..Len(log)
      /\ log' \in Seq(Entries) /\ Len(log)' = Len(log) + 1
      /\ DOMAIN log' = DOMAIN log \cup {Len(log) + 1}
      /\ Len(log) + 1 \notin DOMAIN log
      /\ \A i \in DOMAIN log : log'[i] = log[i]
      /\ log'[Len(log) + 1] = e
  OBVIOUS
<1>2. \A g : KindsOf(g)' = KindsOf(g) \cup (IF e.gid = g THEN {e.kind} ELSE {})
  <2> TAKE g
  <2>1. PICK n : n = Len(log) + 1
    OBVIOUS
  <2>2. \A k : k \in KindsOf(g)' <=> \E i \in DOMAIN log' : log'[i].gid = g /\ k = log'[i].kind
    BY DEF KindsOf
  <2>3. \A k : k \in KindsOf(g) <=> \E i \in DOMAIN log : log[i].gid = g /\ k = log[i].kind
    BY DEF KindsOf
  <2> QED BY <1>1, <2>1, <2>2, <2>3
<1> QED BY <1>1, <1>2

\* The ops counted by a version are finitely many.
LEMMA VersionFinite ==
  ASSUME log \in Seq(Entries), NEW g, NEW n
  PROVE  /\ IsFiniteSet(AcceptedUpTo(log, g, Family(g), n))
         /\ V(g, n) \in Nat
<1>1. Len(log) \in Nat /\ DOMAIN log = 1..Len(log)
  OBVIOUS
<1>2. IsFiniteSet(1..Len(log))
  <2>1. 1 \in Int /\ Len(log) \in Int
    BY <1>1
  <2> QED BY <2>1, FS_Interval
<1>3. AcceptedUpTo(log, g, Family(g), n) \subseteq 1..Len(log)
  BY <1>1 DEF AcceptedUpTo
<1>4. IsFiniteSet(AcceptedUpTo(log, g, Family(g), n))
  BY <1>2, <1>3, FS_Subset
<1> QED BY <1>4, FS_CardinalityType DEF V, VersionAt

\* An appended entry leaves every earlier version alone, and counts in the next one
\* if it was accepted.
LEMMA VersionAppends ==
  ASSUME log \in Seq(Entries), NEW e \in Entries, log' = Append(log, e), NEW g
  PROVE  /\ \A n \in Nat : n <= Len(log) => V(g, n)' = V(g, n)
         /\ V(g, Len(log))' = V(g, Len(log)) + 1 \/ V(g, Len(log))' = V(g, Len(log))
         /\ e.gid # g \/ e.status # "accepted" => V(g, Len(log))' = V(g, Len(log))
         /\ e.gid = g /\ KindFamily(e.kind) = Family(g) /\ e.status = "accepted" =>
              V(g, Len(log))' = V(g, Len(log)) + 1
<1> DEFINE A(n) == AcceptedUpTo(log, g, Family(g), n)
<1>1. PICK n : n = Len(log) + 1
  OBVIOUS
<1>2. /\ Len(log) \in Nat /\ DOMAIN log = 1..Len(log) /\ Len(log)' = n
      /\ DOMAIN log' = DOMAIN log \cup {n} /\ n \notin DOMAIN log
      /\ \A i \in DOMAIN log : log'[i] = log[i]
      /\ log'[n] = e
  BY <1>1, Appends
<1>3. ASSUME NEW m \in Nat, m <= Len(log) PROVE V(g, m)' = V(g, m)
  <2>1. ~(n <= m)
    BY <1>1, <1>2, <1>3
  <2>2. A(m)' = A(m)
    BY <1>2, <2>1 DEF AcceptedUpTo, Family
  <2> QED BY <2>2 DEF V, VersionAt
<1>4. PICK t : t = /\ e.gid = g /\ KindFamily(e.kind) = Family(g) /\ e.status = "accepted"
  OBVIOUS
<1>5. AcceptedUpTo(log', g, Family(g), n) =
        A(Len(log)) \cup (IF t THEN {n} ELSE {})
  <2>1. n <= n /\ \A i \in DOMAIN log : i <= n /\ i <= Len(log)
    BY <1>1, <1>2
  <2>2. CASE t
    BY <1>2, <1>4, <2>1, <2>2 DEF AcceptedUpTo
  <2>3. CASE ~t
    BY <1>2, <1>4, <2>1, <2>3 DEF AcceptedUpTo
  <2> QED BY <1>4, <2>2, <2>3
<1>6. IsFiniteSet(A(Len(log))) /\ Cardinality(A(Len(log))) = V(g, Len(log)) /\ n \notin A(Len(log))
  BY <1>2, VersionFinite DEF V, VersionAt, AcceptedUpTo
<1>7. V(g, Len(log))' = Cardinality(AcceptedUpTo(log', g, Family(g), n))
  BY <1>2 DEF V, VersionAt, Family
<1> HIDE DEF A
<1>8. CASE t
  <2>1. V(g, Len(log))' = V(g, Len(log)) + 1
    BY <1>5, <1>6, <1>7, <1>8, FS_AddElement
  <2>2. e.gid = g /\ e.status = "accepted"
    BY <1>4, <1>8
  <2> QED BY <1>3, <2>1, <2>2
<1>9. CASE ~t
  <2>1. V(g, Len(log))' = V(g, Len(log))
    BY <1>5, <1>6, <1>7, <1>9
  <2>2. ~(e.gid = g /\ KindFamily(e.kind) = Family(g) /\ e.status = "accepted")
    BY <1>4, <1>9
  <2> QED BY <1>3, <2>1, <2>2
<1> QED BY <1>4, <1>8, <1>9

\* The current version of a gid is bounded by the log, and bounds its records'.
LEMMA CurrentBounds ==
  ASSUME TablesInv, NEW g
  PROVE  /\ Version(g) \in Nat /\ Version(g) <= Len(log)
         /\ \A q \in records : q.gid = g => q.version <= Version(g)
<1> DEFINE S == Versions(records, g, Family(g)) \cup {0}
<1>1. Len(log) \in Nat
  BY DEF TablesInv
<1>2. \A q \in records :
        q.version \in Nat /\ q.version <= Len(log) /\ (q.gid = g => q.version \in S)
  BY DEF TablesInv, Records, Record, Versions
<1>3. S \in SUBSET Nat /\ S # {} /\ \A x \in S : x <= Len(log)
  BY <1>1, <1>2 DEF Versions
<1> HIDE DEF S
<1>4. Max(S) \in S /\ \A x \in S : x <= Max(S)
  BY <1>1, <1>3, MaxOfBounded
<1>5. Max(S) = Version(g)
  BY DEF S, Version, CurrentVersion
<1> QED BY <1>2, <1>3, <1>4, <1>5

\* An op the other machines post keeps the tables in step with the log.
LEMMA PostKeepsTables ==
  ASSUME TablesInv,
         NEW g \in Gids, NEW kind \in OpKinds, NEW base \in Bases,
         NEW status \in {"accepted", "conflict"},
         KindFamily(kind) = Family(g),
         kind \in TombstoneKinds => kind = "file.delete",
         status = "conflict" => KindsOf(g) # {},
         PostOp(g, kind, base, status)
  PROVE  TablesInv'
<1>0. PICK n : n = Len(log) + 1
  OBVIOUS
<1> DEFINE op == [gid |-> g, kind |-> kind, origin |-> Others, cseq |-> n, base |-> base]
<1>1. PICK e : e = Entry(op, status)
  OBVIOUS
<1>2. Len(log) \in Nat /\ log \in Seq(Entries) /\ Len(log) < MaxOps /\ MaxOps \in Nat
  BY LimitsAssumption DEF TablesInv, PostOp
<1>3. /\ e.gid = g /\ e.kind = kind /\ e.status = status
      /\ e \in Entries
  BY <1>0, <1>1, <1>2 DEF Entry, Entries, LogEntry
<1>4. /\ log' = Append(log, e)
      /\ IF status = "accepted"
         THEN /\ records' = RecordsAfterAccept(records, op, n)
              /\ parked' = ParkedAfterAccept(parked, op)
         ELSE /\ parked' = ParkedAfterConflict(parked, op, n)
              /\ records' = records
  BY <1>0, <1>1 DEF PostOp
<1>5. /\ DOMAIN log = 1..Len(log)
      /\ log' \in Seq(Entries) /\ Len(log)' = n
      /\ DOMAIN log' = DOMAIN log \cup {n} /\ n \notin DOMAIN log
      /\ \A i \in DOMAIN log : log'[i] = log[i]
      /\ log'[n] = e
      /\ \A h : KindsOf(h)' = KindsOf(h) \cup (IF g = h THEN {kind} ELSE {})
  BY <1>0, <1>2, <1>3, <1>4, Appends
<1>6. \A q : Described(q) => Described(q)'
  BY <1>5 DEF Described
<1>7. \A i \in DOMAIN log' : KindFamily(log'[i].kind) = Family(log'[i].gid)
  BY <1>3, <1>5 DEF TablesInv
<1>8. \A p \in parked' : p \in ParkedOps /\ Described(p)'
  <2>1. \A p \in parked : p \in ParkedOps /\ Described(p)'
    BY <1>6 DEF TablesInv
  <2>2. CASE status = "accepted"
    BY <1>4, <2>1, <2>2 DEF ParkedAfterAccept
  <2>3. CASE status = "conflict"
    <3> DEFINE new == [gid |-> g, family |-> KindFamily(kind), base |-> base, seq |-> n]
    <3>1. parked' = parked \cup {new}
      BY <1>4, <2>3 DEF ParkedAfterConflict
    <3>2. new \in ParkedOps
      BY <1>0, <1>2 DEF ParkedOps, Parked
    <3>3. Described(new)'
      BY <1>3, <1>5 DEF Described
    <3> QED BY <2>1, <3>1, <3>2, <3>3
  <2> QED BY <2>2, <2>3
<1> PICK new :
      new = [gid |-> g, kind |-> kind, seq |-> n,
             version |-> CurrentVersion(records, g, KindFamily(kind)) + 1,
             deleted |-> kind \in TombstoneKinds]
  OBVIOUS
<1>9. status = "accepted" => records' = KeptRecords(records, op) \cup {new}
  BY <1>4 DEF RecordsAfterAccept
<1>10. new \in Records /\ new.gid = g /\ new.seq = n /\ new.kind = kind
       /\ new.version = Version(g) + 1 /\ new.deleted = (kind \in TombstoneKinds)
  BY <1>0, <1>2, CurrentBounds DEF Records, Record, Version
<1>11. KeptRecords(records, op) \subseteq records
       /\ \A q \in records : q.gid # g => q \in KeptRecords(records, op)
  BY DEF KeptRecords
<1> HIDE DEF op
<1>12. \A q \in records' : q \in Records /\ Described(q)'
                           /\ KindFamily(q.kind) = Family(q.gid) /\ q.version <= n
  <2>1. \A q \in records : q \in Records /\ Described(q)'
                           /\ KindFamily(q.kind) = Family(q.gid) /\ q.version <= n
    <3>1. \A q \in records : q.version \in Nat /\ q.version <= Len(log)
      BY DEF TablesInv, Records, Record
    <3>2. \A q \in records : q.version <= n
      BY <1>0, <1>2, <3>1
    <3> QED BY <1>6, <3>2 DEF TablesInv
  <2>2. KindFamily(new.kind) = Family(new.gid) /\ new.version <= n /\ Described(new)'
    <3>1. Version(g) + 1 <= n
      BY <1>0, <1>2, CurrentBounds
    <3>2. n \in DOMAIN log' /\ log'[n].gid = g
      BY <1>3, <1>5
    <3>3. Described(new)'
      BY <1>10, <3>2 DEF Described
    <3> QED BY <1>10, <3>1, <3>3
  <2>3. \A q \in records' : q \in records \/ q = new
    BY <1>4, <1>9, <1>11
  <2> HIDE DEF Described
  <2>4. TAKE q \in records'
  <2> QED BY <1>10, <2>1, <2>2, <2>3
<1>13. ASSUME NEW h \in Gids
       PROVE  KindsOf(h)' = {} \/ Gone(h)' \/ \E q \in records' : Stands(h, q)'
  <2>1. V(h, Len(log)) \in Nat /\ V(g, Len(log)) \in Nat
    BY <1>2, VersionFinite
  <2>2. CASE KindsOf(h)' = {} \/ Gone(h)'
    BY <2>2
  <2>3. CASE h # g \/ status = "conflict"
    <3>1. CASE KindsOf(h) = {}
      BY <1>5, <2>3, <3>1
    <3>2. CASE Gone(h)
      BY <1>5, <3>2 DEF Gone
    <3>3. ASSUME NEW q \in records, Stands(h, q) PROVE \E p \in records' : Stands(h, p)'
      <4>1. V(h, Len(log))' = V(h, Len(log))
        BY <1>2, <1>3, <1>4, <2>3, VersionAppends
      <4>2. q \in records'
        BY <1>4, <1>9, <1>11, <2>3, <3>3 DEF Stands
      <4> QED BY <3>3, <4>1, <4>2 DEF Stands
    <3> QED BY <3>1, <3>2, <3>3 DEF TablesInv
  <2>4. CASE h = g /\ status = "accepted" /\ kind \notin TombstoneKinds /\ ~Gone(g)
    <3>1. Version(g) >= V(g, Len(log))
      <4>1. CASE KindsOf(g) = {}
        <5>1. AcceptedUpTo(log, g, Family(g), Len(log)) = {}
          BY <4>1 DEF AcceptedUpTo, KindsOf
        <5>2. V(g, Len(log)) = 0
          BY <5>1, FS_EmptySet DEF V, VersionAt
        <5> QED BY <5>2, CurrentBounds
      <4>2. ASSUME NEW q \in records, Stands(g, q) PROVE Version(g) >= V(g, Len(log))
        <5>1. q.version \in Nat /\ q.version <= Version(g) /\ q.version >= V(g, Len(log))
          BY <4>2, CurrentBounds DEF Stands, TablesInv, Records, Record
        <5> QED BY <2>1, <5>1, CurrentBounds
      <4> QED BY <2>4, <4>1, <4>2 DEF TablesInv
    <3>2. V(g, Len(log))' = V(g, Len(log)) + 1 \/ V(g, Len(log))' = V(g, Len(log))
      BY <1>2, <1>3, <1>4, VersionAppends
    <3>3. new.version >= 1 /\ new.version >= V(g, Len(log))'
      BY <1>10, <2>1, <3>1, <3>2, CurrentBounds
    <3> QED BY <1>9, <1>10, <2>4, <3>3 DEF Stands
  <2>5. kind \in TombstoneKinds \/ Gone(g) => Gone(g)'
    BY <1>5 DEF Gone
  <2> QED BY <2>2, <2>3, <2>4, <2>5
<1> QED BY <1>0, <1>2, <1>5, <1>7, <1>8, <1>12, <1>13 DEF TablesInv

\* A gid that is there has a record, so a version to lose against.
LEMMA LiveHasVersion ==
  ASSUME TablesInv, NEW g \in Gids, Live(g)
  PROVE  Version(g) - 1 \in Nat
<1>1. KindsOf(g) # {} /\ ~Gone(g)
  BY DEF Live, Gone
<1>2. PICK q \in records : Stands(g, q)
  BY <1>1 DEF TablesInv
<1>3. q.version >= 1 /\ q.version <= Version(g) /\ q.version \in Nat
  BY <1>2, CurrentBounds DEF Stands, TablesInv, Records, Record
<1> QED BY <1>3, CurrentBounds

LEMMA OthersKeepTables ==
  ASSUME TablesInv, OthersWrite
  PROVE  TablesInv'
<1>1. /\ "file.create" \in OpKinds \ TombstoneKinds
      /\ "file.update" \in OpKinds \ TombstoneKinds
      /\ "file.delete" \in OpKinds
      /\ "project.register" \in OpKinds \ TombstoneKinds
  BY DEF OpKinds, FileKinds, ProjectKinds, TombstoneKinds
<1>2. /\ KindFamily("file.create") = "content" /\ KindFamily("file.update") = "content"
      /\ KindFamily("file.delete") = "content"
      /\ KindFamily("project.register") = "project"
  BY DEF KindFamily, FileKinds, ProjectKinds, MetaKinds, FolderKinds
<1>3. /\ \A g \in Files : g \in Gids /\ Family(g) = "content"
      /\ \A p \in Projects : p \in Gids /\ Family(p) = "project"
      /\ Edited \subseteq Files
  BY GidsAssumption DEF Gids, Family
<1>4. NoBase \in Bases /\ \A n \in Nat : n \in Bases
  BY DEF Bases
<1>5. ASSUME NEW g \in Files, PostOp(g, "file.create", NoBase, "accepted")
      PROVE  TablesInv'
  BY <1>1, <1>2, <1>3, <1>4, <1>5, PostKeepsTables
<1>6. ASSUME NEW p \in Projects, PostOp(p, "project.register", NoBase, "accepted")
      PROVE  TablesInv'
  BY <1>1, <1>2, <1>3, <1>4, <1>6, PostKeepsTables
<1>7. ASSUME NEW g \in Edited, Live(g),
             \/ PostOp(g, "file.update", Version(g), "accepted")
             \/ PostOp(g, "file.delete", Version(g), "accepted")
      PROVE  TablesInv'
  <2>1. Version(g) \in Bases
    BY <1>4, CurrentBounds
  <2> QED BY <1>1, <1>2, <1>3, <1>7, <2>1, PostKeepsTables
<1>8. ASSUME NEW g \in Edited, Live(g), PostOp(g, "file.update", Version(g) - 1, "conflict")
      PROVE  TablesInv'
  <2>1. Version(g) - 1 \in Bases /\ KindsOf(g) # {}
    BY <1>3, <1>4, <1>8, LiveHasVersion DEF Live
  <2> QED BY <1>1, <1>2, <1>3, <1>8, <2>1, PostKeepsTables
<1> QED BY <1>5, <1>6, <1>7, <1>8 DEF OthersWrite

-----------------------------------------------------------------------------
(* The machine, and the passes on it.  What a pass holds came from the      *)
(* tables, and the tables and the log only grow older than it.              *)

InLog(deferred) == \A i \in DOMAIN deferred : deferred[i].seq \in DOMAIN log

Sound(p) ==
  /\ p.latest <= Len(log)
  /\ \A q \in p.recs \cup p.confs : Described(q)
  /\ InLog(p.deferred)

SavedInv ==
  /\ saved \in Progress /\ InLog(saved.deferred)
  /\ saved.latest # NoLatest => saved.latest <= Len(log)

RunInv ==
  /\ run \in [Runners -> Pass \cup {Idle}]
  /\ \A r \in Runners : run[r] # Idle => Sound(run[r])

LocalInv ==
  /\ files \in [Files -> Texts \cup {NoText, Own}] /\ projects \subseteq Projects
  /\ known \in [Gids -> Nat] /\ fork \in [Files -> Texts \cup {NoFork}]

RestInv ==
  /\ phase \in {"out", "joining", "joined"}
  /\ cursor \in 0..Len(log) /\ crashes \in 0..MaxCrashes

TypeInv == TablesInv /\ SavedInv /\ RunInv /\ LocalInv /\ RestInv

LEMMA TypeInvType == TypeInv => TypeOK
BY DEF TypeInv, TablesInv, SavedInv, RunInv, LocalInv, RestInv, TypeOK

\* No idle runner is mistaken for a pass.
LEMMA PassIsNotIdle == \A p \in Pass : p # Idle
<1>1. \A p \in Pass : p.pc \in {"fetch", "page", "final"}
  BY DEF Pass
<1>2. Idle.pc = "idle"
  BY DEF Idle
<1> QED BY <1>1, <1>2

LEMMA InitTyped == Init => TypeInv
<1> SUFFICES ASSUME Init PROVE TypeInv
  OBVIOUS
<1>1. DOMAIN log = {} /\ Len(log) = 0 /\ log \in Seq(Entries)
  BY DEF Init
<1>2. TablesInv
  <2>1. \A g : KindsOf(g) = {}
    BY <1>1 DEF KindsOf
  <2> QED BY <1>1, <2>1, LimitsAssumption DEF Init, TablesInv
<1>3. SavedInv
  BY DEF Init, SavedInv, NothingSaved, Progress, InLog
<1>4. RunInv
  BY DEF Init, RunInv
<1>5. LocalInv
  BY DEF Init, LocalInv
<1>6. RestInv
  BY <1>1, LimitsAssumption DEF Init, RestInv
<1> QED BY <1>2, <1>3, <1>4, <1>5, <1>6 DEF TypeInv

\* Nothing that was sound is hurt by what the others write.
LEMMA OthersTyped ==
  ASSUME TypeInv, OthersWrite
  PROVE  /\ TypeInv'
         /\ \E e \in Entries : log' = Append(log, e)
         /\ UNCHANGED <<phase, saved, localVars, cursor, run, crashes>>
<1>1. TablesInv'
  BY OthersKeepTables DEF TypeInv
<1>2. UNCHANGED <<phase, saved, files, projects, known, fork, cursor, run, crashes>>
  BY DEF OthersWrite, PostOp, localVars
<1>3. PICK e : log' = Append(log, e)
  BY DEF OthersWrite, PostOp
<1>4. log \in Seq(Entries) /\ log' \in Seq(Entries)
  BY <1>1 DEF TypeInv, TablesInv
<1>5. Len(log) \in Nat /\ Len(log') = Len(log) + 1 /\ DOMAIN log \subseteq DOMAIN log'
      /\ log'[Len(log) + 1] = e /\ Len(log) + 1 \in DOMAIN log'
      /\ \A i \in DOMAIN log : log'[i] = log[i]
  BY <1>3, <1>4
<1>6. e \in Entries
  BY <1>4, <1>5
<1>7. \A q : Described(q) => Described(q)'
  BY <1>5 DEF Described
<1>8. \A d : InLog(d) => InLog(d)'
  BY <1>5 DEF InLog
<1>9. \A n \in Nat : n <= Len(log) => n <= Len(log')
  BY <1>5
<1>10. SavedInv'
  <2>1. saved.latest = NoLatest \/ saved.latest \in Nat
    BY DEF TypeInv, SavedInv, Progress
  <2> QED BY <1>2, <1>8, <1>9, <2>1 DEF TypeInv, SavedInv
<1>11. RunInv'
  <2> SUFFICES ASSUME NEW r \in Runners, run[r] # Idle PROVE Sound(run[r])'
    BY <1>2 DEF TypeInv, RunInv
  <2>1. run[r] \in Pass /\ Sound(run[r])
    BY DEF TypeInv, RunInv
  <2>2. run[r].latest \in Nat
    BY <2>1 DEF Pass
  <2> QED BY <1>2, <1>7, <1>8, <1>9, <2>1, <2>2 DEF Sound
<1>12. LocalInv' /\ RestInv'
  BY <1>2, <1>5 DEF TypeInv, LocalInv, RestInv
<1> QED BY <1>1, <1>2, <1>3, <1>6, <1>10, <1>11, <1>12 DEF TypeInv, localVars

-----------------------------------------------------------------------------
(* What each step of a pass does, for the three invariants to share.        *)

\* Runner r is now at p.
Moves(r, p) == run' = [run EXCEPT ![r] = p]

LEMMA SameTables ==
  ASSUME TablesInv, UNCHANGED <<log, records, parked>>
  PROVE  TablesInv'
<1>1. \A g : KindsOf(g)' = KindsOf(g) /\ (Gone(g)' <=> Gone(g))
  BY DEF KindsOf, Gone
<1>2. \A g : V(g, Len(log))' = V(g, Len(log))
  BY DEF V, Family
<1>3. \A g, q : Stands(g, q)' <=> Stands(g, q)
  BY <1>2 DEF Stands
<1>4. \A q : Described(q)' <=> Described(q)
  BY DEF Described
<1> QED BY <1>1, <1>3, <1>4 DEF TablesInv, Family

LEMMA MoveTyped ==
  ASSUME TypeInv, UNCHANGED relayVars,
         NEW r \in Runners, NEW p \in Pass \cup {Idle}, Moves(r, p),
         p # Idle => Sound(p), SavedInv', LocalInv', RestInv'
  PROVE  /\ TypeInv'
         /\ run'[r] = p
         /\ \A q \in Runners : q # r => run'[q] = run[q]
<1>1. /\ run \in [Runners -> Pass \cup {Idle}]
      /\ \A q \in Runners : run[q] # Idle => Sound(run[q])
  BY DEF TypeInv, RunInv
<1>2. /\ run' \in [Runners -> Pass \cup {Idle}]
      /\ run'[r] = p /\ \A q \in Runners : q # r => run'[q] = run[q]
  BY <1>1 DEF Moves
<1>3. UNCHANGED <<log, records, parked>>
  BY DEF relayVars
<1>4. ASSUME NEW q \in Runners, run'[q] # Idle PROVE Sound(run[q])'
  <2>1. Sound(run'[q])
    BY <1>1, <1>2, <1>4
  <2> QED BY <1>3, <2>1 DEF Sound, Described, InLog
<1>5. RunInv'
  BY <1>2, <1>4 DEF RunInv
<1>6. TablesInv'
  BY <1>3, SameTables DEF TypeInv
<1> QED BY <1>2, <1>5, <1>6 DEF TypeInv

\* What is at work is a sound pass.
LEMMA AtWork ==
  ASSUME TypeInv, NEW r \in Runners, run[r] # Idle
  PROVE  /\ run[r] \in Pass /\ Sound(run[r])
         /\ run[r].pc \in {"fetch", "page", "final"} /\ run[r].mode \in {"empty", "merge"}
         /\ run[r].after \in Gids \cup {0} /\ run[r].latest \in Nat
         /\ run[r].latest <= Len(log)
         /\ run[r].deferred \in Seq(Waiting) /\ InLog(run[r].deferred)
         /\ run[r].gids \subseteq Gids /\ run[r].recs \subseteq Records
         /\ run[r].confs \subseteq ParkedOps /\ run[r].more \in BOOLEAN
<1>1. run[r] \in Pass /\ Sound(run[r])
  BY DEF TypeInv, RunInv
<1> QED BY <1>1 DEF Pass, Sound

\* A machine whose rows a step leaves alone stays well typed.
LEMMA LeavesLocal ==
  ASSUME TypeInv, UNCHANGED relayVars, UNCHANGED localVars
  PROVE  LocalInv'
BY DEF TypeInv, LocalInv, localVars

LEMMA LeavesRest ==
  ASSUME TypeInv, UNCHANGED relayVars, UNCHANGED <<phase, cursor, crashes>>
  PROVE  RestInv'
BY DEF TypeInv, RestInv, relayVars

LEMMA LeavesSaved ==
  ASSUME TypeInv, UNCHANGED relayVars, UNCHANGED saved
  PROVE  SavedInv'
BY DEF TypeInv, SavedInv, relayVars, InLog

\* What Join leaves behind is well typed too.
LEMMA JoinTyped ==
  ASSUME TypeInv, Join
  PROVE  TypeInv'
<1>1. UNCHANGED <<log, records, parked, saved, projects, known, fork, cursor, run, crashes>>
      /\ phase' = "joining" /\ files' \in [Files -> Texts \cup {NoText, Own}]
  BY DEF Join, relayVars
<1>2. TablesInv'
  BY <1>1, SameTables DEF TypeInv
<1>3. RunInv'
  BY <1>1 DEF TypeInv, RunInv, Sound, Described, InLog
<1>4. SavedInv' /\ LocalInv' /\ RestInv'
  BY <1>1 DEF TypeInv, SavedInv, LocalInv, RestInv, InLog
<1> QED BY <1>2, <1>3, <1>4 DEF TypeInv

LEMMA StartStep ==
  ASSUME TypeInv, NEW r \in Runners, Start(r)
  PROVE  /\ TypeInv'
         /\ run'[r] \in Pass
         /\ run'[r].pc = "fetch" /\ run'[r].mode = Mode
         /\ run'[r].after = saved.after /\ run'[r].deferred = saved.deferred
         /\ run'[r].recs = {}
         /\ saved.latest # NoLatest => run'[r].latest = saved.latest
         /\ phase = "joining"
         /\ \A q \in Runners : q # r => run'[q] = run[q]
         /\ UNCHANGED <<relayVars, phase, saved, localVars, cursor, crashes>>
<1> DEFINE p == [pc |-> "fetch", mode |-> Mode, after |-> saved.after,
                 deferred |-> saved.deferred,
                 latest |-> IF saved.latest = NoLatest THEN 0 ELSE saved.latest,
                 gids |-> {}, recs |-> {}, confs |-> {}, more |-> TRUE]
<1>1. Moves(r, p) /\ UNCHANGED <<relayVars, phase, saved, localVars, cursor, crashes>>
      /\ phase = "joining"
  BY DEF Start, Moves
<1>2. /\ saved.after \in Gids \cup {0} /\ saved.deferred \in Seq(Waiting)
      /\ saved.latest \in Nat \cup {NoLatest} /\ InLog(saved.deferred)
      /\ saved.latest # NoLatest => saved.latest <= Len(log)
  BY DEF TypeInv, SavedInv, Progress
<1>3. Len(log) \in Nat
  BY DEF TypeInv, TablesInv
<1>4. /\ p.pc = "fetch" /\ p.mode = Mode /\ p.after = saved.after
      /\ p.deferred = saved.deferred /\ p.recs = {} /\ p.confs = {}
      /\ p.latest = IF saved.latest = NoLatest THEN 0 ELSE saved.latest
  OBVIOUS
<1>5. p \in Pass
  BY <1>2 DEF Pass, Mode
<1> HIDE DEF p
<1>6. Sound(p)
  BY <1>2, <1>3, <1>4 DEF Sound
<1>7. SavedInv' /\ LocalInv' /\ RestInv'
  BY <1>1, LeavesSaved, LeavesLocal, LeavesRest
<1>8. TypeInv' /\ run'[r] = p /\ \A q \in Runners : q # r => run'[q] = run[q]
  BY <1>1, <1>5, <1>6, <1>7, MoveTyped
<1> QED BY <1>1, <1>4, <1>5, <1>8

LEMMA FetchStep ==
  ASSUME TypeInv, NEW r \in Runners, run[r] # Idle, Fetch(r)
  PROVE  /\ TypeInv'
         /\ run[r].pc = "fetch" /\ run'[r].pc = "page"
         /\ run'[r].mode = run[r].mode /\ run'[r].after = run[r].after
         /\ run'[r].deferred = run[r].deferred /\ run'[r].latest = Latest(r)
         /\ run'[r].gids = PageAfter(run[r].after)
         /\ run'[r].recs = {q \in records : q.gid \in run'[r].gids /\ ~q.deleted}
         /\ run'[r].more = (Cardinality(run'[r].gids) = PageLimit)
         /\ saved'.after = saved.after /\ saved'.deferred = saved.deferred
         /\ saved'.latest = IF saved.latest = NoLatest THEN Latest(r) ELSE saved.latest
         /\ \A q \in Runners : q # r => run'[q] = run[q]
         /\ UNCHANGED <<relayVars, phase, localVars, cursor, crashes>>
<1> DEFINE page == PageAfter(run[r].after)
           p == [pc |-> "page", mode |-> run[r].mode, after |-> run[r].after,
                 deferred |-> run[r].deferred, latest |-> Latest(r), gids |-> page,
                 recs |-> {q \in records : q.gid \in page /\ ~q.deleted},
                 confs |-> {q \in parked : q.gid \in page},
                 more |-> Cardinality(page) = PageLimit]
<1>1. Moves(r, p) /\ UNCHANGED <<relayVars, phase, localVars, cursor, crashes>>
      /\ run[r].pc = "fetch"
  BY DEF Fetch, Moves, TypeInv, RunInv
<1>2. saved' = [saved EXCEPT !.latest = IF @ = NoLatest THEN Latest(r) ELSE @]
  BY DEF Fetch
<1>3. /\ saved \in Progress /\ InLog(saved.deferred)
      /\ saved.latest # NoLatest => saved.latest <= Len(log)
  BY DEF TypeInv, SavedInv
<1>4. Len(log) \in Nat /\ records \subseteq Records /\ parked \subseteq ParkedOps
      /\ \A q \in records \cup parked : Described(q)
  BY DEF TypeInv, TablesInv
<1>5. Latest(r) \in Nat /\ Latest(r) <= Len(log)
  BY <1>4, AtWork DEF Latest
<1>6. page \subseteq Gids
  BY DEF PageAfter, Remaining
<1>7. /\ p.pc = "page" /\ p.mode = run[r].mode /\ p.after = run[r].after
      /\ p.deferred = run[r].deferred /\ p.latest = Latest(r) /\ p.gids = page
      /\ p.recs = {q \in records : q.gid \in page /\ ~q.deleted}
      /\ p.confs = {q \in parked : q.gid \in page}
      /\ p.more = (Cardinality(page) = PageLimit)
  OBVIOUS
<1>8. p \in Pass
  <2>1. p.recs \subseteq Records /\ p.confs \subseteq ParkedOps
    BY <1>4, <1>7
  <2> HIDE DEF page
  <2> QED BY <1>5, <1>6, <2>1, AtWork DEF Pass
<1>9. Sound(p)
  <2> HIDE DEF p, page
  <2> QED BY <1>4, <1>5, <1>7, AtWork DEF Sound
<1>10. /\ saved' \in Progress
       /\ saved'.after = saved.after /\ saved'.deferred = saved.deferred
       /\ saved'.latest = IF saved.latest = NoLatest THEN Latest(r) ELSE saved.latest
  BY <1>2, <1>3, <1>5 DEF Progress
<1>11. SavedInv'
  BY <1>1, <1>3, <1>5, <1>10 DEF SavedInv, InLog, relayVars
<1>12. LocalInv' /\ RestInv'
  BY <1>1, LeavesLocal, LeavesRest
<1> HIDE DEF p
<1>13. TypeInv' /\ run'[r] = p /\ \A q \in Runners : q # r => run'[q] = run[q]
  BY <1>1, <1>8, <1>9, <1>11, <1>12, MoveTyped
<1> QED BY <1>1, <1>7, <1>10, <1>13

\* What remains of a page, and what waits, changes by a row.
WithoutRecord(p, q) == [p EXCEPT !.recs = @ \ {q}]
Deferring(p, q, d) == [p EXCEPT !.recs = @ \ {q}, !.deferred = d]
WithoutConflict(p, q) == [p EXCEPT !.confs = @ \ {q}]
WithoutGid(p, g) == [p EXCEPT !.gids = @ \ {g}, !.after = g]
At(p, pc) == [p EXCEPT !.pc = pc]
WithDeferred(p, d) == [p EXCEPT !.deferred = d]

LEMMA PassLosesRecord ==
  ASSUME NEW p \in Pass, NEW q, NEW n,
         n = WithoutRecord(p, q)
  PROVE  /\ n \in Pass /\ n.recs = p.recs \ {q}
         /\ n.pc = p.pc /\ n.mode = p.mode /\ n.after = p.after /\ n.latest = p.latest
         /\ n.deferred = p.deferred /\ n.gids = p.gids /\ n.confs = p.confs
         /\ n.more = p.more
BY DEF Pass, WithoutRecord

LEMMA PassDefers ==
  ASSUME NEW p \in Pass, NEW q, NEW d \in Seq(Waiting), NEW n,
         n = Deferring(p, q, d)
  PROVE  /\ n \in Pass /\ n.recs = p.recs \ {q} /\ n.deferred = d
         /\ n.pc = p.pc /\ n.mode = p.mode /\ n.after = p.after /\ n.latest = p.latest
         /\ n.gids = p.gids /\ n.confs = p.confs /\ n.more = p.more
BY DEF Pass, Deferring

LEMMA PassLosesConflict ==
  ASSUME NEW p \in Pass, NEW q, NEW n,
         n = WithoutConflict(p, q)
  PROVE  /\ n \in Pass /\ n.confs = p.confs \ {q}
         /\ n.pc = p.pc /\ n.mode = p.mode /\ n.after = p.after /\ n.latest = p.latest
         /\ n.deferred = p.deferred /\ n.gids = p.gids /\ n.recs = p.recs
         /\ n.more = p.more
BY DEF Pass, WithoutConflict

LEMMA PassLosesGid ==
  ASSUME NEW p \in Pass, NEW g \in Gids, NEW n,
         n = WithoutGid(p, g)
  PROVE  /\ n \in Pass /\ n.gids = p.gids \ {g} /\ n.after = g
         /\ n.pc = p.pc /\ n.mode = p.mode /\ n.latest = p.latest
         /\ n.deferred = p.deferred /\ n.recs = p.recs /\ n.confs = p.confs
         /\ n.more = p.more
BY DEF Pass, WithoutGid

LEMMA PassGoesOn ==
  ASSUME NEW p \in Pass, NEW pc \in {"fetch", "page", "final"}, NEW n,
         n = At(p, pc)
  PROVE  /\ n \in Pass /\ n.pc = pc
         /\ n.mode = p.mode /\ n.after = p.after /\ n.latest = p.latest
         /\ n.deferred = p.deferred /\ n.gids = p.gids /\ n.recs = p.recs
         /\ n.confs = p.confs /\ n.more = p.more
BY DEF Pass, At

LEMMA PassTakesDeferred ==
  ASSUME NEW p \in Pass, NEW d \in Seq(Waiting), NEW n,
         n = WithDeferred(p, d)
  PROVE  /\ n \in Pass /\ n.deferred = d
         /\ n.pc = p.pc /\ n.mode = p.mode /\ n.after = p.after /\ n.latest = p.latest
         /\ n.gids = p.gids /\ n.recs = p.recs /\ n.confs = p.confs /\ n.more = p.more
BY DEF Pass, WithDeferred

\* recordVersion only raises a version.
LEMMA RecordVersionStep ==
  ASSUME TypeInv, NEW h \in Gids, NEW version \in Nat, RecordVersion(h, version)
  PROVE  /\ known' \in [Gids -> Nat]
         /\ \A g \in Gids : known'[g] >= known[g]
         /\ known'[h] >= version
<1>1. known \in [Gids -> Nat]
  BY DEF TypeInv, LocalInv
<1>2. known[h] \in Nat
  BY <1>1
<1>3. PICK m : m = Max({known[h], version})
  OBVIOUS
<1>4. m \in Nat /\ known[h] <= m /\ version <= m
  BY <1>2, <1>3, MaxOfTwo
<1>5. known' = [known EXCEPT ![h] = m]
  BY <1>3 DEF RecordVersion
<1> QED BY <1>1, <1>4, <1>5

\* The op of a row is in the log, so its text is one, and its gid is one.
LEMMA InTheLog ==
  ASSUME TypeInv, NEW seq \in DOMAIN log
  PROVE  seq \in Texts /\ log[seq].gid \in Gids /\ seq # Own /\ seq # NoText
<1>1. log \in Seq(Entries) /\ Len(log) <= MaxOps /\ MaxOps \in Nat
  BY LimitsAssumption DEF TypeInv, TablesInv
<1>2. seq \in Nat /\ seq \in Texts /\ log[seq] \in Entries
  BY <1>1 DEF Texts
<1> QED BY <1>2, ValuesAssumption DEF Entries, LogEntry

LEMMA ForkTyped ==
  ASSUME TypeInv, NEW seq \in DOMAIN log, ForkUnlessEqual(seq)
  PROVE  /\ files' \in [Files -> Texts \cup {NoText, Own}] /\ projects' \subseteq Projects
         /\ fork' \in [Files -> Texts \cup {NoFork}]
BY InTheLog DEF ForkUnlessEqual, TypeInv, LocalInv

LEMMA ProcessStep ==
  ASSUME TypeInv, NEW mode, NEW seq \in DOMAIN log, NEW version \in Nat,
         Process(mode, seq, version)
  PROVE  /\ LocalInv'
         /\ \A g \in Gids : known'[g] >= known[g]
         /\ known'[log[seq].gid] >= version
<1>1. seq \in Texts /\ log[seq].gid \in Gids
  BY InTheLog
<1>2. /\ known' \in [Gids -> Nat]
      /\ \A g \in Gids : known'[g] >= known[g]
      /\ known'[log[seq].gid] >= version
  BY <1>1, RecordVersionStep DEF Process
<1>3. /\ files' \in [Files -> Texts \cup {NoText, Own}] /\ projects' \subseteq Projects
      /\ fork' \in [Files -> Texts \cup {NoFork}]
  <2>1. CASE ForkUnlessEqual(seq)
    BY <2>1, ForkTyped
  <2>2. CASE ApplyRecord(seq)
    BY <1>1, <2>2 DEF ApplyRecord, TypeInv, LocalInv
  <2> QED BY <2>1, <2>2 DEF Process
<1> QED BY <1>2, <1>3 DEF LocalInv

\* The row at work: of the gid at work, and sound.
LEMMA RowAtWork ==
  ASSUME TypeInv, NEW r \in Runners, run[r] # Idle
  PROVE  /\ \A q \in NextRecord(r) :
              /\ q \in run[r].recs /\ q.gid = Current(r)
              /\ q.seq \in DOMAIN log /\ log[q.seq].gid = q.gid
              /\ q.seq \in Texts /\ q.version \in Nat
         /\ \A q \in NextConflict(r) :
              /\ q \in run[r].confs
              /\ q.seq \in DOMAIN log /\ log[q.seq].gid = q.gid
<1>1. \A q \in NextRecord(r) : q \in run[r].recs /\ q.gid = Current(r)
  BY DEF NextRecord, First
<1>2. \A q \in NextConflict(r) : q \in run[r].confs
  BY DEF NextConflict, First
<1>3. \A q \in run[r].recs \cup run[r].confs : q.seq \in DOMAIN log /\ log[q.seq].gid = q.gid
  BY AtWork DEF Sound, Described
<1>4. \A q \in run[r].recs : q.version \in Nat
  BY AtWork DEF Records, Record
<1> QED BY <1>1, <1>2, <1>3, <1>4, InTheLog

LEMMA DeferStep ==
  ASSUME TypeInv, NEW r \in Runners, run[r] # Idle, Defer(r)
  PROVE  /\ TypeInv'
         /\ run[r].pc = "page" /\ run'[r].pc = "page"
         /\ run'[r].mode = run[r].mode /\ run'[r].after = run[r].after
         /\ run'[r].latest = run[r].latest /\ run'[r].gids = run[r].gids
         /\ run'[r].more = run[r].more
         /\ \E q \in run[r].recs :
              /\ log[q.seq].gid = q.gid /\ q.seq \in DOMAIN log /\ DependsOnMissing(q.seq)
              /\ run'[r].recs = run[r].recs \ {q}
              /\ run'[r].deferred =
                   Append(run[r].deferred, [seq |-> q.seq, version |-> q.version])
         /\ saved'.deferred = run'[r].deferred
         /\ saved'.after = saved.after /\ saved'.latest = saved.latest
         /\ \A q \in Runners : q # r => run'[q] = run[q]
         /\ UNCHANGED <<relayVars, phase, localVars, cursor, crashes>>
<1>1. PICK q \in NextRecord(r) :
        LET deferred == Append(run[r].deferred, [seq |-> q.seq, version |-> q.version]) IN
        /\ DependsOnMissing(q.seq)
        /\ run' = [run EXCEPT ![r] =
                     [run[r] EXCEPT !.recs = @ \ {q}, !.deferred = deferred]]
        /\ saved' = [saved EXCEPT !.deferred = deferred]
  BY DEF Defer
<1>2. PICK d : d = Append(run[r].deferred, [seq |-> q.seq, version |-> q.version])
  OBVIOUS
<1>3. PICK p : p = Deferring(run[r], q, d)
  OBVIOUS
<1>4. Moves(r, p) /\ saved' = [saved EXCEPT !.deferred = d]
      /\ UNCHANGED <<relayVars, phase, localVars, cursor, crashes>> /\ run[r].pc = "page"
  BY <1>1, <1>2, <1>3 DEF Defer, OnPage, Moves, Deferring
<1>5. q \in run[r].recs /\ q.seq \in DOMAIN log /\ log[q.seq].gid = q.gid
      /\ q.seq \in Texts /\ q.version \in Nat
  BY RowAtWork
<1>6. [seq |-> q.seq, version |-> q.version] \in Waiting
  BY <1>5 DEF Waiting
<1>7. d \in Seq(Waiting) /\ InLog(d)
  <2>1. run[r].deferred \in Seq(Waiting) /\ InLog(run[r].deferred)
    BY AtWork
  <2>2. d \in Seq(Waiting)
    BY <1>2, <1>6, <2>1
  <2>3. PICK w \in Waiting : w = [seq |-> q.seq, version |-> q.version]
    BY <1>6
  <2>4. d = Append(run[r].deferred, w) /\ w.seq = q.seq
    BY <1>2, <2>3
  <2>5. \A i \in DOMAIN d : d[i] = w \/ (i \in DOMAIN run[r].deferred /\ d[i] = run[r].deferred[i])
    BY <2>1, <2>4
  <2> QED BY <1>5, <2>1, <2>2, <2>4, <2>5 DEF InLog
<1>8. /\ p \in Pass /\ p.recs = run[r].recs \ {q} /\ p.deferred = d
      /\ p.pc = run[r].pc /\ p.mode = run[r].mode /\ p.after = run[r].after
      /\ p.latest = run[r].latest /\ p.gids = run[r].gids /\ p.confs = run[r].confs
      /\ p.more = run[r].more
  <2>1. run[r] \in Pass
    BY AtWork
  <2> QED BY <1>3, <1>7, <2>1, PassDefers
<1>9. Sound(p)
  BY <1>7, <1>8, AtWork DEF Sound
<1>10. saved' \in Progress /\ saved'.deferred = d
       /\ saved'.after = saved.after /\ saved'.latest = saved.latest
  BY <1>4, <1>7 DEF TypeInv, SavedInv, Progress
<1>11. SavedInv'
  BY <1>4, <1>7, <1>10 DEF TypeInv, SavedInv, relayVars, InLog
<1>12. LocalInv' /\ RestInv'
  BY <1>4, LeavesLocal, LeavesRest
<1>13. TypeInv' /\ run'[r] = p /\ \A s \in Runners : s # r => run'[s] = run[s]
  BY <1>4, <1>8, <1>9, <1>11, <1>12, MoveTyped
<1> QED BY <1>1, <1>2, <1>4, <1>5, <1>8, <1>10, <1>13

LEMMA TakeRecordStep ==
  ASSUME TypeInv, NEW r \in Runners, run[r] # Idle, TakeRecord(r)
  PROVE  /\ TypeInv'
         /\ run[r].pc = "page" /\ run'[r].pc = "page"
         /\ run'[r].mode = run[r].mode /\ run'[r].after = run[r].after
         /\ run'[r].latest = run[r].latest /\ run'[r].gids = run[r].gids
         /\ run'[r].more = run[r].more /\ run'[r].deferred = run[r].deferred
         /\ \E q \in run[r].recs :
              /\ q.gid = log[q.seq].gid /\ q.seq \in DOMAIN log
              /\ Process(run[r].mode, q.seq, q.version)
              /\ run'[r].recs = run[r].recs \ {q}
              /\ known'[q.gid] >= q.version
              /\ \A p \in run[r].recs : p.gid = q.gid => q.seq <= p.seq
         /\ \A g \in Gids : known'[g] >= known[g]
         /\ \A q \in Runners : q # r => run'[q] = run[q]
         /\ UNCHANGED <<relayVars, phase, saved, cursor, crashes>>
<1>1. PICK q \in NextRecord(r) :
        /\ Process(run[r].mode, q.seq, q.version)
        /\ run' = [run EXCEPT ![r] = WithoutRecord(run[r], q)]
  BY DEF TakeRecord, WithoutRecord
<1>2. PICK p : p = WithoutRecord(run[r], q)
  OBVIOUS
<1>3. Moves(r, p) /\ UNCHANGED <<relayVars, phase, saved, cursor, crashes>>
      /\ run[r].pc = "page"
  BY <1>1, <1>2 DEF TakeRecord, OnPage, Moves
<1>4. q \in run[r].recs /\ q.seq \in DOMAIN log /\ log[q.seq].gid = q.gid /\ q.version \in Nat
  BY RowAtWork
<1>10. \A m \in run[r].recs : m.gid = q.gid => q.seq <= m.seq
  BY DEF NextRecord, First
<1>5. /\ p \in Pass /\ p.recs = run[r].recs \ {q}
      /\ p.pc = run[r].pc /\ p.mode = run[r].mode /\ p.after = run[r].after
      /\ p.latest = run[r].latest /\ p.deferred = run[r].deferred
      /\ p.gids = run[r].gids /\ p.confs = run[r].confs /\ p.more = run[r].more
  <2>1. run[r] \in Pass
    BY AtWork
  <2> QED BY <1>2, <2>1, PassLosesRecord
<1>6. Sound(p)
  BY <1>5, AtWork DEF Sound
<1>7. /\ LocalInv'
      /\ \A g \in Gids : known'[g] >= known[g]
      /\ known'[q.gid] >= q.version
  BY <1>1, <1>4, ProcessStep
<1>8. SavedInv' /\ RestInv'
  BY <1>3, LeavesSaved, LeavesRest
<1>9. TypeInv' /\ run'[r] = p /\ \A s \in Runners : s # r => run'[s] = run[s]
  BY <1>3, <1>5, <1>6, <1>7, <1>8, MoveTyped
<1> QED BY <1>1, <1>3, <1>4, <1>5, <1>7, <1>9, <1>10

LEMMA TakeConflictStep ==
  ASSUME TypeInv, NEW r \in Runners, run[r] # Idle, TakeConflict(r)
  PROVE  /\ TypeInv'
         /\ run[r].pc = "page" /\ run'[r].pc = "page"
         /\ run'[r].mode = run[r].mode /\ run'[r].after = run[r].after
         /\ run'[r].latest = run[r].latest /\ run'[r].gids = run[r].gids
         /\ run'[r].more = run[r].more /\ run'[r].deferred = run[r].deferred
         /\ run'[r].recs = run[r].recs
         /\ files' = files
         /\ \A g \in Files :
              fork'[g] # fork[g] => files[g] # NoText /\ fork'[g] \in Texts
         /\ \A q \in Runners : q # r => run'[q] = run[q]
         /\ UNCHANGED <<relayVars, phase, saved, known, cursor, crashes>>
<1>1. PICK q \in NextConflict(r) :
        /\ IF files[log[q.seq].gid] = NoText THEN UNCHANGED <<fork, files, projects>>
           ELSE ForkUnlessEqual(q.seq)
        /\ run' = [run EXCEPT ![r] = WithoutConflict(run[r], q)]
  BY DEF TakeConflict, WithoutConflict
<1>2. PICK p : p = WithoutConflict(run[r], q)
  OBVIOUS
<1>3. Moves(r, p) /\ UNCHANGED <<relayVars, phase, saved, known, cursor, crashes>>
      /\ run[r].pc = "page"
  BY <1>1, <1>2 DEF TakeConflict, OnPage, Moves
<1>4. /\ p \in Pass /\ p.confs = run[r].confs \ {q}
      /\ p.pc = run[r].pc /\ p.mode = run[r].mode /\ p.after = run[r].after
      /\ p.latest = run[r].latest /\ p.deferred = run[r].deferred
      /\ p.gids = run[r].gids /\ p.recs = run[r].recs /\ p.more = run[r].more
  <2>1. run[r] \in Pass
    BY AtWork
  <2> QED BY <1>2, <2>1, PassLosesConflict
<1>5. Sound(p)
  BY <1>4, AtWork DEF Sound
<1>6. LocalInv' /\ files' = files
  <2>1. CASE UNCHANGED <<fork, files, projects>>
    BY <1>3, <2>1 DEF TypeInv, LocalInv
  <2>2. CASE ForkUnlessEqual(q.seq)
    <3>1. q.seq \in DOMAIN log
      BY RowAtWork
    <3>2. /\ files' \in [Files -> Texts \cup {NoText, Own}] /\ projects' \subseteq Projects
          /\ fork' \in [Files -> Texts \cup {NoFork}]
      BY <2>2, <3>1, ForkTyped
    <3> QED BY <1>3, <2>2, <3>2 DEF TypeInv, LocalInv, ForkUnlessEqual
  <2> QED BY <1>1, <2>1, <2>2
<1>7. SavedInv' /\ RestInv'
  BY <1>3, LeavesSaved, LeavesRest
<1>8. TypeInv' /\ run'[r] = p /\ \A s \in Runners : s # r => run'[s] = run[s]
  BY <1>3, <1>4, <1>5, <1>6, <1>7, MoveTyped
<1>9. ASSUME NEW g \in Files, fork'[g] # fork[g]
      PROVE  files[g] # NoText /\ fork'[g] \in Texts
  <2>1. q.seq \in DOMAIN log /\ q.seq \in Texts
    BY RowAtWork, InTheLog
  <2>2. fork \in [Files -> Texts \cup {NoFork}]
    BY DEF TypeInv, LocalInv
  <2> QED BY <1>1, <1>9, <2>1, <2>2 DEF ForkUnlessEqual
<1> QED BY <1>3, <1>4, <1>6, <1>8, <1>9

\* The gid at work is the least of those that are left.
LEMMA CurrentIsLeast ==
  ASSUME TypeInv, NEW r \in Runners, run[r] # Idle, run[r].gids # {}
  PROVE  Current(r) \in run[r].gids /\ \A g \in run[r].gids : Current(r) <= g
<1>1. run[r].gids \in SUBSET Nat
  BY AtWork, GidsAssumption DEF Gids
<1> QED BY <1>1, MinOfSome DEF Current

LEMMA FinishGidStep ==
  ASSUME TypeInv, NEW r \in Runners, run[r] # Idle, FinishGid(r)
  PROVE  /\ TypeInv'
         /\ run[r].pc = "page" /\ run'[r].pc = "page"
         /\ Current(r) \in run[r].gids /\ \A g \in run[r].gids : Current(r) <= g
         /\ NextRecord(r) = {}
         /\ run'[r].mode = run[r].mode /\ run'[r].after = Current(r)
         /\ run'[r].latest = run[r].latest /\ run'[r].gids = run[r].gids \ {Current(r)}
         /\ run'[r].more = run[r].more /\ run'[r].deferred = run[r].deferred
         /\ run'[r].recs = run[r].recs
         /\ saved'.after = Current(r)
         /\ saved'.deferred = saved.deferred /\ saved'.latest = saved.latest
         /\ \A q \in Runners : q # r => run'[q] = run[q]
         /\ UNCHANGED <<relayVars, phase, localVars, cursor, crashes>>
<1>1. PICK g : g = Current(r)
  OBVIOUS
<1>2. /\ run' = [run EXCEPT ![r] = WithoutGid(run[r], g)]
      /\ saved' = [saved EXCEPT !.after = g]
      /\ UNCHANGED <<relayVars, phase, localVars, cursor, crashes>>
      /\ run[r].pc = "page" /\ run[r].gids # {} /\ NextRecord(r) = {}
  BY <1>1 DEF FinishGid, WithoutGid, AfterGid, OnPage
<1>3. PICK p : p = WithoutGid(run[r], g)
  OBVIOUS
<1>4. g \in run[r].gids /\ g \in Gids /\ \A h \in run[r].gids : g <= h
  BY <1>1, <1>2, CurrentIsLeast, AtWork
<1>5. /\ p \in Pass /\ p.gids = run[r].gids \ {g} /\ p.after = g
      /\ p.pc = run[r].pc /\ p.mode = run[r].mode
      /\ p.latest = run[r].latest /\ p.deferred = run[r].deferred
      /\ p.recs = run[r].recs /\ p.confs = run[r].confs /\ p.more = run[r].more
  <2>1. run[r] \in Pass
    BY AtWork
  <2> QED BY <1>3, <1>4, <2>1, PassLosesGid
<1>6. Sound(p)
  BY <1>5, AtWork DEF Sound
<1>7. saved' \in Progress /\ saved'.after = g
      /\ saved'.deferred = saved.deferred /\ saved'.latest = saved.latest
  BY <1>2, <1>4 DEF TypeInv, SavedInv, Progress
<1>8. SavedInv'
  BY <1>2, <1>7 DEF TypeInv, SavedInv, relayVars, InLog
<1>9. LocalInv' /\ RestInv' /\ Moves(r, p)
  BY <1>2, <1>3, LeavesLocal, LeavesRest DEF Moves
<1>10. TypeInv' /\ run'[r] = p /\ \A s \in Runners : s # r => run'[s] = run[s]
  BY <1>2, <1>5, <1>6, <1>8, <1>9, MoveTyped
<1> QED BY <1>1, <1>2, <1>4, <1>5, <1>7, <1>10

\* A gid is done when none of its records is left.
LEMMA CurrentDone ==
  ASSUME TypeInv, NEW r \in Runners, run[r] # Idle, FinishGid(r)
  PROVE  \A q \in run[r].recs : q.gid # Current(r)
<1> SUFFICES ASSUME NEW q \in run[r].recs, q.gid = Current(r) PROVE FALSE
  OBVIOUS
<1> DEFINE Mine == {s \in run[r].recs : s.gid = Current(r)}
           S == {s.seq : s \in Mine}
<1>1. S \in SUBSET Nat /\ S # {}
  BY AtWork DEF Records, Record
<1>2. PICK m \in S : \A k \in S : m <= k
  BY <1>1, LeastExists
<1>3. PICK s \in run[r].recs : s.gid = Current(r) /\ s.seq = m
  BY <1>2
<1>4. \A k \in run[r].recs : k.gid = Current(r) => s.seq <= k.seq
  BY <1>2, <1>3
<1>5. s \in NextRecord(r)
  BY <1>3, <1>4 DEF NextRecord, First
<1> QED BY <1>5, FinishGidStep

LEMMA PageDoneStep ==
  ASSUME TypeInv, NEW r \in Runners, run[r] # Idle, PageDone(r)
  PROVE  /\ TypeInv'
         /\ run[r].pc = "page" /\ run[r].gids = {}
         /\ run'[r].pc = IF run[r].more THEN "fetch" ELSE "final"
         /\ run'[r].mode = run[r].mode /\ run'[r].after = run[r].after
         /\ run'[r].latest = run[r].latest /\ run'[r].deferred = run[r].deferred
         /\ run'[r].recs = run[r].recs
         /\ \A q \in Runners : q # r => run'[q] = run[q]
         /\ UNCHANGED <<relayVars, phase, saved, localVars, cursor, crashes>>
<1>1. PICK pc \in {"fetch", "page", "final"} : pc = IF run[r].more THEN "fetch" ELSE "final"
  OBVIOUS
<1>2. /\ run' = [run EXCEPT ![r] = At(run[r], pc)]
      /\ UNCHANGED <<relayVars, phase, saved, localVars, cursor, crashes>>
      /\ run[r].pc = "page" /\ run[r].gids = {}
  BY <1>1 DEF PageDone, At
<1>3. PICK p : p = At(run[r], pc)
  OBVIOUS
<1>4. /\ p \in Pass /\ p.pc = pc
      /\ p.mode = run[r].mode /\ p.after = run[r].after
      /\ p.latest = run[r].latest /\ p.deferred = run[r].deferred
      /\ p.recs = run[r].recs /\ p.confs = run[r].confs
  <2>1. run[r] \in Pass
    BY AtWork
  <2> QED BY <1>3, <2>1, PassGoesOn
<1>5. Sound(p)
  BY <1>4, AtWork DEF Sound
<1>6. SavedInv' /\ LocalInv' /\ RestInv' /\ Moves(r, p)
  BY <1>2, <1>3, LeavesSaved, LeavesLocal, LeavesRest DEF Moves
<1>7. TypeInv' /\ run'[r] = p /\ \A s \in Runners : s # r => run'[s] = run[s]
  BY <1>2, <1>4, <1>5, <1>6, MoveTyped
<1> QED BY <1>1, <1>2, <1>4, <1>7

LEMMA TakeDeferredStep ==
  ASSUME TypeInv, NEW r \in Runners, run[r] # Idle, TakeDeferred(r)
  PROVE  /\ TypeInv'
         /\ run[r].pc = "final" /\ run'[r].pc = "final"
         /\ run'[r].mode = run[r].mode /\ run'[r].latest = run[r].latest
         /\ run[r].deferred # <<>> /\ run'[r].deferred = Tail(run[r].deferred)
         /\ run'[r].recs = run[r].recs
         /\ LET q == run[r].deferred[1] IN
            /\ q.seq \in DOMAIN log
            /\ Process(run[r].mode, q.seq, q.version)
            /\ known'[log[q.seq].gid] >= q.version
         /\ \A g \in Gids : known'[g] >= known[g]
         /\ \A q \in Runners : q # r => run'[q] = run[q]
         /\ UNCHANGED <<relayVars, phase, saved, cursor, crashes>>
<1>1. run[r].deferred \in Seq(Waiting) /\ InLog(run[r].deferred) /\ run[r].deferred # <<>>
  BY AtWork DEF TakeDeferred
<1>2. PICK q : q = run[r].deferred[1]
  OBVIOUS
<1>3. q = Head(run[r].deferred) /\ q \in Waiting /\ q.seq \in DOMAIN log
  BY <1>1, <1>2 DEF InLog
<1>4. q.version \in Nat
  BY <1>3 DEF Waiting
<1>5. PICK d : d = Tail(run[r].deferred)
  OBVIOUS
<1>6. d \in Seq(Waiting) /\ InLog(d)
  <2>1. d \in Seq(Waiting)
    BY <1>1, <1>5
  <2>2. \A i \in DOMAIN d : i + 1 \in DOMAIN run[r].deferred /\ d[i] = run[r].deferred[i + 1]
    BY <1>1, <1>5
  <2> QED BY <1>1, <2>1, <2>2 DEF InLog
<1>7. PICK p : p = WithDeferred(run[r], d)
  OBVIOUS
<1>8. /\ run' = [run EXCEPT ![r] = WithDeferred(run[r], d)]
      /\ Process(run[r].mode, q.seq, q.version)
      /\ UNCHANGED <<relayVars, phase, saved, cursor, crashes>>
      /\ run[r].pc = "final"
  BY <1>3, <1>5 DEF TakeDeferred, WithDeferred
<1>9. /\ p \in Pass /\ p.deferred = d
      /\ p.pc = run[r].pc /\ p.mode = run[r].mode
      /\ p.latest = run[r].latest /\ p.recs = run[r].recs /\ p.confs = run[r].confs
  <2>1. run[r] \in Pass
    BY AtWork
  <2> QED BY <1>6, <1>7, <2>1, PassTakesDeferred
<1>10. Sound(p)
  BY <1>6, <1>9, AtWork DEF Sound
<1>11. /\ LocalInv'
       /\ \A g \in Gids : known'[g] >= known[g]
       /\ known'[log[q.seq].gid] >= q.version
  BY <1>3, <1>4, <1>8, ProcessStep
<1>12. SavedInv' /\ RestInv' /\ Moves(r, p)
  BY <1>7, <1>8, LeavesSaved, LeavesRest DEF Moves
<1>13. TypeInv' /\ run'[r] = p /\ \A s \in Runners : s # r => run'[s] = run[s]
  BY <1>8, <1>9, <1>10, <1>11, <1>12, MoveTyped
<1> QED BY <1>1, <1>2, <1>3, <1>5, <1>8, <1>9, <1>11, <1>13

LEMMA FinishStep ==
  ASSUME TypeInv, NEW r \in Runners, run[r] # Idle, Finish(r)
  PROVE  /\ TypeInv'
         /\ run[r].pc = "final" /\ run[r].deferred = <<>>
         /\ phase' = "joined" /\ saved' = NothingSaved /\ run'[r] = Idle
         /\ cursor' \in {cursor, run[r].latest}
         /\ cursor <= cursor' /\ run[r].latest <= cursor'
         /\ \A q \in Runners : q # r => run'[q] = run[q]
         /\ UNCHANGED <<relayVars, localVars, crashes>>
<1>1. /\ Moves(r, Idle) /\ UNCHANGED <<relayVars, localVars, crashes>>
      /\ phase' = "joined" /\ saved' = NothingSaved
      /\ cursor' = Max({cursor, run[r].latest})
      /\ run[r].pc = "final" /\ run[r].deferred = <<>>
  BY DEF Finish, Moves
<1>2. Len(log) \in Nat /\ cursor \in Nat /\ cursor <= Len(log) /\ crashes \in 0..MaxCrashes
  BY DEF TypeInv, TablesInv, RestInv
<1>3. run[r].latest \in Nat /\ run[r].latest <= Len(log)
  BY AtWork
<1>4. cursor' \in {cursor, run[r].latest} /\ cursor <= cursor' /\ run[r].latest <= cursor'
  BY <1>1, <1>2, <1>3, MaxOfTwo
<1>5. RestInv'
  BY <1>1, <1>2, <1>3, <1>4 DEF RestInv, relayVars
<1>6. SavedInv' /\ LocalInv'
  BY <1>1, LeavesLocal DEF SavedInv, NothingSaved, Progress, InLog
<1>7. TypeInv' /\ run'[r] = Idle /\ \A s \in Runners : s # r => run'[s] = run[s]
  BY <1>1, <1>5, <1>6, MoveTyped
<1> QED BY <1>1, <1>4, <1>7

LEMMA CrashStep ==
  ASSUME TypeInv, NEW r \in Runners, Crash(r)
  PROVE  /\ TypeInv'
         /\ run'[r] = Idle
         /\ \A q \in Runners : q # r => run'[q] = run[q]
         /\ UNCHANGED <<relayVars, phase, saved, localVars, cursor>>
<1>1. /\ Moves(r, Idle) /\ UNCHANGED <<relayVars, phase, saved, localVars, cursor>>
      /\ crashes < MaxCrashes /\ crashes' = crashes + 1
  BY DEF Crash, Moves
<1>2. RestInv'
  BY <1>1, LimitsAssumption DEF TypeInv, RestInv, relayVars
<1>3. SavedInv' /\ LocalInv'
  BY <1>1, LeavesLocal, LeavesSaved
<1> QED BY <1>1, <1>2, <1>3, MoveTyped

\* A pull moves the cursor over one op, and learns the version after it.
LEMMA PullStep ==
  ASSUME TypeInv, Pull
  PROVE  /\ TypeInv'
         /\ cursor + 1 \in DOMAIN log /\ cursor' = cursor + 1 /\ phase = "joined"
         /\ known'[log[cursor + 1].gid] >= V(log[cursor + 1].gid, cursor + 1)
         /\ \A g \in Gids : known'[g] >= known[g]
         /\ UNCHANGED <<relayVars, phase, saved, run, crashes>>
<1>1. PICK seq \in DOMAIN log \cap Texts :
        /\ seq = cursor + 1
        /\ IF ShouldFork(seq) THEN ForkUnlessEqual(seq) ELSE PullApply(seq)
        /\ RecordVersion(log[seq].gid,
                         VersionAt(log, log[seq].gid, KindFamily(log[seq].kind), seq))
        /\ cursor' = seq
  BY DEF Pull
<1>2. UNCHANGED <<log, records, parked, phase, saved, run, crashes>> /\ phase = "joined"
  BY DEF Pull, relayVars
<1>3. seq \in Texts /\ log[seq].gid \in Gids
  BY <1>1, InTheLog
<1>4. /\ log \in Seq(Entries) /\ Len(log) \in Nat /\ DOMAIN log = 1..Len(log)
      /\ KindFamily(log[seq].kind) = Family(log[seq].gid)
  BY <1>1 DEF TypeInv, TablesInv
<1>5. VersionAt(log, log[seq].gid, KindFamily(log[seq].kind), seq) = V(log[seq].gid, seq)
      /\ V(log[seq].gid, seq) \in Nat
  BY <1>4, VersionFinite DEF V
<1>6. /\ known' \in [Gids -> Nat]
      /\ \A g \in Gids : known'[g] >= known[g]
      /\ known'[log[seq].gid] >= V(log[seq].gid, seq)
  BY <1>1, <1>3, <1>5, RecordVersionStep
<1>7. /\ files' \in [Files -> Texts \cup {NoText, Own}] /\ projects' \subseteq Projects
      /\ fork' \in [Files -> Texts \cup {NoFork}]
  <2>1. CASE ForkUnlessEqual(seq)
    BY <1>1, <2>1, ForkTyped
  <2>2. CASE PullApply(seq)
    BY <1>3, <2>2 DEF PullApply, TypeInv, LocalInv
  <2> QED BY <1>1, <2>1, <2>2
<1>8. LocalInv'
  BY <1>6, <1>7 DEF LocalInv
<1>9. cursor' \in 0..Len(log)
  BY <1>1, <1>3, <1>4 DEF Texts
<1>10. RestInv'
  BY <1>2, <1>9 DEF TypeInv, RestInv
<1>11. TablesInv'
  BY <1>2, SameTables DEF TypeInv
<1>12. SavedInv' /\ RunInv'
  BY <1>2 DEF TypeInv, SavedInv, RunInv, Sound, Described, InLog
<1> QED BY <1>1, <1>2, <1>6, <1>8, <1>10, <1>11, <1>12 DEF TypeInv, relayVars

LEMMA TypedNext == TypeInv /\ [Next]_vars => TypeInv'
<1> SUFFICES ASSUME TypeInv, [Next]_vars PROVE TypeInv'
  OBVIOUS
<1>1. CASE OthersWrite
  BY <1>1, OthersTyped
<1>2. CASE Join
  BY <1>2, JoinTyped
<1>3. CASE RunnerStep
  BY <1>3, StartStep, FetchStep, DeferStep, TakeRecordStep, TakeConflictStep,
     FinishGidStep, PageDoneStep, TakeDeferredStep, FinishStep DEF RunnerStep
<1>4. CASE Pull
  BY <1>4, PullStep
<1>5. CASE \E r \in Runners : Crash(r)
  BY <1>5, CrashStep
<1>6. CASE UNCHANGED vars
  <2>1. UNCHANGED <<log, records, parked, phase, saved, files, projects, known, fork,
                    cursor, run, crashes>>
    BY <1>6 DEF vars, relayVars, localVars
  <2>2. TablesInv'
    BY <2>1, SameTables DEF TypeInv
  <2>3. SavedInv' /\ RunInv' /\ LocalInv' /\ RestInv'
    BY <2>1 DEF TypeInv, SavedInv, RunInv, LocalInv, RestInv, Sound, Described, InLog
  <2> QED BY <2>2, <2>3 DEF TypeInv
<1> QED BY <1>1, <1>2, <1>3, <1>4, <1>5, <1>6 DEF Next

-----------------------------------------------------------------------------
(* A text of this machine's own is kept.                                    *)

\* A pass that runs in the mode of an empty machine finds no text of its own,
\* and before a join there is none.
KeptInv ==
  /\ phase = "out" => \A g \in Files : files[g] # Own
  /\ \A r \in Runners :
       run[r] # Idle =>
         /\ phase # "out"
         /\ run[r].mode # "merge" => \A g \in Files : files[g] # Own

\* A step that brings no text of this machine's own, and takes none but by a delete.
Respects ==
  \A g \in Files : /\ files[g] # Own => files'[g] # Own
                   /\ files[g] = Own => files'[g] \in {Own, NoText}

\* Fork or not, the files stay.
LEMMA ForkRespects ==
  ASSUME NEW seq, ForkUnlessEqual(seq)
  PROVE  Respects
BY DEF ForkUnlessEqual, Respects

\* A record respects them, in the mode its pass runs in.
LEMMA ProcessRespects ==
  ASSUME TypeInv, KeptInv, NEW r \in Runners, NEW seq \in DOMAIN log, NEW version,
         run[r] # Idle, Process(run[r].mode, seq, version)
  PROVE  Respects
<1>1. CASE KeepsLocal(run[r].mode, seq)
  BY <1>1, ForkRespects DEF Process
<1>2. CASE ~KeepsLocal(run[r].mode, seq)
  <2>1. ApplyRecord(seq)
    BY <1>2 DEF Process
  <2>2. CASE ~IsContent(seq)
    BY <2>1, <2>2 DEF ApplyRecord, Respects
  <2>3. CASE IsContent(seq)
    <3>1. PICK h : h = log[seq].gid
      OBVIOUS
    <3>2. files' = [files EXCEPT ![h] = seq] /\ seq # Own
      BY <2>1, <2>3, <3>1, InTheLog DEF ApplyRecord
    <3>3. h \in Files => files[h] # Own
      BY <1>2, <2>3, <3>1, ValuesAssumption DEF KeepsLocal, KeptInv
    <3>4. \A g \in Files : files'[g] = IF g = h THEN seq ELSE files[g]
      BY <3>2 DEF TypeInv, LocalInv
    <3> QED BY <3>2, <3>3, <3>4 DEF Respects
  <2> QED BY <2>2, <2>3
<1> QED BY <1>1, <1>2

\* A step that respects the files, starts no pass and leaves the modes alone.
LEMMA Carry ==
  ASSUME KeptInv, Respects, phase' = "out" => phase = "out",
         \A r \in Runners : run'[r] # Idle => run[r] # Idle /\ run'[r].mode = run[r].mode
  PROVE  KeptInv'
<1>1. phase' = "out" => \A g \in Files : files'[g] # Own
  BY DEF KeptInv, Respects
<1>2. ASSUME NEW r \in Runners, run'[r] # Idle
      PROVE  phase' # "out" /\ (run'[r].mode # "merge" => \A g \in Files : files'[g] # Own)
  BY <1>2 DEF KeptInv, Respects
<1> QED BY <1>1, <1>2 DEF KeptInv

LEMMA StartKept ==
  ASSUME TypeInv, KeptInv, NEW r \in Runners, Start(r)
  PROVE  KeptInv' /\ Respects
<1>1. phase = "joining" /\ phase' = phase /\ files' = files
  BY StartStep DEF localVars
<1>2. ASSUME NEW q \in Runners, run'[q] # Idle, run'[q].mode # "merge"
      PROVE  \A g \in Files : files[g] # Own
  <2>1. CASE q = r
    <3>1. Mode # "merge"
      BY <1>2, <2>1, StartStep
    <3> QED BY <3>1, ValuesAssumption DEF Mode
  <2>2. CASE q # r
    BY <1>2, <2>2, StartStep DEF KeptInv
  <2> QED BY <2>1, <2>2
<1> QED BY <1>1, <1>2 DEF KeptInv, Respects

\* The other steps of a pass.
LEMMA PassKept ==
  ASSUME TypeInv, KeptInv, NEW r \in Runners, run[r] # Idle,
         \/ Fetch(r) \/ Defer(r) \/ TakeRecord(r) \/ TakeConflict(r)
         \/ FinishGid(r) \/ PageDone(r) \/ TakeDeferred(r) \/ Finish(r)
  PROVE  KeptInv' /\ Respects
<1>1. CASE Fetch(r) \/ Defer(r) \/ FinishGid(r) \/ PageDone(r)
  <2>1. /\ files' = files /\ phase' = phase /\ run'[r].mode = run[r].mode
        /\ \A q \in Runners : q # r => run'[q] = run[q]
    BY <1>1, FetchStep, DeferStep, FinishGidStep, PageDoneStep DEF localVars
  <2>2. Respects
    BY <2>1 DEF Respects
  <2> QED BY <2>1, <2>2, Carry
<1>2. CASE TakeConflict(r)
  <2>1. /\ files' = files /\ phase' = phase /\ run'[r].mode = run[r].mode
        /\ \A q \in Runners : q # r => run'[q] = run[q]
    BY <1>2, TakeConflictStep
  <2>2. Respects
    BY <2>1 DEF Respects
  <2> QED BY <2>1, <2>2, Carry
<1>3. CASE TakeRecord(r)
  <2>1. /\ phase' = phase /\ run'[r].mode = run[r].mode
        /\ \A q \in Runners : q # r => run'[q] = run[q]
    BY <1>3, TakeRecordStep
  <2>2. PICK q \in run[r].recs :
          q.seq \in DOMAIN log /\ Process(run[r].mode, q.seq, q.version)
    BY <1>3, TakeRecordStep
  <2>3. Respects
    BY <2>2, ProcessRespects
  <2> QED BY <2>1, <2>3, Carry
<1>4. CASE TakeDeferred(r)
  <2>1. /\ phase' = phase /\ run'[r].mode = run[r].mode
        /\ \A q \in Runners : q # r => run'[q] = run[q]
    BY <1>4, TakeDeferredStep
  <2>2. PICK q : q.seq \in DOMAIN log /\ Process(run[r].mode, q.seq, q.version)
    BY <1>4, TakeDeferredStep
  <2>3. Respects
    BY <2>2, ProcessRespects
  <2> QED BY <2>1, <2>3, Carry
<1>5. CASE Finish(r)
  <2>1. /\ files' = files /\ phase' = "joined" /\ run'[r] = Idle
        /\ \A q \in Runners : q # r => run'[q] = run[q]
    BY <1>5, FinishStep DEF localVars
  <2>2. Respects
    BY <2>1 DEF Respects
  <2> QED BY <2>1, <2>2, Carry
<1> QED BY <1>1, <1>2, <1>3, <1>4, <1>5

\* A pulled op goes beside a text of this machine's own, or deletes it.
LEMMA PullKept ==
  ASSUME TypeInv, KeptInv, Pull
  PROVE  KeptInv' /\ Respects
<1>1. PICK seq \in DOMAIN log : IF ShouldFork(seq) THEN ForkUnlessEqual(seq) ELSE PullApply(seq)
  BY DEF Pull
<1>2. Respects
  <2>1. CASE ShouldFork(seq)
    BY <1>1, <2>1, ForkRespects
  <2>2. CASE ~ShouldFork(seq)
    <3>1. PICK h : h = log[seq].gid
      OBVIOUS
    <3>2. PullApply(seq) /\ seq # Own /\ files \in [Files -> Texts \cup {NoText, Own}]
      BY <1>1, <2>2, InTheLog DEF TypeInv, LocalInv
    <3>3. CASE log[seq].kind = "file.delete"
      BY <3>2, <3>3, ValuesAssumption DEF PullApply, Respects
    <3>4. CASE log[seq].kind # "file.delete" /\ IsContent(seq)
      <4>1. files[h] # Own
        BY <2>2, <3>1, <3>2, <3>4, ValuesAssumption DEF ShouldFork
      <4>2. files' = [files EXCEPT ![h] = seq]
        BY <3>1, <3>2, <3>4 DEF PullApply
      <4> QED BY <3>2, <4>1, <4>2 DEF Respects
    <3>5. CASE log[seq].kind # "file.delete" /\ ~IsContent(seq)
      BY <3>2, <3>5 DEF PullApply, Respects
    <3> QED BY <3>3, <3>4, <3>5
  <2> QED BY <2>1, <2>2
<1>3. phase' = phase /\ run' = run
  BY DEF Pull
<1> QED BY <1>2, <1>3, Carry

\* Before a join there is nothing to lose, and no pass that could take it.
OwnKept == \A g \in Files : files[g] = Own => files'[g] \in {Own, NoText}

LEMMA JoinKept ==
  ASSUME KeptInv, Join
  PROVE  KeptInv' /\ OwnKept
BY DEF Join, KeptInv, OwnKept

LEMMA UnchangedKept ==
  ASSUME KeptInv, UNCHANGED <<files, run, phase>>
  PROVE  KeptInv' /\ Respects
BY DEF KeptInv, Respects

LEMMA StepKept ==
  ASSUME TypeInv, KeptInv, [Next]_vars
  PROVE  KeptInv' /\ OwnKept
<1>1. CASE OthersWrite
  BY <1>1, OthersTyped, UnchangedKept DEF Respects, OwnKept, localVars
<1>2. CASE Join
  BY <1>2, JoinKept
<1>3. CASE RunnerStep
  BY <1>3, StartKept, PassKept DEF RunnerStep, Respects, OwnKept
<1>4. CASE Pull
  BY <1>4, PullKept DEF Respects, OwnKept
<1>5. ASSUME NEW r \in Runners, Crash(r) PROVE KeptInv' /\ OwnKept
  <2>1. /\ files' = files /\ phase' = phase /\ run'[r] = Idle
        /\ \A q \in Runners : q # r => run'[q] = run[q]
    BY <1>5, CrashStep DEF localVars
  <2>2. Respects
    BY <2>1 DEF Respects
  <2> QED BY <2>1, <2>2, Carry DEF Respects, OwnKept
<1>6. CASE UNCHANGED vars
  BY <1>6, UnchangedKept DEF vars, localVars, Respects, OwnKept
<1> QED BY <1>1, <1>2, <1>3, <1>4, <1>5, <1>6 DEF Next

\* Joining a brain never overwrites a text only this machine has, whatever is
\* paged, deferred, forked, pulled or restarted meanwhile, by any number of loops.
THEOREM Joining == Spec => OwnTextKept
<1>1. Init => KeptInv
  BY ValuesAssumption DEF Init, KeptInv
<1>2. TypeInv /\ KeptInv /\ [Next]_vars => KeptInv' /\ [OwnKept]_vars
  BY StepKept
<1> QED BY <1>1, <1>2, InitTyped, TypedNext, PTL DEF Spec, OwnTextKept, OwnKept

-----------------------------------------------------------------------------
(* The cover: what the machine has of the ops the cursor will pass over, or *)
(* will have when the deferred, and the rows of the page, are worked off.   *)

\* The machine has the effect of the ops of g up to n, or needs it no more.
Has(g, n) == known[g] >= V(g, n) \/ Gone(g)

Waits(deferred, g, n) ==
  \E i \in DOMAIN deferred : log[deferred[i].seq].gid = g /\ deferred[i].version >= V(g, n)
Carries(recs, g, n) == \E q \in recs : q.gid = g /\ q.version >= V(g, n)

\* What settings say is done is done, as of the first page's seq.
SavedCover ==
  /\ saved.latest = NoLatest => saved.after = 0
  /\ saved.latest # NoLatest =>
       \A g \in Gids :
         g <= saved.after => Has(g, saved.latest) \/ Waits(saved.deferred, g, saved.latest)

\* A pass has saved what it has done, and the rest of its page is at hand; the last
\* page leaves nothing.
PassCover(p) ==
  /\ phase = "joining"
  /\ saved.latest # NoLatest => p.latest = saved.latest
  /\ p.pc \in {"page", "final"} => saved.latest # NoLatest
  /\ p.pc \in {"fetch", "page"} => p.after = saved.after /\ p.deferred = saved.deferred
  /\ p.pc = "page" =>
       \A g \in Gids :
         g > p.after /\ (~p.more \/ \E h \in p.gids : g <= h) =>
           \/ Has(g, p.latest) \/ Waits(p.deferred, g, p.latest)
           \/ g \in p.gids /\ Carries(p.recs, g, p.latest)
  /\ p.pc = "final" =>
       \A g \in Gids : Has(g, p.latest) \/ Waits(p.deferred, g, p.latest)

CursorInv ==
  /\ phase = "joined" => \A g \in Gids : Has(g, cursor)
  /\ phase # "joined" => cursor = 0

CoverInv ==
  CursorInv /\ SavedCover /\ \A r \in Runners : run[r] # Idle => PassCover(run[r])

\* The bootstrap saves its progress in settings, which two loops of one data
\* directory would share: the one that finishes deletes it under the other.
OneRunner == \A r, q \in Runners : r = q

-----------------------------------------------------------------------------
(* Pages.                                                                   *)

\* The gids up to one of them are finitely many, and grow with it.
LEMMA UpTo ==
  ASSUME NEW R \in SUBSET Nat, NEW g \in Nat, NEW h \in Nat, g <= h
  PROVE  /\ IsFiniteSet({x \in R : x <= h})
         /\ Cardinality({x \in R : x <= g}) <= Cardinality({x \in R : x <= h})
         /\ Cardinality({x \in R : x <= g}) \in Nat
         /\ Cardinality({x \in R : x <= h}) \in Nat
<1>1. IsFiniteSet(0..h)
  <2>1. 0 \in Int /\ h \in Int
    OBVIOUS
  <2> QED BY <2>1, FS_Interval
<1>0. \A x \in R : x \in Nat
  OBVIOUS
<1>2. {x \in R : x <= h} \subseteq 0..h
  <2>1. \A x \in R : x <= h => x \in 0..h
    BY <1>0
  <2> QED BY <2>1
<1>3. IsFiniteSet({x \in R : x <= h})
  BY <1>1, <1>2, FS_Subset
<1>4. {x \in R : x <= g} \subseteq {x \in R : x <= h}
  <2>1. \A x \in R : x <= g => x <= h
    BY <1>0
  <2> QED BY <2>1
<1>5. /\ IsFiniteSet({x \in R : x <= g})
      /\ Cardinality({x \in R : x <= g}) <= Cardinality({x \in R : x <= h})
  BY <1>3, <1>4, FS_Subset
<1> QED BY <1>3, <1>5, FS_CardinalityType

\* A page leaves out none before its last, and is full if it leaves out any.
LEMMA PageOf ==
  ASSUME NEW R \in SUBSET Nat, NEW n \in Nat \ {0}, NEW page,
         page = {g \in R : Cardinality({x \in R : x <= g}) <= n}
  PROVE  /\ \A g \in R, h \in page : g <= h => g \in page
         /\ Cardinality(page) # n => page = R
<1> DEFINE B(g) == {x \in R : x <= g}
<1>1. \A g, h \in R : g <= h => /\ IsFiniteSet(B(h))
                                /\ Cardinality(B(g)) <= Cardinality(B(h))
                                /\ Cardinality(B(g)) \in Nat /\ Cardinality(B(h)) \in Nat
  BY UpTo
<1>2. \A g : g \in page <=> g \in R /\ Cardinality(B(g)) <= n
  OBVIOUS
<1>3. \A g \in R : IsFiniteSet(B(g)) /\ \A x : x \in B(g) <=> x \in R /\ x <= g
  BY <1>1
<1> HIDE DEF B
<1>4. ASSUME NEW g \in R, NEW h \in page, g <= h PROVE g \in page
  <2>1. h \in R /\ Cardinality(B(h)) <= n
    BY <1>2
  <2>2. Cardinality(B(g)) <= Cardinality(B(h)) /\ Cardinality(B(g)) \in Nat
        /\ Cardinality(B(h)) \in Nat
    BY <1>1, <1>4, <2>1
  <2> QED BY <1>2, <2>1, <2>2
<1>5. ASSUME page # R PROVE Cardinality(page) = n
  <2>1. page \subseteq R /\ R \ page \in SUBSET Nat /\ R \ page # {}
    BY <1>2, <1>5
  <2>2. PICK g \in R \ page : \A x \in R \ page : g <= x
    BY <2>1, LeastExists
  <2>3. \A x \in R : x \in page => x < g
    <3> SUFFICES ASSUME NEW x \in R, x \in page, ~(x < g) PROVE FALSE
      OBVIOUS
    <3>1. g <= x
      OBVIOUS
    <3> QED BY <1>4, <2>2, <3>1
  <2>4. \A x \in R : x < g => x \in page
    BY <2>2
  <2>5. B(g) = page \cup {g} /\ g \notin page
    <3>1. g \in R /\ g \notin page /\ \A x \in R : x \in Nat
      BY <2>2
    <3>2. \A x \in R : x <= g <=> x < g \/ x = g
      BY <3>1
    <3>3. \A x \in R : x <= g <=> x \in page \/ x = g
      BY <2>3, <2>4, <3>2
    <3>4. \A x : x \in B(g) <=> x \in page \/ x = g
      BY <1>3, <2>1, <3>1, <3>3
    <3> QED BY <3>1, <3>4
  <2>6. IsFiniteSet(page)
    <3>1. page \subseteq B(g)
      BY <2>5
    <3> QED BY <1>3, <2>2, <3>1, FS_Subset
  <2>7. Cardinality(page) \in Nat /\ Cardinality(B(g)) = Cardinality(page) + 1
    BY <2>5, <2>6, FS_AddElement, FS_CardinalityType
  <2>8. Cardinality(page) + 1 > n
    BY <1>2, <2>2, <2>7
  <2>9. page # {}
    <3>1. page = {} => Cardinality(page) = 0
      BY FS_EmptySet
    <3>2. ~(0 + 1 > n)
      OBVIOUS
    <3> QED BY <2>7, <2>8, <3>1, <3>2
  <2>10. PICK m \in page : \A x \in page : x <= m
    <3>1. g \in Nat /\ \A x \in page : x \in R /\ x \in Nat
      BY <2>1, <2>2
    <3>2. \A x \in page : x <= g
      BY <2>3, <3>1
    <3>3. page \in SUBSET Nat
      BY <3>1
    <3> QED BY <2>9, <3>1, <3>2, <3>3, MaxOfBounded
  <2>11. Cardinality(page) <= n
    <3>1. m \in R /\ Cardinality(B(m)) <= n /\ Cardinality(B(m)) \in Nat
      BY <1>1, <1>2, <2>1
    <3>2. page \subseteq B(m)
      BY <1>3, <2>1, <2>10
    <3>3. Cardinality(page) <= Cardinality(B(m))
      BY <1>3, <3>1, <3>2, FS_Subset
    <3> QED BY <2>7, <3>1, <3>3
  <2>12. PICK c \in Nat : c = Cardinality(page)
    BY <2>7
  <2>13. c + 1 > n /\ c <= n
    BY <2>8, <2>11, <2>12
  <2>14. c = n
    BY <2>13
  <2> QED BY <2>12, <2>14
<1> QED BY <1>4, <1>5

\* Versions only grow along the log.
LEMMA VersionGrows ==
  ASSUME TypeInv, NEW g, NEW n \in Nat, n <= Len(log)
  PROVE  V(g, n) <= V(g, Len(log)) /\ V(g, n) \in Nat /\ V(g, Len(log)) \in Nat
<1>1. log \in Seq(Entries) /\ Len(log) \in Nat /\ DOMAIN log = 1..Len(log)
  BY DEF TypeInv, TablesInv
<1>2. AcceptedUpTo(log, g, Family(g), n) \subseteq AcceptedUpTo(log, g, Family(g), Len(log))
  BY <1>1 DEF AcceptedUpTo
<1>3. V(g, n) <= V(g, Len(log))
  BY <1>1, <1>2, VersionFinite, FS_Subset DEF V, VersionAt
<1> QED BY <1>1, <1>3, VersionFinite

\* The page a pass fetches carries every gid it covers, and the last covers all.
LEMMA PageCarries ==
  ASSUME TypeInv, NEW r \in Runners, run[r] # Idle,
         NEW page, page = PageAfter(run[r].after),
         NEW recs, recs = {q \in records : q.gid \in page /\ ~q.deleted},
         NEW n \in Nat, n <= Len(log),
         NEW g \in Gids, g > run[r].after,
         Cardinality(page) # PageLimit \/ \E h \in page : g <= h
  PROVE  Has(g, n) \/ (g \in page /\ Carries(recs, g, n))
<1>1. PICK R : R = Remaining(run[r].after)
  OBVIOUS
<1>2. R \in SUBSET Nat /\ PageLimit \in Nat \ {0}
  BY <1>1, GidsAssumption, LimitsAssumption DEF Remaining, Gids
<1>3. page = {h \in R : Cardinality({x \in R : x <= h}) <= PageLimit}
  BY <1>1 DEF PageAfter
<1>4. g \in R => g \in page
  <2>1. PICK k \in Nat \ {0} : k = PageLimit
    BY <1>2
  <2>2. page = {h \in R : Cardinality({x \in R : x <= h}) <= k}
    BY <1>3, <2>1
  <2>3. /\ \A a \in R, b \in page : a <= b => a \in page
        /\ Cardinality(page) # k => page = R
    BY <1>2, <2>2, PageOf
  <2> QED BY <2>1, <2>3
<1>5. V(g, n) \in Nat /\ V(g, n) <= V(g, Len(log)) /\ V(g, Len(log)) \in Nat
  BY VersionGrows
<1>6. CASE Gone(g)
  BY <1>6 DEF Has
<1>7. CASE KindsOf(g) = {}
  <2>1. AcceptedUpTo(log, g, Family(g), n) = {}
    BY <1>7 DEF AcceptedUpTo, KindsOf
  <2>2. V(g, n) = 0
    BY <2>1, FS_EmptySet DEF V, VersionAt
  <2>3. known[g] \in Nat
    BY DEF TypeInv, LocalInv
  <2>4. known[g] >= V(g, n)
    BY <2>2, <2>3
  <2> QED BY <2>4 DEF Has
<1>8. ASSUME NEW q \in records, Stands(g, q) PROVE g \in page /\ Carries(recs, g, n)
  <2>1. q.gid = g /\ ~q.deleted /\ q.version >= V(g, Len(log))
    BY <1>8 DEF Stands
  <2>2. g \in page
    BY <1>1, <1>4, <2>1 DEF Remaining
  <2>3. q.version \in Nat
    BY DEF TypeInv, TablesInv, Records, Record
  <2>4. q.version >= V(g, n)
    BY <1>5, <2>1, <2>3
  <2> QED BY <2>1, <2>2, <2>4 DEF Carries
<1> QED BY <1>6, <1>7, <1>8 DEF TypeInv, TablesInv

\* What a step may do to the past: nothing, but for versions the machine learns.
Ages ==
  /\ \A i \in DOMAIN log : i \in DOMAIN log' /\ log'[i] = log[i]
  /\ \A g : Gone(g) => Gone(g)'
  /\ \A g : \A n \in Nat : n <= Len(log) => V(g, n)' = V(g, n)
  /\ \A g \in Gids : known'[g] >= known[g]

LEMMA QuietAges ==
  ASSUME TypeInv, UNCHANGED relayVars, \A g \in Gids : known'[g] >= known[g]
  PROVE  Ages /\ log' = log
<1>1. log' = log
  BY DEF relayVars
<1>2. \A g : KindsOf(g)' = KindsOf(g)
  BY <1>1 DEF KindsOf
<1>3. \A g, n : V(g, n)' = V(g, n)
  BY <1>1 DEF V, Family
<1> QED BY <1>1, <1>2, <1>3 DEF Ages, Gone

LEMMA SameKnown ==
  ASSUME TypeInv, UNCHANGED known
  PROVE  \A g \in Gids : known'[g] >= known[g]
<1>1. \A g \in Gids : known[g] \in Nat
  BY DEF TypeInv, LocalInv
<1> QED BY <1>1

LEMMA OthersAges ==
  ASSUME TypeInv, OthersWrite
  PROVE  Ages
<1>1. PICK e \in Entries : log' = Append(log, e)
  BY OthersTyped
<1>2. log \in Seq(Entries) /\ known' = known
  BY OthersTyped DEF TypeInv, TablesInv, localVars
<1>3. \A i \in DOMAIN log : i \in DOMAIN log' /\ log'[i] = log[i]
  BY <1>1, <1>2
<1>4. \A g : Gone(g) => Gone(g)'
  BY <1>1, <1>2, Appends DEF Gone
<1>5. \A g : \A n \in Nat : n <= Len(log) => V(g, n)' = V(g, n)
  BY <1>1, <1>2, VersionAppends
<1> QED BY <1>2, <1>3, <1>4, <1>5, SameKnown DEF Ages

\* So what is had stays had, what waits waits, and rows go on carrying.
LEMMA AgesKeeps ==
  ASSUME TypeInv, TypeInv', Ages, NEW g \in Gids, NEW n \in Nat, n <= Len(log)
  PROVE  /\ Has(g, n) => Has(g, n)'
         /\ \A d : InLog(d) /\ Waits(d, g, n) => Waits(d, g, n)'
         /\ \A recs : Carries(recs, g, n) => Carries(recs, g, n)'
<1>1. V(g, n)' = V(g, n) /\ V(g, n) \in Nat
  BY VersionGrows DEF Ages
<1>2. Has(g, n) => Has(g, n)'
  <2>1. known[g] \in Nat /\ known'[g] \in Nat /\ known'[g] >= known[g]
    BY DEF TypeInv, LocalInv, Ages
  <2>2. known[g] >= V(g, n) => known'[g] >= V(g, n)
    BY <1>1, <2>1
  <2>3. Gone(g) => Gone(g)'
    BY DEF Ages
  <2> QED BY <1>1, <2>2, <2>3 DEF Has
<1>3. ASSUME NEW d, InLog(d), Waits(d, g, n) PROVE Waits(d, g, n)'
  BY <1>1, <1>3 DEF Waits, InLog, Ages
<1>4. \A recs : Carries(recs, g, n) => Carries(recs, g, n)'
  BY <1>1 DEF Carries
<1> QED BY <1>2, <1>3, <1>4

LEMMA CursorKept ==
  ASSUME TypeInv, TypeInv', Ages, CursorInv, UNCHANGED <<phase, cursor>>
  PROVE  CursorInv'
<1>1. cursor \in Nat /\ cursor <= Len(log)
  BY DEF TypeInv, RestInv, TablesInv
<1>2. PICK n : n = cursor
  OBVIOUS
<1>3. ASSUME phase = "joined", NEW g \in Gids PROVE Has(g, n)'
  <2>1. Has(g, n)
    BY <1>2, <1>3 DEF CursorInv
  <2> QED BY <1>1, <1>2, <2>1, AgesKeeps
<1>4. phase = "joined" => \A g \in Gids : Has(g, cursor)'
  BY <1>2, <1>3
<1> QED BY <1>4 DEF CursorInv

LEMMA SavedKept ==
  ASSUME TypeInv, TypeInv', Ages, SavedCover, UNCHANGED saved
  PROVE  SavedCover'
<1>1. PICK s \in Progress : s = saved
  BY DEF TypeInv, SavedInv
<1>2. InLog(s.deferred) /\ (s.latest # NoLatest => s.latest \in Nat /\ s.latest <= Len(log))
  BY <1>1 DEF TypeInv, SavedInv, Progress
<1>3. ASSUME s.latest # NoLatest, NEW g \in Gids, g <= s.after
      PROVE  Has(g, s.latest)' \/ Waits(s.deferred, g, s.latest)'
  <2>1. Has(g, s.latest) \/ Waits(s.deferred, g, s.latest)
    BY <1>1, <1>3 DEF SavedCover
  <2> QED BY <1>2, <1>3, <2>1, AgesKeeps
<1>4. s = saved'
  BY <1>1
<1>5. s.latest # NoLatest =>
        \A g \in Gids : g <= s.after =>
          Has(g, saved.latest)' \/ Waits(saved.deferred, g, saved.latest)'
  BY <1>3, <1>4
<1> QED BY <1>1, <1>4, <1>5 DEF SavedCover

LEMMA PassAged ==
  ASSUME TypeInv, TypeInv', Ages, NEW p \in Pass, Sound(p), PassCover(p),
         UNCHANGED <<phase, saved>>
  PROVE  PassCover(p)'
<1>1. p.latest \in Nat /\ p.latest <= Len(log) /\ InLog(p.deferred)
  BY DEF Pass, Sound
<1>2. ASSUME p.pc = "page", NEW g \in Gids, g > p.after, ~p.more \/ \E h \in p.gids : g <= h
      PROVE  \/ Has(g, p.latest)' \/ Waits(p.deferred, g, p.latest)'
             \/ g \in p.gids /\ Carries(p.recs, g, p.latest)'
  <2>1. \/ Has(g, p.latest) \/ Waits(p.deferred, g, p.latest)
        \/ g \in p.gids /\ Carries(p.recs, g, p.latest)
    BY <1>2 DEF PassCover
  <2> QED BY <1>1, <2>1, AgesKeeps
<1>3. ASSUME p.pc = "final", NEW g \in Gids
      PROVE  Has(g, p.latest)' \/ Waits(p.deferred, g, p.latest)'
  <2>1. Has(g, p.latest) \/ Waits(p.deferred, g, p.latest)
    BY <1>3 DEF PassCover
  <2> QED BY <1>1, <2>1, AgesKeeps
<1> QED BY <1>2, <1>3 DEF PassCover

\* Nothing moves but the log, and what the machine knows.
LEMMA AgedCover ==
  ASSUME TypeInv, TypeInv', Ages, CoverInv, UNCHANGED <<phase, cursor, saved, run>>
  PROVE  CoverInv'
<1>1. ASSUME NEW r \in Runners, run[r] # Idle PROVE PassCover(run[r])'
  <2>1. PICK p \in Pass : p = run[r] /\ Sound(p)
    BY <1>1, AtWork
  <2>2. PassCover(p)'
    BY <1>1, <2>1, PassAged DEF CoverInv
  <2> QED BY <2>1, <2>2
<1> QED BY <1>1, CursorKept, SavedKept DEF CoverInv

LEMMA JoinCover ==
  ASSUME TypeInv, CoverInv, Join
  PROVE  CoverInv'
<1>1. /\ phase = "out" /\ phase' = "joining"
      /\ UNCHANGED <<relayVars, known, cursor, saved, run>>
  BY DEF Join
<1>2. TypeInv' /\ Ages
  BY <1>1, JoinTyped, SameKnown, QuietAges
<1>3. \A r \in Runners : run[r] = Idle
  BY <1>1 DEF CoverInv, PassCover
<1>4. SavedCover'
  BY <1>1, <1>2, SavedKept DEF CoverInv
<1> QED BY <1>1, <1>3, <1>4 DEF CoverInv, CursorInv

\* What a step of the one runner has to keep.
LEMMA OneRunnerCover ==
  ASSUME OneRunner, NEW r \in Runners, CursorInv', SavedCover',
         run'[r] # Idle => PassCover(run[r])'
  PROVE  CoverInv'
BY DEF OneRunner, CoverInv

LEMMA StartCover ==
  ASSUME TypeInv, CoverInv, OneRunner, NEW r \in Runners, Start(r)
  PROVE  CoverInv'
<1>1. PICK n : n = run'[r]
  OBVIOUS
<1>2. /\ TypeInv' /\ n.pc = "fetch" /\ n.after = saved.after /\ n.deferred = saved.deferred
      /\ saved.latest # NoLatest => n.latest = saved.latest
      /\ phase = "joining"
      /\ UNCHANGED <<relayVars, phase, saved, known, cursor>>
  BY <1>1, StartStep DEF localVars
<1>3. Ages
  BY <1>2, SameKnown, QuietAges
<1>4. CursorInv' /\ SavedCover'
  BY <1>2, <1>3, CursorKept, SavedKept DEF CoverInv
<1>5. PassCover(n)'
  BY <1>2 DEF PassCover
<1> QED BY <1>1, <1>4, <1>5, OneRunnerCover

LEMMA FetchCover ==
  ASSUME TypeInv, CoverInv, OneRunner, NEW r \in Runners, run[r] # Idle, Fetch(r)
  PROVE  CoverInv'
<1>1. PICK n : n = run'[r]
  OBVIOUS
<1>2. PICK p \in Pass : p = run[r] /\ Sound(p) /\ PassCover(p)
  BY AtWork DEF CoverInv
<1>3. /\ TypeInv' /\ p.pc = "fetch" /\ n.pc = "page" /\ n.after = p.after
      /\ n.deferred = p.deferred /\ n.latest = Latest(r)
      /\ n.gids = PageAfter(p.after)
      /\ n.recs = {q \in records : q.gid \in n.gids /\ ~q.deleted}
      /\ n.more = (Cardinality(n.gids) = PageLimit)
      /\ saved'.after = saved.after /\ saved'.deferred = saved.deferred
      /\ saved'.latest = IF saved.latest = NoLatest THEN Latest(r) ELSE saved.latest
      /\ UNCHANGED <<relayVars, phase, known, cursor>>
  BY <1>1, <1>2, FetchStep DEF localVars
<1>4. Ages /\ log' = log
  BY <1>3, SameKnown, QuietAges
<1>5. CursorInv'
  BY <1>3, <1>4, CursorKept DEF CoverInv
<1>6. PICK L : L = n.latest
  OBVIOUS
<1>7. /\ saved'.latest = L /\ L \in Nat /\ L <= Len(log) /\ L # NoLatest
      /\ saved.latest # NoLatest => L = saved.latest
      /\ saved.latest = NoLatest => saved.after = 0
      /\ p.after = saved.after /\ p.deferred = saved.deferred
  <2>1. Len(log) \in Nat /\ (saved.latest = NoLatest \/ saved.latest \in Nat)
        /\ (saved.latest # NoLatest => saved.latest <= Len(log))
    BY DEF TypeInv, TablesInv, SavedInv, Progress
  <2>2. saved.latest # NoLatest => p.latest = saved.latest
    BY <1>2 DEF PassCover
  <2>3. Latest(r) = IF saved.latest = NoLatest THEN Len(log) ELSE p.latest
    BY <1>2 DEF Latest
  <2>4. L = Latest(r)
    BY <1>3, <1>6
  <2>5. saved'.latest = L /\ L \in Nat /\ L <= Len(log)
        /\ (saved.latest # NoLatest => L = saved.latest)
    BY <1>3, <2>1, <2>2, <2>3, <2>4
  <2> QED BY <1>2, <1>3, <2>5, ValuesAssumption DEF PassCover, CoverInv, SavedCover
<1>8. SavedCover'
  <2>1. ASSUME NEW g \in Gids, g <= saved.after
        PROVE  Has(g, L)' \/ Waits(saved.deferred, g, L)'
    <3>1. g \in Nat /\ g # 0
      BY GidsAssumption DEF Gids
    <3>2. saved.latest # NoLatest
      BY <1>7, <2>1, <3>1
    <3>3. Has(g, L) \/ Waits(saved.deferred, g, L)
      BY <1>7, <2>1, <3>2 DEF CoverInv, SavedCover
    <3>4. PICK d : d = saved.deferred
      OBVIOUS
    <3>5. InLog(d) /\ d = saved'.deferred
      BY <1>3, <3>4 DEF TypeInv, SavedInv
    <3>6. Has(g, L)' \/ Waits(d, g, L)'
      BY <1>3, <1>4, <1>7, <3>3, <3>4, <3>5, AgesKeeps
    <3> QED BY <3>5, <3>6
  <2> QED BY <1>3, <1>7, <2>1 DEF SavedCover
<1>9. ASSUME NEW g \in Gids, g > n.after, ~n.more \/ \E h \in n.gids : g <= h
      PROVE  Has(g, L)' \/ (g \in n.gids /\ Carries(n.recs, g, L)')
  <2>1. Has(g, L) \/ (g \in n.gids /\ Carries(n.recs, g, L))
    BY <1>2, <1>3, <1>7, <1>9, PageCarries
  <2> QED BY <1>3, <1>4, <1>7, <2>1, AgesKeeps
<1>10. phase = "joining"
  BY <1>2 DEF PassCover
<1>11. PassCover(n)'
  BY <1>3, <1>6, <1>7, <1>9, <1>10 DEF PassCover
<1> QED BY <1>1, <1>5, <1>8, <1>11, OneRunnerCover

\* A record that is deferred goes from the page to the deferred.
LEMMA DeferCover ==
  ASSUME TypeInv, CoverInv, OneRunner, NEW r \in Runners, run[r] # Idle, Defer(r)
  PROVE  CoverInv'
<1>1. PICK n : n = run'[r]
  OBVIOUS
<1>2. PICK p \in Pass : p = run[r] /\ Sound(p) /\ PassCover(p)
  BY AtWork DEF CoverInv
<1>3. /\ TypeInv' /\ p.pc = "page" /\ n.pc = "page" /\ n.after = p.after
      /\ n.latest = p.latest /\ n.gids = p.gids /\ n.more = p.more
      /\ saved'.deferred = n.deferred
      /\ saved'.after = saved.after /\ saved'.latest = saved.latest
      /\ UNCHANGED <<relayVars, phase, known, cursor>>
  BY <1>1, <1>2, DeferStep DEF localVars
<1>4. PICK q \in p.recs :
        /\ log[q.seq].gid = q.gid
        /\ n.recs = p.recs \ {q}
        /\ n.deferred = Append(p.deferred, [seq |-> q.seq, version |-> q.version])
  BY <1>1, <1>2, DeferStep
<1>5. Ages /\ log' = log
  BY <1>3, SameKnown, QuietAges
<1>6. CursorInv'
  BY <1>3, <1>5, CursorKept DEF CoverInv
<1>7. /\ p.latest \in Nat /\ p.latest <= Len(log) /\ p.latest = saved.latest
      /\ saved.latest # NoLatest /\ p.after = saved.after /\ p.deferred = saved.deferred
      /\ p.deferred \in Seq(Waiting) /\ InLog(p.deferred)
  BY <1>2, <1>3 DEF PassCover, Sound, Pass
<1>8. PICK k \in Nat : k = Len(p.deferred) + 1
  BY <1>7
<1>9. /\ \A i \in DOMAIN p.deferred : i \in DOMAIN n.deferred /\ n.deferred[i] = p.deferred[i]
      /\ k \in DOMAIN n.deferred /\ n.deferred[k].seq = q.seq /\ n.deferred[k].version = q.version
  <2>1. PICK w : w = [seq |-> q.seq, version |-> q.version]
    OBVIOUS
  <2>2. n.deferred = Append(p.deferred, w) /\ w.seq = q.seq /\ w.version = q.version
    BY <1>4, <2>1
  <2>3. /\ \A i \in DOMAIN p.deferred : i \in DOMAIN n.deferred /\ n.deferred[i] = p.deferred[i]
        /\ k \in DOMAIN n.deferred /\ n.deferred[k] = w
    BY <1>7, <1>8, <2>2
  <2> QED BY <2>2, <2>3
<1>10. \A g : Waits(p.deferred, g, p.latest)' => Waits(n.deferred, g, p.latest)'
  BY <1>9 DEF Waits
<1>11. \A g \in Gids : (Has(g, p.latest) => Has(g, p.latest)')
                       /\ (Waits(p.deferred, g, p.latest) => Waits(p.deferred, g, p.latest)')
                       /\ (Carries(p.recs, g, p.latest) => Carries(p.recs, g, p.latest)')
  BY <1>3, <1>5, <1>7, AgesKeeps
<1>12. \A g : Carries(p.recs, g, p.latest)' =>
                Carries(n.recs, g, p.latest)' \/ Waits(n.deferred, g, p.latest)'
  <2> SUFFICES ASSUME NEW g, NEW c \in p.recs, c.gid = g, c.version >= V(g, p.latest)'
               PROVE  Carries(n.recs, g, p.latest)' \/ Waits(n.deferred, g, p.latest)'
    BY DEF Carries
  <2>1. CASE c = q
    BY <1>4, <1>5, <1>9, <2>1 DEF Waits
  <2>2. CASE c # q
    BY <1>4, <2>2 DEF Carries
  <2> QED BY <2>1, <2>2
<1>13. SavedCover'
  <2>1. ASSUME NEW g \in Gids, g <= saved.after
        PROVE  Has(g, p.latest)' \/ Waits(n.deferred, g, p.latest)'
    <3>1. Has(g, p.latest) \/ Waits(p.deferred, g, p.latest)
      BY <1>7, <2>1 DEF CoverInv, SavedCover
    <3> QED BY <1>10, <1>11, <3>1
  <2> QED BY <1>3, <1>7, <2>1 DEF SavedCover
<1>14. ASSUME NEW g \in Gids, g > p.after, ~p.more \/ \E h \in p.gids : g <= h
       PROVE  \/ Has(g, p.latest)' \/ Waits(n.deferred, g, p.latest)'
              \/ g \in p.gids /\ Carries(n.recs, g, p.latest)'
  <2>1. \/ Has(g, p.latest) \/ Waits(p.deferred, g, p.latest)
        \/ g \in p.gids /\ Carries(p.recs, g, p.latest)
    BY <1>2, <1>3, <1>14 DEF PassCover
  <2> QED BY <1>10, <1>11, <1>12, <2>1
<1>15. phase = "joining"
  BY <1>2 DEF PassCover
<1>16. PassCover(n)'
  BY <1>3, <1>7, <1>14, <1>15 DEF PassCover
<1> QED BY <1>1, <1>6, <1>13, <1>16, OneRunnerCover

\* A record that is applied is had.
LEMMA TakeRecordCover ==
  ASSUME TypeInv, CoverInv, OneRunner, NEW r \in Runners, run[r] # Idle, TakeRecord(r)
  PROVE  CoverInv'
<1>1. PICK n : n = run'[r]
  OBVIOUS
<1>2. PICK p \in Pass : p = run[r] /\ Sound(p) /\ PassCover(p)
  BY AtWork DEF CoverInv
<1>3. /\ TypeInv' /\ p.pc = "page" /\ n.pc = "page" /\ n.after = p.after
      /\ n.latest = p.latest /\ n.gids = p.gids /\ n.more = p.more
      /\ n.deferred = p.deferred
      /\ \A g \in Gids : known'[g] >= known[g]
      /\ UNCHANGED <<relayVars, phase, saved, cursor>>
  BY <1>1, <1>2, TakeRecordStep
<1>4. PICK q \in p.recs : n.recs = p.recs \ {q} /\ known'[q.gid] >= q.version
  BY <1>1, <1>2, TakeRecordStep
<1>5. Ages
  BY <1>3, QuietAges
<1>6. CursorInv' /\ SavedCover'
  BY <1>3, <1>5, CursorKept, SavedKept DEF CoverInv
<1>7. PassCover(p)' /\ p.latest \in Nat /\ p.latest <= Len(log)
  BY <1>2, <1>3, <1>5, PassAged DEF Sound, Pass
<1>8. \A g \in Gids : Carries(p.recs, g, p.latest)' =>
                        Carries(n.recs, g, p.latest)' \/ Has(g, p.latest)'
  <2> SUFFICES ASSUME NEW g \in Gids, NEW c \in p.recs, c.gid = g,
                      c.version >= V(g, p.latest)'
               PROVE  Carries(n.recs, g, p.latest)' \/ Has(g, p.latest)'
    BY DEF Carries
  <2>1. CASE c = q
    <3>1. V(g, p.latest)' \in Nat
      BY <1>5, <1>7, VersionGrows DEF Ages
    <3>2. known'[g] \in Nat /\ q.version \in Nat
      BY <1>2, <1>3, <1>4 DEF TypeInv, LocalInv, Pass, Records, Record
    <3>3. known'[g] >= V(g, p.latest)'
      BY <1>4, <2>1, <3>1, <3>2
    <3> QED BY <3>3 DEF Has
  <2>2. CASE c # q
    BY <1>4, <2>2 DEF Carries
  <2> QED BY <2>1, <2>2
<1>9. PassCover(n)'
  BY <1>3, <1>7, <1>8 DEF PassCover
<1> QED BY <1>1, <1>6, <1>9, OneRunnerCover

LEMMA TakeConflictCover ==
  ASSUME TypeInv, CoverInv, OneRunner, NEW r \in Runners, run[r] # Idle, TakeConflict(r)
  PROVE  CoverInv'
<1>1. PICK n : n = run'[r]
  OBVIOUS
<1>2. PICK p \in Pass : p = run[r] /\ Sound(p) /\ PassCover(p)
  BY AtWork DEF CoverInv
<1>3. /\ TypeInv' /\ p.pc = "page" /\ n.pc = "page" /\ n.after = p.after
      /\ n.latest = p.latest /\ n.gids = p.gids /\ n.more = p.more
      /\ n.deferred = p.deferred /\ n.recs = p.recs
      /\ UNCHANGED <<relayVars, phase, saved, known, cursor>>
  BY <1>1, <1>2, TakeConflictStep
<1>4. Ages
  BY <1>3, SameKnown, QuietAges
<1>5. CursorInv' /\ SavedCover'
  BY <1>3, <1>4, CursorKept, SavedKept DEF CoverInv
<1>6. PassCover(p)'
  BY <1>2, <1>3, <1>4, PassAged
<1>7. PassCover(n)'
  BY <1>3, <1>6 DEF PassCover
<1> QED BY <1>1, <1>5, <1>7, OneRunnerCover

\* A gid is finished when its records are all applied or deferred.
LEMMA FinishGidCover ==
  ASSUME TypeInv, CoverInv, OneRunner, NEW r \in Runners, run[r] # Idle, FinishGid(r)
  PROVE  CoverInv'
<1>1. PICK n : n = run'[r]
  OBVIOUS
<1>2. PICK p \in Pass : p = run[r] /\ Sound(p) /\ PassCover(p)
  BY AtWork DEF CoverInv
<1>3. PICK c : c = Current(r)
  OBVIOUS
<1>4. /\ TypeInv' /\ p.pc = "page" /\ n.pc = "page" /\ n.after = c
      /\ c \in p.gids /\ \A g \in p.gids : c <= g
      /\ n.latest = p.latest /\ n.gids = p.gids \ {c} /\ n.more = p.more
      /\ n.deferred = p.deferred /\ n.recs = p.recs
      /\ saved'.after = c /\ saved'.deferred = saved.deferred
      /\ saved'.latest = saved.latest
      /\ UNCHANGED <<relayVars, phase, known, cursor>>
  BY <1>1, <1>2, <1>3, FinishGidStep DEF localVars
<1>5. Ages /\ log' = log
  BY <1>4, SameKnown, QuietAges
<1>6. CursorInv'
  BY <1>4, <1>5, CursorKept DEF CoverInv
<1>7. /\ p.latest \in Nat /\ p.latest <= Len(log) /\ p.latest = saved.latest
      /\ saved.latest # NoLatest /\ p.after = saved.after /\ p.deferred = saved.deferred
      /\ InLog(p.deferred)
  BY <1>2, <1>4 DEF PassCover, Sound, Pass
<1>8. \A q \in p.recs : q.gid # c
  BY <1>2, <1>3, CurrentDone
<1>9. \A g \in Gids : (Has(g, p.latest) => Has(g, p.latest)')
                      /\ (Waits(p.deferred, g, p.latest) => Waits(p.deferred, g, p.latest)')
                      /\ (Carries(p.recs, g, p.latest) => Carries(p.recs, g, p.latest)')
  BY <1>4, <1>5, <1>7, AgesKeeps
<1>10. /\ p.after \in Nat /\ c \in Nat
       /\ \A g \in Gids : g \in Nat /\ (g <= p.after \/ g > p.after) /\ (g <= c \/ g > c)
  <2>1. \A g \in Gids : g \in Nat
    BY GidsAssumption DEF Gids
  <2>2. p.after \in Gids \cup {0} /\ c \in Gids
    BY <1>2, <1>4, AtWork
  <2>3. p.after \in Nat /\ c \in Nat
    BY <2>1, <2>2
  <2> QED BY <2>1, <2>3
\* Before the gid at work, everything is had or waits.
<1>11. ASSUME NEW g \in Gids, g <= c \/ g <= p.after
       PROVE  Has(g, p.latest) \/ Waits(p.deferred, g, p.latest)
  <2>1. CASE g <= p.after
    BY <1>7, <2>1 DEF CoverInv, SavedCover
  <2>2. CASE g > p.after /\ g <= c
    <3>1. \/ Has(g, p.latest) \/ Waits(p.deferred, g, p.latest)
          \/ g \in p.gids /\ Carries(p.recs, g, p.latest)
      BY <1>2, <1>4, <2>2 DEF PassCover
    <3>2. g \in p.gids => g = c
      BY <1>4, <1>10, <2>2
    <3> QED BY <1>8, <3>1, <3>2 DEF Carries
  <2> QED BY <1>10, <1>11, <2>1, <2>2
<1>12. SavedCover'
  BY <1>4, <1>7, <1>9, <1>11 DEF SavedCover
<1>13. ASSUME NEW g \in Gids, g > c, ~p.more \/ \E h \in n.gids : g <= h
       PROVE  \/ Has(g, p.latest) \/ Waits(p.deferred, g, p.latest)
              \/ g \in n.gids /\ Carries(p.recs, g, p.latest)
  <2>1. CASE g <= p.after
    BY <1>11, <2>1
  <2>2. CASE g > p.after
    <3>1. \/ Has(g, p.latest) \/ Waits(p.deferred, g, p.latest)
          \/ g \in p.gids /\ Carries(p.recs, g, p.latest)
      BY <1>2, <1>4, <1>13, <2>2 DEF PassCover
    <3>2. g # c
      BY <1>10, <1>13
    <3> QED BY <1>4, <3>1, <3>2
  <2> QED BY <1>10, <2>1, <2>2
<1>14. phase = "joining"
  BY <1>2 DEF PassCover
<1>15. PassCover(n)'
  BY <1>4, <1>7, <1>9, <1>13, <1>14 DEF PassCover
<1> QED BY <1>1, <1>6, <1>12, <1>15, OneRunnerCover

LEMMA PageDoneCover ==
  ASSUME TypeInv, CoverInv, OneRunner, NEW r \in Runners, run[r] # Idle, PageDone(r)
  PROVE  CoverInv'
<1>1. PICK n : n = run'[r]
  OBVIOUS
<1>2. PICK p \in Pass : p = run[r] /\ Sound(p) /\ PassCover(p)
  BY AtWork DEF CoverInv
<1>3. /\ TypeInv' /\ p.pc = "page" /\ p.gids = {} /\ n.pc = IF p.more THEN "fetch" ELSE "final"
      /\ n.after = p.after /\ n.latest = p.latest /\ n.deferred = p.deferred
      /\ UNCHANGED <<relayVars, phase, saved, known, cursor>>
  BY <1>1, <1>2, PageDoneStep DEF localVars
<1>4. Ages
  BY <1>3, SameKnown, QuietAges
<1>5. CursorInv' /\ SavedCover'
  BY <1>3, <1>4, CursorKept, SavedKept DEF CoverInv
<1>6. PassCover(p)'
  BY <1>2, <1>3, <1>4, PassAged
<1>7. /\ p.latest = saved.latest /\ saved.latest # NoLatest
      /\ p.after = saved.after /\ p.deferred = saved.deferred
  BY <1>2, <1>3 DEF PassCover
<1>8. ASSUME ~p.more, NEW g \in Gids
      PROVE  Has(g, p.latest)' \/ Waits(p.deferred, g, p.latest)'
  <2>1. g \in Nat /\ p.after \in Nat
    <3>1. \A h \in Gids : h \in Nat
      BY GidsAssumption DEF Gids
    <3> QED BY <3>1, <1>2, AtWork
  <2>2. CASE g <= p.after
    <3>1. PICK d : d = p.deferred
      OBVIOUS
    <3>2. Has(g, p.latest)' \/ Waits(saved.deferred, g, p.latest)'
      BY <1>3, <1>5, <1>7, <2>2 DEF SavedCover
    <3>3. saved'.deferred = p.deferred
      BY <1>3, <1>7
    <3> QED BY <3>2, <3>3
  <2>3. CASE g > p.after
    BY <1>3, <1>6, <1>8, <2>3 DEF PassCover
  <2> QED BY <2>1, <2>2, <2>3
<1>9. phase = "joining"
  BY <1>2 DEF PassCover
<1>10. PassCover(n)'
  <2>1. n.pc = "fetch" \/ (n.pc = "final" /\ ~p.more)
    BY <1>3
  <2> QED BY <1>3, <1>7, <1>8, <1>9, <2>1 DEF PassCover
<1> QED BY <1>1, <1>5, <1>10, OneRunnerCover

\* What waited first is had.
LEMMA TakeDeferredCover ==
  ASSUME TypeInv, CoverInv, OneRunner, NEW r \in Runners, run[r] # Idle, TakeDeferred(r)
  PROVE  CoverInv'
<1>1. PICK n : n = run'[r]
  OBVIOUS
<1>2. PICK p \in Pass : p = run[r] /\ Sound(p) /\ PassCover(p)
  BY AtWork DEF CoverInv
<1>3. PICK q : q = p.deferred[1]
  OBVIOUS
<1>4. /\ TypeInv' /\ p.pc = "final" /\ n.pc = "final" /\ n.latest = p.latest
      /\ p.deferred # <<>> /\ n.deferred = Tail(p.deferred)
      /\ known'[log[q.seq].gid] >= q.version /\ q.seq \in DOMAIN log
      /\ \A g \in Gids : known'[g] >= known[g]
      /\ UNCHANGED <<relayVars, phase, saved, cursor>>
  BY <1>1, <1>2, <1>3, TakeDeferredStep
<1>5. Ages /\ log' = log
  BY <1>4, QuietAges
<1>6. CursorInv' /\ SavedCover'
  BY <1>4, <1>5, CursorKept, SavedKept DEF CoverInv
<1>7. PassCover(p)' /\ p.latest \in Nat /\ p.latest <= Len(log)
  BY <1>2, <1>4, <1>5, PassAged DEF Sound, Pass
<1>8. p.deferred \in Seq(Waiting) /\ q \in Waiting
  <2>1. p.deferred \in Seq(Waiting)
    BY <1>2 DEF Pass
  <2> QED BY <1>3, <1>4, <2>1
<1>9. \A i \in DOMAIN p.deferred :
        i = 1 \/ (i - 1 \in DOMAIN n.deferred /\ n.deferred[i - 1] = p.deferred[i])
  BY <1>4, <1>8
<1>10. ASSUME NEW g \in Gids, Waits(p.deferred, g, p.latest)'
       PROVE  Has(g, p.latest)' \/ Waits(n.deferred, g, p.latest)'
  <2>1. PICK i \in DOMAIN p.deferred :
          log'[p.deferred[i].seq].gid = g /\ p.deferred[i].version >= V(g, p.latest)'
    BY <1>10 DEF Waits
  <2>2. CASE i = 1
    <3>1. V(g, p.latest)' \in Nat
      BY <1>5, <1>7, VersionGrows DEF Ages
    <3>2. known'[g] \in Nat /\ q.version \in Nat
      BY <1>4, <1>8 DEF TypeInv, LocalInv, Waiting
    <3>3. known'[g] >= q.version /\ q.version >= V(g, p.latest)'
      BY <1>3, <1>4, <1>5, <2>1, <2>2
    <3>4. known'[g] >= V(g, p.latest)'
      BY <3>1, <3>2, <3>3
    <3> QED BY <3>4 DEF Has
  <2>3. CASE i # 1
    BY <1>9, <2>1, <2>3 DEF Waits
  <2> QED BY <2>2, <2>3
<1>11. \A g \in Gids : Has(g, p.latest)' \/ Waits(p.deferred, g, p.latest)'
  BY <1>4, <1>7 DEF PassCover
<1>12. PassCover(n)'
  BY <1>4, <1>7, <1>10, <1>11 DEF PassCover
<1> QED BY <1>1, <1>6, <1>12, OneRunnerCover

\* With nothing waiting, all the cursor is moved over is had.
LEMMA FinishCover ==
  ASSUME TypeInv, CoverInv, OneRunner, NEW r \in Runners, run[r] # Idle, Finish(r)
  PROVE  CoverInv'
<1>1. PICK p \in Pass : p = run[r] /\ Sound(p) /\ PassCover(p)
  BY AtWork DEF CoverInv
<1>2. /\ TypeInv' /\ p.pc = "final" /\ p.deferred = <<>>
      /\ phase' = "joined" /\ saved' = NothingSaved /\ run'[r] = Idle
      /\ cursor' \in {cursor, p.latest} /\ cursor <= cursor' /\ p.latest <= cursor'
      /\ UNCHANGED <<relayVars, known>>
  BY <1>1, FinishStep DEF localVars
<1>3. Ages
  BY <1>2, SameKnown, QuietAges
<1>4. phase = "joining" /\ p.latest \in Nat /\ p.latest <= Len(log)
  BY <1>1 DEF PassCover, Pass, Sound
<1>5. cursor = 0
  BY <1>4 DEF CoverInv, CursorInv
<1>6. cursor' = p.latest
  BY <1>2, <1>4, <1>5
<1>7. \A g \in Gids : Has(g, p.latest)
  BY <1>1, <1>2 DEF PassCover, Waits
<1>8. \A g \in Gids : Has(g, p.latest)'
  BY <1>2, <1>3, <1>4, <1>7, AgesKeeps
<1>9. CursorInv'
  BY <1>2, <1>6, <1>8 DEF CursorInv
<1>10. SavedCover'
  BY <1>2 DEF SavedCover, NothingSaved
<1> QED BY <1>2, <1>9, <1>10, OneRunnerCover

\* A crash forgets the pass, and settings have what it had done.
LEMMA CrashCover ==
  ASSUME TypeInv, CoverInv, OneRunner, NEW r \in Runners, Crash(r)
  PROVE  CoverInv'
<1>1. TypeInv' /\ run'[r] = Idle /\ UNCHANGED <<relayVars, phase, saved, known, cursor>>
  BY CrashStep DEF localVars
<1>2. Ages
  BY <1>1, SameKnown, QuietAges
<1> QED BY <1>1, <1>2, CursorKept, SavedKept, OneRunnerCover DEF CoverInv

\* A pull passes over one op, and has its version.
LEMMA PullCover ==
  ASSUME TypeInv, CoverInv, Pull
  PROVE  CoverInv'
<1>1. PICK n : n = cursor + 1
  OBVIOUS
<1>2. /\ TypeInv' /\ n \in DOMAIN log /\ cursor' = n /\ phase = "joined"
      /\ known'[log[n].gid] >= V(log[n].gid, n)
      /\ \A g \in Gids : known'[g] >= known[g]
      /\ UNCHANGED <<relayVars, phase, saved, run>>
  BY <1>1, PullStep
<1>3. Ages /\ log' = log
  BY <1>2, QuietAges
<1>4. /\ cursor \in Nat /\ cursor <= Len(log) /\ n \in Nat /\ n <= Len(log)
      /\ DOMAIN log = 1..Len(log)
  BY <1>2 DEF TypeInv, RestInv, TablesInv
<1>5. ASSUME NEW g \in Gids PROVE Has(g, n)'
  <2>1. Has(g, cursor)
    BY <1>2 DEF CoverInv, CursorInv
  <2>2. V(g, n)' = V(g, n)
    BY <1>4 , <1>3 DEF Ages
  <2>3. CASE log[n].gid = g
    BY <1>2, <2>2, <2>3 DEF Has
  <2>4. CASE log[n].gid # g
    <3>1. AcceptedUpTo(log, g, Family(g), n) = AcceptedUpTo(log, g, Family(g), cursor)
      <4>1. \A i \in DOMAIN log : i <= n <=> i <= cursor \/ i = n
        BY <1>1, <1>4
      <4> QED BY <2>4, <4>1 DEF AcceptedUpTo
    <3>2. V(g, n) = V(g, cursor)
      BY <3>1 DEF V, VersionAt
    <3>3. Has(g, n)
      BY <2>1, <3>2 DEF Has
    <3> QED BY <1>2, <1>3, <1>4, <3>3, AgesKeeps
  <2> QED BY <2>3, <2>4
<1>6. CursorInv'
  BY <1>2, <1>5 DEF CursorInv
<1>7. SavedCover'
  BY <1>2, <1>3, SavedKept DEF CoverInv
<1>8. \A r \in Runners : run'[r] = Idle
  BY <1>2 DEF CoverInv, PassCover
<1> QED BY <1>6, <1>7, <1>8 DEF CoverInv

LEMMA CoverInit == Init => CoverInv
<1> SUFFICES ASSUME Init PROVE CoverInv
  OBVIOUS
<1>1. CursorInv
  BY DEF Init, CursorInv
<1>2. SavedCover
  BY DEF Init, SavedCover, NothingSaved
<1>3. \A r \in Runners : run[r] = Idle
  BY DEF Init
<1> QED BY <1>1, <1>2, <1>3 DEF CoverInv

LEMMA CoverNext == OneRunner /\ TypeInv /\ CoverInv /\ [Next]_vars => CoverInv'
<1> SUFFICES ASSUME OneRunner, TypeInv, CoverInv, [Next]_vars PROVE CoverInv'
  OBVIOUS
<1>1. CASE OthersWrite
  BY <1>1, OthersTyped, OthersAges, AgedCover
<1>2. CASE Join
  BY <1>2, JoinCover
<1>3. CASE RunnerStep
  BY <1>3, StartCover, FetchCover, DeferCover, TakeRecordCover, TakeConflictCover,
     FinishGidCover, PageDoneCover, TakeDeferredCover, FinishCover DEF RunnerStep
<1>4. CASE Pull
  BY <1>4, PullCover
<1>5. CASE \E r \in Runners : Crash(r)
  BY <1>5, CrashCover
<1>6. CASE UNCHANGED vars
  <2>1. UNCHANGED <<relayVars, phase, saved, known, cursor, run>>
    BY <1>6 DEF vars, localVars
  <2>2. TypeInv' /\ Ages
    BY <2>1, TypedNext, SameKnown, QuietAges
  <2> QED BY <2>1, <2>2, AgedCover
<1> QED BY <1>1, <1>2, <1>3, <1>4, <1>5, <1>6 DEF Next

\* The cursor a bootstrap ends with, and every pull after it, passes over no op
\* whose effect the machine is missing: for any brain, page size, order of the
\* snapshot, crashes and writes of the others meanwhile, if one loop bootstraps.
THEOREM CursorPassesOverNothing ==
  ASSUME OneRunner
  PROVE  Spec => []CursorCovered
<1>1. TypeInv /\ CoverInv => CursorCovered
  BY TypeInvType DEF CoverInv, CursorInv, CursorCovered, Has, V, Gone
<1>2. TypeInv /\ CoverInv /\ [Next]_vars => TypeInv' /\ CoverInv'
  BY TypedNext, CoverNext
<1> QED BY <1>1, <1>2, InitTyped, CoverInit, PTL DEF Spec

-----------------------------------------------------------------------------
(* Versions along the log: they never fall, and rise with every op of the   *)
(* gid the brain accepted.                                                  *)

LEMMA VersionsRise ==
  ASSUME TypeInv, NEW g, NEW m \in Nat, NEW n \in Nat, m <= n
  PROVE  V(g, m) <= V(g, n) /\ V(g, m) \in Nat /\ V(g, n) \in Nat
<1>1. log \in Seq(Entries) /\ Len(log) \in Nat /\ DOMAIN log = 1..Len(log)
  BY DEF TypeInv, TablesInv
<1>2. \A i \in DOMAIN log : i <= m => i <= n
  BY <1>1
<1>3. AcceptedUpTo(log, g, Family(g), m) \subseteq AcceptedUpTo(log, g, Family(g), n)
  BY <1>2 DEF AcceptedUpTo
<1> QED BY <1>1, <1>3, VersionFinite, FS_Subset DEF V, VersionAt

LEMMA VersionCounts ==
  ASSUME TypeInv, NEW n \in DOMAIN log, log[n].status = "accepted",
         NEW m \in Nat, m < n
  PROVE  V(log[n].gid, m) < V(log[n].gid, n)
<1> DEFINE g == log[n].gid
           A(k) == AcceptedUpTo(log, g, Family(g), k)
<1>1. /\ log \in Seq(Entries) /\ Len(log) \in Nat /\ DOMAIN log = 1..Len(log)
      /\ KindFamily(log[n].kind) = Family(g) /\ n \in Nat
  BY DEF TypeInv, TablesInv
<1>2. A(m) \subseteq A(n) /\ n \in A(n) /\ n \notin A(m)
  <2>1. \A i \in DOMAIN log : i <= m => i <= n
    BY <1>1
  <2>2. n <= n /\ ~(n <= m)
    BY <1>1
  <2> QED BY <1>1, <2>1, <2>2 DEF AcceptedUpTo
<1>3. IsFiniteSet(A(n)) /\ V(g, m) \in Nat /\ V(g, n) \in Nat
  BY <1>1, VersionFinite
<1> HIDE DEF A
<1>4. Cardinality(A(m)) <= Cardinality(A(n)) /\ Cardinality(A(m)) # Cardinality(A(n))
  BY <1>2, <1>3, FS_Subset
<1>5. V(g, m) = Cardinality(A(m)) /\ V(g, n) = Cardinality(A(n))
  BY DEF A, V, VersionAt
<1> QED BY <1>3, <1>4, <1>5

\* An op of another gid, or one that lost, counts for nothing.
LEMMA VersionStays ==
  ASSUME TypeInv, NEW n \in DOMAIN log, NEW g, NEW m \in Nat, n = m + 1,
         log[n].gid # g \/ log[n].status = "conflict"
  PROVE  V(g, n) = V(g, m)
<1>1. DOMAIN log = 1..Len(log) /\ Len(log) \in Nat
  BY DEF TypeInv, TablesInv
<1>2. \A i \in DOMAIN log : i <= n <=> i <= m \/ i = n
  BY <1>1
<1>3. AcceptedUpTo(log, g, Family(g), n) = AcceptedUpTo(log, g, Family(g), m)
  BY <1>2 DEF AcceptedUpTo
<1> QED BY <1>3 DEF V, VersionAt

\* Texts are of files.
LEMMA ContentIsOfFiles ==
  ASSUME TypeInv, NEW i \in DOMAIN log, IsContent(i)
  PROVE  log[i].gid \in Files
<1>1. KindFamily(log[i].kind) = "content"
  BY DEF IsContent, KindFamily, FileKinds, MetaKinds, FolderKinds, ProjectKinds
<1>2. KindFamily(log[i].kind) = Family(log[i].gid)
  BY DEF TypeInv, TablesInv
<1> QED BY <1>1, <1>2 DEF Family

-----------------------------------------------------------------------------
(* What a file holds.  A machine's version of a gid vouches for the text of *)
(* the file as long as it joins: the cursor does, afterwards, and the two   *)
(* meet where the bootstrap ends, by the cover.                             *)

\* A file whose record may have to wait for its project is not edited.
WaitersUnedited == \A g \in Edited : Home[g] \notin Projects

\* The log, beyond types: a loser lost to some op, and a delete is the last one.
LogShape ==
  \A i \in DOMAIN log :
    /\ log[i].gid \in Files => log[i].kind \in {"file.create", "file.update", "file.delete"}
    /\ log[i].status = "conflict" =>
         \E j \in DOMAIN log : j < i /\ log[j].gid = log[i].gid /\ log[j].status = "accepted"
    /\ log[i].kind = "file.delete" =>
         /\ log[i].status = "accepted"
         /\ \A j \in DOMAIN log : log[j].gid = log[i].gid => j <= i
    /\ log[i].gid \in Files \ Edited =>
         /\ log[i].kind = "file.create" /\ log[i].status = "accepted"
         /\ \A j \in DOMAIN log : log[j].gid = log[i].gid => j = i

\* A row that brings a text the brain had, at a version no less than the row says.
Brings(seq, version) ==
  /\ seq \in DOMAIN log /\ log[seq].status = "accepted"
  /\ log[seq].gid \in Files => IsContent(seq)
  /\ version <= V(log[seq].gid, seq)

RecordsTold ==
  \A q \in records :
    /\ log[q.seq].status = "accepted" /\ q.version <= V(q.gid, q.seq)
    /\ q.gid \in Files /\ ~q.deleted => IsContent(q.seq)

\* A row that was deferred brings the only op of its file.
Waiter(w) == Brings(w.seq, w.version) /\ log[w.seq].gid \in Files \ Edited
Waiters(deferred) == \A i \in DOMAIN deferred : Waiter(deferred[i])

\* What a pass on an empty machine will apply is no older than what it applied:
\* of the gids to come it knows nothing.
Ascends(p) ==
  p.pc # "final" =>
    \A g \in Files :
      g > p.after =>
        \/ known[g] = 0
        \/ /\ p.pc = "page" /\ g \in p.gids
           /\ \A q \in p.recs : q.gid = g => known[g] <= V(g, q.seq)

PassTold(p) ==
  /\ \A q \in p.recs : Brings(q.seq, q.version)
  /\ Waiters(p.deferred)
  /\ p.pc = "page" => /\ \A q \in p.recs : q.gid \in p.gids
                      /\ \A g \in p.gids : g > p.after
  /\ p.mode = "empty" => Ascends(p)

\* The file has a text the brain had, at that version or later.
Holds(g, version) ==
  /\ files[g] \in DOMAIN log /\ log[files[g]].gid = g /\ log[files[g]].status = "accepted"
  /\ IsContent(files[g])
  /\ version <= V(g, files[g])

TextOf(g) ==
  /\ phase = "out" => fork[g] = NoFork
  /\ phase = "joining" => /\ fork[g] # NoFork => files[g] # NoText
                          /\ fork[g] # NoFork \/ known[g] = 0 \/ Holds(g, known[g])
  /\ phase = "joined" => \/ fork[g] # NoFork \/ Gone(g)
                         \/ V(g, cursor) = 0 \/ Holds(g, V(g, cursor))

KnownTold == \A g \in Gids : known[g] <= V(g, Len(log)) /\ (phase = "out" => known[g] = 0)

TextInv == KnownTold /\ \A g \in Files : TextOf(g)

PassesTold == \A r \in Runners : run[r] # Idle => PassTold(run[r])

ToldInv == LogShape /\ RecordsTold /\ Waiters(saved.deferred) /\ TextInv /\ PassesTold

LEMMA InitTold == Init => ToldInv
<1> SUFFICES ASSUME Init PROVE ToldInv
  OBVIOUS
<1>1. DOMAIN log = {} /\ records = {} /\ phase = "out" /\ saved.deferred = <<>> /\ Len(log) = 0
  BY DEF Init, NothingSaved
<1>2. \A g \in Gids : known[g] = 0
  BY DEF Init
<1>3. \A g \in Gids : V(g, Len(log)) \in Nat
  BY InitTyped, VersionFinite DEF TypeInv, TablesInv
<1>4. \A g \in Files : fork[g] = NoFork
  BY DEF Init
<1>5. \A r \in Runners : run[r] = Idle
  BY DEF Init
<1>6. KnownTold
  <2>1. ASSUME NEW g \in Gids PROVE known[g] <= V(g, Len(log))
    <3>1. PICK v \in Nat : v = V(g, Len(log))
      BY <1>3
    <3> QED BY <1>2, <3>1
  <2> QED BY <1>2, <2>1 DEF KnownTold
<1>7. TextInv
  BY <1>1, <1>4, <1>6 DEF TextInv, TextOf
<1>8. LogShape /\ RecordsTold /\ Waiters(saved.deferred) /\ PassesTold
  BY <1>1, <1>5 DEF LogShape, RecordsTold, Waiters, PassesTold
<1> QED BY <1>7, <1>8 DEF ToldInv

-----------------------------------------------------------------------------
(* Where the log stays, and where the others write.                         *)

LEMMA SameLog ==
  ASSUME log' = log
  PROVE  /\ \A g, n : V(g, n)' = V(g, n)
         /\ \A g : Gone(g)' <=> Gone(g)
         /\ \A seq : IsContent(seq)' <=> IsContent(seq)
         /\ \A seq, version : Brings(seq, version)' <=> Brings(seq, version)
         /\ \A d : Waiters(d)' <=> Waiters(d)
         /\ LogShape => LogShape'
<1>1. \A g, n : V(g, n)' = V(g, n)
  BY DEF V, Family
<1>2. \A seq : IsContent(seq)' <=> IsContent(seq)
  BY DEF IsContent
<1>3. \A seq, version : Brings(seq, version)' <=> Brings(seq, version)
  BY <1>1, <1>2 DEF Brings
<1>4. \A d : Waiters(d)' <=> Waiters(d)
  BY <1>3 DEF Waiters, Waiter
<1>5. \A g : KindsOf(g)' = KindsOf(g)
  BY DEF KindsOf
<1>6. LogShape => LogShape'
  BY DEF LogShape
<1> QED BY <1>1, <1>2, <1>3, <1>4, <1>5, <1>6 DEF Gone

LEMMA SameRecords ==
  ASSUME UNCHANGED relayVars, RecordsTold
  PROVE  RecordsTold'
<1>1. log' = log /\ records' = records
  BY DEF relayVars
<1>2. /\ \A g, n : V(g, n)' = V(g, n)
      /\ \A seq : IsContent(seq)' <=> IsContent(seq)
  BY <1>1, SameLog
<1> QED BY <1>1, <1>2 DEF RecordsTold

\* A row that brings a text goes on bringing it, whatever is appended.
LEMMA OldStays ==
  ASSUME TypeInv, TypeInv', Ages
  PROVE  /\ \A seq \in DOMAIN log : /\ IsContent(seq)' <=> IsContent(seq)
                                    /\ \A g : V(g, seq)' = V(g, seq)
         /\ \A seq, version : Brings(seq, version) => Brings(seq, version)'
         /\ \A d : Waiters(d) => Waiters(d)'
         /\ \A g, version : files' = files /\ Holds(g, version) => Holds(g, version)'
<1>1. DOMAIN log = 1..Len(log) /\ Len(log) \in Nat
  BY DEF TypeInv, TablesInv
<1>2. ASSUME NEW seq \in DOMAIN log
      PROVE  /\ IsContent(seq)' <=> IsContent(seq)
             /\ \A g : V(g, seq)' = V(g, seq)
             /\ seq \in DOMAIN log' /\ log'[seq] = log[seq]
  <2>1. seq \in Nat /\ seq <= Len(log)
    BY <1>1
  <2> QED BY <2>1 DEF Ages, IsContent
<1>3. ASSUME NEW seq, NEW version, Brings(seq, version) PROVE Brings(seq, version)'
  BY <1>2, <1>3 DEF Brings
<1>4. ASSUME NEW d, Waiters(d) PROVE Waiters(d)'
  <2> SUFFICES ASSUME NEW i \in DOMAIN d PROVE Waiter(d[i])'
    BY DEF Waiters
  <2>1. Brings(d[i].seq, d[i].version) /\ log[d[i].seq].gid \in Files \ Edited
    BY <1>4 DEF Waiters, Waiter
  <2>2. d[i].seq \in DOMAIN log
    BY <2>1 DEF Brings
  <2> QED BY <1>2, <1>3, <2>1, <2>2 DEF Waiter
<1>5. ASSUME NEW g, NEW version, files' = files, Holds(g, version) PROVE Holds(g, version)'
  BY <1>2, <1>5 DEF Holds
<1> QED BY <1>2, <1>3, <1>4, <1>5

\* A current version is one of the log's.
LEMMA CurrentTold ==
  ASSUME TypeInv, RecordsTold, NEW g
  PROVE  Version(g) <= V(g, Len(log)) /\ Version(g) \in Nat
<1> DEFINE S == Versions(records, g, Family(g)) \cup {0}
<1>1. Len(log) \in Nat /\ DOMAIN log = 1..Len(log) /\ V(g, Len(log)) \in Nat
  BY VersionFinite DEF TypeInv, TablesInv
<1>2. ASSUME NEW q \in records, q.gid = g
      PROVE  q.version \in Nat /\ q.version <= V(g, Len(log))
  <2>1. q.seq \in DOMAIN log /\ q.version \in Nat
    BY DEF TypeInv, TablesInv, Described, Records, Record
  <2>2. q.version <= V(g, q.seq)
    BY <1>2 DEF RecordsTold
  <2>3. q.seq \in Nat /\ q.seq <= Len(log)
    BY <1>1, <2>1
  <2>4. V(g, q.seq) <= V(g, Len(log)) /\ V(g, q.seq) \in Nat
    BY <1>1, <2>3, VersionsRise
  <2> QED BY <1>1, <2>1, <2>2, <2>4
<1>3. \A x \in S : x \in Nat /\ x <= V(g, Len(log))
  BY <1>1, <1>2 DEF Versions
<1>4. S \in SUBSET Nat /\ S # {}
  BY <1>3
<1> HIDE DEF S
<1>5. Max(S) \in S
  BY <1>1, <1>3, <1>4, MaxOfBounded
<1>6. Max(S) = Version(g)
  BY DEF S, Version, CurrentVersion
<1> QED BY <1>3, <1>5, <1>6

\* A gid that is in the log was accepted there once.
LEMMA SomeAccepted ==
  ASSUME TypeInv, LogShape, NEW g, KindsOf(g) # {}
  PROVE  \E j \in DOMAIN log : log[j].gid = g /\ log[j].status = "accepted"
<1>1. PICK i \in DOMAIN log : log[i].gid = g
  BY DEF KindsOf
<1>2. log[i].status \in {"accepted", "conflict"}
  <2>1. log[i] \in Entries
    BY DEF TypeInv, TablesInv
  <2> QED BY <2>1 DEF Entries, LogEntry
<1> QED BY <1>1, <1>2 DEF LogShape

LEMMA PostTold ==
  ASSUME TypeInv, TypeInv', Ages, LogShape, RecordsTold,
         NEW g \in Gids, NEW kind, NEW base, NEW status \in {"accepted", "conflict"},
         PostOp(g, kind, base, status),
         g \in Files => kind \in {"file.create", "file.update", "file.delete"},
         ~Gone(g), status = "conflict" => KindsOf(g) # {},
         kind = "file.delete" => status = "accepted",
         g \in Files \ Edited =>
           kind = "file.create" /\ status = "accepted" /\ KindsOf(g) = {}
  PROVE  LogShape' /\ RecordsTold'
<1>0. PICK n : n = Len(log) + 1
  OBVIOUS
<1> DEFINE op == [gid |-> g, kind |-> kind, origin |-> Others, cseq |-> n, base |-> base]
<1>1. PICK e : e = Entry(op, status)
  OBVIOUS
<1>2. e.gid = g /\ e.kind = kind /\ e.status = status
  BY <1>1 DEF Entry
<1>3. /\ log' = Append(log, e)
      /\ IF status = "accepted" THEN records' = RecordsAfterAccept(records, op, n)
         ELSE records' = records
  BY <1>0, <1>1 DEF PostOp
<1>4. /\ Len(log) \in Nat /\ log \in Seq(Entries) /\ log' \in Seq(Entries)
      /\ DOMAIN log = 1..Len(log)
  BY DEF TypeInv, TablesInv
<1>5. /\ Len(log') = n /\ DOMAIN log' = DOMAIN log \cup {n} /\ n \notin DOMAIN log
      /\ \A i \in DOMAIN log : log'[i] = log[i] /\ i < n
      /\ log'[n] = e /\ n \in Nat
  BY <1>0, <1>3, <1>4
<1>6. LogShape'
  <2>1. ASSUME NEW i \in DOMAIN log
        PROVE  /\ log'[i].gid \in Files =>
                    log'[i].kind \in {"file.create", "file.update", "file.delete"}
               /\ log'[i].status = "conflict" =>
                    \E j \in DOMAIN log' :
                      j < i /\ log'[j].gid = log'[i].gid /\ log'[j].status = "accepted"
               /\ log'[i].kind = "file.delete" => log'[i].status = "accepted"
    BY <1>5 DEF LogShape
  <2>2. ASSUME NEW i \in DOMAIN log, log'[i].kind = "file.delete",
               NEW j \in DOMAIN log', log'[j].gid = log'[i].gid
        PROVE  j <= i
    <3>1. log[i].kind = "file.delete" /\ "file.delete" \in KindsOf(log[i].gid)
      BY <1>5, <2>2 DEF KindsOf
    <3>2. log[i].gid # g
      BY <3>1 DEF Gone
    <3>3. j \in DOMAIN log
      BY <1>2, <1>5, <2>2, <3>2
    <3> QED BY <1>5, <2>2, <3>1, <3>3 DEF LogShape
  <2>3. ASSUME NEW i \in DOMAIN log, log'[i].gid \in Files \ Edited
        PROVE  /\ log'[i].kind = "file.create" /\ log'[i].status = "accepted"
               /\ \A j \in DOMAIN log' : log'[j].gid = log'[i].gid => j = i
    <3>1. log[i].gid \in Files \ Edited /\ KindsOf(log[i].gid) # {}
      BY <1>5, <2>3 DEF KindsOf
    <3>2. log[i].gid # g
      BY <3>1
    <3> QED BY <1>2, <1>5, <3>1, <3>2 DEF LogShape
  <2>4. \A j \in DOMAIN log' : j <= n
    BY <1>4, <1>5
  <2>5. status = "conflict" =>
          \E j \in DOMAIN log' : j < n /\ log'[j].gid = g /\ log'[j].status = "accepted"
    <3> SUFFICES ASSUME status = "conflict"
                 PROVE  \E j \in DOMAIN log' :
                          j < n /\ log'[j].gid = g /\ log'[j].status = "accepted"
      OBVIOUS
    <3>1. PICK j \in DOMAIN log : log[j].gid = g /\ log[j].status = "accepted"
      BY SomeAccepted
    <3> QED BY <1>5, <3>1
  <2>6. g \in Files \ Edited => \A j \in DOMAIN log' : log'[j].gid = g => j = n
    BY <1>5 DEF KindsOf
  <2> QED BY <1>2, <1>5, <2>1, <2>2, <2>3, <2>4, <2>5, <2>6 DEF LogShape
<1>7. ASSUME NEW q \in records
      PROVE  /\ log'[q.seq].status = "accepted" /\ q.version <= V(q.gid, q.seq)'
             /\ q.gid \in Files /\ ~q.deleted => IsContent(q.seq)'
  <2>1. q.seq \in DOMAIN log
    BY DEF TypeInv, TablesInv, Described
  <2> QED BY <1>5, <2>1, OldStays DEF RecordsTold
<1>8. ASSUME status = "accepted", NEW q,
             q = [gid |-> g, kind |-> kind, seq |-> n,
                  version |-> CurrentVersion(records, g, KindFamily(kind)) + 1,
                  deleted |-> kind \in TombstoneKinds]
      PROVE  /\ log'[q.seq].status = "accepted" /\ q.version <= V(q.gid, q.seq)'
             /\ q.gid \in Files /\ ~q.deleted => IsContent(q.seq)'
  <2>1. KindFamily(kind) = Family(g)
    <3>1. KindFamily(log'[n].kind) = Family(log'[n].gid)
      BY <1>5 DEF TypeInv, TablesInv, Family
    <3> QED BY <1>2, <1>5, <3>1
  <2>2. q.gid = g /\ q.seq = n /\ q.version = Version(g) + 1
        /\ q.deleted = (kind \in TombstoneKinds)
    <3>1. CurrentVersion(records, g, KindFamily(kind)) = Version(g)
      BY <2>1 DEF Version
    <3> QED BY <1>8, <3>1
  <2>3. Version(g) <= V(g, Len(log)) /\ Version(g) \in Nat
    BY CurrentTold
  <2>4. PICK m \in Nat : m = Len(log)
    BY <1>4
  <2>5. V(g, n)' = V(g, m) + 1 /\ V(g, m) \in Nat
    <3>1. e \in Entries
      BY <1>5 DEF TypeInv, TablesInv
    <3>2. V(g, Len(log))' = V(g, Len(log)) + 1
      BY <1>2, <1>3, <1>4, <1>8, <2>1, <3>1, VersionAppends
    <3>3. V(g, Len(log))' = V(g, n)'
      BY <1>5
    <3> QED BY <1>4, <2>4, <3>2, <3>3, VersionFinite
  <2>7. q.version <= V(q.gid, q.seq)'
    BY <2>2, <2>3, <2>4, <2>5
  <2>8. g \in Files /\ kind \notin TombstoneKinds => IsContent(n)'
    BY <1>2, <1>5 DEF IsContent, TombstoneKinds
  <2> QED BY <1>2, <1>5, <1>8, <2>2, <2>7, <2>8
<1>9. RecordsTold'
  <2>1. CASE status = "conflict"
    BY <1>3, <1>7, <2>1 DEF RecordsTold
  <2>2. CASE status = "accepted"
    <3>1. PICK new : new = [gid |-> g, kind |-> kind, seq |-> n,
                            version |-> CurrentVersion(records, g, KindFamily(kind)) + 1,
                            deleted |-> kind \in TombstoneKinds]
      OBVIOUS
    <3>2. \A q \in records' : q \in records \/ q = new
      BY <1>3, <2>2, <3>1 DEF RecordsAfterAccept, KeptRecords
    <3> QED BY <1>7, <1>8, <2>2, <3>1, <3>2 DEF RecordsTold
  <2> QED BY <2>1, <2>2
<1> QED BY <1>6, <1>9

\* A gid the others write to: it is there, or is new.
LEMMA OthersTold ==
  ASSUME TypeInv, TypeInv', Ages, LogShape, RecordsTold, OthersWrite
  PROVE  LogShape' /\ RecordsTold'
<1>1. /\ \A g \in Files : g \in Gids
      /\ \A p \in Projects : p \in Gids /\ p \notin Files
      /\ \A g \in Edited : g \in Files
  BY GidsAssumption DEF Gids
<1>2. ASSUME NEW g \in Files, KindsOf(g) = {}, PostOp(g, "file.create", NoBase, "accepted")
      PROVE  LogShape' /\ RecordsTold'
  <2>1. ~Gone(g) /\ g \in Gids
    BY <1>1, <1>2 DEF Gone
  <2> QED BY <1>2, <2>1, PostTold
<1>3. ASSUME NEW g \in Projects, KindsOf(g) = {},
             PostOp(g, "project.register", NoBase, "accepted")
      PROVE  LogShape' /\ RecordsTold'
  <2>1. ~Gone(g) /\ g \in Gids /\ g \notin Files
    BY <1>1, <1>3 DEF Gone
  <2> QED BY <1>3, <2>1, PostTold
<1>4. ASSUME NEW g \in Edited, Live(g),
             \/ PostOp(g, "file.update", Version(g), "accepted")
             \/ PostOp(g, "file.update", Version(g) - 1, "conflict")
             \/ PostOp(g, "file.delete", Version(g), "accepted")
      PROVE  LogShape' /\ RecordsTold'
  <2>1. ~Gone(g) /\ KindsOf(g) # {} /\ g \in Gids /\ g \notin Files \ Edited
    BY <1>1, <1>4 DEF Live, Gone
  <2>2. CASE PostOp(g, "file.update", Version(g), "accepted")
    BY <2>1, <2>2, PostTold
  <2>3. CASE PostOp(g, "file.update", Version(g) - 1, "conflict")
    BY <2>1, <2>3, PostTold
  <2>4. CASE PostOp(g, "file.delete", Version(g), "accepted")
    BY <2>1, <2>4, PostTold
  <2> QED BY <1>4, <2>2, <2>3, <2>4
<1> QED BY <1>2, <1>3, <1>4 DEF OthersWrite

\* What the others write leaves the files, and what is known of them, where it was.
LEMMA OthersKeepTexts ==
  ASSUME TypeInv, TypeInv', Ages, TextInv, OthersWrite
  PROVE  TextInv'
<1>1. /\ UNCHANGED <<phase, files, fork, known, cursor>>
      /\ \E e \in Entries : log' = Append(log, e)
  BY OthersTyped DEF localVars
<1>2. /\ log \in Seq(Entries) /\ log' \in Seq(Entries) /\ Len(log) \in Nat
      /\ cursor \in Nat /\ cursor <= Len(log)
      /\ known \in [Gids -> Nat]
  BY DEF TypeInv, TablesInv, RestInv, LocalInv
<1>3. ASSUME NEW g \in Gids PROVE known[g] <= V(g, Len(log))'
  <2>1. PICK e \in Entries : log' = Append(log, e)
    BY <1>1
  <2>2. \/ V(g, Len(log))' = V(g, Len(log)) + 1
        \/ V(g, Len(log))' = V(g, Len(log))
    BY <1>2, <2>1, VersionAppends
  <2>3. V(g, Len(log)) \in Nat /\ known[g] \in Nat /\ known[g] <= V(g, Len(log))
    BY <1>2, VersionFinite DEF TextInv, KnownTold
  <2> QED BY <2>2, <2>3
<1>4. KnownTold'
  BY <1>1, <1>3 DEF TextInv, KnownTold
<1>5. ASSUME NEW g \in Files PROVE TextOf(g)'
  <2>1. TextOf(g)
    BY DEF TextInv
  <2>2. V(g, cursor)' = V(g, cursor) /\ (Gone(g) => Gone(g)')
    BY <1>1, <1>2 DEF Ages
  <2>3. \A version : Holds(g, version) => Holds(g, version)'
    BY <1>1, OldStays
  <2> QED BY <1>1, <2>1, <2>2, <2>3 DEF TextOf
<1> QED BY <1>4, <1>5 DEF TextInv

\* A pass is not hurt by it either.
LEMMA OthersKeepPass ==
  ASSUME TypeInv, TypeInv', Ages, known' = known,
         NEW p \in Pass, Sound(p), PassTold(p)
  PROVE  PassTold(p)'
<1>1. \A q \in p.recs : Brings(q.seq, q.version) /\ Brings(q.seq, q.version)'
  BY OldStays DEF PassTold
<1>2. Waiters(p.deferred)'
  BY OldStays DEF PassTold
<1>3. ASSUME Ascends(p) PROVE Ascends(p)'
  <2>1. \A q \in p.recs : \A g : V(g, q.seq)' = V(g, q.seq)
    BY OldStays DEF Sound, Described
  <2> QED BY <1>3, <2>1 DEF Ascends
<1> QED BY <1>1, <1>2, <1>3 DEF PassTold

LEMMA OthersJoin ==
  ASSUME TypeInv, ToldInv, OthersWrite
  PROVE  ToldInv'
<1>1. TypeInv' /\ Ages /\ UNCHANGED <<saved, known, run>>
  BY OthersTyped, OthersAges DEF localVars
<1>2. LogShape' /\ RecordsTold' /\ TextInv'
  BY <1>1, OthersTold, OthersKeepTexts DEF ToldInv
<1>3. Waiters(saved.deferred)'
  <2>1. PICK d : d = saved.deferred
    OBVIOUS
  <2>2. Waiters(d)'
    BY <1>1, <2>1, OldStays DEF ToldInv
  <2> QED BY <1>1, <2>1, <2>2
<1>4. ASSUME NEW r \in Runners, run'[r] # Idle PROVE PassTold(run[r])'
  <2>1. PICK p \in Pass : p = run[r] /\ Sound(p) /\ PassTold(p)
    BY <1>1, <1>4, AtWork DEF ToldInv, PassesTold
  <2>2. PassTold(p)'
    BY <1>1, <2>1, OthersKeepPass
  <2> QED BY <1>1, <2>1, <2>2
<1> QED BY <1>2, <1>3, <1>4 DEF ToldInv, PassesTold

-----------------------------------------------------------------------------
(* The steps of the one runner, and the pull.                               *)

LEMMA OneRunnerTold ==
  ASSUME OneRunner, NEW r \in Runners,
         UNCHANGED relayVars, ToldInv, Waiters(saved.deferred)', TextInv',
         run'[r] # Idle => PassTold(run[r])'
  PROVE  ToldInv'
<1>1. LogShape' /\ RecordsTold'
  BY SameLog, SameRecords DEF ToldInv, relayVars
<1>2. PassesTold'
  BY DEF OneRunner, PassesTold
<1> QED BY <1>1, <1>2 DEF ToldInv

\* Where neither files nor what is known of them move.
LEMMA SameTexts ==
  ASSUME TextInv, UNCHANGED <<log, phase, files, fork, known, cursor>>
  PROVE  TextInv'
<1>1. /\ \A g, n : V(g, n)' = V(g, n)
      /\ \A g : Gone(g)' <=> Gone(g)
      /\ \A seq : IsContent(seq)' <=> IsContent(seq)
  BY SameLog
<1>2. \A g, version : Holds(g, version)' <=> Holds(g, version)
  BY <1>1 DEF Holds
<1>3. KnownTold'
  BY <1>1 DEF TextInv, KnownTold
<1>4. \A g \in Files : TextOf(g)'
  BY <1>1, <1>2 DEF TextInv, TextOf
<1> QED BY <1>3, <1>4 DEF TextInv

\* A row of settings that stays.
LEMMA SameWaiters ==
  ASSUME log' = log, saved'.deferred = saved.deferred, Waiters(saved.deferred)
  PROVE  Waiters(saved.deferred)'
<1>1. PICK d : d = saved.deferred
  OBVIOUS
<1>2. Waiters(d)'
  BY <1>1, SameLog
<1> QED BY <1>1, <1>2

LEMMA JoinTold ==
  ASSUME TypeInv, CoverInv, ToldInv, Join
  PROVE  ToldInv'
<1>1. /\ phase = "out" /\ phase' = "joining" /\ log' = log
      /\ UNCHANGED <<relayVars, saved, known, fork, cursor, run>>
  BY DEF Join, relayVars
<1>2. LogShape' /\ RecordsTold' /\ Waiters(saved.deferred)'
  BY <1>1, SameLog, SameRecords, SameWaiters DEF ToldInv
<1>3. PassesTold'
  BY <1>1 DEF PassesTold, CoverInv, PassCover
<1>4. KnownTold'
  BY <1>1, SameLog DEF ToldInv, TextInv, KnownTold
<1>5. ASSUME NEW g \in Files PROVE TextOf(g)'
  <2>1. known[g] = 0 /\ fork[g] = NoFork
    BY <1>1 DEF ToldInv, TextInv, KnownTold, TextOf, Gids
  <2> QED BY <1>1, <2>1 DEF TextOf
<1> QED BY <1>2, <1>3, <1>4, <1>5 DEF ToldInv, TextInv

LEMMA StartTold ==
  ASSUME TypeInv, CoverInv, ToldInv, OneRunner, NEW r \in Runners, Start(r)
  PROVE  ToldInv'
<1>1. PICK n : n = run'[r]
  OBVIOUS
<1>2. /\ n.pc = "fetch" /\ n.mode = Mode /\ n.recs = {} /\ n.deferred = saved.deferred
      /\ phase = "joining" /\ log' = log
      /\ UNCHANGED <<relayVars, phase, saved, files, fork, known, cursor>>
  BY <1>1, StartStep DEF localVars, relayVars
<1>3. TextInv' /\ Waiters(saved.deferred)'
  BY <1>2, SameTexts, SameWaiters DEF ToldInv
<1>4. ASSUME n.mode = "empty", NEW g \in Files PROVE known[g] = 0
  <2>1. files[g] = NoText
    BY <1>2, <1>4 DEF Mode
  <2>2. files[g] \notin DOMAIN log
    BY <2>1, InTheLog
  <2> QED BY <1>2, <2>1, <2>2 DEF ToldInv, TextInv, TextOf, Holds
<1>5. PassTold(n)'
  <2>1. Waiters(n.deferred)'
    BY <1>2, SameLog DEF ToldInv
  <2> QED BY <1>2, <1>4, <2>1 DEF PassTold, Ascends
<1> QED BY <1>1, <1>2, <1>3, <1>5, OneRunnerTold

LEMMA FetchTold ==
  ASSUME TypeInv, CoverInv, ToldInv, OneRunner, NEW r \in Runners, run[r] # Idle, Fetch(r)
  PROVE  ToldInv'
<1>1. PICK n : n = run'[r]
  OBVIOUS
<1>2. PICK p \in Pass : p = run[r] /\ Sound(p) /\ PassTold(p)
  BY AtWork DEF ToldInv, PassesTold
<1>3. /\ p.pc = "fetch" /\ n.pc = "page" /\ n.mode = p.mode /\ n.after = p.after
      /\ n.deferred = p.deferred /\ n.gids = PageAfter(p.after)
      /\ n.recs = {q \in records : q.gid \in n.gids /\ ~q.deleted}
      /\ saved'.deferred = saved.deferred /\ log' = log
      /\ UNCHANGED <<relayVars, phase, files, fork, known, cursor>>
  BY <1>1, <1>2, FetchStep DEF localVars, relayVars
<1>4. TextInv' /\ Waiters(saved.deferred)'
  BY <1>3, SameTexts, SameWaiters DEF ToldInv
<1>5. \A q \in n.recs : Brings(q.seq, q.version)
  BY <1>3 DEF ToldInv, RecordsTold, Brings, TypeInv, TablesInv, Described
<1>6. \A g \in n.gids : g > n.after
  BY <1>3 DEF PageAfter, Remaining
<1>7. p.mode = "empty" => \A g \in Files : g > p.after => known[g] = 0
  BY <1>2, <1>3 DEF PassTold, Ascends
<1>8. ASSUME p.mode = "empty" PROVE Ascends(n)'
  BY <1>3, <1>7, <1>8 DEF Ascends
<1>9. /\ \A q \in n.recs : Brings(q.seq, q.version)'
      /\ Waiters(n.deferred)'
  BY <1>2, <1>3, <1>5, SameLog DEF PassTold
<1>10. PassTold(n)'
  BY <1>3, <1>6, <1>8, <1>9 DEF PassTold
<1> QED BY <1>1, <1>3, <1>4, <1>10, OneRunnerTold

\* A deferred record is the only op of its file: nobody edits a file with a project.
LEMMA DeferTold ==
  ASSUME WaitersUnedited,
         TypeInv, CoverInv, ToldInv, OneRunner, NEW r \in Runners, run[r] # Idle, Defer(r)
  PROVE  ToldInv'
<1>1. PICK n : n = run'[r]
  OBVIOUS
<1>2. PICK p \in Pass : p = run[r] /\ Sound(p) /\ PassTold(p)
  BY AtWork DEF ToldInv, PassesTold
<1>3. PICK q \in p.recs :
        /\ q.seq \in DOMAIN log /\ DependsOnMissing(q.seq)
        /\ n.recs = p.recs \ {q}
        /\ n.deferred = Append(p.deferred, [seq |-> q.seq, version |-> q.version])
  BY <1>1, <1>2, DeferStep
<1>4. /\ p.pc = "page" /\ n.pc = "page" /\ n.mode = p.mode /\ n.after = p.after
      /\ n.gids = p.gids /\ saved'.deferred = n.deferred /\ log' = log
      /\ UNCHANGED <<relayVars, phase, files, fork, known, cursor>>
  BY <1>1, <1>2, DeferStep DEF localVars, relayVars
<1>5. PICK w : w = [seq |-> q.seq, version |-> q.version]
  OBVIOUS
<1>6. Waiter(w)
  <2>1. Brings(w.seq, w.version)
    BY <1>2, <1>5 DEF PassTold
  <2>2. IsContent(q.seq) /\ Home[log[q.seq].gid] \in Projects
    BY <1>3 DEF DependsOnMissing, IsContent
  <2>3. log[q.seq].gid \in Files \ Edited
    BY <1>3, <2>2, ContentIsOfFiles DEF WaitersUnedited
  <2> QED BY <1>5, <2>1, <2>3 DEF Waiter
<1>7. Waiters(n.deferred)
  <2>1. w \in Waiting
    <3>1. q.seq \in Texts /\ q.version \in Nat
      BY <1>2, <1>3, InTheLog DEF Pass, Records, Record
    <3> QED BY <1>5, <3>1 DEF Waiting
  <2>2. p.deferred \in Seq(Waiting)
    BY DEF Pass
  <2>3. \A i \in DOMAIN n.deferred :
          n.deferred[i] = w \/ (i \in DOMAIN p.deferred /\ n.deferred[i] = p.deferred[i])
    BY <1>3, <1>5, <2>1, <2>2
  <2> QED BY <1>2, <1>6, <2>3 DEF PassTold, Waiters
<1>8. Waiters(n.deferred)' /\ Waiters(saved.deferred)'
  <2>1. Waiters(n.deferred)'
    BY <1>4, <1>7, SameLog
  <2> QED BY <1>4, <2>1
<1>9. TextInv'
  BY <1>4, SameTexts DEF ToldInv
<1>10. \A g, k : V(g, k)' = V(g, k)
  BY <1>4, SameLog
<1>11. \A s \in n.recs : Brings(s.seq, s.version)'
  BY <1>2, <1>3, <1>4, SameLog DEF PassTold
<1>12. p.mode = "empty" => Ascends(n)'
  <2>1. p.mode = "empty" => Ascends(p)
    BY <1>2 DEF PassTold
  <2> QED BY <1>3, <1>4, <1>10, <2>1 DEF Ascends
<1>13. PassTold(n)'
  BY <1>2, <1>3, <1>4, <1>8, <1>11, <1>12 DEF PassTold
<1> QED BY <1>1, <1>4, <1>8, <1>9, <1>13, OneRunnerTold

\* An op that is brought: the file has its text, or its user is shown it.  On an empty
\* machine it must be no older than what is known; on another it is applied only
\* where there was no file, so where nothing is known.
LEMMA ProcessTold ==
  ASSUME TypeInv, TypeInv', TextInv, phase = "joining", phase' = "joining", log' = log,
         NEW mode \in {"empty", "merge"}, NEW seq, NEW version \in Nat,
         Brings(seq, version), Process(mode, seq, version),
         mode = "empty" /\ log[seq].gid \in Files => known[log[seq].gid] <= V(log[seq].gid, seq)
  PROVE  /\ TextInv'
         /\ \A g \in Gids : known'[g] # known[g] => g = log[seq].gid /\ known'[g] = version
<1> DEFINE h == log[seq].gid
<1>1. /\ seq \in DOMAIN log /\ log[seq].status = "accepted" /\ version <= V(h, seq)
      /\ h \in Files => IsContent(seq)
  BY DEF Brings
<1>2. /\ seq \in Texts /\ seq \in Nat /\ h \in Gids /\ seq # Own /\ seq # NoText
      /\ seq <= Len(log) /\ Len(log) \in Nat /\ DOMAIN log = 1..Len(log)
  BY <1>1, InTheLog DEF Texts, TypeInv, TablesInv
<1>3. /\ known \in [Gids -> Nat] /\ fork \in [Files -> Texts \cup {NoFork}]
      /\ files \in [Files -> Texts \cup {NoText, Own}]
  BY DEF TypeInv, LocalInv
<1>4. seq # NoFork /\ NoText \notin DOMAIN log
  BY <1>2, ValuesAssumption
<1>5. PICK v \in Nat : v = Max({known[h], version}) /\ v \in {known[h], version}
  BY <1>2, <1>3, MaxOfTwo
<1>6. known' = [known EXCEPT ![h] = v]
  BY <1>5 DEF Process, RecordVersion
<1>7. \A g \in Gids : IF g = h THEN known'[g] = v ELSE known'[g] = known[g]
  BY <1>2, <1>3, <1>6
<1>8. /\ \A g, n : V(g, n)' = V(g, n)
      /\ \A s : IsContent(s)' <=> IsContent(s)
  BY SameLog
<1>9. V(h, seq) <= V(h, Len(log)) /\ V(h, seq) \in Nat /\ V(h, Len(log)) \in Nat
  BY <1>2, VersionsRise
<1>10. KnownTold'
  <2>1. known[h] <= V(h, Len(log)) /\ \A g \in Gids : known[g] <= V(g, Len(log))
    BY <1>2 DEF TextInv, KnownTold
  <2>2. v <= V(h, Len(log))
    BY <1>1, <1>5, <1>9, <2>1
  <2>3. \A g \in Gids : known'[g] <= V(g, Len(log))
    BY <1>7, <2>1, <2>2
  <2>4. V(h, Len(log))' = V(h, Len(log)) /\ \A g : V(g, Len(log))' = V(g, Len(log))
    BY <1>8
  <2> QED BY <2>3, <2>4 DEF KnownTold
<1>11. ASSUME NEW g \in Files, g # h PROVE TextOf(g)'
  <2>1. files'[g] = files[g] /\ fork'[g] = fork[g]
    BY <1>3, <1>11 DEF Process, ForkUnlessEqual, ApplyRecord
  <2>2. known'[g] = known[g]
    BY <1>7, <1>11 DEF Gids
  <2>3. Holds(g, known[g]) => Holds(g, known[g])'
    BY <1>8, <2>1, <2>2 DEF Holds
  <2> QED BY <2>1, <2>2, <2>3 DEF TextInv, TextOf
<1>12. \A g \in Gids : known'[g] # known[g] => g = h /\ known'[g] = version
  BY <1>5, <1>7
<1>13. ASSUME h \in Files PROVE TextInv'
  <2>1. IsContent(seq) /\ V(h, seq)' = V(h, seq)
    BY <1>1, <1>8, <1>13
  <2>2. /\ fork[h] # NoFork => files[h] # NoText
        /\ fork[h] # NoFork \/ known[h] = 0 \/ Holds(h, known[h])
    BY <1>13 DEF TextInv, TextOf
  <2>3. known'[h] = v
    BY <1>2, <1>7
  <2>4. CASE KeepsLocal(mode, seq) /\ files[h] # seq
    <3>1. files' = files /\ fork'[h] = seq /\ files[h] # NoText
      BY <1>3, <1>13, <2>4 DEF Process, ForkUnlessEqual, KeepsLocal
    <3>2. TextOf(h)'
      BY <1>4, <3>1 DEF TextOf
    <3> QED BY <1>11, <3>2, <1>10 DEF TextInv
  <2>5. ASSUME files'[h] = seq, fork'[h] = fork[h], fork[h] = NoFork => known[h] <= V(h, seq)
        PROVE  TextInv'
    <3>1. fork[h] = NoFork => Holds(h, v)'
      <4>1. fork[h] = NoFork => v <= V(h, seq)
        BY <1>1, <1>5, <2>5
      <4> QED BY <1>1, <1>8, <2>1, <2>5, <4>1 DEF Holds
    <3>2. fork'[h] # NoFork \/ Holds(h, known[h])'
      BY <2>3, <2>5, <3>1 DEF Holds
    <3>3. files'[h] # NoText
      BY <1>2, <2>5
    <3>4. TextOf(h)'
      BY <3>2, <3>3 DEF TextOf
    <3> QED BY <1>10, <1>11, <3>4 DEF TextInv
  <2>6. CASE KeepsLocal(mode, seq) /\ files[h] = seq
    <3>1. files' = files /\ fork' = fork
      BY <2>6 DEF Process, ForkUnlessEqual
    <3>2. fork[h] = NoFork => known[h] <= V(h, seq)
      BY <1>9, <2>2, <2>6 DEF Holds
    <3> QED BY <2>5, <2>6, <3>1, <3>2
  <2>7. CASE ~KeepsLocal(mode, seq)
    <3>1. files'[h] = seq /\ fork' = fork
      BY <1>3, <1>13, <2>1, <2>7 DEF Process, ApplyRecord
    <3>2. mode = "merge" => files[h] = NoText
      BY <2>1, <2>7 DEF KeepsLocal
    <3>3. mode = "merge" /\ fork[h] = NoFork => known[h] = 0
      BY <1>4, <2>2, <3>2 DEF Holds
    <3>4. fork[h] = NoFork => known[h] <= V(h, seq)
      BY <1>9, <1>13, <3>3
    <3> QED BY <2>5, <3>1, <3>4
  <2> QED BY <2>4, <2>6, <2>7
<1>14. h \notin Files => TextInv'
  BY <1>10, <1>11 DEF TextInv
<1> QED BY <1>12, <1>13, <1>14

LEMMA TakeRecordTold ==
  ASSUME TypeInv, CoverInv, ToldInv, OneRunner, NEW r \in Runners, run[r] # Idle,
         TakeRecord(r)
  PROVE  ToldInv'
<1>1. PICK n : n = run'[r]
  OBVIOUS
<1>2. PICK p \in Pass : p = run[r] /\ Sound(p) /\ PassTold(p) /\ PassCover(p)
  BY AtWork DEF ToldInv, PassesTold, CoverInv
<1>3. PICK q \in p.recs :
        /\ q.gid = log[q.seq].gid /\ q.seq \in DOMAIN log
        /\ Process(p.mode, q.seq, q.version)
        /\ n.recs = p.recs \ {q}
        /\ \A s \in p.recs : s.gid = q.gid => q.seq <= s.seq
  BY <1>1, <1>2, TakeRecordStep
<1>4. /\ TypeInv' /\ p.pc = "page" /\ n.pc = "page" /\ n.mode = p.mode /\ n.after = p.after
      /\ n.gids = p.gids /\ n.deferred = p.deferred /\ log' = log
      /\ saved' = saved /\ phase' = phase /\ UNCHANGED relayVars
  BY <1>1, <1>2, TakeRecordStep DEF relayVars
<1>5. /\ Brings(q.seq, q.version) /\ q.gid \in p.gids /\ q.gid > p.after
      /\ phase = "joining" /\ p.mode \in {"empty", "merge"} /\ q.version \in Nat
  BY <1>2, <1>4 DEF PassTold, PassCover, Pass, Records, Record
<1>6. p.mode = "empty" => Ascends(p)
  BY <1>2 DEF PassTold
<1>7. /\ known \in [Gids -> Nat]
      /\ \A s \in p.recs : /\ V(s.gid, s.seq) \in Nat /\ s.seq \in Nat
                           /\ s.gid \in Gids /\ Described(s)
      /\ log \in Seq(Entries)
  BY <1>2, VersionFinite DEF TypeInv, TablesInv, LocalInv, Pass, Records, Record, Sound
<1>8. p.mode = "empty" /\ q.gid \in Files => known[q.gid] <= V(q.gid, q.seq)
  <2>1. known[q.gid] \in Nat /\ V(q.gid, q.seq) \in Nat
    BY <1>3, <1>7
  <2>2. ASSUME p.mode = "empty", q.gid \in Files
        PROVE  known[q.gid] = 0 \/ known[q.gid] <= V(q.gid, q.seq)
    BY <1>3, <1>4, <1>5, <1>6, <2>2 DEF Ascends
  <2> QED BY <2>1, <2>2
<1>9. /\ TextInv'
      /\ \A g \in Gids : known'[g] # known[g] => g = q.gid /\ known'[g] = q.version
  BY <1>3, <1>4, <1>5, <1>8, ProcessTold DEF ToldInv
<1>10. ASSUME p.mode = "empty" PROVE Ascends(n)'
  <2> SUFFICES ASSUME NEW g \in Files, g > p.after, known'[g] # 0
               PROVE  /\ g \in p.gids
                      /\ \A s \in n.recs : s.gid = g => known'[g] <= V(g, s.seq)'
    BY <1>4 DEF Ascends
  <2>1. \A s : V(g, s)' = V(g, s)
    BY <1>4, SameLog
  <2>2. g \in Gids /\ (g # q.gid => known'[g] = known[g])
    BY <1>9 DEF Gids
  <2>3. CASE g # q.gid
    BY <1>3, <1>4, <1>6, <1>10, <2>1, <2>2, <2>3 DEF Ascends
  <2>4. CASE g = q.gid
    <3> SUFFICES ASSUME NEW s \in p.recs, s.gid = g PROVE known'[g] <= V(g, s.seq)
      BY <1>3, <1>5, <2>1, <2>4
    <3>1. q.seq <= s.seq /\ V(g, q.seq) <= V(g, s.seq)
      BY <1>3, <1>7, <2>4, VersionsRise
    <3>2. q.version <= V(g, q.seq) /\ q.version \in Nat
      BY <1>3, <1>5, <2>4 DEF Brings
    <3>3. known[g] <= V(g, s.seq)
      <4>1. known[g] = 0 \/ known[g] <= V(g, s.seq)
        BY <1>4, <1>6, <1>10 DEF Ascends
      <4>2. V(g, s.seq) \in Nat
        BY <1>7
      <4> QED BY <4>1, <4>2
    <3>4. known'[g] = known[g] \/ known'[g] = q.version
      BY <1>9, <2>2
    <3> QED BY <1>7, <2>4, <3>1, <3>2, <3>3, <3>4
  <2> QED BY <2>3, <2>4
<1>11. /\ \A s \in n.recs : Brings(s.seq, s.version)'
       /\ Waiters(n.deferred)'
  BY <1>2, <1>3, <1>4, SameLog DEF PassTold
<1>12. PassTold(n)'
  BY <1>2, <1>3, <1>4, <1>10, <1>11 DEF PassTold
<1>13. Waiters(saved.deferred)'
  BY <1>4, SameWaiters DEF ToldInv
<1> QED BY <1>1, <1>4, <1>9, <1>12, <1>13, OneRunnerTold

\* A conflict that is taken leaves the files, and shows one that is there.
LEMMA TakeConflictTold ==
  ASSUME TypeInv, CoverInv, ToldInv, OneRunner, NEW r \in Runners, run[r] # Idle,
         TakeConflict(r)
  PROVE  ToldInv'
<1>1. PICK n : n = run'[r]
  OBVIOUS
<1>2. PICK p \in Pass : p = run[r] /\ Sound(p) /\ PassTold(p) /\ PassCover(p)
  BY AtWork DEF ToldInv, PassesTold, CoverInv
<1>3. /\ n.pc = p.pc /\ n.mode = p.mode /\ n.after = p.after
      /\ n.gids = p.gids /\ n.deferred = p.deferred /\ n.recs = p.recs
      /\ \A g \in Files : fork'[g] # fork[g] => files[g] # NoText /\ fork'[g] \in Texts
      /\ log' = log /\ UNCHANGED <<relayVars, phase, saved, files, known>>
  BY <1>1, <1>2, TakeConflictStep DEF relayVars
<1>4. phase = "joining"
  BY <1>2 DEF PassCover
<1>5. /\ \A g, k : V(g, k)' = V(g, k)
      /\ \A s : IsContent(s)' <=> IsContent(s)
  BY <1>3, SameLog
<1>6. \A g, version : Holds(g, version)' <=> Holds(g, version)
  BY <1>3, <1>5 DEF Holds
<1>7. KnownTold'
  BY <1>3, <1>5 DEF ToldInv, TextInv, KnownTold
<1>8. ASSUME NEW g \in Files PROVE TextOf(g)'
  <2>1. /\ fork[g] # NoFork => files[g] # NoText
        /\ fork[g] # NoFork \/ known[g] = 0 \/ Holds(g, known[g])
    BY <1>4 DEF ToldInv, TextInv, TextOf
  <2>2. fork'[g] = fork[g] \/ (files[g] # NoText /\ fork'[g] # NoFork)
    BY <1>3, ValuesAssumption DEF Texts
  <2> QED BY <1>3, <1>4, <1>6, <2>1, <2>2 DEF TextOf
<1>9. PassTold(n)'
  <2>1. /\ \A s \in n.recs : Brings(s.seq, s.version)'
        /\ Waiters(n.deferred)'
    BY <1>2, <1>3, SameLog DEF PassTold
  <2>2. p.mode = "empty" => Ascends(n)'
    BY <1>2, <1>3, <1>5 DEF PassTold, Ascends
  <2> QED BY <1>2, <1>3, <2>1, <2>2 DEF PassTold
<1>10. Waiters(saved.deferred)'
  BY <1>3, SameWaiters DEF ToldInv
<1> QED BY <1>1, <1>3, <1>7, <1>8, <1>9, <1>10, OneRunnerTold DEF TextInv

LEMMA FinishGidTold ==
  ASSUME TypeInv, CoverInv, ToldInv, OneRunner, NEW r \in Runners, run[r] # Idle,
         FinishGid(r)
  PROVE  ToldInv'
<1>1. PICK n : n = run'[r]
  OBVIOUS
<1>2. PICK p \in Pass : p = run[r] /\ Sound(p) /\ PassTold(p)
  BY AtWork DEF ToldInv, PassesTold
<1>3. PICK c : c = Current(r)
  OBVIOUS
<1>4. /\ p.pc = "page" /\ n.pc = "page" /\ n.mode = p.mode /\ n.after = c
      /\ c \in p.gids /\ \A g \in p.gids : c <= g
      /\ n.gids = p.gids \ {c} /\ n.deferred = p.deferred /\ n.recs = p.recs
      /\ saved'.deferred = saved.deferred /\ log' = log
      /\ UNCHANGED <<relayVars, phase, files, fork, known, cursor>>
  BY <1>1, <1>2, <1>3, FinishGidStep DEF localVars, relayVars
<1>5. TextInv' /\ Waiters(saved.deferred)'
  BY <1>4, SameTexts, SameWaiters DEF ToldInv
<1>6. \A q \in p.recs : q.gid # c
  BY <1>2, <1>3, CurrentDone
<1>7. /\ p.after \in Nat /\ c \in Nat /\ p.gids \subseteq Nat
      /\ \A g \in Files : g \in Nat
  <2>1. \A g \in Gids : g \in Nat
    BY GidsAssumption DEF Gids
  <2>2. p.after \in Gids \cup {0} /\ p.gids \subseteq Gids
    BY <1>2, AtWork
  <2> QED BY <1>4, <2>1, <2>2 DEF Gids
<1>8. c > p.after
  BY <1>2, <1>4 DEF PassTold
<1>9. ASSUME p.mode = "empty" PROVE Ascends(n)'
  <2>1. \A g, k : V(g, k)' = V(g, k)
    BY <1>4, SameLog
  <2>2. Ascends(p)
    BY <1>2, <1>9 DEF PassTold
  <2>3. \A g \in Files : g > c => g > p.after /\ g # c
    BY <1>7, <1>8
  <2> QED BY <1>4, <2>1, <2>2, <2>3 DEF Ascends
<1>10. /\ \A s \in n.recs : Brings(s.seq, s.version)'
       /\ Waiters(n.deferred)'
  BY <1>2, <1>4, SameLog DEF PassTold
<1>11. \A q \in n.recs : q.gid \in n.gids
  BY <1>2, <1>4, <1>6 DEF PassTold
<1>12. \A g \in n.gids : g > n.after
  BY <1>4, <1>7
<1>13. PassTold(n)'
  BY <1>4, <1>9, <1>10, <1>11, <1>12 DEF PassTold
<1> QED BY <1>1, <1>4, <1>5, <1>13, OneRunnerTold

LEMMA PageDoneTold ==
  ASSUME TypeInv, CoverInv, ToldInv, OneRunner, NEW r \in Runners, run[r] # Idle,
         PageDone(r)
  PROVE  ToldInv'
<1>1. PICK n : n = run'[r]
  OBVIOUS
<1>2. PICK p \in Pass : p = run[r] /\ Sound(p) /\ PassTold(p)
  BY AtWork DEF ToldInv, PassesTold
<1>3. /\ p.pc = "page" /\ p.gids = {} /\ n.pc # "page" /\ n.mode = p.mode
      /\ n.after = p.after /\ n.deferred = p.deferred /\ n.recs = p.recs
      /\ log' = log
      /\ UNCHANGED <<relayVars, phase, saved, files, fork, known, cursor>>
  BY <1>1, <1>2, PageDoneStep DEF localVars, relayVars
<1>4. TextInv' /\ Waiters(saved.deferred)'
  BY <1>3, SameTexts, SameWaiters DEF ToldInv
<1>5. p.mode = "empty" => Ascends(n)'
  BY <1>2, <1>3 DEF PassTold, Ascends
<1>6. /\ \A s \in n.recs : Brings(s.seq, s.version)'
      /\ Waiters(n.deferred)'
  BY <1>2, <1>3, SameLog DEF PassTold
<1>7. PassTold(n)'
  BY <1>3, <1>5, <1>6 DEF PassTold
<1> QED BY <1>1, <1>3, <1>4, <1>7, OneRunnerTold

\* What waits is the only op of its file, so nothing newer of it is known.
LEMMA WaiterIsLatest ==
  ASSUME TypeInv, LogShape, NEW seq, NEW version, Brings(seq, version),
         log[seq].gid \in Files \ Edited
  PROVE  V(log[seq].gid, seq) = V(log[seq].gid, Len(log))
<1> DEFINE h == log[seq].gid
<1>1. seq \in DOMAIN log /\ \A j \in DOMAIN log : log[j].gid = h => j = seq
  BY DEF Brings, LogShape
<1>2. DOMAIN log = 1..Len(log) /\ Len(log) \in Nat
  BY DEF TypeInv, TablesInv
<1>3. seq <= seq /\ seq <= Len(log)
  BY <1>1, <1>2
<1>4. AcceptedUpTo(log, h, Family(h), seq) = AcceptedUpTo(log, h, Family(h), Len(log))
  BY <1>1, <1>3 DEF AcceptedUpTo
<1> QED BY <1>4 DEF V, VersionAt

LEMMA TakeDeferredTold ==
  ASSUME TypeInv, CoverInv, ToldInv, OneRunner, NEW r \in Runners, run[r] # Idle,
         TakeDeferred(r)
  PROVE  ToldInv'
<1>1. PICK n : n = run'[r]
  OBVIOUS
<1>2. PICK p \in Pass : p = run[r] /\ Sound(p) /\ PassTold(p) /\ PassCover(p)
  BY AtWork DEF ToldInv, PassesTold, CoverInv
<1>3. PICK q : q = p.deferred[1]
  OBVIOUS
<1>4. /\ TypeInv' /\ n.pc = "final" /\ n.mode = p.mode /\ n.recs = p.recs
      /\ p.deferred # <<>> /\ n.deferred = Tail(p.deferred)
      /\ Process(p.mode, q.seq, q.version)
      /\ log' = log /\ UNCHANGED <<relayVars, phase, saved>>
  BY <1>1, <1>2, <1>3, TakeDeferredStep DEF relayVars
<1>5. phase = "joining" /\ p.mode \in {"empty", "merge"} /\ p.deferred \in Seq(Waiting)
  BY <1>2 DEF PassCover, Pass
<1>6. q \in Waiting /\ 1 \in DOMAIN p.deferred
  BY <1>3, <1>4, <1>5
<1>7. Brings(q.seq, q.version) /\ log[q.seq].gid \in Files \ Edited /\ q.version \in Nat
  BY <1>2, <1>3, <1>6 DEF PassTold, Waiters, Waiter, Waiting
<1>8. known[log[q.seq].gid] <= V(log[q.seq].gid, q.seq)
  <2>1. V(log[q.seq].gid, q.seq) = V(log[q.seq].gid, Len(log))
    BY <1>7, WaiterIsLatest DEF ToldInv
  <2>2. known[log[q.seq].gid] <= V(log[q.seq].gid, Len(log))
    BY <1>7 DEF ToldInv, TextInv, KnownTold, Gids
  <2> QED BY <2>1, <2>2
<1>9. TextInv'
  BY <1>4, <1>5, <1>7, <1>8, ProcessTold DEF ToldInv
<1>10. Waiters(n.deferred)
  <2>1. \A i \in DOMAIN n.deferred :
          i + 1 \in DOMAIN p.deferred /\ n.deferred[i] = p.deferred[i + 1]
    BY <1>4, <1>5
  <2> QED BY <1>2, <2>1 DEF PassTold, Waiters
<1>11. /\ \A s \in n.recs : Brings(s.seq, s.version)'
       /\ Waiters(n.deferred)'
  BY <1>2, <1>4, <1>10, SameLog DEF PassTold
<1>12. PassTold(n)'
  BY <1>4, <1>11 DEF PassTold, Ascends
<1>13. Waiters(saved.deferred)'
  BY <1>4, SameWaiters DEF ToldInv
<1> QED BY <1>1, <1>4, <1>9, <1>12, <1>13, OneRunnerTold

\* Where the bootstrap ends, what is known vouches for what the cursor covers.
LEMMA FinishTold ==
  ASSUME TypeInv, CoverInv, ToldInv, OneRunner, NEW r \in Runners, run[r] # Idle, Finish(r)
  PROVE  ToldInv'
<1>1. /\ TypeInv' /\ CoverInv' /\ phase' = "joined" /\ phase = "joining"
      /\ saved' = NothingSaved /\ run'[r] = Idle /\ cursor' \in Nat
      /\ UNCHANGED <<relayVars, files, fork, known>> /\ log' = log
  <2>1. cursor' \in Nat
    BY FinishStep DEF TypeInv, RestInv
  <2> QED BY <2>1, FinishStep, FinishCover DEF localVars, relayVars, CoverInv, PassCover
<1>2. /\ \A g, k : V(g, k)' = V(g, k)
      /\ \A s : IsContent(s)' <=> IsContent(s)
  BY <1>1, SameLog
<1>3. \A g, version : Holds(g, version)' <=> Holds(g, version)
  BY <1>1, <1>2 DEF Holds
<1>4. KnownTold'
  BY <1>1, <1>2 DEF ToldInv, TextInv, KnownTold
<1>5. ASSUME NEW g \in Files PROVE TextOf(g)'
  <2>1. PICK c \in Nat : c = cursor'
    BY <1>1
  <2>2. /\ V(g, c) \in Nat /\ known[g] \in Nat
        /\ \A k \in DOMAIN log : V(g, k) \in Nat
    BY VersionFinite DEF TypeInv, TablesInv, LocalInv, Gids
  <2>3. V(g, cursor)' = V(g, c)
    <3>1. V(g, c)' = V(g, c)
      BY <1>2
    <3> QED BY <2>1, <3>1
  <2>4. known[g] >= V(g, c) \/ Gone(g)'
    BY <1>1, <2>3 DEF CoverInv, CursorInv, Has, Gids
  <2>5. fork[g] # NoFork \/ known[g] = 0 \/ Holds(g, known[g])
    BY <1>1 DEF ToldInv, TextInv, TextOf
  <2>6. known[g] >= V(g, c) /\ known[g] = 0 => V(g, c) = 0
    BY <2>2
  <2>7. ASSUME known[g] >= V(g, c), Holds(g, known[g]) PROVE Holds(g, V(g, c))
    <3>1. V(g, files[g]) \in Nat /\ known[g] <= V(g, files[g])
      BY <2>2, <2>7 DEF Holds
    <3>2. V(g, c) <= V(g, files[g])
      BY <2>2, <2>7, <3>1
    <3> QED BY <2>7, <3>2 DEF Holds
  <2>8. Holds(g, V(g, c)) => Holds(g, V(g, cursor))'
    <3>1. PICK v : v = V(g, c)
      OBVIOUS
    <3>2. Holds(g, v) => Holds(g, v)'
      BY <1>3
    <3> QED BY <2>3, <3>1, <3>2
  <2> QED BY <1>1, <2>3, <2>4, <2>5, <2>6, <2>7, <2>8 DEF TextOf
<1>6. Waiters(saved.deferred)'
  BY <1>1 DEF NothingSaved, Waiters
<1> QED BY <1>1, <1>4, <1>5, <1>6, OneRunnerTold DEF TextInv

LEMMA CrashTold ==
  ASSUME TypeInv, ToldInv, OneRunner, NEW r \in Runners, Crash(r)
  PROVE  ToldInv'
<1>1. /\ run'[r] = Idle /\ log' = log
      /\ UNCHANGED <<relayVars, phase, saved, files, fork, known, cursor>>
  BY CrashStep DEF localVars, relayVars
<1>2. TextInv' /\ Waiters(saved.deferred)'
  BY <1>1, SameTexts, SameWaiters DEF ToldInv
<1> QED BY <1>1, <1>2, OneRunnerTold

\* A gid the brain accepted an op of has a version.
LEMMA AcceptedCounts ==
  ASSUME TypeInv, NEW j \in DOMAIN log, log[j].status = "accepted",
         NEW n \in Nat, j <= n
  PROVE  V(log[j].gid, n) # 0
<1>1. j \in Nat /\ 0 < j
  BY DEF TypeInv, TablesInv
<1>2. V(log[j].gid, 0) < V(log[j].gid, j)
  BY <1>1, VersionCounts
<1>3. V(log[j].gid, 0) <= V(log[j].gid, j) /\ V(log[j].gid, 0) \in Nat
  BY <1>1, VersionsRise
<1>4. V(log[j].gid, j) <= V(log[j].gid, n) /\ V(log[j].gid, j) \in Nat /\ V(log[j].gid, n) \in Nat
  BY <1>1, VersionsRise
<1> QED BY <1>2, <1>3, <1>4

\* What a pull does to the file of its op.
LEMMA PulledText ==
  ASSUME TypeInv, LogShape, NEW n \in DOMAIN log, cursor + 1 = n, log' = log,
         log[n].gid \in Files, TextOf(log[n].gid), phase = "joined", phase' = "joined",
         cursor' = n,
         IF ShouldFork(n) THEN ForkUnlessEqual(n) ELSE PullApply(n)
  PROVE  TextOf(log[n].gid)'
<1> DEFINE h == log[n].gid
<1>1. /\ cursor \in Nat /\ n \in Nat /\ DOMAIN log = 1..Len(log) /\ Len(log) \in Nat
      /\ fork \in [Files -> Texts \cup {NoFork}]
      /\ files \in [Files -> Texts \cup {NoText, Own}]
  BY DEF TypeInv, TablesInv, LocalInv, RestInv
<1>2. n # NoFork /\ n # NoText
  BY <1>1, ValuesAssumption
<1>3. /\ \A g, k : V(g, k)' = V(g, k)
      /\ \A g : Gone(g)' <=> Gone(g)
      /\ \A s : IsContent(s)' <=> IsContent(s)
  BY SameLog
<1>4. CASE ShouldFork(n)
  <2>1. fork'[h] = n
    BY <1>1, <1>4 DEF ShouldFork, ForkUnlessEqual
  <2> QED BY <1>2, <2>1 DEF TextOf
<1>5. CASE ~ShouldFork(n) /\ log[n].kind = "file.delete"
  <2>1. Gone(h)
    BY <1>5 DEF Gone, KindsOf
  <2> QED BY <1>3, <2>1 DEF TextOf
<1>6. CASE ~ShouldFork(n) /\ log[n].kind # "file.delete"
  <2>1. IsContent(n)
    BY <1>6 DEF LogShape, IsContent
  <2>2. files'[h] = n /\ fork'[h] = fork[h]
    BY <1>1, <1>6, <2>1 DEF PullApply
  <2>3. CASE log[n].status = "accepted"
    <3>1. V(h, n) <= V(h, n)
      BY <1>1, VersionsRise
    <3>2. V(h, cursor)' = V(h, n)
      <4>1. V(h, n)' = V(h, n)
        BY <1>3
      <4> QED BY <4>1
    <3>3. V(h, files[h])' = V(h, n)
      <4>1. V(h, n)' = V(h, n)
        BY <1>3
      <4> QED BY <2>2, <4>1
    <3>4. Holds(h, V(h, cursor))'
      BY <1>3, <2>1, <2>2, <2>3, <3>1, <3>2, <3>3 DEF Holds
    <3> QED BY <3>4 DEF TextOf
  <2>4. CASE log[n].status = "conflict"
    <3>1. files[h] \in {NoText, n}
      BY <1>6, <2>1, <2>4 DEF ShouldFork
    <3>2. PICK j \in DOMAIN log : j < n /\ log[j].gid = h /\ log[j].status = "accepted"
      BY <2>4 DEF LogShape
    <3>3. V(h, cursor) # 0
      <4>1. j <= cursor
        BY <1>1, <3>2
      <4> QED BY <1>1, <3>2, <4>1, AcceptedCounts
    <3>4. ~Holds(h, V(h, cursor))
      <4>1. NoText \notin DOMAIN log
        BY <1>1, ValuesAssumption
      <4> QED BY <2>4, <3>1, <4>1 DEF Holds
    <3>5. fork[h] # NoFork \/ Gone(h)
      BY <3>3, <3>4 DEF TextOf
    <3> QED BY <1>3, <2>2, <3>5 DEF TextOf
  <2>5. log[n].status \in {"accepted", "conflict"}
    <3>1. log[n] \in Entries
      BY DEF TypeInv, TablesInv
    <3> QED BY <3>1 DEF Entries, LogEntry
  <2> QED BY <2>3, <2>4, <2>5
<1> QED BY <1>4, <1>5, <1>6

LEMMA PullTold ==
  ASSUME TypeInv, CoverInv, ToldInv, Pull
  PROVE  ToldInv'
<1>1. PICK n \in DOMAIN log \cap Texts :
        /\ n = cursor + 1
        /\ IF ShouldFork(n) THEN ForkUnlessEqual(n) ELSE PullApply(n)
        /\ RecordVersion(log[n].gid,
                         VersionAt(log, log[n].gid, KindFamily(log[n].kind), n))
        /\ cursor' = n
  BY DEF Pull
<1> DEFINE h == log[n].gid
<1>2. /\ UNCHANGED <<relayVars, phase, saved, run>> /\ phase = "joined" /\ log' = log
  BY DEF Pull, relayVars
<1>3. /\ log \in Seq(Entries) /\ Len(log) \in Nat /\ DOMAIN log = 1..Len(log)
      /\ KindFamily(log[n].kind) = Family(h) /\ n \in Nat /\ n <= Len(log)
      /\ cursor \in Nat /\ h \in Gids /\ known \in [Gids -> Nat]
      /\ files \in [Files -> Texts \cup {NoText, Own}]
      /\ fork \in [Files -> Texts \cup {NoFork}]
  BY InTheLog DEF TypeInv, TablesInv, LocalInv, RestInv
<1>4. LogShape' /\ RecordsTold' /\ Waiters(saved.deferred)'
  BY <1>2, SameLog, SameRecords, SameWaiters DEF ToldInv
<1>5. PassesTold'
  BY <1>2 DEF PassesTold, CoverInv, PassCover
<1>6. /\ \A g, k : V(g, k)' = V(g, k)
      /\ \A g : Gone(g)' <=> Gone(g)
      /\ \A s : IsContent(s)' <=> IsContent(s)
  BY <1>2, SameLog
<1>7. KnownTold'
  <2>1. VersionAt(log, h, KindFamily(log[n].kind), n) = V(h, n)
    BY <1>3 DEF V
  <2>2. V(h, n) \in Nat /\ V(h, n) <= V(h, Len(log))
    BY <1>3, VersionsRise
  <2>3. PICK v \in Nat : v = Max({known[h], V(h, n)}) /\ v \in {known[h], V(h, n)}
    BY <1>3, <2>2, MaxOfTwo
  <2>4. known' = [known EXCEPT ![h] = v]
    BY <1>1, <2>1, <2>3 DEF RecordVersion
  <2>5. \A g \in Gids : known[g] <= V(g, Len(log))
    BY DEF ToldInv, TextInv, KnownTold
  <2>6. ASSUME NEW g \in Gids PROVE known'[g] <= V(g, Len(log))
    <3>1. CASE g = h
      BY <1>3, <2>2, <2>3, <2>4, <2>5, <3>1
    <3>2. CASE g # h
      BY <1>3, <2>4, <2>5, <3>2
    <3> QED BY <3>1, <3>2
  <2>7. \A g : V(g, Len(log))' = V(g, Len(log))
    BY <1>2, <1>6
  <2> QED BY <1>2, <2>6, <2>7 DEF KnownTold
<1>8. ASSUME NEW g \in Files, g # h PROVE TextOf(g)'
  <2>1. files'[g] = files[g] /\ fork'[g] = fork[g]
    BY <1>1, <1>3, <1>8 DEF ForkUnlessEqual, PullApply
  <2>2. V(g, cursor)' = V(g, cursor)
    <3>1. V(g, n) = V(g, cursor)
      BY <1>1, <1>3, <1>8, VersionStays
    <3>2. V(g, n)' = V(g, n)
      BY <1>6
    <3> QED BY <1>1, <3>1, <3>2
  <2>3. Holds(g, V(g, cursor)) => Holds(g, V(g, cursor))'
    <3>1. PICK v : v = V(g, cursor)
      OBVIOUS
    <3>2. Holds(g, v) => Holds(g, v)'
      BY <1>2, <1>6, <2>1 DEF Holds
    <3> QED BY <2>2, <3>1, <3>2
  <2> QED BY <1>2, <1>6, <2>1, <2>2, <2>3 DEF ToldInv, TextInv, TextOf
<1>9. ASSUME NEW g \in Files, g = h PROVE TextOf(g)'
  <2>1. TextOf(h)'
    BY <1>1, <1>2, <1>9, PulledText DEF ToldInv, TextInv
  <2> QED BY <1>2, <1>9, <2>1
<1>10. TextInv'
  BY <1>7, <1>8, <1>9 DEF TextInv
<1> QED BY <1>4, <1>5, <1>10 DEF ToldInv

LEMMA QuietTold ==
  ASSUME TypeInv, CoverInv, ToldInv, UNCHANGED vars
  PROVE  ToldInv'
<1>1. log' = log /\ UNCHANGED <<relayVars, phase, saved, files, fork, known, cursor, run>>
  BY DEF vars, localVars, relayVars
<1>2. TypeInv' /\ Ages
  BY <1>1, TypedNext, SameKnown, QuietAges
<1>3. LogShape' /\ RecordsTold' /\ TextInv' /\ Waiters(saved.deferred)'
  BY <1>1, SameLog, SameRecords, SameTexts, SameWaiters DEF ToldInv
<1>4. ASSUME NEW r \in Runners, run'[r] # Idle PROVE PassTold(run[r])'
  <2>1. PICK p \in Pass : p = run[r] /\ Sound(p) /\ PassTold(p)
    BY <1>1, <1>4, AtWork DEF ToldInv, PassesTold
  <2>2. PassTold(p)'
    BY <1>1, <1>2, <2>1, OthersKeepPass
  <2> QED BY <1>1, <2>1, <2>2
<1> QED BY <1>3, <1>4 DEF ToldInv, PassesTold

LEMMA ToldNext ==
  ASSUME OneRunner, WaitersUnedited, TypeInv, CoverInv, ToldInv, [Next]_vars
  PROVE  ToldInv'
<1>1. CASE OthersWrite
  BY <1>1, OthersJoin
<1>2. CASE Join
  BY <1>2, JoinTold
<1>3. CASE RunnerStep
  BY <1>3, StartTold, FetchTold, DeferTold, TakeRecordTold, TakeConflictTold,
     FinishGidTold, PageDoneTold, TakeDeferredTold, FinishTold DEF RunnerStep
<1>4. CASE Pull
  BY <1>4, PullTold
<1>5. CASE \E r \in Runners : Crash(r)
  BY <1>5, CrashTold
<1>6. CASE UNCHANGED vars
  BY <1>6, QuietTold
<1> QED BY <1>1, <1>2, <1>3, <1>4, <1>5, <1>6 DEF Next

\* A file with a text of the brain's that is no older than the cursor has, at the end
\* of the log, the last one.
LEMMA ToldDiffers ==
  ASSUME TypeInv, LogShape, TextInv
  PROVE  DiffersOnlyInConflict
<1> SUFFICES ASSUME phase = "joined", cursor = Len(log), NEW g \in Files,
                    fork[g] = NoFork, Canonical(g) # NoText
             PROVE  files[g] = Canonical(g)
  BY DEF DiffersOnlyInConflict, CaughtUp
<1> DEFINE A == {k \in DOMAIN log : log[k].gid = g /\ log[k].status = "accepted"}
<1>1. Len(log) \in Nat /\ DOMAIN log = 1..Len(log)
  BY DEF TypeInv, TablesInv
<1>2. A # {} /\ Canonical(g) = Max(A) /\ log[Max(A)].kind # "file.delete"
  BY DEF Canonical
<1>3. A \subseteq Nat /\ \A k \in A : k <= Len(log)
  BY <1>1
<1> HIDE DEF A
<1>4. Max(A) \in A /\ \A k \in A : k <= Max(A)
  BY <1>1, <1>2, <1>3, MaxOfBounded
<1>5. PICK m \in DOMAIN log :
        /\ m = Max(A) /\ log[m].gid = g /\ log[m].status = "accepted"
        /\ \A k \in DOMAIN log : log[k].gid = g /\ log[k].status = "accepted" => k <= m
        /\ m \in Nat /\ m <= Len(log)
  BY <1>3, <1>4 DEF A
<1>6. ~Gone(g)
  <2> SUFFICES ASSUME NEW i \in DOMAIN log, log[i].gid = g, log[i].kind = "file.delete"
               PROVE  FALSE
    BY DEF Gone, KindsOf
  <2>1. i <= m /\ m <= i /\ i \in Nat
    BY <1>1, <1>5 DEF LogShape
  <2> QED BY <1>2, <1>5, <2>1
<1>7. V(g, Len(log)) # 0
  BY <1>1, <1>5, AcceptedCounts
<1>8. Holds(g, V(g, Len(log)))
  BY <1>6, <1>7 DEF TextInv, TextOf
<1>9. PICK f \in DOMAIN log :
        /\ f = files[g] /\ log[f].gid = g /\ log[f].status = "accepted"
        /\ V(g, Len(log)) <= V(g, f)
  BY <1>8 DEF Holds
<1>10. f \in Nat /\ f <= m
  BY <1>1, <1>5, <1>9
<1>11. ~(f < m)
  <2> SUFFICES ASSUME f < m PROVE FALSE
    OBVIOUS
  <2>1. V(g, f) < V(g, m)
    BY <1>5, <1>10, VersionCounts
  <2>2. V(g, m) <= V(g, Len(log)) /\ V(g, m) \in Nat /\ V(g, Len(log)) \in Nat
    BY <1>1, <1>5, VersionsRise
  <2>3. V(g, f) \in Nat
    BY <1>10, VersionsRise
  <2> QED BY <1>9, <2>1, <2>2, <2>3
<1> QED BY <1>2, <1>5, <1>9, <1>10, <1>11

\* Once a machine has joined and caught up, a file that does not hold the brain's text
\* is shown to its user as a conflict: for any brain, page size, crashes and writes of
\* the others meanwhile, if one loop bootstraps and no file is edited whose record may
\* have to wait for its project.
THEOREM DiffersOnlyWhereShown ==
  ASSUME OneRunner, WaitersUnedited
  PROVE  Spec => []DiffersOnlyInConflict
<1>1. Init => TypeInv /\ CoverInv /\ ToldInv
  BY InitTyped, CoverInit, InitTold
<1>2. TypeInv /\ CoverInv /\ ToldInv /\ [Next]_vars => (TypeInv /\ CoverInv /\ ToldInv)'
  BY TypedNext, CoverNext, ToldNext
<1>3. TypeInv /\ CoverInv /\ ToldInv => DiffersOnlyInConflict
  BY ToldDiffers DEF ToldInv
<1> QED BY <1>1, <1>2, <1>3, PTL DEF Spec

=============================================================================
