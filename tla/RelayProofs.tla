----------------------------- MODULE RelayProofs -----------------------------
(***************************************************************************)
(* Theorems about the relay, for any machines, gids, outboxes and bounds:  *)
(* an op is logged once, the versions in records count the log, the relay  *)
(* implements OptimisticLog, its tables and answers follow the log.        *)
(***************************************************************************)
EXTENDS Relay, TLAPS, FiniteSetTheorems, WellFoundedInduction, SequenceTheorems

(* A set of naturals with an upper bound has a maximum: the least of its    *)
(* upper bounds, which exists because < is well founded on Nat.             *)
LEMMA MaxOfBounded ==
  ASSUME NEW S \in SUBSET Nat, S # {}, NEW b \in Nat, \A x \in S : x <= b
  PROVE  /\ Max(S) \in S
         /\ \A x \in S : x <= Max(S)
<1> DEFINE Less == {p \in Nat \X Nat : p[1] < p[2]}
           Upper == {n \in Nat : \A x \in S : x <= n}
<1>1. IsWellFoundedOn(Less, Nat)
  BY NatLessThanWellFounded DEF OpToRel
<1>2. Upper # {} /\ Upper \subseteq Nat
  OBVIOUS
<1>3. PICK n \in Upper : \A y \in Upper : ~(<<y, n>> \in Less)
  <2> HIDE DEF Less, Upper
  <2> QED BY <1>1, <1>2, WFMin
<1>4. n \in Nat /\ \A x \in S : x <= n
  BY <1>3
<1>5. \A y \in Upper : n <= y
  <2> TAKE y \in Upper
  <2>1. y \in Nat /\ ~(<<y, n>> \in Less)
    BY <1>3
  <2>2. <<y, n>> \in Nat \X Nat
    BY <2>1, <1>4
  <2>3. ~(y < n)
    BY <2>1, <2>2
  <2> QED BY <2>1, <2>3, <1>4
<1> HIDE DEF Less
<1>6. n \in S
  <2> SUFFICES ASSUME n \notin S PROVE FALSE
    OBVIOUS
  <2>1. PICK x \in S : x \in Nat
    OBVIOUS
  <2>2. \A z \in S : z \in Nat /\ z < n
    BY <1>4
  <2>3. n # 0
    BY <2>1, <2>2, <1>4
  <2>4. n - 1 \in Nat /\ \A z \in S : z <= n - 1
    BY <2>2, <2>3, <1>4
  <2>5. n <= n - 1
    BY <2>4, <1>5
  <2> QED BY <2>5, <1>4
<1> HIDE DEF Upper
<1>7. \A m \in S : (\A y \in S : m >= y) => m = n
  BY <1>4, <1>6
<1> QED BY <1>4, <1>6, <1>7 DEF Max

-----------------------------------------------------------------------------
(* Type correctness.  The maximum behind CurrentVersion exists because no   *)
(* version exceeds the length of the log.                                   *)

VersionsBounded == \A r \in records : r.version <= Len(log)

(* The current version of a record is a natural number no version exceeds.  *)
LEMMA CurrentVersionBounds ==
  ASSUME NEW R \in SUBSET Record(Gids), NEW b \in Nat,
         \A r \in R : r.version <= b, NEW gid, NEW family
  PROVE  /\ CurrentVersion(R, gid, family) \in Versions(R, gid, family) \cup {0}
         /\ CurrentVersion(R, gid, family) \in Nat
         /\ CurrentVersion(R, gid, family) <= b
         /\ \A v \in Versions(R, gid, family) : v <= CurrentVersion(R, gid, family)
<1> DEFINE S == Versions(R, gid, family) \cup {0}
<1>1. S \in SUBSET Nat /\ S # {} /\ \A x \in S : x <= b
  BY DEF Versions, Record
<1> HIDE DEF S
<1>2. Max(S) \in S /\ \A x \in S : x <= Max(S)
  BY <1>1, MaxOfBounded
<1>3. Max(S) = CurrentVersion(R, gid, family)
  BY DEF S, CurrentVersion
<1>4. Max(S) \in Nat /\ Max(S) <= b
  BY <1>1, <1>2
<1> QED BY <1>2, <1>3, <1>4 DEF S

(* The accepted ops of a record are finitely many: positions of the log.    *)
LEMMA AcceptedUpToFinite ==
  ASSUME NEW l \in Seq(LogEntry(Gids, Machines)), NEW gid, NEW family, NEW seq
  PROVE  /\ IsFiniteSet(AcceptedUpTo(l, gid, family, seq))
         /\ VersionAt(l, gid, family, seq) \in Nat
<1>1. IsFiniteSet(1..Len(l))
  BY FS_Interval
<1>2. AcceptedUpTo(l, gid, family, seq) \subseteq 1..Len(l)
  BY DEF AcceptedUpTo
<1>3. IsFiniteSet(AcceptedUpTo(l, gid, family, seq))
  BY <1>1, <1>2, FS_Subset
<1> QED BY <1>3, FS_CardinalityType DEF VersionAt

(* What a batch in progress supplies: its next op, well typed.              *)
LEMMA NextOpType ==
  ASSUME TypeOK, Working
  PROVE  /\ txn \in Txn
         /\ NextOp \in Op
         /\ Tail(txn.todo) \in Seq(Op)
         /\ RecordOf(NextOp) \in Gids \X Families
<1>1. txn \in Txn /\ txn.todo # <<>>
  BY DEF TypeOK, Working
<1>2. txn.todo \in Seq(Op)
  BY <1>1 DEF Txn
<1>3. NextOp \in Op /\ Tail(txn.todo) \in Seq(Op)
  BY <1>1, <1>2 DEF NextOp
<1>4. KindFamily(NextOp.kind) \in Families
  BY <1>3 DEF Op, Families
<1> QED BY <1>1, <1>3, <1>4 DEF RecordOf, Op

LEMMA ReplyType ==
  ASSUME TypeOK, Working, NEW seq \in Nat, NEW status \in {"accepted", "conflict"},
         NEW duplicate \in BOOLEAN, NEW version \in Nat,
         NEW lost \in SUBSET (Gids \X Families),
         Reply(seq, status, duplicate, version, lost)
  PROVE  txn' \in Txn
<1>1. txn.origin \in Machines /\ txn.results \in Seq(Result)
  BY NextOpType DEF Txn
<1>2. NextOp.cseq \in Nat
  BY NextOpType DEF Op
<1>3. [cseq |-> NextOp.cseq, seq |-> seq, status |-> status,
       duplicate |-> duplicate, version |-> version] \in Result
  BY <1>2 DEF Result
<1>4. txn'.results \in Seq(Result)
  BY <1>1, <1>3 DEF Reply
<1> QED BY <1>1, <1>4, NextOpType DEF Reply, Txn

LEMMA EntryType ==
  ASSUME NEW op \in Op, NEW status \in {"accepted", "conflict"}
  PROVE  Entry(op, status) \in LogEntry(Gids, Machines)
BY DEF Entry, Op, LogEntry

TypeInv == TypeOK /\ VersionsBounded

(* Every version kept of a record is at most the current one, itself at     *)
(* most the length of the log.                                              *)
LEMMA CurrentType ==
  ASSUME TypeInv, NEW gid, NEW family
  PROVE  /\ Len(log) \in Nat
         /\ CurrentVersion(records, gid, family) \in Nat
         /\ CurrentVersion(records, gid, family) <= Len(log)
         /\ \A v \in Versions(records, gid, family) :
              v <= CurrentVersion(records, gid, family)
<1>1. Len(log) \in Nat /\ records \in SUBSET Record(Gids)
  BY DEF TypeInv, TypeOK
<1>2. \A r \in records : r.version <= Len(log)
  BY DEF TypeInv, VersionsBounded
<1> QED BY <1>1, <1>2, CurrentVersionBounds

LEMMA TypeInvInit == Init => TypeInv
BY DEF Init, TypeInv, TypeOK, VersionsBounded

LEMMA TypeInvNext == TypeInv /\ [Next]_vars => TypeInv'
<1> SUFFICES ASSUME TypeInv, [Next]_vars
             PROVE  TypeInv'
  OBVIOUS
<1> USE DEF TypeInv
<1>1. ASSUME NEW m \in Machines, Join(m) \/ Revoke(m)
      PROVE  TypeInv'
  BY <1>1 DEF Join, Revoke, TypeOK, VersionsBounded, store
<1>2. ASSUME NEW m \in Machines, NEW batch, BeginBatch(m, batch)
      PROVE  TypeInv'
  <2>1. batch \in Seq(Op)
    BY <1>2 DEF BeginBatch
  <2>2. txn' \in Txn
    <3>1. {} \in SUBSET (Gids \X Families) /\ <<>> \in Seq(Result)
      OBVIOUS
    <3> QED BY <1>2, <2>1, <3>1 DEF BeginBatch, Txn
  <2> QED BY <1>2, <2>2 DEF BeginBatch, TypeOK, VersionsBounded, store
<1>3. CASE StepDuplicate
  <2>1. Working /\ UNCHANGED <<store, clients>>
    BY <1>3 DEF StepDuplicate
  <2>2. PICK i \in Seen :
          Reply(i, log[i].status, TRUE,
                VersionAt(log, log[i].gid, KindFamily(log[i].kind), i), txn.lost)
    BY <1>3 DEF StepDuplicate
  <2>3. i \in Nat /\ log[i].status \in {"accepted", "conflict"}
    <3>1. i \in DOMAIN log /\ log \in Seq(LogEntry(Gids, Machines))
      BY <2>2 DEF Seen, FindByClientSeq, TypeOK
    <3>2. i \in Nat /\ log[i] \in LogEntry(Gids, Machines)
      BY <3>1
    <3> QED BY <3>2 DEF LogEntry
  <2>4. VersionAt(log, log[i].gid, KindFamily(log[i].kind), i) \in Nat
    BY AcceptedUpToFinite DEF TypeOK
  <2>5. txn.lost \in SUBSET (Gids \X Families)
    BY <2>1, NextOpType DEF Txn
  <2>6. txn' \in Txn
    <3> HIDE DEF TypeInv
    <3> QED BY <2>1, <2>2, <2>3, <2>4, <2>5, ReplyType DEF TypeInv
  <2> QED BY <2>1, <2>6 DEF TypeOK, VersionsBounded, store
<1>4. CASE StepAccept
  <2> DEFINE op == NextOp
             current == Current(NextOp)
             new == [gid |-> op.gid, kind |-> op.kind, seq |-> Len(log) + 1,
                     version |-> current + 1, deleted |-> op.kind \in TombstoneKinds]
  <2>1. Working /\ op \in Op /\ log \in Seq(LogEntry(Gids, Machines))
    BY <1>4, NextOpType DEF StepAccept, TypeOK
  <2>2. current \in Nat /\ current <= Len(log)
    BY CurrentType DEF Current
  <2>3. log' \in Seq(LogEntry(Gids, Machines)) /\ Len(log') = Len(log) + 1
    BY <1>4, <2>1, EntryType DEF StepAccept
  <2>4. new \in Record(Gids)
    BY <2>1, <2>2 DEF Record, Op
  <2>5. records' = KeptRecords(records, op) \cup {new}
    BY <1>4 DEF StepAccept, RecordsAfterAccept, Current
  <2>6. KeptRecords(records, op) \subseteq records
    BY DEF KeptRecords
  <2>7. records' \in SUBSET Record(Gids) /\ VersionsBounded'
    <3>1. \A r \in records' : r \in records \/ r = new
      BY <2>5, <2>6
    <3>2. \A r \in records : r \in Record(Gids) /\ r.version <= Len(log) + 1
      BY <2>1 DEF TypeOK, VersionsBounded, Record
    <3>3. new.version <= Len(log) + 1
      BY <2>1, <2>2
    <3> HIDE DEF new
    <3> QED BY <2>3, <2>4, <3>1, <3>2, <3>3 DEF VersionsBounded
  <2>8. parked' \in SUBSET Parked(Gids)
    BY <1>4 DEF StepAccept, ParkedAfterAccept, TypeOK
  <2>9. txn' \in Txn
    <3>1. txn.lost \in SUBSET (Gids \X Families)
      BY <2>1, NextOpType DEF Txn
    <3>2. Reply(Len(log) + 1, "accepted", FALSE, Current(NextOp) + 1, txn.lost)
      BY <1>4 DEF StepAccept
    <3>3. Len(log) + 1 \in Nat /\ Current(NextOp) + 1 \in Nat
      BY <2>1, <2>2
    <3>4. TypeOK
      OBVIOUS
    <3> HIDE DEF TypeInv
    <3> QED BY <2>1, <3>1, <3>2, <3>3, <3>4, ReplyType
  <2> QED BY <1>4, <2>3, <2>7, <2>8, <2>9 DEF StepAccept, TypeOK
<1>5. CASE StepConflict
  <2> DEFINE op == NextOp
  <2>1. Working /\ op \in Op /\ log \in Seq(LogEntry(Gids, Machines))
    BY <1>5, NextOpType DEF StepConflict, TypeOK
  <2>2. Current(op) \in Nat
    BY CurrentType DEF Current
  <2>3. log' \in Seq(LogEntry(Gids, Machines)) /\ Len(log') = Len(log) + 1
    BY <1>5, <2>1, EntryType DEF StepConflict
  <2>4. parked' \in SUBSET Parked(Gids)
    <3>1. [gid |-> op.gid, family |-> KindFamily(op.kind), base |-> op.base,
           seq |-> Len(log) + 1] \in Parked(Gids)
      BY <2>1 DEF Parked, Op
    <3> QED BY <1>5, <3>1 DEF StepConflict, ParkedAfterConflict, TypeOK
  <2>5. txn' \in Txn
    <3>1. txn.lost \cup {RecordOf(NextOp)} \in SUBSET (Gids \X Families)
      BY <2>1, NextOpType DEF Txn
    <3>2. Reply(Len(log) + 1, "conflict", FALSE, Current(NextOp),
                txn.lost \cup {RecordOf(NextOp)})
      BY <1>5 DEF StepConflict
    <3>3. Len(log) + 1 \in Nat
      BY <2>1
    <3>4. TypeOK
      OBVIOUS
    <3> HIDE DEF TypeInv
    <3> QED BY <2>1, <2>2, <3>1, <3>2, <3>3, <3>4, ReplyType
  <2>6. VersionsBounded'
    <3>1. records' = records
      BY <1>5 DEF StepConflict
    <3>2. \A r \in records : r.version \in Nat
      BY DEF TypeOK, Record
    <3> QED BY <2>1, <2>3, <3>1, <3>2 DEF VersionsBounded
  <2> QED BY <1>5, <2>3, <2>4, <2>5, <2>6 DEF StepConflict, TypeOK
<1>6. CASE EndBatch
  BY <1>6 DEF EndBatch, TypeOK, VersionsBounded, store
<1>7. CASE UNCHANGED vars
  BY <1>7 DEF vars, TypeOK, VersionsBounded
<1> QED BY <1>1, <1>2, <1>3, <1>4, <1>5, <1>6, <1>7 DEF Next

(* Whatever clients send, the relay's tables stay well typed; in particular *)
(* the version BrainStore.appendOp stores and answers is always defined.    *)
THEOREM TypeCorrect == Spec => []TypeOK
<1>1. TypeInv => TypeOK
  BY DEF TypeInv
<1> QED BY TypeInvInit, TypeInvNext, <1>1, PTL DEF Spec

-----------------------------------------------------------------------------
(* A retried op is logged once.                                             *)

(* OncePerClientSeq is inductive: an op is appended only when the lookup by *)
(* (origin, client_seq) came back empty.                                    *)
LEMMA OnceNext == TypeInv /\ OncePerClientSeq /\ [Next]_vars => OncePerClientSeq'
<1> SUFFICES ASSUME TypeInv, OncePerClientSeq, [Next]_vars
             PROVE  OncePerClientSeq'
  OBVIOUS
<1>1. log \in Seq(LogEntry(Gids, Machines))
  BY DEF TypeInv, TypeOK
<1>2. ASSUME NEW status, Working, Seen = {}, log' = Append(log, Entry(NextOp, status))
      PROVE  OncePerClientSeq'
  <2>1. \A i \in DOMAIN log :
          ~(log[i].origin = NextOp.origin /\ log[i].cseq = NextOp.cseq)
    BY <1>2 DEF Seen, FindByClientSeq
  <2>2. /\ Entry(NextOp, status).origin = NextOp.origin
        /\ Entry(NextOp, status).cseq = NextOp.cseq
    BY DEF Entry
  <2>3. /\ DOMAIN log' = 1..(Len(log) + 1)
        /\ DOMAIN log = 1..Len(log)
        /\ Len(log) \in Nat
        /\ log'[Len(log) + 1] = Entry(NextOp, status)
        /\ \A i \in DOMAIN log : log'[i] = log[i]
    BY <1>1, <1>2
  <2> QED BY <2>1, <2>2, <2>3 DEF OncePerClientSeq
<1>3. CASE UNCHANGED log
  BY <1>3 DEF OncePerClientSeq
<1>4. CASE StepAccept \/ StepConflict
  BY <1>2, <1>4 DEF StepAccept, StepConflict
<1> QED
  BY <1>3, <1>4
  DEF Next, vars, store, Join, Revoke, BeginBatch, StepDuplicate, EndBatch

(* POST /ops is idempotent: whatever is retried, by however many loops, the *)
(* log holds one entry per (machine, client_seq).                           *)
THEOREM RetriesAreIdempotent == Spec => []OncePerClientSeq
<1>1. Init => OncePerClientSeq
  BY DEF Init, OncePerClientSeq
<1> QED BY <1>1, TypeInvInit, TypeInvNext, OnceNext, PTL DEF Spec

-----------------------------------------------------------------------------
(* The records table counts the log.                                        *)

(* Appending leaves every earlier version alone and, for the record of an   *)
(* accepted op, adds one at the end.                                        *)
LEMMA VersionAtAppend ==
  ASSUME NEW l \in Seq(LogEntry(Gids, Machines)), NEW e, NEW gid, NEW family
  PROVE  /\ \A seq \in Nat : seq <= Len(l) =>
              VersionAt(Append(l, e), gid, family, seq) = VersionAt(l, gid, family, seq)
         /\ VersionAt(Append(l, e), gid, family, Len(l) + 1) =
              VersionAt(l, gid, family, Len(l)) +
                (IF /\ e.status = "accepted"
                    /\ e.gid = gid
                    /\ KindFamily(e.kind) = family
                 THEN 1 ELSE 0)
<1>1. /\ Len(l) \in Nat
      /\ DOMAIN l = 1..Len(l)
      /\ DOMAIN Append(l, e) = 1..(Len(l) + 1)
      /\ Append(l, e)[Len(l) + 1] = e
      /\ \A i \in 1..Len(l) : Append(l, e)[i] = l[i]
  OBVIOUS
<1>2. ASSUME NEW seq \in Nat, seq <= Len(l)
      PROVE  AcceptedUpTo(Append(l, e), gid, family, seq) =
               AcceptedUpTo(l, gid, family, seq)
  BY <1>1, <1>2 DEF AcceptedUpTo
<1> DEFINE old == AcceptedUpTo(l, gid, family, Len(l))
           new == AcceptedUpTo(Append(l, e), gid, family, Len(l) + 1)
           match == /\ e.status = "accepted"
                    /\ e.gid = gid
                    /\ KindFamily(e.kind) = family
<1>3. IsFiniteSet(old) /\ Cardinality(old) \in Nat
  BY <1>1, AcceptedUpToFinite DEF VersionAt
<1>4. Len(l) + 1 \notin old
  BY <1>1 DEF AcceptedUpTo
<1>5. CASE match
  <2>1. new = old \cup {Len(l) + 1}
    BY <1>1, <1>5 DEF AcceptedUpTo
  <2>2. Cardinality(new) = Cardinality(old) + 1
    BY <1>3, <1>4, <2>1, FS_AddElement
  <2> QED BY <1>2, <1>5, <2>2 DEF VersionAt
<1>6. CASE ~match
  <2>1. new = old
    BY <1>1, <1>6 DEF AcceptedUpTo
  <2> QED BY <1>2, <1>3, <1>6, <2>1 DEF VersionAt
<1> QED BY <1>5, <1>6

(* What accepting an op does to the current version of a record: its own    *)
(* goes up by one; another's stays, unless the op tombstones its gid.       *)
LEMMA CurrentAfterAccept ==
  ASSUME TypeInv, NEW op \in Op, NEW seq, NEW gid, NEW family
  PROVE  LET after == RecordsAfterAccept(records, op, seq)
             before == CurrentVersion(records, gid, family) IN
         /\ gid = op.gid /\ family = KindFamily(op.kind) =>
              CurrentVersion(after, gid, family) = before + 1
         /\ gid # op.gid => CurrentVersion(after, gid, family) = before
         /\ gid = op.gid /\ family # KindFamily(op.kind) /\ op.kind \notin TombstoneKinds
              => CurrentVersion(after, gid, family) = before
<1> DEFINE after == RecordsAfterAccept(records, op, seq)
           before == CurrentVersion(records, gid, family)
           own == CurrentVersion(records, op.gid, KindFamily(op.kind))
           new == [gid |-> op.gid, kind |-> op.kind, seq |-> seq,
                   version |-> own + 1, deleted |-> op.kind \in TombstoneKinds]
<1>1. before \in Nat /\ \A v \in Versions(records, gid, family) : v <= before
  BY CurrentType
<1>2. after = KeptRecords(records, op) \cup {new}
  BY DEF RecordsAfterAccept
<1>3. CASE gid = op.gid /\ family = KindFamily(op.kind)
  <2> DEFINE S == Versions(after, gid, family) \cup {0}
  <2>1. new.version = before + 1 /\ new.gid = gid /\ KindFamily(new.kind) = family
    BY <1>3
  <2>2. before + 1 \in S
    BY <1>2, <2>1 DEF Versions
  <2>3. \A v \in S : v \in Nat /\ v <= before + 1
    <3>1. \A r \in after : r \in records \/ r = new
      BY <1>2 DEF KeptRecords
    <3>2. \A r \in records : r.version \in Nat
      BY DEF TypeInv, TypeOK, Record
    <3>3. \A r \in records : r.gid = gid /\ KindFamily(r.kind) = family
            => r.version <= before
      BY <1>1 DEF Versions
    <3> HIDE DEF new
    <3> QED BY <1>1, <2>1, <3>1, <3>2, <3>3 DEF Versions
  <2> HIDE DEF S
  <2>4. Max(S) \in S /\ \A v \in S : v <= Max(S)
    <3>1. S \in SUBSET Nat /\ S # {} /\ before + 1 \in Nat
      BY <1>1, <2>2, <2>3
    <3> QED BY <2>3, <3>1, MaxOfBounded
  <2>5. Max(S) = before + 1
    BY <1>1, <2>2, <2>3, <2>4
  <2> QED BY <1>3, <2>5 DEF S, CurrentVersion
<1>4. ASSUME \/ gid # op.gid
             \/ family # KindFamily(op.kind) /\ op.kind \notin TombstoneKinds
      PROVE  Versions(after, gid, family) = Versions(records, gid, family)
  BY <1>2, <1>4 DEF KeptRecords, Versions
<1> QED BY <1>3, <1>4 DEF CurrentVersion

LEMMA VersionsNext ==
  TypeInv /\ VersionsFollowLog /\ [Next]_vars => VersionsFollowLog'
<1> SUFFICES ASSUME TypeInv, VersionsFollowLog, [Next]_vars,
                    NEW gid \in Gids, NEW family \in Families,
                    Exclusive(gid, family)'
             PROVE  CurrentVersion(records', gid, family) =
                      VersionAt(log', gid, family, Len(log'))
  BY DEF VersionsFollowLog
<1>1. log \in Seq(LogEntry(Gids, Machines))
  BY DEF TypeInv, TypeOK
<1>2. ASSUME NEW e, log' = Append(log, e)
      PROVE  /\ Len(log') = Len(log) + 1
             /\ Exclusive(gid, family)
             /\ CurrentVersion(records, gid, family) =
                  VersionAt(log, gid, family, Len(log))
             /\ e.status = "accepted" /\ e.gid = gid /\ e.kind \in TombstoneKinds
                  => KindFamily(e.kind) = family
  <2>1. /\ DOMAIN log' = 1..(Len(log) + 1)
        /\ DOMAIN log = 1..Len(log)
        /\ Len(log) \in Nat
        /\ Len(log') = Len(log) + 1
        /\ log'[Len(log) + 1] = e
        /\ \A i \in DOMAIN log : log'[i] = log[i]
    BY <1>1, <1>2
  <2>2. Exclusive(gid, family)
    BY <2>1 DEF Exclusive, Accepted, FamilyOf
  <2>3. e.status = "accepted" /\ e.gid = gid /\ e.kind \in TombstoneKinds
          => KindFamily(e.kind) = family
    <3>1. Len(log) + 1 \in DOMAIN log'
      BY <2>1
    <3> QED BY <2>1, <3>1 DEF Exclusive, Accepted, FamilyOf
  <2> QED BY <2>1, <2>2, <2>3 DEF VersionsFollowLog
<1>3. CASE StepAccept
  <2> DEFINE op == NextOp
             e == Entry(op, "accepted")
  <2>1. op \in Op
    BY <1>3, NextOpType DEF StepAccept, TypeInv
  <2>2. log' = Append(log, e) /\ records' = RecordsAfterAccept(records, op, Len(log) + 1)
    BY <1>3 DEF StepAccept
  <2>3. e.status = "accepted" /\ e.gid = op.gid /\ e.kind = op.kind
    BY DEF Entry
  <2> HIDE DEF e, op
  <2>4. VersionAt(log', gid, family, Len(log) + 1) =
          VersionAt(log, gid, family, Len(log)) +
            (IF op.gid = gid /\ KindFamily(op.kind) = family THEN 1 ELSE 0)
    BY <1>1, <2>2, <2>3, VersionAtAppend
  <2>5. VersionAt(log, gid, family, Len(log)) \in Nat
    BY <1>1, AcceptedUpToFinite
  <2>6. CASE op.gid = gid /\ KindFamily(op.kind) = family
    BY <1>2, <2>1, <2>2, <2>4, <2>6, CurrentAfterAccept
  <2>7. CASE op.gid # gid
    BY <1>2, <2>1, <2>2, <2>4, <2>5, <2>7, CurrentAfterAccept
  <2>8. CASE op.gid = gid /\ KindFamily(op.kind) # family
    BY <1>2, <2>1, <2>2, <2>3, <2>4, <2>5, <2>8, CurrentAfterAccept
  <2> QED BY <2>6, <2>7, <2>8
<1>4. CASE StepConflict
  <2> DEFINE e == Entry(NextOp, "conflict")
  <2>1. log' = Append(log, e) /\ records' = records /\ e.status = "conflict"
    BY <1>4 DEF StepConflict, Entry
  <2> HIDE DEF e
  <2>2. VersionAt(log', gid, family, Len(log) + 1) =
          VersionAt(log, gid, family, Len(log)) + 0
    BY <1>1, <2>1, VersionAtAppend
  <2>3. VersionAt(log, gid, family, Len(log)) \in Nat
    BY <1>1, AcceptedUpToFinite
  <2> QED BY <1>2, <2>1, <2>2, <2>3
<1>5. CASE UNCHANGED <<log, records>>
  BY <1>5 DEF VersionsFollowLog, Exclusive, Accepted, FamilyOf
<1> QED
  BY <1>3, <1>4, <1>5
  DEF Next, vars, store, Join, Revoke, BeginBatch, StepDuplicate, EndBatch

LEMMA VersionsInit == Init => VersionsFollowLog
<1> SUFFICES ASSUME Init, NEW gid \in Gids, NEW family \in Families
             PROVE  CurrentVersion(records, gid, family) =
                      VersionAt(log, gid, family, Len(log))
  BY DEF VersionsFollowLog
<1>1. TypeInv
  BY TypeInvInit
<1>2. Versions(records, gid, family) = {}
  BY DEF Init, Versions
<1>3. CurrentVersion(records, gid, family) = 0
  BY <1>1, <1>2, CurrentVersionBounds DEF TypeInv, TypeOK, VersionsBounded, Init
<1>4. AcceptedUpTo(log, gid, family, Len(log)) = {}
  BY DEF Init, AcceptedUpTo
<1> QED BY <1>3, <1>4, FS_EmptySet DEF VersionAt

(* The version BrainStore keeps in records is the number of accepted ops of *)
(* the record, so long as no other family's delete took its rows away.      *)
THEOREM RecordsCountTheLog == Spec => []VersionsFollowLog
<1> QED BY VersionsInit, TypeInvInit, TypeInvNext, VersionsNext, PTL DEF Spec

-----------------------------------------------------------------------------
(* The relay implements OptimisticLog.                                      *)

(* The operators of RelayStore mean the same inside OptimisticLog.          *)
LEMMA SameOperators ==
  /\ Promise!TombstoneKinds = TombstoneKinds
  /\ \A k : Promise!KindFamily(k) = KindFamily(k)
  /\ Promise!LogEntry(Gids, Machines) = LogEntry(Gids, Machines)
  /\ \A l, gid, family, seq :
       Promise!VersionAt(l, gid, family, seq) = VersionAt(l, gid, family, seq)
  /\ \A op, current : Promise!Stale(op, current) = Stale(op, current)
  /\ \A l, origin, cseq :
       Promise!FindByClientSeq(l, origin, cseq) = FindByClientSeq(l, origin, cseq)
<1>1. Promise!TombstoneKinds = TombstoneKinds
  BY DEF Promise!TombstoneKinds, TombstoneKinds
<1>2. /\ Promise!FileKinds = FileKinds
      /\ Promise!FolderKinds = FolderKinds
      /\ Promise!ProjectKinds = ProjectKinds
      /\ Promise!MetaKinds = MetaKinds
      /\ Promise!CalendarKinds = CalendarKinds
  BY DEF Promise!FileKinds, FileKinds, Promise!FolderKinds, FolderKinds,
         Promise!ProjectKinds, ProjectKinds, Promise!MetaKinds, MetaKinds,
         Promise!CalendarKinds, CalendarKinds
<1>3. \A k : Promise!KindFamily(k) = KindFamily(k)
  BY <1>2 DEF Promise!KindFamily, KindFamily
<1>4. Promise!LogEntry(Gids, Machines) = LogEntry(Gids, Machines)
  BY <1>2 DEF Promise!LogEntry, LogEntry, Promise!OpKinds, OpKinds, Promise!Bases, Bases
<1>5. \A l, gid, family, seq :
        Promise!VersionAt(l, gid, family, seq) = VersionAt(l, gid, family, seq)
  <2> TAKE l, gid, family, seq
  <2>1. Promise!AcceptedUpTo(l, gid, family, seq) = AcceptedUpTo(l, gid, family, seq)
    BY <1>3 DEF Promise!AcceptedUpTo, AcceptedUpTo
  <2>2. \A S : Promise!Cardinality(S) = Cardinality(S)
    BY Zenon DEF Promise!Cardinality, Cardinality
  <2> QED BY <2>1, <2>2 DEF Promise!VersionAt, VersionAt
<1>6. \A op, current : Promise!Stale(op, current) = Stale(op, current)
  BY DEF Promise!Stale, Stale
<1>7. \A l, origin, cseq :
        Promise!FindByClientSeq(l, origin, cseq) = FindByClientSeq(l, origin, cseq)
  BY DEF Promise!FindByClientSeq, FindByClientSeq
<1> QED BY <1>1, <1>3, <1>4, <1>5, <1>6, <1>7

(* A record in lostInBatch was lost in this batch, so the log shows it; and *)
(* a batch carries the ops of its own machine only.                         *)
LossesLogged ==
  txn # Idle =>
    /\ \A i \in DOMAIN txn.todo : txn.todo[i].origin = txn.origin
    /\ \A p \in txn.lost :
         \E i \in DOMAIN log :
           /\ log[i].status = "conflict"
           /\ log[i].origin = txn.origin
           /\ <<log[i].gid, KindFamily(log[i].kind)>> = p

LEMMA LossesNext == TypeInv /\ LossesLogged /\ [Next]_vars => LossesLogged'
<1> SUFFICES ASSUME TypeInv, LossesLogged, [Next]_vars
             PROVE  LossesLogged'
  OBVIOUS
<1>1. log \in Seq(LogEntry(Gids, Machines))
  BY DEF TypeInv, TypeOK
<1>2. ASSUME NEW m \in Machines, NEW batch, BeginBatch(m, batch)
      PROVE  LossesLogged'
  <2>1. batch \in Seq(Op) /\ \A i \in 1..Len(batch) : batch[i].origin = m
    BY <1>2 DEF BeginBatch
  <2>2. txn'.origin = m /\ txn'.todo = batch /\ txn'.lost = {}
    BY <1>2 DEF BeginBatch
  <2> QED BY <2>1, <2>2 DEF LossesLogged
<1>3. ASSUME Working,
             NEW seq, NEW status, NEW duplicate, NEW version, NEW lost,
             Reply(seq, status, duplicate, version, lost)
      PROVE  /\ txn \in Txn /\ txn # Idle
             /\ txn'.origin = txn.origin /\ txn'.lost = lost
             /\ NextOp.origin = txn.origin
             /\ \A i \in DOMAIN txn'.todo : txn'.todo[i].origin = txn'.origin
  <2>1. txn \in Txn /\ txn # Idle /\ txn.todo # <<>>
    BY <1>3, NextOpType DEF TypeInv, Working
  <2>2. txn.todo \in Seq(Op)
    BY <2>1 DEF Txn
  <2>3. txn'.origin = txn.origin /\ txn'.lost = lost /\ txn'.todo = Tail(txn.todo)
    BY <1>3 DEF Reply
  <2>4. \A i \in DOMAIN txn.todo : txn.todo[i].origin = txn.origin
    BY <2>1 DEF LossesLogged
  <2>5. NextOp.origin = txn.origin
    <3>1. NextOp = txn.todo[1] /\ 1 \in DOMAIN txn.todo
      BY <2>1, <2>2 DEF NextOp
    <3> QED BY <2>4, <3>1
  <2>6. \A i \in DOMAIN Tail(txn.todo) :
          i + 1 \in DOMAIN txn.todo /\ Tail(txn.todo)[i] = txn.todo[i + 1]
    BY <2>1, <2>2
  <2> QED BY <2>1, <2>3, <2>4, <2>5, <2>6
<1>4. CASE StepDuplicate
  <2>1. Working /\ log' = log
    BY <1>4 DEF StepDuplicate, store
  <2>2. PICK i \in Seen :
          Reply(i, log[i].status, TRUE,
                VersionAt(log, log[i].gid, KindFamily(log[i].kind), i), txn.lost)
    BY <1>4 DEF StepDuplicate
  <2>3. /\ txn # Idle /\ txn'.origin = txn.origin /\ txn'.lost = txn.lost
        /\ \A j \in DOMAIN txn'.todo : txn'.todo[j].origin = txn'.origin
    BY <1>3, <2>1, <2>2
  <2> QED BY <2>1, <2>3 DEF LossesLogged
<1>5. ASSUME NEW e, log' = Append(log, e)
      PROVE  /\ DOMAIN log' = DOMAIN log \cup {Len(log) + 1}
             /\ log'[Len(log) + 1] = e
             /\ \A i \in DOMAIN log : log'[i] = log[i]
  BY <1>1, <1>5
<1>6. CASE StepAccept
  <2>1. Working /\ log' = Append(log, Entry(NextOp, "accepted"))
    BY <1>6 DEF StepAccept
  <2>2. Reply(Len(log) + 1, "accepted", FALSE, Current(NextOp) + 1, txn.lost)
    BY <1>6 DEF StepAccept
  <2>3. /\ txn # Idle /\ txn'.origin = txn.origin /\ txn'.lost = txn.lost
        /\ \A j \in DOMAIN txn'.todo : txn'.todo[j].origin = txn'.origin
    BY <1>3, <2>1, <2>2
  <2> QED BY <1>5, <2>1, <2>3 DEF LossesLogged
<1>7. CASE StepConflict
  <2>1. Working /\ log' = Append(log, Entry(NextOp, "conflict"))
    BY <1>7 DEF StepConflict
  <2>2. Reply(Len(log) + 1, "conflict", FALSE, Current(NextOp),
              txn.lost \cup {RecordOf(NextOp)})
    BY <1>7 DEF StepConflict
  <2>3. /\ txn # Idle /\ txn'.origin = txn.origin
        /\ txn'.lost = txn.lost \cup {RecordOf(NextOp)}
        /\ NextOp.origin = txn.origin
        /\ \A j \in DOMAIN txn'.todo : txn'.todo[j].origin = txn'.origin
    BY <1>3, <2>1, <2>2
  <2>4. LET e == Entry(NextOp, "conflict") IN
          /\ e.status = "conflict" /\ e.origin = txn.origin
          /\ <<e.gid, KindFamily(e.kind)>> = RecordOf(NextOp)
    BY <2>3 DEF Entry, RecordOf
  <2> QED BY <1>5, <2>1, <2>3, <2>4 DEF LossesLogged
<1>8. CASE EndBatch
  BY <1>8 DEF EndBatch, LossesLogged
<1>9. CASE UNCHANGED <<log, txn>>
  BY <1>9 DEF LossesLogged
<1> QED
  BY <1>2, <1>4, <1>6, <1>7, <1>8, <1>9 DEF Next, vars, store, Join, Revoke

LEMMA StepKeepsPromise ==
  TypeInv /\ VersionsFollowLog /\ LossesLogged /\ [Next]_vars
    => [Promise!NextOfLog]_log
<1> SUFFICES ASSUME TypeInv, VersionsFollowLog, LossesLogged, [Next]_vars
             PROVE  [Promise!NextOfLog]_log
  OBVIOUS
<1>1. log \in Seq(LogEntry(Gids, Machines))
  BY DEF TypeInv, TypeOK
<1>2. ASSUME NEW status \in {"accepted", "conflict"}, Working, Seen = {},
             log' = Append(log, Entry(NextOp, status)),
             status = "accepted" <=> ~Loses(NextOp)
      PROVE  Promise!NextOfLog
  <2> DEFINE e == Entry(NextOp, status)
             family == KindFamily(NextOp.kind)
  <2>1. NextOp \in Op /\ txn \in Txn /\ txn # Idle
    BY <1>2, NextOpType DEF TypeInv, Working
  <2>2. e \in LogEntry(Gids, Machines)
    BY <2>1, EntryType
  <2>3. /\ e.gid = NextOp.gid /\ e.kind = NextOp.kind /\ e.base = NextOp.base
        /\ e.origin = NextOp.origin /\ e.cseq = NextOp.cseq /\ e.status = status
    BY DEF Entry
  <2> HIDE DEF e
  <2>4. log' = Append(log, e) /\ Len(log') = Len(log) + 1 /\ log'[Len(log')] = e
    BY <1>1, <1>2 DEF e
  <2>5. FindByClientSeq(log, e.origin, e.cseq) = {}
    BY <1>2, <2>3 DEF Seen
  <2>6. ASSUME Promise!Exclusive(e.gid, family)
        PROVE  Promise!Justified(e)
    <3>1. NextOp.gid \in Gids /\ family \in Families
      BY <2>1 DEF Op, Families
    <3>2. Exclusive(NextOp.gid, family)
      BY <2>3, <2>6, SameOperators
      DEF Promise!Exclusive, Exclusive, Accepted, FamilyOf
    <3>3. Current(NextOp) = VersionAt(log, e.gid, KindFamily(e.kind), Len(log))
      BY <2>3, <3>1, <3>2 DEF VersionsFollowLog, Current
    <3>4. Promise!StaleByLog(e) <=> Stale(NextOp, Current(NextOp))
      BY <2>3, <3>3, SameOperators DEF Promise!StaleByLog, Stale
    <3>5. CASE status = "accepted"
      BY <1>2, <2>3, <3>4, <3>5 DEF Promise!Justified, Loses
    <3>6. CASE status = "conflict"
      <4>1. Stale(NextOp, Current(NextOp)) \/ RecordOf(NextOp) \in txn.lost
        BY <1>2, <3>6 DEF Loses
      <4>2. ASSUME RecordOf(NextOp) \in txn.lost
            PROVE  Promise!LostBefore(e)
        <5>1. PICK i \in DOMAIN log :
                /\ log[i].status = "conflict"
                /\ log[i].origin = txn.origin
                /\ <<log[i].gid, KindFamily(log[i].kind)>> = RecordOf(NextOp)
          BY <2>1, <4>2 DEF LossesLogged
        <5>2. NextOp.origin = txn.origin
          <6>1. txn.todo \in Seq(Op) /\ txn.todo # <<>>
            BY <1>2, <2>1 DEF Txn, Working
          <6>2. 1 \in DOMAIN txn.todo /\ NextOp = txn.todo[1]
            BY <6>1 DEF NextOp
          <6> QED BY <2>1, <6>2 DEF LossesLogged
        <5>3. log[i].gid = e.gid /\ KindFamily(log[i].kind) = KindFamily(e.kind)
          BY <2>3, <5>1 DEF RecordOf
        <5> QED BY <2>3, <5>1, <5>2, <5>3, SameOperators DEF Promise!LostBefore
      <4> QED BY <2>3, <3>4, <3>6, <4>1, <4>2 DEF Promise!Justified
    <3> QED BY <3>5, <3>6
  <2>7. Promise!AppendOp(e)
    BY <2>3, <2>4, <2>5, <2>6, SameOperators DEF Promise!AppendOp
  <2> QED BY <2>2, <2>4, <2>7, SameOperators DEF Promise!NextOfLog
<1>3. CASE StepAccept
  BY <1>2, <1>3 DEF StepAccept
<1>4. CASE StepConflict
  BY <1>2, <1>4 DEF StepConflict
<1> QED
  BY <1>3, <1>4
  DEF Next, vars, store, Join, Revoke, BeginBatch, StepDuplicate, EndBatch

(* Every step of the relay appends a justified op to the promised log, or   *)
(* leaves it alone: deciding from the records table, batch by batch, with   *)
(* retries, is deciding from the log.                                       *)
THEOREM RelayKeepsPromise == Spec => KeepsPromise
<1>1. Init => VersionsFollowLog /\ LossesLogged /\ Promise!Init
  <2>1. Init => LossesLogged
    BY DEF Init, LossesLogged
  <2>2. Init => Promise!Init
    BY DEF Init, Promise!Init
  <2> QED BY <2>1, <2>2, VersionsInit
<1> QED
  BY <1>1, TypeInvInit, TypeInvNext, VersionsNext, LossesNext, StepKeepsPromise, PTL
  DEF Spec, KeepsPromise, Promise!SpecOfLog

-----------------------------------------------------------------------------
(* The tables are what the log says.                                        *)

(* A parked conflict is described by its log entry.  RecordsFollowLog says  *)
(* as much of the records; of the parked the property tells the seqs only,  *)
(* and which of them an op resolves is decided from the rest.               *)
ParkedDescribed ==
  \A p \in parked :
    /\ p.seq \in DOMAIN log
    /\ log[p.seq].gid = p.gid
    /\ KindFamily(log[p.seq].kind) = p.family
    /\ log[p.seq].base = p.base

TablesInv == TablesFollowLog /\ ParkedDescribed

(* An appended entry changes no other.                                      *)
LEMMA Appended ==
  ASSUME TypeInv, NEW e, log' = Append(log, e)
  PROVE  LET n == Len(log) + 1 IN
         /\ Len(log) \in Nat
         /\ DOMAIN log = 1..Len(log)
         /\ DOMAIN log' = DOMAIN log \cup {n}
         /\ n \notin DOMAIN log
         /\ \A i \in DOMAIN log : i \in Nat /\ i < n /\ log'[i] = log[i]
         /\ log'[n] = e
         /\ Accepted' = Accepted \cup (IF e.status = "accepted" THEN {n} ELSE {})
         /\ \A gid, family : Exclusive(gid, family)' => Exclusive(gid, family)
<1>1. log \in Seq(LogEntry(Gids, Machines))
  BY DEF TypeInv, TypeOK
<1>2. /\ Len(log) \in Nat
      /\ DOMAIN log = 1..Len(log)
      /\ DOMAIN log' = DOMAIN log \cup {Len(log) + 1}
      /\ log'[Len(log) + 1] = e
      /\ \A i \in DOMAIN log : log'[i] = log[i]
  BY <1>1
<1>3. Len(log) + 1 \notin DOMAIN log /\ \A i \in DOMAIN log : i \in Nat /\ i < Len(log) + 1
  BY <1>2
<1>4. Accepted' = Accepted \cup (IF e.status = "accepted" THEN {Len(log) + 1} ELSE {})
  BY <1>2, <1>3 DEF Accepted
<1>5. \A gid, family : Exclusive(gid, family)' => Exclusive(gid, family)
  <2> TAKE gid, family
  <2>1. Accepted \subseteq Accepted' /\ Accepted \subseteq DOMAIN log
    BY <1>4 DEF Accepted
  <2> QED BY <1>2, <2>1 DEF Exclusive, FamilyOf
<1> QED BY <1>2, <1>3, <1>4, <1>5

(* An accepted op supersedes the records KeptRecords drops, and becomes one *)
(* that nothing supersedes.                                                 *)
LEMMA AcceptKeepsRecords ==
  ASSUME TypeInv, RecordsFollowLog, StepAccept
  PROVE  RecordsFollowLog'
<1>0. PICK n : n = Len(log) + 1
  OBVIOUS
<1> DEFINE op == NextOp
           new == [gid |-> op.gid, kind |-> op.kind, seq |-> n,
                   version |-> CurrentVersion(records, op.gid, KindFamily(op.kind)) + 1,
                   deleted |-> op.kind \in TombstoneKinds]
           Drops(i) == log[i].gid = op.gid /\ (log[i].kind = op.kind \/ op.kind \in TombstoneKinds)
           Free(i) == ~\E j \in Accepted : Supersedes(j, i)
<1>1. PICK e : e = Entry(op, "accepted")
  OBVIOUS
<1>2. e.gid = op.gid /\ e.kind = op.kind /\ e.status = "accepted"
  BY <1>1 DEF Entry
<1>3. log' = Append(log, e) /\ records' = KeptRecords(records, op) \cup {new}
  BY <1>0, <1>1 DEF StepAccept, RecordsAfterAccept
<1>4. new.seq = n /\ new.gid = op.gid /\ new.kind = op.kind
      /\ new.deleted = (op.kind \in TombstoneKinds)
  OBVIOUS
<1> HIDE DEF op, new
<1>5. /\ Len(log) \in Nat
      /\ DOMAIN log = 1..Len(log)
      /\ n \notin DOMAIN log
      /\ \A i \in DOMAIN log : i \in Nat /\ i < n /\ log'[i] = log[i]
      /\ log'[n] = e
      /\ Accepted' = Accepted \cup {n}
  BY <1>0, <1>2, <1>3, Appended
<1>6. Accepted \subseteq DOMAIN log
  BY DEF Accepted
<1>7. {r.seq : r \in records} = {i \in Accepted : Free(i)}
  BY DEF RecordsFollowLog
<1>8. \A r \in records :
        /\ r.seq \in Accepted
        /\ log[r.seq].gid = r.gid
        /\ log[r.seq].kind = r.kind
        /\ r.deleted = (r.kind \in TombstoneKinds)
  BY <1>7 DEF RecordsFollowLog
<1>9. \A r \in records : r \in KeptRecords(records, op) <=> ~Drops(r.seq)
  BY <1>8 DEF KeptRecords
<1>10. {r.seq : r \in records'} = {i \in Accepted : Free(i) /\ ~Drops(i)} \cup {n}
  <2>1. KeptRecords(records, op) \subseteq records
    BY DEF KeptRecords
  <2>2. ASSUME NEW i
        PROVE  (\E r \in KeptRecords(records, op) : i = r.seq)
                 <=> i \in {k \in Accepted : Free(k) /\ ~Drops(k)}
    <3>1. (\E r \in records : i = r.seq) <=> i \in {k \in Accepted : Free(k)}
      BY <1>7
    <3> HIDE DEF Free, Drops
    <3> QED BY <1>9, <2>1, <3>1
  <2> HIDE DEF Free, Drops
  <2> QED BY <1>3, <1>4, <2>2
<1>11. \A i \in Accepted : (\E j \in Accepted' : Supersedes(j, i)') <=> ~Free(i) \/ Drops(i)
  <2> TAKE i \in Accepted
  <2>1. \A j \in Accepted : Supersedes(j, i)' <=> Supersedes(j, i)
    BY <1>5, <1>6 DEF Supersedes
  <2>2. Supersedes(n, i)' <=> Drops(i)
    BY <1>2, <1>5, <1>6 DEF Supersedes
  <2> HIDE DEF Drops
  <2> QED BY <1>5, <2>1, <2>2
<1>12. ~\E j \in Accepted' : Supersedes(j, n)'
  <2>1. n \in Nat
    BY <1>0, <1>5
  <2> QED BY <1>5, <1>6, <2>1 DEF Supersedes
<1>13. {r.seq : r \in records'} =
         {i \in Accepted' : ~\E j \in Accepted' : Supersedes(j, i)'}
  <2> HIDE DEF Free, Drops
  <2> QED BY <1>5, <1>6, <1>10, <1>11, <1>12
<1>14. ASSUME NEW r \in records'
       PROVE  /\ log'[r.seq].gid = r.gid
              /\ log'[r.seq].kind = r.kind
              /\ r.deleted = (r.kind \in TombstoneKinds)
  <2>1. r = new \/ r \in records
    BY <1>3 DEF KeptRecords
  <2>2. CASE r = new
    BY <1>2, <1>4, <1>5, <2>2
  <2>3. CASE r \in records
    BY <1>5, <1>6, <1>8, <2>3
  <2> QED BY <2>1, <2>2, <2>3
<1> QED BY <1>13, <1>14 DEF RecordsFollowLog

(* A conflict supersedes nothing.                                           *)
LEMMA ConflictKeepsRecords ==
  ASSUME TypeInv, RecordsFollowLog, StepConflict
  PROVE  RecordsFollowLog'
<1>1. PICK e : e = Entry(NextOp, "conflict")
  OBVIOUS
<1>2. e.status = "conflict" /\ log' = Append(log, e) /\ records' = records
  BY <1>1 DEF Entry, StepConflict
<1>3. Accepted' = Accepted /\ \A i \in DOMAIN log : log'[i] = log[i]
  BY <1>2, Appended
<1>4. Accepted \subseteq DOMAIN log
  BY DEF Accepted
<1>5. \A i, j \in Accepted : Supersedes(j, i)' <=> Supersedes(j, i)
  BY <1>3, <1>4 DEF Supersedes
<1>6. {r.seq : r \in records} = {i \in Accepted : ~\E j \in Accepted : Supersedes(j, i)}
  BY DEF RecordsFollowLog
<1>7. {i \in Accepted : ~\E j \in Accepted : Supersedes(j, i)} =
        {i \in Accepted' : ~\E j \in Accepted' : Supersedes(j, i)'}
  BY <1>3, <1>5
<1>8. \A r \in records : r.seq \in DOMAIN log
  BY <1>4, <1>6
<1> QED BY <1>2, <1>3, <1>6, <1>7, <1>8 DEF RecordsFollowLog

(* An accepted op resolves the parked conflicts the log says it resolves.   *)
LEMMA AcceptKeepsParked ==
  ASSUME TypeInv, ParkedFollowLog, ParkedDescribed, StepAccept
  PROVE  ParkedFollowLog' /\ ParkedDescribed'
<1>0. PICK n : n = Len(log) + 1
  OBVIOUS
<1> DEFINE op == NextOp
           Free(i) == ~\E j \in Accepted : ResolvedBy(j, i)
           Frees(i) == /\ op.base # NoBase
                       /\ log[i].gid = op.gid
                       /\ FamilyOf(i) = KindFamily(op.kind)
                       /\ log[i].base = NoBase \/ log[i].base <= op.base
<1>1. PICK e : e = Entry(op, "accepted")
  OBVIOUS
<1>2. e.gid = op.gid /\ e.kind = op.kind /\ e.base = op.base /\ e.status = "accepted"
  BY <1>1 DEF Entry
<1>3. log' = Append(log, e) /\ parked' = {p \in parked : ~Resolves(op, p)}
  BY <1>1 DEF StepAccept, ParkedAfterAccept
<1> HIDE DEF op
<1>4. /\ Len(log) \in Nat
      /\ DOMAIN log' = DOMAIN log \cup {n}
      /\ n \notin DOMAIN log
      /\ \A i \in DOMAIN log : i \in Nat /\ i < n /\ log'[i] = log[i]
      /\ log'[n] = e
      /\ Accepted' = Accepted \cup {n}
  BY <1>0, <1>2, <1>3, Appended
<1>5. Accepted \subseteq DOMAIN log
  BY DEF Accepted
<1>6. \A p \in parked : Resolves(op, p) <=> Frees(p.seq)
  BY DEF ParkedDescribed, Resolves, FamilyOf
<1>7. {p.seq : p \in parked} = {i \in DOMAIN log \ Accepted : Free(i)}
  BY DEF ParkedFollowLog
<1>8. \A i \in DOMAIN log : (\E j \in Accepted' : ResolvedBy(j, i)') <=> ~Free(i) \/ Frees(i)
  <2> TAKE i \in DOMAIN log
  <2>1. \A j \in Accepted : ResolvedBy(j, i)' <=> ResolvedBy(j, i)
    BY <1>4, <1>5 DEF ResolvedBy, FamilyOf
  <2>2. ResolvedBy(n, i)' <=> Frees(i)
    BY <1>2, <1>4 DEF ResolvedBy, FamilyOf
  <2> HIDE DEF Frees
  <2> QED BY <1>4, <2>1, <2>2
<1>9. ParkedFollowLog'
  <2>1. ASSUME NEW i
        PROVE  (\E p \in parked' : i = p.seq)
                 <=> i \in {k \in DOMAIN log \ Accepted : Free(k) /\ ~Frees(k)}
    <3>1. (\E p \in parked : i = p.seq) <=> i \in {k \in DOMAIN log \ Accepted : Free(k)}
      BY <1>7
    <3> HIDE DEF Free, Frees
    <3> QED BY <1>3, <1>6, <3>1
  <2>2. DOMAIN log' \ Accepted' = DOMAIN log \ Accepted
    BY <1>4, <1>5
  <2> HIDE DEF Free, Frees
  <2>3. {p.seq : p \in parked'} =
          {i \in DOMAIN log' \ Accepted' : ~\E j \in Accepted' : ResolvedBy(j, i)'}
    BY <1>8, <2>1, <2>2
  <2> QED BY <2>3 DEF ParkedFollowLog
<1>10. ParkedDescribed'
  BY <1>3, <1>4 DEF ParkedDescribed
<1> QED BY <1>9, <1>10

(* A conflict is parked; nothing accepted so far can resolve it.            *)
LEMMA ConflictKeepsParked ==
  ASSUME TypeInv, ParkedFollowLog, ParkedDescribed, StepConflict
  PROVE  ParkedFollowLog' /\ ParkedDescribed'
<1>0. PICK n : n = Len(log) + 1
  OBVIOUS
<1> DEFINE op == NextOp
           new == [gid |-> op.gid, family |-> KindFamily(op.kind), base |-> op.base,
                   seq |-> n]
<1>1. PICK e : e = Entry(op, "conflict")
  OBVIOUS
<1>2. e.gid = op.gid /\ e.kind = op.kind /\ e.base = op.base /\ e.status = "conflict"
  BY <1>1 DEF Entry
<1>3. log' = Append(log, e) /\ parked' = parked \cup {new}
  BY <1>0, <1>1 DEF StepConflict, ParkedAfterConflict
<1>4. new.gid = op.gid /\ new.family = KindFamily(op.kind) /\ new.base = op.base
      /\ new.seq = n
  OBVIOUS
<1> HIDE DEF op, new
<1>5. /\ Len(log) \in Nat
      /\ DOMAIN log' = DOMAIN log \cup {n}
      /\ n \notin DOMAIN log
      /\ \A i \in DOMAIN log : i \in Nat /\ i < n /\ log'[i] = log[i]
      /\ log'[n] = e
      /\ Accepted' = Accepted
      /\ n \in Nat
  <2>1. Accepted' = Accepted \cup (IF e.status = "accepted" THEN {n} ELSE {})
    BY <1>0, <1>3, Appended
  <2>2. Accepted' = Accepted
    BY <1>2, <2>1
  <2> QED BY <1>0, <1>3, <2>2, Appended
<1>6. Accepted \subseteq DOMAIN log
  BY DEF Accepted
<1>7. {p.seq : p \in parked} =
        {i \in DOMAIN log \ Accepted : ~\E j \in Accepted : ResolvedBy(j, i)}
  BY DEF ParkedFollowLog
<1>8. \A i \in DOMAIN log, j \in Accepted : ResolvedBy(j, i)' <=> ResolvedBy(j, i)
  BY <1>5, <1>6 DEF ResolvedBy, FamilyOf
<1>9. \A j \in Accepted : ~ResolvedBy(j, n)'
  BY <1>5, <1>6 DEF ResolvedBy
<1>10. {p.seq : p \in parked'} = {p.seq : p \in parked} \cup {n}
  BY <1>3, <1>4
<1>11. ParkedFollowLog'
  <2>1. DOMAIN log' \ Accepted' = (DOMAIN log \ Accepted) \cup {n}
    BY <1>5, <1>6
  <2>2. \A i \in DOMAIN log \ Accepted :
          (\E j \in Accepted' : ResolvedBy(j, i)') <=> \E j \in Accepted : ResolvedBy(j, i)
    BY <1>5, <1>8
  <2>3. ~\E j \in Accepted' : ResolvedBy(j, n)'
    BY <1>5, <1>9
  <2>4. {p.seq : p \in parked'} =
          {i \in DOMAIN log' \ Accepted' : ~\E j \in Accepted' : ResolvedBy(j, i)'}
    BY <1>7, <1>10, <2>1, <2>2, <2>3
  <2> QED BY <2>4 DEF ParkedFollowLog
<1>12. ParkedDescribed'
  BY <1>2, <1>3, <1>4, <1>5 DEF ParkedDescribed
<1> QED BY <1>11, <1>12

LEMMA TablesNext == TypeInv /\ TablesInv /\ [Next]_vars => TablesInv'
<1> SUFFICES ASSUME TypeInv, TablesInv, [Next]_vars
             PROVE  TablesInv'
  OBVIOUS
<1>1. CASE StepAccept
  BY <1>1, AcceptKeepsRecords, AcceptKeepsParked DEF TablesInv, TablesFollowLog
<1>2. CASE StepConflict
  BY <1>2, ConflictKeepsRecords, ConflictKeepsParked DEF TablesInv, TablesFollowLog
<1>3. CASE UNCHANGED store
  BY <1>3
  DEF store, TablesInv, TablesFollowLog, RecordsFollowLog, ParkedFollowLog,
      ParkedDescribed, Accepted, Supersedes, ResolvedBy, FamilyOf
<1> QED
  BY <1>1, <1>2, <1>3
  DEF Next, vars, store, Join, Revoke, BeginBatch, StepDuplicate, EndBatch

(* What a machine that joins is given is what the log says: the records no  *)
(* later accepted op superseded, and the conflicts none resolved.           *)
THEOREM NewcomersGetTheLog == Spec => []TablesFollowLog
<1>1. Init => TablesInv
  BY DEF Init, TablesInv, TablesFollowLog, RecordsFollowLog, ParkedFollowLog,
         ParkedDescribed, Accepted
<1>2. TablesInv => TablesFollowLog
  BY DEF TablesInv
<1> QED BY <1>1, <1>2, TypeInvInit, TypeInvNext, TablesNext, PTL DEF Spec

-----------------------------------------------------------------------------
(* The answers of a batch.                                                  *)

(* An answer of the batch at work names a position of the log.              *)
AnswersLogged ==
  txn # Idle => \A n \in 1..Len(txn.results) : txn.results[n].seq \in DOMAIN log

AnswersInv == AnswersLogged /\ AnswersFollowLog

\* An answer fits the log: it names an entry, with the version after it.
Fits(r) ==
  /\ r.seq \in DOMAIN log
  /\ Exclusive(log[r.seq].gid, FamilyOf(r.seq)) => AnswerFollowsLog(r)

(* A version once answered stays the version at that seq.                   *)
LEMMA AppendKeepsAnswers ==
  ASSUME TypeInv, NEW e, log' = Append(log, e), NEW r, Fits(r)
  PROVE  Fits(r)'
<1>1. log \in Seq(LogEntry(Gids, Machines))
  BY DEF TypeInv, TypeOK
<1>2. /\ r.seq \in DOMAIN log /\ r.seq \in DOMAIN log' /\ log'[r.seq] = log[r.seq]
      /\ r.seq \in Nat /\ r.seq <= Len(log)
  BY <1>1 DEF Fits
<1>3. \A gid, family : Exclusive(gid, family)' => Exclusive(gid, family)
  BY Appended
<1>4. VersionAt(log', log[r.seq].gid, FamilyOf(r.seq), r.seq) =
        VersionAt(log, log[r.seq].gid, FamilyOf(r.seq), r.seq)
  <2>1. PICK gid, family : gid = log[r.seq].gid /\ family = FamilyOf(r.seq)
    OBVIOUS
  <2>2. /\ DOMAIN log' = DOMAIN log \cup {Len(log) + 1}
        /\ Len(log) \in Nat
        /\ \A i \in DOMAIN log : log'[i] = log[i]
    BY Appended
  <2>3. AcceptedUpTo(log', gid, family, r.seq) = AcceptedUpTo(log, gid, family, r.seq)
    BY <1>2, <2>2 DEF AcceptedUpTo
  <2> QED BY <2>1, <2>3 DEF VersionAt
<1> QED BY <1>2, <1>3, <1>4 DEF Fits, AnswerFollowsLog, FamilyOf

(* One more answer that fits, and a log that keeps the others.              *)
LEMMA ReplyKeepsAnswers ==
  ASSUME TypeInv, AnswersInv, Working, NEW e,
         log' = log \/ log' = Append(log, e),
         NEW seq, NEW status, NEW duplicate, NEW version, NEW lost,
         Reply(seq, status, duplicate, version, lost),
         seq \in DOMAIN log',
         Exclusive(log[seq].gid, FamilyOf(seq))'
           => version = VersionAt(log', log'[seq].gid, FamilyOf(seq)', seq)
  PROVE  AnswersInv'
<1> DEFINE new == [cseq |-> NextOp.cseq, seq |-> seq, status |-> status,
                   duplicate |-> duplicate, version |-> version]
<1>1. txn \in Txn /\ txn # Idle /\ txn.results \in Seq(Result)
  BY NextOpType DEF TypeInv, Working, Txn
<1>2. txn'.results = Append(txn.results, new)
  BY DEF Reply
<1>3. PICK r : r = new
  OBVIOUS
<1>4. r.seq = seq /\ r.version = version
  BY <1>3
<1> HIDE DEF new
<1>5. Fits(r)'
  BY <1>4 DEF Fits, AnswerFollowsLog
<1>6. ASSUME NEW n \in 1..Len(txn.results), NEW q, q = txn.results[n]
      PROVE  Fits(q)'
  <2>1. Fits(q)
    BY <1>1, <1>6 DEF AnswersInv, AnswersLogged, AnswersFollowLog, Fits
  <2>2. CASE log' = log
    BY <2>1, <2>2 DEF Fits, AnswerFollowsLog, Exclusive, Accepted, FamilyOf
  <2>3. CASE log' = Append(log, e)
    BY <2>1, <2>3, AppendKeepsAnswers
  <2> QED BY <2>2, <2>3
<1>7. ASSUME NEW n \in 1..Len(txn'.results), NEW q, q = txn'.results[n]
      PROVE  Fits(q)'
  <2>1. (n \in 1..Len(txn.results) /\ q = txn.results[n]) \/ q = r
    BY <1>1, <1>2, <1>3, <1>7 DEF new
  <2> QED BY <1>5, <1>6, <2>1
<1>8. AnswersLogged'
  BY <1>7 DEF AnswersLogged, Fits
<1>9. AnswersFollowLog'
  BY <1>7 DEF AnswersFollowLog, Fits
<1> QED BY <1>8, <1>9 DEF AnswersInv

LEMMA AnswersNext ==
  TypeInv /\ VersionsFollowLog /\ AnswersInv /\ [Next]_vars => AnswersInv'
<1> SUFFICES ASSUME TypeInv, VersionsFollowLog, AnswersInv, [Next]_vars
             PROVE  AnswersInv'
  OBVIOUS
<1>1. log \in Seq(LogEntry(Gids, Machines))
  BY DEF TypeInv, TypeOK
<1>2. CASE StepDuplicate
  <2>1. Working /\ log' = log
    BY <1>2 DEF StepDuplicate, store
  <2>2. PICK i \in Seen :
          Reply(i, log[i].status, TRUE,
                VersionAt(log, log[i].gid, KindFamily(log[i].kind), i), txn.lost)
    BY <1>2 DEF StepDuplicate
  <2>3. i \in DOMAIN log'
    BY <2>1, <2>2 DEF Seen, FindByClientSeq
  <2>4. VersionAt(log, log[i].gid, KindFamily(log[i].kind), i) =
          VersionAt(log', log'[i].gid, FamilyOf(i)', i)
    BY <2>1 DEF FamilyOf
  <2> QED BY <2>1, <2>2, <2>3, <2>4, ReplyKeepsAnswers
<1>3. ASSUME NEW status \in {"accepted", "conflict"}, NEW version, NEW lost, Working,
             log' = Append(log, Entry(NextOp, status)),
             Reply(Len(log) + 1, status, FALSE, version, lost),
             version = Current(NextOp) + (IF status = "accepted" THEN 1 ELSE 0)
      PROVE  AnswersInv'
  <2>1. PICK n : n = Len(log) + 1
    OBVIOUS
  <2>2. PICK e : e = Entry(NextOp, status)
    OBVIOUS
  <2>3. PICK gid : gid = NextOp.gid
    OBVIOUS
  <2>4. PICK family : family = KindFamily(NextOp.kind)
    OBVIOUS
  <2>5. e.gid = gid /\ KindFamily(e.kind) = family /\ e.status = status
    BY <2>2, <2>3, <2>4 DEF Entry
  <2>6. gid \in Gids /\ family \in Families
    BY <1>3, <2>3, <2>4, NextOpType DEF TypeInv, Op, Families
  <2>7. /\ n \in DOMAIN log' /\ log'[n] = e
        /\ \A g, f : Exclusive(g, f)' => Exclusive(g, f)
    BY <1>3, <2>1, <2>2, Appended
  <2>8. ASSUME Exclusive(gid, family)'
        PROVE  version = VersionAt(log', gid, family, n)
    <3>1. Current(NextOp) = VersionAt(log, gid, family, Len(log))
      BY <2>3, <2>4, <2>6, <2>7, <2>8 DEF VersionsFollowLog, Current
    <3>2. VersionAt(log', gid, family, n) =
            VersionAt(log, gid, family, Len(log)) + (IF status = "accepted" THEN 1 ELSE 0)
      BY <1>1, <1>3, <2>1, <2>2, <2>5, VersionAtAppend
    <3> QED BY <1>3, <3>1, <3>2
  <2>9. Exclusive(log[n].gid, FamilyOf(n))'
          => version = VersionAt(log', log'[n].gid, FamilyOf(n)', n)
    BY <2>5, <2>7, <2>8 DEF FamilyOf
  <2> QED BY <1>3, <2>1, <2>7, <2>9, ReplyKeepsAnswers
<1>4. CASE StepAccept
  <2>1. /\ Working
        /\ log' = Append(log, Entry(NextOp, "accepted"))
        /\ Reply(Len(log) + 1, "accepted", FALSE, Current(NextOp) + 1, txn.lost)
    BY <1>4 DEF StepAccept
  <2> QED BY <1>3, <2>1
<1>5. CASE StepConflict
  <2>1. /\ Working
        /\ log' = Append(log, Entry(NextOp, "conflict"))
        /\ Reply(Len(log) + 1, "conflict", FALSE, Current(NextOp),
                 txn.lost \cup {RecordOf(NextOp)})
    BY <1>5 DEF StepConflict
  <2>2. Current(NextOp) = Current(NextOp) + 0
    BY CurrentType DEF Current
  <2> QED BY <1>3, <2>1, <2>2
<1>6. ASSUME NEW m \in Machines, NEW batch, BeginBatch(m, batch)
      PROVE  AnswersInv'
  BY <1>6 DEF BeginBatch, AnswersInv, AnswersLogged, AnswersFollowLog
<1>7. CASE EndBatch
  BY <1>7 DEF EndBatch, AnswersInv, AnswersLogged, AnswersFollowLog
<1>8. CASE UNCHANGED <<log, txn>>
  BY <1>8
  DEF AnswersInv, AnswersLogged, AnswersFollowLog, AnswerFollowsLog, Exclusive,
      Accepted, FamilyOf
<1> QED
  BY <1>2, <1>4, <1>5, <1>6, <1>7, <1>8 DEF Next, vars, store, Join, Revoke

(* The version a POST answers an op with, new or retried, is the one a pull *)
(* computes from the log for the same op.                                   *)
THEOREM AnswersAgreeWithPulls == Spec => []AnswersFollowLog
<1>1. Init => AnswersInv
  BY DEF Init, AnswersInv, AnswersLogged, AnswersFollowLog
<1>2. AnswersInv => AnswersFollowLog
  BY DEF AnswersInv
<1> QED
  BY <1>1, <1>2, TypeInvInit, TypeInvNext, VersionsInit, VersionsNext, AnswersNext, PTL
  DEF Spec

=============================================================================
