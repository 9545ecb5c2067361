-------------------------------- MODULE Relay --------------------------------
(***************************************************************************)
(* The relay server (packages/relay): the log every machine of a brain     *)
(* pushes to and pulls from, the records and parked conflicts kept beside  *)
(* it, and the batch protocol of POST /ops.                                *)
(*                                                                         *)
(* A batch runs in one synchronous SQLite transaction of a single process, *)
(* so nothing else runs between its ops: `txn` is the batch being worked   *)
(* through, and every other action waits for it to be Idle.                *)
(*                                                                         *)
(* GET /ops and the snapshot only read; the acked_seq, hostname and times  *)
(* of a client row are kept for display and left out.                      *)
(*                                                                         *)
(* Clients are arbitrary: a machine may send any of its outbox rows again, *)
(* in any batch, with any base - a retry after a lost answer, a restart,   *)
(* or two sync loops of one machine all look like that from here.          *)
(***************************************************************************)
EXTENDS RelayStore, SequencesExt

CONSTANTS
  Machines,   \* machine ids
  Gids,       \* record ids
  Outbox,     \* [Machines -> sequence of [gid, kind]]: what each machine has to say
  MaxBase,    \* bound of the model: the largest base_version a client sends
  MaxBatch,   \* MAX_OPS_LIMIT: the most ops one POST may carry
  Idle        \* no batch is being worked through

ASSUME OutboxAssumption ==
  Outbox \in [Machines -> Seq([gid : Gids, kind : OpKinds])]
ASSUME BoundsAssumption == MaxBase \in Nat /\ MaxBatch \in Nat

VARIABLES
  log,       \* table ops; the index is seq
  records,   \* table records
  parked,    \* table conflicts
  clients,   \* table clients: the enrolled machines (a token each)
  txn        \* the open POST /ops transaction, or Idle

vars == <<log, records, parked, clients, txn>>
store == <<log, records, parked>>

Families == {KindFamily(k) : k \in OpKinds}
Op == [gid : Gids, kind : OpKinds, origin : Machines, cseq : Nat, base : Bases]
Result == [cseq : Nat, seq : Nat, status : {"accepted", "conflict"},
           duplicate : BOOLEAN, version : Nat]
Txn == [origin : Machines, todo : Seq(Op), lost : SUBSET (Gids \X Families),
        results : Seq(Result)]

TypeOK ==
  /\ log \in Seq(LogEntry(Gids, Machines))
  /\ records \in SUBSET Record(Gids)
  /\ parked \in SUBSET Parked(Gids)
  /\ clients \in SUBSET Machines
  /\ txn = Idle \/ txn \in Txn

Init ==
  /\ log = <<>>
  /\ records = {}
  /\ parked = {}
  /\ clients = {}
  /\ txn = Idle

-----------------------------------------------------------------------------
(* Enrolment: POST /brains/join, DELETE /brains/me/machines/:id.            *)

\* Joining enrols the machine; joining again only rotates its token.
Join(m) ==
  /\ txn = Idle
  /\ clients' = clients \cup {m}
  /\ UNCHANGED <<store, txn>>

\* A revoked machine loses its row, and with it its token.
Revoke(m) ==
  /\ txn = Idle
  /\ clients' = clients \ {m}
  /\ UNCHANGED <<store, txn>>

-----------------------------------------------------------------------------
(* POST /ops.                                                               *)

OpOf(m, cseq, base) ==
  [gid |-> Outbox[m][cseq].gid, kind |-> Outbox[m][cseq].kind, origin |-> m,
   cseq |-> cseq, base |-> base]

BeginBatch(m, batch) ==
  /\ txn = Idle
  /\ m \in clients
  /\ batch \in Seq(Op)
  /\ Len(batch) \in 1..MaxBatch
  /\ \A i \in 1..Len(batch) : batch[i].origin = m
  /\ txn' = [origin |-> m, todo |-> batch, lost |-> {}, results |-> <<>>]
  /\ UNCHANGED <<store, clients>>

Working == txn # Idle /\ txn.todo # <<>>
NextOp == Head(txn.todo)
RecordOf(op) == <<op.gid, KindFamily(op.kind)>>
\* Mutant: the test looks at the ops of one kind.
CurrentOfKind(op) ==
  Max({0} \cup {r.version : r \in {q \in records : q.gid = op.gid /\ q.kind = op.kind}})
Current(op) == CurrentVersion(records, op.gid, KindFamily(op.kind))
Seen == FindByClientSeq(log, NextOp.origin, NextOp.cseq)

Reply(seq, status, duplicate, version, lost) ==
  txn' = [origin |-> txn.origin, todo |-> Tail(txn.todo), lost |-> lost,
          results |-> Append(txn.results,
            [cseq |-> NextOp.cseq, seq |-> seq, status |-> status,
             duplicate |-> duplicate, version |-> version])]

\* Mutant: a retry is answered with the version of now, not of the op.
StepDuplicateAsOfNow ==
  /\ Working
  /\ \E i \in Seen : Reply(i, log[i].status, TRUE, Current(NextOp), txn.lost)
  /\ UNCHANGED <<store, clients>>

\* The log already holds this client_seq: answer from it, append nothing.
StepDuplicate ==
  /\ Working
  /\ \E i \in Seen :
       Reply(i, log[i].status, TRUE,
             VersionAt(log, log[i].gid, KindFamily(log[i].kind), i), txn.lost)
  /\ UNCHANGED <<store, clients>>

Loses(op) == Stale(op, Current(op)) \/ RecordOf(op) \in txn.lost

StepAccept ==
  /\ Working
  /\ Seen = {}
  /\ ~Loses(NextOp)
  /\ log' = Append(log, Entry(NextOp, "accepted"))
  /\ records' = RecordsAfterAccept(records, NextOp, Len(log) + 1)
  /\ parked' = ParkedAfterAccept(parked, NextOp)
  /\ Reply(Len(log) + 1, "accepted", FALSE, Current(NextOp) + 1, txn.lost)
  /\ UNCHANGED clients

StepConflict ==
  /\ Working
  /\ Seen = {}
  /\ Loses(NextOp)
  /\ log' = Append(log, Entry(NextOp, "conflict"))
  /\ parked' = ParkedAfterConflict(parked, NextOp, Len(log) + 1)
  /\ Reply(Len(log) + 1, "conflict", FALSE, Current(NextOp),
           txn.lost \cup {RecordOf(NextOp)})
  /\ UNCHANGED <<records, clients>>

\* The transaction commits and the answer leaves; whether it arrives is not
\* the relay's concern.
EndBatch ==
  /\ txn # Idle
  /\ txn.todo = <<>>
  /\ txn' = Idle
  /\ UNCHANGED <<store, clients>>

-----------------------------------------------------------------------------
(* A client sends outbox rows in id order, each once, each with some base.  *)

\* Only an op that makes a record new is sent without a base.
CreatingKinds == {"file.create", "project.register",
                  "journal.meta.upsert"} \cup CalendarKinds

SendableBases(kind) ==
  0..MaxBase \cup (IF kind \in CreatingKinds THEN {NoBase} ELSE {})

Batch(m, rows, base) ==
  LET ids == SetToSortSeq(rows, <) IN
    [i \in 1..Len(ids) |-> OpOf(m, ids[i], base[ids[i]])]

Next ==
  \/ \E m \in Machines : Join(m) \/ Revoke(m)
  \/ \E m \in Machines : \E rows \in SUBSET (1..Len(Outbox[m])) :
       \E base \in [rows -> 0..MaxBase \cup {NoBase}] :
         /\ \A i \in rows : base[i] \in SendableBases(Outbox[m][i].kind)
         /\ BeginBatch(m, Batch(m, rows, base))
  \/ StepDuplicate
  \/ StepAccept
  \/ StepConflict
  \/ EndBatch

Spec == Init /\ [][Next]_vars

-----------------------------------------------------------------------------
(* What must hold of the store.                                             *)

Accepted == {i \in DOMAIN log : log[i].status = "accepted"}
FamilyOf(i) == KindFamily(log[i].kind)

\* No accepted op of another family tombstoned the gid.
Exclusive(gid, family) ==
  \A i \in Accepted :
    log[i].gid = gid /\ log[i].kind \in TombstoneKinds => FamilyOf(i) = family

\* A retried or doubly sent op enters the log once: (origin, client_seq) is a
\* key, though only the lookup before each insert keeps it one.
OncePerClientSeq ==
  \A i, j \in DOMAIN log :
    log[i].origin = log[j].origin /\ log[i].cseq = log[j].cseq => i = j

Supersedes(j, i) ==
  /\ j > i
  /\ log[j].gid = log[i].gid
  /\ log[j].kind = log[i].kind \/ log[j].kind \in TombstoneKinds

\* The records table is exactly what the log says: the accepted ops that no
\* later op of their kind, and no later tombstone of their gid, superseded.
\* A machine bootstrapping from a snapshot gets what a replay would give.
RecordsFollowLog ==
  /\ {r.seq : r \in records} =
       {i \in Accepted : ~\E j \in Accepted : Supersedes(j, i)}
  /\ \A r \in records :
       /\ log[r.seq].gid = r.gid
       /\ log[r.seq].kind = r.kind
       /\ r.deleted = (r.kind \in TombstoneKinds)

ResolvedBy(j, i) ==
  /\ j > i
  /\ log[j].base # NoBase
  /\ log[j].gid = log[i].gid
  /\ FamilyOf(j) = FamilyOf(i)
  /\ log[i].base = NoBase \/ log[i].base <= log[j].base

\* A conflict stays parked for newcomers until an accepted op whose base
\* covers its own, of the same record, is appended after it - and no longer.
ParkedFollowLog ==
  {p.seq : p \in parked} =
    {i \in DOMAIN log \ Accepted : ~\E j \in Accepted : ResolvedBy(j, i)}

\* What a machine that joins is given, records and parked conflicts, is what
\* the log says, whatever was resent and in whatever batches.
TablesFollowLog == RecordsFollowLog /\ ParkedFollowLog

\* The version kept in records is the number of accepted ops of the record:
\* tombstones and overwritten rows never make the relay forget one.
VersionsFollowLog ==
  \A gid \in Gids, family \in Families :
    Exclusive(gid, family) =>
      CurrentVersion(records, gid, family) = VersionAt(log, gid, family, Len(log))

AnswerFollowsLog(r) ==
  r.version = VersionAt(log, log[r.seq].gid, FamilyOf(r.seq), r.seq)

\* The version a POST answers with is the one a later pull or a duplicate
\* retry reports for the same op, so the two never set a machine apart.
AnswersFollowLog ==
  txn # Idle =>
    \A n \in 1..Len(txn.results) :
      LET r == txn.results[n] IN
        Exclusive(log[r.seq].gid, FamilyOf(r.seq)) => AnswerFollowsLog(r)

\* The relay keeps the promise of OptimisticLog although it decides from the
\* records table, batch by batch.
Promise == INSTANCE OptimisticLog WITH
  log <- log, Machines <- Machines, Gids <- Gids, NoBase <- NoBase
KeepsPromise == Promise!SpecOfLog
=============================================================================
