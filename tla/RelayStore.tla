----------------------------- MODULE RelayStore -----------------------------
(***************************************************************************)
(* The relay's storage layer, packages/relay/src/store.ts, as operators on *)
(* values: what BrainStore reads and writes, without the state.  Relay and *)
(* Sync hold the state and apply these operators to it.                    *)
(*                                                                         *)
(* One brain is modelled: every query of BrainStore is scoped by brain_id. *)
(* Payloads are opaque ciphertext to the relay, so an entry carries none   *)
(* here; a kept record is identified by the seq of the op it came from.    *)
(***************************************************************************)
EXTENDS Integers, Sequences, FiniteSets, FiniteSetsExt

CONSTANT
  NoBase     \* base_version null: the author had seen no version of the record

ASSUME NoBaseAssumption == NoBase \notin Int

FileKinds    == {"file.create", "file.update", "file.delete", "file.move"}
FolderKinds  == {"folder.create", "folder.delete"}
ProjectKinds == {"project.register", "project.unregister"}
MetaKinds    == {"tag.set", "favorite.set"}
CalendarKinds ==
  {"calendar.entity.upsert", "calendar.event.upsert", "calendar.link.upsert"}

OpKinds == FileKinds \cup FolderKinds \cup ProjectKinds \cup MetaKinds
             \cup CalendarKinds \cup {"journal.meta.upsert"}

\* The record family an op versions: the unit of optimistic concurrency.
KindFamily(kind) ==
  CASE kind \in FileKinds    -> "content"
    [] kind \in MetaKinds    -> "metadata"
    [] kind \in FolderKinds  -> "folder"
    [] kind \in ProjectKinds -> "project"
    [] kind = "journal.meta.upsert" -> "journal"
    [] OTHER -> kind

TombstoneKinds == {"file.delete", "project.unregister"}

Bases == Nat \cup {NoBase}

\* The rows of the ops table (`ops`, in seq order), of `records`, of `conflicts`.
LogEntry(Gids, Origins) ==
  [gid : Gids, kind : OpKinds, origin : Origins, cseq : Nat, base : Bases,
   status : {"accepted", "conflict"}]
Record(Gids) ==
  [gid : Gids, kind : OpKinds, version : Nat, seq : Nat, deleted : BOOLEAN]
Parked(Gids) ==
  [gid : Gids, family : {KindFamily(k) : k \in OpKinds}, base : Bases, seq : Nat]

-----------------------------------------------------------------------------
(* Reads.                                                                   *)

Versions(records, gid, family) ==
  {r.version : r \in {q \in records : q.gid = gid /\ KindFamily(q.kind) = family}}

CurrentVersion(records, gid, family) ==
  Max(Versions(records, gid, family) \cup {0})

AcceptedUpTo(log, gid, family, seq) ==
  {i \in DOMAIN log : /\ i <= seq
                      /\ log[i].gid = gid
                      /\ KindFamily(log[i].kind) = family
                      /\ log[i].status = "accepted"}

\* The version right after op `seq`, recomputed from the log.
VersionAt(log, gid, family, seq) == Cardinality(AcceptedUpTo(log, gid, family, seq))

\* Mutant: the lookup sees accepted ops only.
FindAcceptedByClientSeq(log, origin, cseq) ==
  {i \in DOMAIN log : /\ log[i].origin = origin /\ log[i].cseq = cseq
                      /\ log[i].status = "accepted"}

\* The seqs already holding this client's op: at most one, by the unique index.
FindByClientSeq(log, origin, cseq) ==
  {i \in DOMAIN log : log[i].origin = origin /\ log[i].cseq = cseq}

\* One page of the log after `since`: the seqs, in order.
OpsSince(log, since, limit) ==
  SubSeq([i \in DOMAIN log |-> i], since + 1, Min({Len(log), since + limit}))

-----------------------------------------------------------------------------
(* The optimistic-concurrency test of POST /ops, and appendOp.              *)

Stale(op, current) == IF op.base = NoBase THEN current > 0 ELSE op.base < current

Entry(op, status) ==
  [gid |-> op.gid, kind |-> op.kind, origin |-> op.origin, cseq |-> op.cseq,
   base |-> op.base, status |-> status]

\* A tombstone drops every record of the gid, of whatever family, and stays.
KeptRecords(records, op) ==
  IF op.kind \in TombstoneKinds
  THEN {r \in records : r.gid # op.gid}
  ELSE {r \in records : ~(r.gid = op.gid /\ r.kind = op.kind)}

\* Mutant: the version counts the ops of one kind, not of the family.
RecordsVersionedByKind(records, op, seq) ==
  KeptRecords(records, op) \cup
    {[gid |-> op.gid, kind |-> op.kind, seq |-> seq,
      version |-> 1 + Max({0} \cup {r.version : r \in
                    {q \in records : q.gid = op.gid /\ q.kind = op.kind}}),
      deleted |-> op.kind \in TombstoneKinds]}

RecordsAfterAccept(records, op, seq) ==
  KeptRecords(records, op) \cup
    {[gid |-> op.gid, kind |-> op.kind, seq |-> seq,
      version |-> CurrentVersion(records, op.gid, KindFamily(op.kind)) + 1,
      deleted |-> op.kind \in TombstoneKinds]}

\* Mutant: a winner resolves the losers of every record of its gid.
ResolvesAnyFamily(op, p) ==
  op.base # NoBase /\ p.gid = op.gid /\ (p.base = NoBase \/ p.base <= op.base)

\* What an accepted op with a base resolves: the losers based no later than it.
Resolves(op, p) ==
  /\ op.base # NoBase
  /\ p.gid = op.gid
  /\ p.family = KindFamily(op.kind)
  /\ p.base = NoBase \/ p.base <= op.base

ParkedAfterAccept(parked, op) == {p \in parked : ~Resolves(op, p)}

ParkedAfterConflict(parked, op, seq) ==
  parked \cup {[gid |-> op.gid, family |-> KindFamily(op.kind), base |-> op.base,
                seq |-> seq]}
=============================================================================
