---------------------------- MODULE OptimisticLog ----------------------------
(***************************************************************************)
(* What the relay promises its machines, told without records, parked      *)
(* conflicts, batches or retries: one append-only log in which             *)
(*   - an op of a machine appears at most once, however often it is sent;  *)
(*   - an op is accepted only when its author's base covers every op of    *)
(*     the record accepted before it;                                      *)
(*   - an op is flagged conflict only when its base does not, or when an   *)
(*     earlier op of the same machine for the same record was flagged.     *)
(* The promise about bases is made for a record family whose gid was not   *)
(* tombstoned from another family (see Relay for why).                     *)
(***************************************************************************)
EXTENDS RelayStore

CONSTANTS Machines, Gids

VARIABLE log

\* No accepted op of another family tombstoned the gid.
Exclusive(gid, family) ==
  \A i \in DOMAIN log :
    log[i].status = "accepted" /\ log[i].gid = gid /\ log[i].kind \in TombstoneKinds
      => KindFamily(log[i].kind) = family

StaleByLog(op) == Stale(op, VersionAt(log, op.gid, KindFamily(op.kind), Len(log)))

LostBefore(op) ==
  \E i \in DOMAIN log :
    /\ log[i].status = "conflict"
    /\ log[i].origin = op.origin
    /\ log[i].gid = op.gid
    /\ KindFamily(log[i].kind) = KindFamily(op.kind)

Justified(op) ==
  IF op.status = "accepted" THEN ~StaleByLog(op)
  ELSE StaleByLog(op) \/ LostBefore(op)

Init == log = <<>>

AppendOp(op) ==
  /\ FindByClientSeq(log, op.origin, op.cseq) = {}
  /\ Exclusive(op.gid, KindFamily(op.kind)) => Justified(op)
  /\ log' = Append(log, op)

Next == \E op \in LogEntry(Gids, Machines) : AppendOp(op)

\* Next with the op read off the new log: the same steps, checkable by TLC.
NextOfLog ==
  /\ Len(log') = Len(log) + 1
  /\ log'[Len(log')] \in LogEntry(Gids, Machines)
  /\ AppendOp(log'[Len(log')])

Spec == Init /\ [][Next]_log
SpecOfLog == Init /\ [][NextOfLog]_log
==============================================================================
