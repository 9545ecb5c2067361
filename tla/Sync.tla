-------------------------------- MODULE Sync --------------------------------
(***************************************************************************)
(* File sync: the machines of one brain (packages/core/src/storage) and    *)
(* the relay between them.  A machine keeps files, an outbox, the versions *)
(* it knows, a cursor into the log and its unresolved conflicts in SQLite; *)
(* its sync loop pushes the outbox, then pulls and applies what others     *)
(* wrote, while its user keeps editing.  A machine may run several loops:  *)
(* the MCP server and the web app each start one on the same database.     *)
(*                                                                         *)
(* A step is what runs between two awaits, or between two writes a crash   *)
(* or another process can separate.  The relay is its log: records and     *)
(* parked conflicts follow it (Relay, RecordsCountTheLog).  Requests are   *)
(* answered, lost, or - given up by the client - served late.              *)
(*                                                                         *)
(* A text is named by the outbox row that first carried it, <<machine, n>>.*)
(* Paths, titles and journals' merging are left out: every gid has a path  *)
(* of its own, and its text is opaque.                                     *)
(***************************************************************************)
EXTENDS RelayStore, SequencesExt

CONSTANTS
  Machines, Gids,
  Creator,     \* [Gids -> Machines]: a gid carries the machine that made it
  Loops, Host, \* the sync loops, and the machine each runs on
  Users,       \* what users do: subset of UserActions
  Serialized,  \* bound of the model: no user acts while applyRemoteOp awaits
  Faults,      \* what may go wrong: subset of FaultKinds
  Copies,      \* bound of the model: gids kept for the files of keep-both
  MaxRows,     \* bound of the model: [Machines -> outbox rows]
  MaxFaults,   \* bound of the model: faults in all
  PushLimit,   \* MAX_BATCH_SIZE of a push
  PageLimit,   \* pageLimit of a pull
  NoText,      \* no files row
  NoFork       \* no unresolved conflict

UserActions ==
  {"edit", "delete", "keep-server", "keep-mine", "merged", "keep-both"}
FaultKinds == {"lost request", "lost answer", "late request", "lost pull", "restart",
               "torn ack", "failed apply", "unappliable"}

ASSUME LoopsAssumption == Host \in [Loops -> Machines]
ASSUME CreatorAssumption == Creator \in [Gids -> Machines]
ASSUME ChoicesAssumption ==
  /\ Copies \subseteq Gids
  /\ Users \subseteq UserActions /\ Faults \subseteq FaultKinds /\ Serialized \in BOOLEAN
ASSUME BoundsAssumption ==
  MaxRows \in [Machines -> Nat] /\ MaxFaults \in Nat
  /\ PushLimit \in Nat \ {0} /\ PageLimit \in Nat \ {0}

VARIABLES
  log,      \* the relay's ops table; the index is seq
  files,    \* [machine -> [gid -> text]]: the files row with its bytes on disk
  outbox,   \* [machine -> rows]; the index is the row id, a client's client_seq
  known,    \* [machine -> [gid -> version]]: gid_versions
  lost,     \* [machine -> gids]: gid_versions.lost_push
  fork,     \* [machine -> [gid -> conflict]]: the unresolved row of conflicts
  copies,   \* [machine -> texts]: the conflict copies on disk
  cursor,   \* [machine -> seq]: sync_cursor
  skipped,  \* [machine -> seqs]: the ops sync_skipped_ops gives up
  loop,     \* [loop -> where it is]: memory, gone with the process
  net,      \* push requests their senders gave up, still to be served
  faults,   \* faults so far
  seen      \* history: [machine -> texts its user has had before them]

machineVars == <<files, outbox, known, lost, fork, copies, cursor, skipped, seen>>
vars == <<log, machineVars, loop, net, faults>>

Texts == UNION {{m} \X (1..MaxRows[m]) : m \in Machines}
ASSUME TokensAssumption ==
  NoText \notin Texts /\ NoFork \notin [remote : Texts, mine : Texts]

Statuses == {"pending", "sent", "failed", "waiting", "acked"}
PushKinds == {"file.create", "file.update", "file.delete"}
Row == [gid : Gids, kind : PushKinds, base : Bases, text : Texts \cup {NoText},
        status : Statuses, saw : SUBSET Texts]
Wire == [gid : Gids, kind : PushKinds, origin : Machines, cseq : Nat, base : Bases]
Answer == [cseq : Nat, status : {"accepted", "conflict"}, version : Nat]

\* Where a loop is: between ticks, awaiting POST /ops, handling its answers,
\* about to GET /ops, going through the page, inside applyRemoteOp, backing off.
Idle == [pc |-> "idle"]
Backoff == [pc |-> "backoff"]
ToPull(since) == [pc |-> "pull", since |-> since]
Posting(ops) == [pc |-> "posting", ops |-> ops]
Answered(answers) == [pc |-> "answered", answers |-> answers]
Paging(since, upto) ==
  [pc |-> "paging", at |-> since + 1, upto |-> upto, full |-> upto - since = PageLimit]

LoopState ==
  {Idle, Backoff} \cup [pc : {"pull"}, since : Nat]
    \cup [pc : {"posting"}, ops : Seq(Wire)] \cup [pc : {"answered"}, answers : Seq(Answer)]
    \cup [pc : {"paging", "applying"}, at : Nat, upto : Nat, full : BOOLEAN]

TypeOK ==
  /\ log \in Seq(LogEntry(Gids, Machines))
  /\ files \in [Machines -> [Gids -> Texts \cup {NoText}]]
  /\ outbox \in [Machines -> Seq(Row)]
  /\ known \in [Machines -> [Gids -> Nat]]
  /\ lost \in [Machines -> SUBSET Gids]
  /\ fork \in [Machines -> [Gids -> [remote : Texts, mine : Texts] \cup {NoFork}]]
  /\ copies \in [Machines -> SUBSET Texts]
  /\ cursor \in [Machines -> Nat]
  /\ skipped \in [Machines -> SUBSET (1..Len(log))]
  /\ loop \in [Loops -> LoopState]
  /\ \A l \in Loops :
       /\ loop[l].pc = "pull" => loop[l].since <= Len(log)
       /\ loop[l].pc \in {"paging", "applying"} =>
            loop[l].at \in 1..loop[l].upto /\ loop[l].upto <= Len(log)
  /\ net \in SUBSET Seq(Wire)
  /\ faults \in 0..MaxFaults
  /\ seen \in [Machines -> SUBSET Texts]

Init ==
  /\ log = <<>>
  /\ files = [m \in Machines |-> [g \in Gids |-> NoText]]
  /\ outbox = [m \in Machines |-> <<>>]
  /\ known = [m \in Machines |-> [g \in Gids |-> 0]]
  /\ lost = [m \in Machines |-> {}]
  /\ fork = [m \in Machines |-> [g \in Gids |-> NoFork]]
  /\ copies = [m \in Machines |-> {}]
  /\ cursor = [m \in Machines |-> 0]
  /\ skipped = [m \in Machines |-> {}]
  /\ loop = [l \in Loops |-> Idle]
  /\ net = {}
  /\ faults = 0
  /\ seen = [m \in Machines |-> {}]

-----------------------------------------------------------------------------
(* The user: createFile, updateFile, deleteFile, resolveConflict.  Each     *)
(* writes the file and appends its op in one transaction; a mutation is     *)
(* based on the version the machine knows at that moment.                   *)

NewText(m) == <<m, Len(outbox[m]) + 1>>

Enqueue(m, g, kind, text) ==
  /\ Len(outbox[m]) < MaxRows[m]
  /\ outbox' = [outbox EXCEPT ![m] = Append(@,
       [gid |-> g, kind |-> kind, text |-> text, status |-> "pending",
        base |-> IF kind = "file.create" THEN NoBase ELSE known[m][g],
        saw |-> seen[m]])]
  /\ seen' = [seen EXCEPT ![m] = @ \cup ({text} \ {NoText})]

Create(m, g) ==
  /\ Creator[g] = m /\ g \notin Copies
  /\ \A i \in DOMAIN outbox[m] : outbox[m][i].gid # g   \* a gid is used once
  /\ files' = [files EXCEPT ![m][g] = NewText(m)]
  /\ Enqueue(m, g, "file.create", NewText(m))
  /\ UNCHANGED <<log, known, lost, fork, copies, cursor, skipped, loop, net, faults>>

Edit(m, g) ==
  /\ "edit" \in Users
  /\ files[m][g] # NoText
  /\ files' = [files EXCEPT ![m][g] = NewText(m)]
  /\ Enqueue(m, g, "file.update", NewText(m))
  /\ UNCHANGED <<log, known, lost, fork, copies, cursor, skipped, loop, net, faults>>

Delete(m, g) ==
  /\ "delete" \in Users
  /\ files[m][g] # NoText
  /\ files' = [files EXCEPT ![m][g] = NoText]
  /\ Enqueue(m, g, "file.delete", NoText)
  /\ UNCHANGED <<log, known, lost, fork, copies, cursor, skipped, loop, net, faults>>

\* Mutant: keep-server settles the conflict here and pushes nothing.
ResolvePushingMine(m, g, strategy, text) ==
  /\ strategy \in Users
  /\ files' = [files EXCEPT ![m][g] = IF @ = NoText THEN @ ELSE text]
  /\ fork' = [fork EXCEPT ![m][g] = NoFork]
  /\ lost' = [lost EXCEPT ![m] = @ \ {g}]
  /\ copies' = [copies EXCEPT ![m] = @ \ {fork[m][g].remote}]
  /\ IF strategy = "keep-server" THEN UNCHANGED <<outbox, seen>>
     ELSE Enqueue(m, g, "file.update", text)
  /\ UNCHANGED <<log, known, cursor, skipped, loop, net, faults>>

\* Resolving ends the conflict and forgets the lost push; all strategies but
\* keep-both push the text they settle on.  A file row that is gone stays gone.
Resolve(m, g, strategy, text) ==
  /\ strategy \in Users
  /\ files' = [files EXCEPT ![m][g] = IF @ = NoText THEN @ ELSE text]
  /\ fork' = [fork EXCEPT ![m][g] = NoFork]
  /\ lost' = [lost EXCEPT ![m] = @ \ {g}]
  /\ copies' = [copies EXCEPT ![m] = @ \ {fork[m][g].remote}]
  /\ Enqueue(m, g, "file.update", text)
  /\ UNCHANGED <<log, known, cursor, skipped, loop, net, faults>>

KeepServer(m, g) == Resolve(m, g, "keep-server", fork[m][g].remote)
Merge(m, g) == Resolve(m, g, "merged", NewText(m))

\* What the canonical file holds now, or held when the conflict was registered.
KeepMine(m, g) ==
  Resolve(m, g, "keep-mine",
          IF files[m][g] = NoText THEN fork[m][g].mine ELSE files[m][g])

\* keep-both: the remote text becomes a new file; the old gid pushes nothing.
KeepBoth(m, g, copy) ==
  /\ "keep-both" \in Users
  /\ Creator[copy] = m /\ copy \in Copies
  /\ \A i \in DOMAIN outbox[m] : outbox[m][i].gid # copy
  /\ files' = [files EXCEPT ![m][copy] = fork[m][g].remote]
  /\ fork' = [fork EXCEPT ![m][g] = NoFork]
  /\ lost' = [lost EXCEPT ![m] = @ \ {g}]
  /\ copies' = [copies EXCEPT ![m] = @ \ {fork[m][g].remote}]
  /\ Enqueue(m, copy, "file.create", fork[m][g].remote)
  /\ UNCHANGED <<log, known, cursor, skipped, loop, net, faults>>

Applying(m) == \E l \in Loops : Host[l] = m /\ loop[l].pc = "applying"

UserStep ==
  \E m \in Machines, g \in Gids :
    /\ ~(Serialized /\ Applying(m))
    /\ \/ Create(m, g)
       \/ Edit(m, g)
       \/ Delete(m, g)
       \/ /\ fork[m][g] # NoFork
          /\ \/ KeepServer(m, g)
             \/ KeepMine(m, g)
             \/ Merge(m, g)
             \/ \E copy \in Gids : KeepBoth(m, g, copy)

-----------------------------------------------------------------------------
(* The relay serves a push: POST /ops over the log.                         *)

\* Mutant: a loser is answered and not logged.
DropLoser(acc, op) == acc

LogLoser(acc, op) ==
  [acc EXCEPT !.log = Append(@, Entry(op, "conflict")),
              !.lost = @ \cup {<<op.gid, KindFamily(op.kind)>>}]

PostOne(acc, op) ==
  LET earlier == FindByClientSeq(acc.log, op.origin, op.cseq)
      version == VersionAt(acc.log, op.gid, KindFamily(op.kind), Len(acc.log))
      loses   == Stale(op, version) \/ <<op.gid, KindFamily(op.kind)>> \in acc.lost
      answer(status, v) == [cseq |-> op.cseq, status |-> status, version |-> v]
  IN  IF earlier # {}
      THEN LET i == CHOOSE j \in earlier : TRUE IN
             [acc EXCEPT !.answers = Append(@, answer(acc.log[i].status,
                VersionAt(acc.log, op.gid, KindFamily(op.kind), i)))]
      ELSE IF loses
      THEN [LogLoser(acc, op) EXCEPT !.answers = Append(@, answer("conflict", version))]
      ELSE [acc EXCEPT !.log = Append(@, Entry(op, "accepted")),
                       !.answers = Append(@, answer("accepted", version + 1))]

\* The batch, op by op: the log, what the batch lost, and the answers so far.
Posted(ops) ==
  LET acc[n \in 0..Len(ops)] ==
        IF n = 0 THEN [log |-> log, lost |-> {}, answers |-> <<>>]
        ELSE PostOne(acc[n - 1], ops[n])
  IN  acc

Post(ops) == Posted(ops)[Len(ops)]

-----------------------------------------------------------------------------
(* Push: pushOutbox.                                                        *)

SetStatus(rows, ids, status) ==
  [i \in DOMAIN rows |-> IF i \in ids THEN [rows[i] EXCEPT !.status = status] ELSE rows[i]]

IdsIn(m, statuses) == {i \in DOMAIN outbox[m] : outbox[m][i].status \in statuses}

\* Mutant: rows a dead process left in flight stay there.
LeftInFlight(m) == outbox[m]

\* Orphaned sent rows are queued again.
Requeued(m) == SetStatus(outbox[m], IdsIn(m, {"sent"}), "pending")

\* ORDER BY id: the member of a set of ids with n - 1 before it.
Nth(ids, n) == CHOOSE i \in ids : Cardinality({j \in ids : j < i}) = n - 1

\* Failed rows are due when their backoff elapsed: before that they are "waiting".
Ready(rows) == {i \in DOMAIN rows : rows[i].status \in {"pending", "failed"}}

\* The oldest of them, as many as a batch takes.
Due(rows) ==
  [n \in 1..Min({Cardinality(Ready(rows)), PushLimit}) |-> Nth(Ready(rows), n)]

SameRecord(rows, i, j) ==
  rows[i].gid = rows[j].gid /\ KindFamily(rows[i].kind) = KindFamily(rows[j].kind)

\* Each row is also based on the earlier rows of its record in the batch.
WireBase(rows, ids, n) ==
  LET before == Cardinality({k \in 1..(n - 1) : SameRecord(rows, ids[k], ids[n])})
      base == rows[ids[n]].base
  IN  IF base = NoBase /\ before = 0 THEN NoBase
      ELSE (IF base = NoBase THEN 0 ELSE base) + before

WireOps(m, ids) ==
  [n \in DOMAIN ids |->
     [gid |-> outbox[m][ids[n]].gid, kind |-> outbox[m][ids[n]].kind, origin |-> m,
      cseq |-> ids[n], base |-> WireBase(outbox[m], ids, n)]]

Push(l) ==
  LET m == Host[l]
      queued == Requeued(m)
      ids == Due(queued) IN
  /\ loop[l].pc = "idle"
  /\ outbox' = [outbox EXCEPT ![m] = SetStatus(queued, ToSet(ids), "sent")]
  /\ loop' = [loop EXCEPT ![l] = IF ids = <<>> THEN ToPull(cursor[m])
                                 ELSE Posting(WireOps(m, ids))]
  /\ UNCHANGED <<log, files, known, lost, fork, copies, cursor, skipped, net, faults, seen>>

Serve(l) ==
  /\ loop[l].pc = "posting"
  /\ LET served == Post(loop[l].ops) IN
       /\ log' = served.log
       /\ loop' = [loop EXCEPT ![l] = Answered(served.answers)]
  /\ UNCHANGED <<machineVars, net, faults>>

BumpPendingBases(rows, id) ==
  [i \in DOMAIN rows |->
     IF /\ i > id /\ SameRecord(rows, i, id)
        /\ rows[i].status \in {"pending", "failed", "waiting"}
        /\ rows[i].base # NoBase
     THEN [rows[i] EXCEPT !.base = @ + 1] ELSE rows[i]]

\* Mutant: a loser's successors are bumped too.
BumpedAlways(rows, a) == BumpPendingBases(rows, a.cseq)

Bumped(rows, a) ==
  IF a.status = "conflict" THEN rows ELSE BumpPendingBases(rows, a.cseq)

RecordVersion(m, g, version) ==
  known' = [known EXCEPT ![m][g] = Max({@, version})]

\* markLostPush and markAcked, then recordGidVersion and bumpPendingBases: four
\* statements and no transaction around them.
MarkAnswered(m, a) ==
  LET row == outbox[m][a.cseq] IN
    lost' = IF a.status = "conflict" /\ row.kind \in {"file.create", "file.update"}
            THEN [lost EXCEPT ![m] = @ \cup {row.gid}] ELSE lost

Acknowledge(l) ==
  LET m == Host[l]
      a == Head(loop[l].answers)
      rows == SetStatus(outbox[m], {a.cseq}, "acked")
      rest == Tail(loop[l].answers) IN
  /\ loop[l].pc = "answered"
  /\ MarkAnswered(m, a)
  /\ outbox' = [outbox EXCEPT ![m] = Bumped(rows, a)]
  /\ RecordVersion(m, rows[a.cseq].gid, a.version)
  /\ loop' = [loop EXCEPT ![l] = IF rest = <<>> THEN ToPull(cursor[m]) ELSE Answered(rest)]
  /\ UNCHANGED <<log, files, fork, copies, cursor, skipped, net, faults, seen>>

-----------------------------------------------------------------------------
(* Pull: pullRemoteOps.                                                     *)

RowOf(k) == outbox[log[k].origin][log[k].cseq]

PageEnd(since) == Min({Len(log), since + PageLimit})

Fetch(l) ==
  /\ loop[l].pc = "pull"
  /\ LET since == loop[l].since IN
       loop' = [loop EXCEPT ![l] =
         IF PageEnd(since) = since THEN Idle ELSE Paging(since, PageEnd(since))]
  /\ UNCHANGED <<log, machineVars, net, faults>>

AdvanceCursor(m, seq) == cursor' = [cursor EXCEPT ![m] = Max({@, seq})]

\* Mutant: the cursor stops one short of the page.
RowDoneShort(l) ==
  IF loop[l].at = loop[l].upto
  THEN /\ loop' = [loop EXCEPT ![l] = IF @.full THEN ToPull(@.upto) ELSE Idle]
       /\ AdvanceCursor(Host[l], loop[l].upto - 1)
  ELSE /\ loop' = [loop EXCEPT ![l].at = @ + 1, ![l].pc = "paging"]
       /\ UNCHANGED cursor

\* A row of the page is done; after the last one the cursor moves, and after a
\* full page there may be another.
RowDone(l) ==
  IF loop[l].at = loop[l].upto
  THEN /\ loop' = [loop EXCEPT ![l] = IF @.full THEN ToPull(@.upto) ELSE Idle]
       /\ AdvanceCursor(Host[l], loop[l].upto)
  ELSE /\ loop' = [loop EXCEPT ![l].at = @ + 1, ![l].pc = "paging"]
       /\ UNCHANGED cursor

Handling(l) == loop[l].pc = "paging"
At(l) == log[loop[l].at]

RecordPulled(l) ==
  RecordVersion(Host[l], At(l).gid,
    VersionAt(log, At(l).gid, KindFamily(At(l).kind), loop[l].at))

Own(l) == At(l).origin = Host[l]
LostDelete(l) == At(l).status = "conflict" /\ At(l).kind = "file.delete"

SkipOwn(l) ==
  /\ Handling(l)
  /\ Own(l) \/ LostDelete(l)
  /\ RecordPulled(l)
  /\ RowDone(l)
  /\ UNCHANGED <<log, files, outbox, lost, fork, copies, skipped, net, faults, seen>>

Unsent(m, g) ==
  \E i \in DOMAIN outbox[m] :
    /\ outbox[m][i].gid = g
    /\ outbox[m][i].kind \in {"file.create", "file.update"}
    /\ outbox[m][i].status # "acked"

\* Mutant: only flagged ops and lost pushes fork.
ShouldForkFlagged(m, k) ==
  LET g == log[k].gid IN
  /\ log[k].kind \in {"file.create", "file.update"}
  /\ files[m][g] # NoText
  /\ files[m][g] # RowOf(k).text
  /\ log[k].status = "conflict" \/ g \in lost[m]

ShouldFork(m, k) ==
  LET g == log[k].gid IN
  /\ log[k].kind \in {"file.create", "file.update"}
  /\ files[m][g] # NoText
  /\ files[m][g] # RowOf(k).text
  /\ \/ log[k].status = "conflict"
     \/ g \in lost[m]
     \/ Unsent(m, g)
     \/ fork[m][g] # NoFork

\* What a machine's user has had before them once text k is shown to them.
Shown(m, k) == seen[m] \cup RowOf(k).saw \cup ({RowOf(k).text} \ {NoText})

Fork(l) ==
  LET m == Host[l]
      k == loop[l].at IN
  /\ Handling(l)
  /\ ~Own(l)
  /\ ShouldFork(m, k)
  /\ fork' = [fork EXCEPT ![m][log[k].gid] =
                [remote |-> RowOf(k).text, mine |-> files[m][log[k].gid]]]
  /\ copies' = [copies EXCEPT ![m] = @ \cup {RowOf(k).text}]
  /\ lost' = [lost EXCEPT ![m] = @ \ {log[k].gid}]
  /\ seen' = [seen EXCEPT ![m] = Shown(m, k)]
  /\ RecordPulled(l)
  /\ RowDone(l)
  /\ UNCHANGED <<log, files, outbox, skipped, net, faults>>

\* Decided: applyRemoteOp is called, and awaits the sync lock and the file lock.
Decide(l) ==
  /\ Handling(l)
  /\ ~Own(l) /\ ~LostDelete(l)
  /\ ~ShouldFork(Host[l], loop[l].at)
  /\ loop' = [loop EXCEPT ![l].pc = "applying"]
  /\ UNCHANGED <<log, machineVars, net, faults>>

Apply(l) ==
  LET m == Host[l]
      k == loop[l].at
      g == log[k].gid IN
  /\ loop[l].pc = "applying"
  /\ files' = [files EXCEPT ![m][g] = RowOf(k).text]
  /\ lost' = IF log[k].kind = "file.delete" THEN lost
             ELSE [lost EXCEPT ![m] = @ \ {g}]
  /\ seen' = [seen EXCEPT ![m] = Shown(m, k)]
  /\ RecordPulled(l)
  /\ RowDone(l)
  /\ UNCHANGED <<log, outbox, fork, copies, skipped, net, faults>>

-----------------------------------------------------------------------------
(* Faults, and time.                                                        *)

Fault(kind) ==
  /\ kind \in Faults
  /\ faults < MaxFaults
  /\ faults' = faults + 1

\* Mutant: the batch is given up for good.
GiveUpForGood(l) ==
  LET m == Host[l]
      ids == {loop[l].ops[n].cseq : n \in DOMAIN loop[l].ops} IN
  /\ outbox' = [outbox EXCEPT ![m] = SetStatus(@, ids, "acked")]
  /\ loop' = [loop EXCEPT ![l] = Backoff]
  /\ UNCHANGED <<files, known, lost, fork, copies, cursor, skipped, seen>>

\* Mutant: the rows back off, the tick does not.
GiveUpAtOnce(l) ==
  LET m == Host[l]
      ids == {loop[l].ops[n].cseq : n \in DOMAIN loop[l].ops} IN
  /\ outbox' = [outbox EXCEPT ![m] =
       SetStatus(@, ids \ IdsIn(m, {"acked"}), "waiting")]
  /\ loop' = [loop EXCEPT ![l] = Idle]
  /\ UNCHANGED <<files, known, lost, fork, copies, cursor, skipped, seen>>

\* failBatch, then the tick's own backoff.
GiveUp(l) ==
  LET m == Host[l]
      ids == {loop[l].ops[n].cseq : n \in DOMAIN loop[l].ops} IN
  /\ outbox' = [outbox EXCEPT ![m] =
       SetStatus(@, ids \ IdsIn(m, {"acked"}), "waiting")]
  /\ loop' = [loop EXCEPT ![l] = Backoff]
  /\ UNCHANGED <<files, known, lost, fork, copies, cursor, skipped, seen>>

RequestLost(l) ==
  /\ loop[l].pc = "posting"
  /\ Fault("lost request")
  /\ GiveUp(l)
  /\ UNCHANGED <<log, net>>

AnswerLost(l) ==
  /\ loop[l].pc = "posting"
  /\ Fault("lost answer")
  /\ log' = Post(loop[l].ops).log
  /\ GiveUp(l)
  /\ UNCHANGED net

RequestLate(l) ==
  /\ loop[l].pc = "posting"
  /\ Fault("late request")
  /\ net' = net \cup {loop[l].ops}
  /\ GiveUp(l)
  /\ UNCHANGED log

ServeLate ==
  \E ops \in net :
    /\ log' = Post(ops).log
    /\ net' = net \ {ops}
    /\ UNCHANGED <<machineVars, loop, faults>>

\* GET /ops fails: nothing but the tick is given up.
PullLost(l) ==
  /\ loop[l].pc = "pull"
  /\ Fault("lost pull")
  /\ loop' = [loop EXCEPT ![l] = Idle]
  /\ UNCHANGED <<log, machineVars, net>>

\* Mutant: the failed op counts as handled.
KeepProgressPast(l) == AdvanceCursor(Host[l], loop[l].at)

KeepProgress(l) == AdvanceCursor(Host[l], loop[l].at - 1)

Foreign(l) ==
  /\ loop[l].pc \in {"paging", "applying"}
  /\ ~Own(l) /\ ~LostDelete(l)

\* Applying or forking throws: the page ends before the op, to be tried again...
FailedApply(l) ==
  /\ Foreign(l)
  /\ Fault("failed apply")
  /\ KeepProgress(l)
  /\ loop' = [loop EXCEPT ![l] = Idle]
  /\ UNCHANGED <<log, files, outbox, known, lost, fork, copies, skipped, net, seen>>

\* ... unless it can never apply, or failed MAX_APPLY_ATTEMPTS times: it is
\* skipped, and its version counts as known.
SkipOp(l) ==
  /\ Foreign(l)
  /\ Fault("unappliable")
  /\ skipped' = [skipped EXCEPT ![Host[l]] = @ \cup {loop[l].at}]
  /\ RecordPulled(l)
  /\ RowDone(l)
  /\ UNCHANGED <<log, files, outbox, lost, fork, copies, net, seen>>

\* The loop's process dies and is started again: SQLite keeps what it has.
Restart(l) ==
  /\ loop[l].pc # "idle"
  /\ Fault("restart")
  /\ loop' = [loop EXCEPT ![l] = Idle]
  /\ UNCHANGED <<log, machineVars, net>>

\* ... or dies right after markAcked.
TornAck(l) ==
  LET m == Host[l]
      a == Head(loop[l].answers) IN
  /\ loop[l].pc = "answered"
  /\ Fault("torn ack")
  /\ MarkAnswered(m, a)
  /\ outbox' = [outbox EXCEPT ![m] = SetStatus(@, {a.cseq}, "acked")]
  /\ loop' = [loop EXCEPT ![l] = Idle]
  /\ UNCHANGED <<log, files, known, fork, copies, cursor, skipped, net, seen>>

\* Backoffs end: the tick's no earlier than those of the rows it failed.
Elapse(m) ==
  /\ IdsIn(m, {"waiting"}) # {}
  /\ outbox' = [outbox EXCEPT ![m] = SetStatus(@, IdsIn(m, {"waiting"}), "failed")]
  /\ UNCHANGED <<log, files, known, lost, fork, copies, cursor, skipped, loop, net, faults, seen>>

Wake(l) ==
  /\ loop[l].pc = "backoff"
  /\ IdsIn(Host[l], {"waiting"}) = {}
  /\ loop' = [loop EXCEPT ![l] = Idle]
  /\ UNCHANGED <<log, machineVars, net, faults>>

LoopStep(l) ==
  \/ Push(l) \/ Serve(l) \/ Acknowledge(l)
  \/ Fetch(l) \/ SkipOwn(l) \/ Fork(l) \/ Decide(l) \/ Apply(l)
  \/ Wake(l)

FaultStep(l) ==
  \/ RequestLost(l) \/ AnswerLost(l) \/ RequestLate(l)
  \/ PullLost(l) \/ FailedApply(l) \/ SkipOp(l) \/ Restart(l) \/ TornAck(l)

Next ==
  \/ UserStep
  \/ \E l \in Loops : LoopStep(l) \/ FaultStep(l)
  \/ ServeLate
  \/ \E m \in Machines : Elapse(m)

Spec == Init /\ [][Next]_vars

\* A loop's timers and promises fire, backoffs elapse, a late request arrives:
\* users, faults and restarts are owed nothing.
FairSpec ==
  /\ Spec
  /\ \A l \in Loops : WF_vars(LoopStep(l))
  /\ \A m \in Machines : WF_vars(Elapse(m))
  /\ WF_vars(ServeLate)

-----------------------------------------------------------------------------
(* What must hold.                                                          *)

\* Whatever is lost, late, repeated or interrupted, a row is acked only once
\* the relay's log holds it: an edit never leaves the outbox undelivered.
AckedMeansLogged ==
  \A m \in Machines : \A i \in IdsIn(m, {"acked"}) :
    FindByClientSeq(log, m, i) # {}

\* Optimistic concurrency end to end: the author of an accepted op had before
\* them every text of the file accepted earlier - no edit is accepted over one
\* its author never saw.
NoBlindOverwrite ==
  \A i, j \in DOMAIN log :
    /\ i < j
    /\ log[i].gid = log[j].gid
    /\ log[i].status = "accepted" /\ log[j].status = "accepted"
    => RowOf(i).text \in RowOf(j).saw \cup {RowOf(j).text, NoText}

\* An accepted op was based on exactly the version it replaced.  The relay only
\* refuses bases that are too small: one counted too high lets an op past an
\* edit its author never saw.
BasesExact ==
  \A k \in DOMAIN log :
    log[k].status = "accepted" /\ log[k].base # NoBase =>
      log[k].base = VersionAt(log, log[k].gid, KindFamily(log[k].kind), k - 1)

\* The sync loop replaces a file's text only by what someone wrote, or deleted,
\* with that text before them: everything else becomes a conflict copy.
OverwritesOnlySeen ==
  [][\A m \in Machines, g \in Gids :
       /\ files'[m][g] # files[m][g]
       /\ files[m][g] # NoText
       /\ outbox'[m] = outbox[m]    \* no step of the user
       => \E l \in Loops : /\ Host[l] = m /\ loop[l].pc = "applying"
                            /\ files[m][g] \in RowOf(loop[l].at).saw]_vars

\* ... and no machine's own text is replaced by an op older than the sight of it.
OwnTextKept ==
  [][\A m \in Machines, g \in Gids :
       /\ files'[m][g] # files[m][g]
       /\ files[m][g] \in {m} \X Nat
       /\ outbox'[m] = outbox[m]
       => \E l \in Loops : /\ Host[l] = m /\ loop[l].pc = "applying"
                            /\ files[m][g] \in RowOf(loop[l].at).saw]_vars

\* A row still speaks for itself: on its way, or its text before some user.
Unread(k) == \E m \in Machines : cursor[m] < k /\ log[k].origin # m
Standing(m, i) ==
  LET row == outbox[m][i] IN
  \/ row.status # "acked"
  \/ \E k \in FindByClientSeq(log, m, i) :
       \/ Unread(k)
       \/ row.kind = "file.delete" /\ log[k].status = "accepted"
  \/ /\ row.text # NoText
     /\ \E x \in Machines :
          row.text \in copies[x] \/ \E g \in Gids : files[x][g] = row.text

\* No text is lost behind its users' backs: each is still standing, or the
\* author of a standing row had it before them.
TextsSurvive ==
  \A m \in Machines : \A i \in DOMAIN outbox[m] :
    outbox[m][i].text # NoText =>
      \E x \in Machines : \E j \in DOMAIN outbox[x] :
        /\ Standing(x, j)
        /\ outbox[m][i].text \in outbox[x][j].saw \cup {outbox[x][j].text}

Settled ==
  /\ \A l \in Loops : loop[l] = Idle
  /\ net = {}
  /\ \A m \in Machines :
       /\ IdsIn(m, Statuses \ {"acked"}) = {}
       /\ cursor[m] = Len(log)
       /\ \A g \in Gids : fork[m][g] = NoFork

\* Once everything is delivered and every conflict resolved, the machines agree.
Converged ==
  Settled => \A m, x \in Machines : files[m] = files[x]

\* A machine's ops of one file enter the log in the order its user made them.
OwnOrder ==
  \A i, j \in DOMAIN log :
    i < j /\ log[i].origin = log[j].origin /\ log[i].gid = log[j].gid
      => log[i].cseq < log[j].cseq

\* The cursor passes no op of another machine whose text its user was not given,
\* applied or as a conflict copy, but those written down as skipped - however
\* pages end, fail, or are read again.
NothingPassedOver ==
  \A m \in Machines : \A k \in 1..cursor[m] :
    \/ log[k].origin = m
    \/ k \in skipped[m]
    \/ RowOf(k).text \in seen[m] \cup {NoText}

\* A machine's conflicts, cursor and known versions never run ahead of the log.
NeverAhead ==
  \A m \in Machines :
    /\ cursor[m] <= Len(log)
    /\ \A g \in Gids : known[m][g] <= VersionAt(log, g, "content", Len(log))

\* What a machine has written down about the relay - acked rows, versions, the
\* cursor - the relay's log bears out, in every state and whatever went wrong.
LocalFollowsLog == TypeOK /\ AckedMeansLogged /\ NeverAhead

\* With a bounded number of faults every row is acked in the end...
Delivered == <>[](\A m \in Machines : IdsIn(m, Statuses \ {"acked"}) = {})

\* ... and every machine gets past every op of the log.
Heard == <>[](\A m \in Machines : cursor[m] = Len(log))
=============================================================================
