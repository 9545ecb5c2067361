------------------------------ MODULE Journals ------------------------------
(***************************************************************************)
(* One day's journal on the machines of a brain: journal_write appends a   *)
(* block to knowledge/journal/journal-DATE.md, creating it when missing    *)
(* (apps/mcp/src/index.ts); versions that cannot simply be applied are     *)
(* merged instead of forked (packages/core/src/storage/journal-merge.ts).  *)
(* Each machine may have opened the day under a gid of its own: the file   *)
(* is found by its path, and what arrives for another gid is merged into   *)
(* the row that owns the path, and pushed on under that row's gid.         *)
(*                                                                         *)
(* A text is the sequence of its blocks, and a block the number that sorts *)
(* it among the day's blocks; the header is the same everywhere.  Pushes   *)
(* and pulls are single steps, nothing is lost on the way, and no user     *)
(* edits or deletes the file: Sync has those.                              *)
(***************************************************************************)
EXTENDS RelayStore, SequencesExt

CONSTANTS
  Machines,   \* a machine is also the gid it opens the day under
  Writers,    \* bound of the model: the machines where journal_write is called
  Blocks,     \* what may be appended, in the order of the stamps: naturals
  MaxRows,    \* bound of the model: outbox rows of a machine
  NoGid

ASSUME BlocksAssumption == Blocks \subseteq Nat /\ MaxRows \in Nat
ASSUME WritersAssumption == Writers \subseteq Machines
ASSUME NoGidAssumption == NoGid \notin Machines

VARIABLES
  log,     \* the relay's ops table
  gid,     \* [machine -> the gid of the row at the day's path]
  text,    \* [machine -> its blocks, in the file's order]
  outbox,  \* [machine -> rows]; the index is the client_seq
  known,   \* [machine -> [gid -> version]]: gid_versions, content
  lost,    \* [machine -> gids]: gid_versions.lost_push
  cursor,  \* [machine -> seq]: sync_cursor
  written  \* history: the blocks appended so far

vars == <<log, gid, text, outbox, known, lost, cursor, written>>

Gids == Machines
Row == [gid : Gids, kind : {"file.create", "file.update"}, base : Bases,
        text : Seq(Blocks), acked : BOOLEAN]
Entries == LogEntry(Gids, Machines)

TypeOK ==
  /\ log \in Seq(Entries)
  /\ gid \in [Machines -> Gids \cup {NoGid}]
  /\ text \in [Machines -> Seq(Blocks)]
  /\ \A m \in Machines : IsInjective(text[m]) /\ (text[m] = <<>> <=> gid[m] = NoGid)
  /\ outbox \in [Machines -> Seq(Row)]
  /\ known \in [Machines -> [Gids -> Nat]]
  /\ lost \in [Machines -> SUBSET Gids]
  /\ cursor \in [Machines -> 0..Len(log)]
  /\ written \in SUBSET Blocks

Init ==
  /\ log = <<>>
  /\ gid = [m \in Machines |-> NoGid]
  /\ text = [m \in Machines |-> <<>>]
  /\ outbox = [m \in Machines |-> <<>>]
  /\ known = [m \in Machines |-> [g \in Gids |-> 0]]
  /\ lost = [m \in Machines |-> {}]
  /\ cursor = [m \in Machines |-> 0]
  /\ written = {}

-----------------------------------------------------------------------------
(* journal_write, kind "append".  It reads the file before updateFile waits *)
(* for its lock; here nothing happens in between.                           *)

NormalForm(blocks) == SetToSortSeq(blocks, <)

\* Mutant: the other version is put behind one's own.
Concatenated(mine, remote) == mine \o remote

MergeTexts(mine, remote) == NormalForm(ToSet(mine) \cup ToSet(remote))

\* enqueueOp: an update is based on the version known at that moment.
Enqueued(m, g, kind, blocks) ==
  [outbox EXCEPT ![m] = Append(@,
     [gid |-> g, kind |-> kind, text |-> blocks, acked |-> FALSE,
      base |-> IF kind = "file.create" THEN NoBase ELSE known[m][g]])]

Room(m) == Len(outbox[m]) < MaxRows

\* The first block of the day on this machine opens the file.
Open(m, b) ==
  /\ gid[m] = NoGid /\ Room(m)
  /\ gid' = [gid EXCEPT ![m] = m]
  /\ text' = [text EXCEPT ![m] = <<b>>]
  /\ outbox' = Enqueued(m, m, "file.create", <<b>>)
  /\ written' = written \cup {b}
  /\ UNCHANGED <<log, known, lost, cursor>>

Save(m, blocks) ==
  /\ Room(m)
  /\ text' = [text EXCEPT ![m] = blocks]
  /\ outbox' = Enqueued(m, gid[m], "file.update", blocks)

AppendBlock(m, b) ==
  /\ gid[m] # NoGid
  /\ Save(m, Append(text[m], b))
  /\ written' = written \cup {b}
  /\ UNCHANGED <<log, gid, known, lost, cursor>>

JournalWrite ==
  \E m \in Writers, b \in Blocks \ written : Open(m, b) \/ AppendBlock(m, b)

-----------------------------------------------------------------------------
(* pushOutbox: all that is pending, in order, and the answers.              *)

Pending(m) == {i \in DOMAIN outbox[m] : ~outbox[m][i].acked}

\* Each row is also based on the earlier rows of its gid in the batch.
WireBase(m, i, before) ==
  LET base == outbox[m][i].base IN
  IF base = NoBase /\ before = 0 THEN NoBase
  ELSE (IF base = NoBase THEN 0 ELSE base) + before

\* The ops of a batch, of ids in order.
Batch(m, ids) ==
  [n \in DOMAIN ids |->
     [gid |-> outbox[m][ids[n]].gid, kind |-> outbox[m][ids[n]].kind, origin |-> m,
      cseq |-> ids[n],
      base |-> WireBase(m, ids[n], Cardinality({k \in 1..(n - 1) :
                 outbox[m][ids[k]].gid = outbox[m][ids[n]].gid}))]]

Version(g, upto) == VersionAt(log, g, "content", upto)

\* POST /ops: an op is stale against what the ops before it in the batch made of
\* the record, and what follows a loser in a batch loses with it.
Loses(ops, n) ==
  \E k \in 1..n :
    /\ ops[k].gid = ops[n].gid
    /\ Stale(ops[k], Version(ops[k].gid, Len(log))
                       + Cardinality({j \in 1..(k - 1) : ops[j].gid = ops[k].gid}))

Push(m) ==
  /\ Pending(m) # {}
  /\ \E ops \in {Batch(m, SetToSortSeq(Pending(m), <))} :
       /\ log' = log \o [n \in DOMAIN ops |->
                   Entry(ops[n], IF Loses(ops, n) THEN "conflict" ELSE "accepted")]
       /\ lost' = [lost EXCEPT ![m] =
                     @ \cup {ops[n].gid : n \in {i \in DOMAIN ops : Loses(ops, i)}}]
       /\ known' = [known EXCEPT ![m] = [g \in Gids |->
                      IF \E n \in DOMAIN ops : ops[n].gid = g
                      THEN Max({@[g], VersionAt(log', g, "content", Len(log'))})
                      ELSE @[g]]]
  /\ outbox' = [outbox EXCEPT ![m] = [i \in DOMAIN @ |-> [@[i] EXCEPT !.acked = TRUE]]]
  /\ UNCHANGED <<gid, text, cursor, written>>

-----------------------------------------------------------------------------
(* pullRemoteOps: the next op of the log.                                   *)

RemoteText(k) == outbox[log[k].origin][log[k].cseq].text

\* Mutant: the merge stays on this machine.
MergedUnpushed(m, remote) ==
  /\ text' = [text EXCEPT ![m] = MergeTexts(text[m], remote)]
  /\ UNCHANGED <<gid, outbox>>

\* mergeJournalInto: the row at the path takes the union, and pushes it under its
\* gid unless the remote holds exactly that.
MergeInto(m, remote) ==
  LET merged == MergeTexts(text[m], remote) IN
  /\ text' = [text EXCEPT ![m] = merged]
  /\ IF merged = remote THEN UNCHANGED outbox
     ELSE Room(m) /\ outbox' = Enqueued(m, gid[m], "file.update", merged)
  /\ UNCHANGED gid

\* Mutant: an unsent edit of one's own is overwritten.
ForksIfFlagged(m, k) ==
  /\ gid[m] = log[k].gid /\ text[m] # RemoteText(k)
  /\ log[k].status = "conflict" \/ log[k].gid \in lost[m]

\* shouldForkInsteadOfApply: the same gid, another text, and not simply newer.
ShouldFork(m, k) ==
  /\ gid[m] = log[k].gid /\ text[m] # RemoteText(k)
  /\ \/ log[k].status = "conflict"
     \/ log[k].gid \in lost[m]
     \/ \E i \in Pending(m) : outbox[m][i].gid = log[k].gid

\* parkIfPathTaken: another gid's row owns the path.
PathTaken(m, k) == gid[m] \notin {NoGid, log[k].gid}

Apply(m, k) ==
  /\ gid' = [gid EXCEPT ![m] = log[k].gid]
  /\ text' = [text EXCEPT ![m] = RemoteText(k)]
  /\ UNCHANGED outbox

Pull(m) ==
  LET k == cursor[m] + 1 IN
  /\ k \in DOMAIN log
  /\ IF log[k].origin = m THEN UNCHANGED <<gid, text, outbox, lost>>
     ELSE /\ IF ShouldFork(m, k) \/ PathTaken(m, k) THEN MergeInto(m, RemoteText(k))
             ELSE Apply(m, k)
          /\ lost' = [lost EXCEPT ![m] = @ \ {log[k].gid}]
  /\ known' = [known EXCEPT ![m][log[k].gid] =
                 Max({@, Version(log[k].gid, k)})]
  /\ cursor' = [cursor EXCEPT ![m] = k]
  /\ UNCHANGED <<log, written>>

SyncStep(m) == Push(m) \/ Pull(m)

Next == JournalWrite \/ \E m \in Machines : SyncStep(m)

Spec == Init /\ [][Next]_vars

\* Every machine's loop keeps ticking.
FairSpec == Spec /\ \A m \in Machines : WF_vars(SyncStep(m))

-----------------------------------------------------------------------------
(* Properties.                                                              *)

\* The journal is append-only: a block that was in a machine's file stays there,
\* whatever it pulls, merges or is told it lost.
AppendOnly == [][\A m \in Machines : ToSet(text[m]) \subseteq ToSet(text'[m])]_vars

\* However the machines' versions met, they end with one text, which holds every
\* block any of them wrote; and the pushing of merges dies down.
OneJournal ==
  <>[](/\ \A m \in Machines : Pending(m) = {} /\ cursor[m] = Len(log)
       /\ log # <<>> => \A m \in Machines : text[m] = text[CHOOSE q \in Machines : TRUE]
                                            /\ ToSet(text[m]) = written)
=============================================================================
