------------------------------ MODULE Bootstrap ------------------------------
(***************************************************************************)
(* Joining a brain (packages/core/src/storage/bootstrap.ts): the machine   *)
(* pages through the relay's snapshot - its records and parked conflicts,  *)
(* gid by gid - instead of replaying the log, and then pulls from the seq  *)
(* the first page reported.  Meanwhile the other machines go on writing,   *)
(* and the process may die between any two writes and start over from the  *)
(* progress it saved in settings.                                          *)
(*                                                                         *)
(* A text is named by the seq of the op that carried it.  The joining      *)
(* machine's user waits, so it pushes nothing; files have their own paths  *)
(* and none is a daily journal (Journals).  What runs inside applyRemoteOp *)
(* is one step here; FileStore and Sync open it up.                        *)
(***************************************************************************)
EXTENDS RelayStore

CONSTANTS
  Files, Projects, \* gids of each kind, numbered in the order of the snapshot
  Home,            \* [Files -> Projects or NoProject]: project_gid of a create
  Edited,          \* bound of the model: the files changed after their creation
  Runners,         \* the loops that may run bootstrapIfNeeded
  PageLimit,       \* gids on a page
  Others,          \* the origin of every op: the machines that joined before
  MaxOps,          \* bound of the model: ops in the log
  MaxCrashes,      \* bound of the model: crashes of a runner
  NoText, Own,     \* no files row; a text only the joining machine has
  NoProject, NoFork, NoLatest

ASSUME GidsAssumption ==
  /\ Files \subseteq Nat \ {0} /\ Projects \subseteq Nat \ {0}
  /\ Files \cap Projects = {}
  /\ Home \in [Files -> Projects \cup {NoProject}] /\ Edited \subseteq Files
ASSUME LimitsAssumption == PageLimit \in Nat \ {0} /\ MaxOps \in Nat /\ MaxCrashes \in Nat
ASSUME ValuesAssumption ==
  /\ NoText \notin Nat /\ Own \notin Nat /\ Own # NoText
  /\ NoFork \notin Nat /\ NoLatest \notin Nat

VARIABLES
  log, records, parked,  \* the relay
  phase,    \* connected to no brain, brain_bootstrap_pending, or past it
  saved,    \* brain_bootstrap_after, _latest and _deferred
  files,    \* [gid -> text]: the files row with its bytes
  projects, \* the projects rows
  known,    \* gid_versions: of the one family each gid has here
  fork,     \* [gid -> text]: the remote text of the unresolved conflict
  cursor,   \* sync_cursor
  run,      \* [runner -> where it is in bootstrapIfNeeded]: memory
  crashes

relayVars == <<log, records, parked>>
localVars == <<files, projects, known, fork>>
vars == <<relayVars, phase, saved, localVars, cursor, run, crashes>>

Gids == Files \cup Projects
Texts == 1..MaxOps
Waiting == [seq : Texts, version : Nat]
Entries == LogEntry(Gids, {Others})
Records == Record(Gids)
ParkedOps == Parked(Gids)

Progress == [after : Gids \cup {0}, latest : Nat \cup {NoLatest}, deferred : Seq(Waiting)]
NothingSaved == [after |-> 0, latest |-> NoLatest, deferred |-> <<>>]

\* A runner: its variables, and what is left of the page at work - gids, and
\* their records and conflicts.
Idle == [pc |-> "idle"]
Pass == [pc : {"fetch", "page", "final"}, mode : {"empty", "merge"},
         after : Gids \cup {0}, latest : Nat, deferred : Seq(Waiting),
         gids : SUBSET Gids, recs : SUBSET Records, confs : SUBSET ParkedOps,
         more : BOOLEAN]

TypeOK ==
  /\ log \in Seq(Entries)
  /\ records \subseteq Records /\ parked \subseteq ParkedOps
  /\ phase \in {"out", "joining", "joined"}
  /\ saved \in Progress
  /\ files \in [Files -> Texts \cup {NoText, Own}]
  /\ projects \subseteq Projects
  /\ known \in [Gids -> Nat]
  /\ fork \in [Files -> Texts \cup {NoFork}]
  /\ cursor \in 0..Len(log)
  /\ crashes \in 0..MaxCrashes
  /\ run \in [Runners -> Pass \cup {Idle}]

Init ==
  /\ log = <<>> /\ records = {} /\ parked = {}
  /\ phase = "out" /\ saved = NothingSaved
  /\ files = [g \in Files |-> NoText]
  /\ projects = {}
  /\ known = [g \in Gids |-> 0]
  /\ fork = [g \in Files |-> NoFork]
  /\ cursor = 0
  /\ run = [r \in Runners |-> Idle]
  /\ crashes = 0

-----------------------------------------------------------------------------
(* The other machines: POST /ops of a current op, or of one that lost.      *)

Family(g) == IF g \in Files THEN "content" ELSE "project"
Version(g) == CurrentVersion(records, g, Family(g))
KindsOf(g) == {log[i].kind : i \in {j \in DOMAIN log : log[j].gid = g}}
Live(g) == "file.create" \in KindsOf(g) /\ "file.delete" \notin KindsOf(g)

PostOp(g, kind, base, status) ==
  LET op == [gid |-> g, kind |-> kind, origin |-> Others, cseq |-> Len(log) + 1,
             base |-> base]
      seq == Len(log) + 1 IN
  /\ Len(log) < MaxOps
  /\ log' = Append(log, Entry(op, status))
  /\ IF status = "accepted"
     THEN /\ records' = RecordsAfterAccept(records, op, seq)
          /\ parked' = ParkedAfterAccept(parked, op)
     ELSE /\ parked' = ParkedAfterConflict(parked, op, seq)
          /\ UNCHANGED records
  /\ UNCHANGED <<phase, saved, localVars, cursor, run, crashes>>

OthersWrite ==
  \/ \E g \in Files :
       /\ KindsOf(g) = {}
       /\ PostOp(g, "file.create", NoBase, "accepted")
  \/ \E p \in Projects :
       /\ KindsOf(p) = {}
       /\ PostOp(p, "project.register", NoBase, "accepted")
  \/ \E g \in Edited :
       /\ Live(g)
       /\ \/ PostOp(g, "file.update", Version(g), "accepted")
          \/ PostOp(g, "file.update", Version(g) - 1, "conflict")
          \/ PostOp(g, "file.delete", Version(g), "accepted")

-----------------------------------------------------------------------------
(* joinBrain, to a brain it was not in: what it holds already, it keeps.    *)

IsContent(seq) == log[seq].kind \in {"file.create", "file.update"}
TextsOf(g) == {k \in DOMAIN log : log[k].gid = g /\ IsContent(k)}

Join ==
  /\ phase = "out" /\ log # <<>>
  /\ files' \in {f \in [Files -> Texts \cup {NoText, Own}] :
                   \A g \in Files : f[g] \in TextsOf(g) \cup {NoText, Own}}
  /\ phase' = "joining"
  /\ UNCHANGED <<relayVars, saved, projects, known, fork, cursor, run, crashes>>

-----------------------------------------------------------------------------
(* bootstrapIfNeeded, from one await to the next.                           *)

Mode == IF \A g \in Files : files[g] = NoText THEN "empty" ELSE "merge"

Start(r) ==
  /\ phase = "joining" /\ run[r] = Idle
  /\ run' = [run EXCEPT ![r] =
       [pc |-> "fetch", mode |-> Mode, after |-> saved.after, deferred |-> saved.deferred,
        latest |-> IF saved.latest = NoLatest THEN 0 ELSE saved.latest,
        gids |-> {}, recs |-> {}, confs |-> {}, more |-> TRUE]]
  /\ UNCHANGED <<relayVars, phase, saved, localVars, cursor, crashes>>

\* snapshotPage: the next gids that have records or parked conflicts.
Remaining(after) ==
  {g \in Gids : g > after /\ (\/ \E q \in records : q.gid = g
                             \/ \E p \in parked : p.gid = g)}
PageAfter(after) ==
  {g \in Remaining(after) :
     Cardinality({h \in Remaining(after) : h <= g}) <= PageLimit}

\* Mutant: every page moves the cursor the bootstrap will end with.
LatestOfThisPage(r) == Len(log)

\* latest_seq of the first page of the whole bootstrap, kept in settings.
Latest(r) == IF saved.latest = NoLatest THEN Len(log) ELSE run[r].latest

Fetch(r) ==
  /\ run[r].pc = "fetch"
  /\ LET page == PageAfter(run[r].after) IN
       run' = [run EXCEPT ![r] =
         [pc |-> "page", mode |-> @.mode, after |-> @.after, deferred |-> @.deferred,
          latest |-> Latest(r), gids |-> page,
          recs |-> {q \in records : q.gid \in page /\ ~q.deleted},
          confs |-> {p \in parked : p.gid \in page},
          more |-> Cardinality(page) = PageLimit]]
  /\ saved' = [saved EXCEPT !.latest = IF @ = NoLatest THEN Latest(r) ELSE @]
  /\ UNCHANGED <<relayVars, phase, localVars, cursor, crashes>>

DependsOnMissing(seq) ==
  /\ log[seq].kind = "file.create"
  /\ Home[log[seq].gid] \in Projects \ projects

\* Mutant: a file that is there already is overwritten.
OverLocal(mode, seq) == FALSE

\* A machine with content keeps its row of the file, and forks what differs.
KeepsLocal(mode, seq) ==
  mode = "merge" /\ IsContent(seq) /\ files[log[seq].gid] # NoText

ForkUnlessEqual(seq) ==
  /\ fork' = IF files[log[seq].gid] = seq THEN fork
             ELSE [fork EXCEPT ![log[seq].gid] = seq]
  /\ UNCHANGED <<files, projects>>

\* applyRemoteOp of a record.
ApplyRecord(seq) ==
  /\ files' = IF IsContent(seq) THEN [files EXCEPT ![log[seq].gid] = seq] ELSE files
  /\ projects' = projects \cup ({log[seq].gid} \cap Projects)
  /\ UNCHANGED fork

RecordVersion(g, version) == known' = [known EXCEPT ![g] = Max({@, version})]

Process(mode, seq, version) ==
  /\ IF KeepsLocal(mode, seq) THEN ForkUnlessEqual(seq) ELSE ApplyRecord(seq)
  /\ RecordVersion(log[seq].gid, version)

\* Gid by gid, its records that are no tombstones, its conflicts, `after`.
Current(r) == Min(run[r].gids)
First(rows, g) == {q \in rows : q.gid = g /\ \A p \in rows : p.gid = g => q.seq <= p.seq}
NextRecord(r) == First(run[r].recs, Current(r))
NextConflict(r) == First(run[r].confs, Current(r))

OnPage(r) == run[r].pc = "page" /\ run[r].gids # {}

Defer(r) ==
  /\ OnPage(r)
  /\ \E q \in NextRecord(r) :
       LET deferred == Append(run[r].deferred, [seq |-> q.seq, version |-> q.version]) IN
       /\ DependsOnMissing(q.seq)
       /\ run' = [run EXCEPT ![r] = [run[r] EXCEPT !.recs = @ \ {q}, !.deferred = deferred]]
       /\ saved' = [saved EXCEPT !.deferred = deferred]
  /\ UNCHANGED <<relayVars, phase, localVars, cursor, crashes>>

TakeRecord(r) ==
  /\ OnPage(r)
  /\ \E q \in NextRecord(r) :
       /\ ~DependsOnMissing(q.seq)
       /\ Process(run[r].mode, q.seq, q.version)
       /\ run' = [run EXCEPT ![r] = [run[r] EXCEPT !.recs = @ \ {q}]]
  /\ UNCHANGED <<relayVars, phase, saved, cursor, crashes>>

\* A parked op forks unless the file is missing or holds its text.
TakeConflict(r) ==
  /\ OnPage(r) /\ NextRecord(r) = {}
  /\ \E p \in NextConflict(r) :
       /\ IF files[log[p.seq].gid] = NoText THEN UNCHANGED <<fork, files, projects>>
          ELSE ForkUnlessEqual(p.seq)
       /\ run' = [run EXCEPT ![r] = [run[r] EXCEPT !.confs = @ \ {p}]]
  /\ UNCHANGED <<relayVars, phase, saved, known, cursor, crashes>>

\* Mutant: a gid's progress is not saved.
Forgotten(g) == 0

AfterGid(g) == g

FinishGid(r) ==
  /\ OnPage(r) /\ NextRecord(r) = {} /\ NextConflict(r) = {}
  /\ run' = [run EXCEPT ![r] = [run[r] EXCEPT !.gids = @ \ {Current(r)},
                                             !.after = AfterGid(Current(r))]]
  /\ saved' = [saved EXCEPT !.after = AfterGid(Current(r))]
  /\ UNCHANGED <<relayVars, phase, localVars, cursor, crashes>>

PageDone(r) ==
  /\ run[r].pc = "page" /\ run[r].gids = {}
  /\ run' = [run EXCEPT ![r] = [run[r] EXCEPT !.pc = IF run[r].more THEN "fetch" ELSE "final"]]
  /\ UNCHANGED <<relayVars, phase, saved, localVars, cursor, crashes>>

\* The final pass: what was deferred, in order.
TakeDeferred(r) ==
  /\ run[r].pc = "final" /\ run[r].deferred # <<>>
  /\ Process(run[r].mode, Head(run[r].deferred).seq, Head(run[r].deferred).version)
  /\ run' = [run EXCEPT ![r] = [run[r] EXCEPT !.deferred = Tail(@)]]
  /\ UNCHANGED <<relayVars, phase, saved, cursor, crashes>>

Finish(r) ==
  /\ run[r].pc = "final" /\ run[r].deferred = <<>>
  /\ cursor' = Max({cursor, run[r].latest})
  /\ phase' = "joined" /\ saved' = NothingSaved
  /\ run' = [run EXCEPT ![r] = Idle]
  /\ UNCHANGED <<relayVars, localVars, crashes>>

\* The process dies, or a request fails: the next tick starts over.
Crash(r) ==
  /\ run[r] # Idle /\ crashes < MaxCrashes
  /\ run' = [run EXCEPT ![r] = Idle]
  /\ crashes' = crashes + 1
  /\ UNCHANGED <<relayVars, phase, saved, localVars, cursor>>

-----------------------------------------------------------------------------
(* pullRemoteOps once the bootstrap is over: one op of the log.  Sync has   *)
(* the loop; a text of this machine's own is one it still has to push, or   *)
(* has pushed and lost.                                                     *)

ShouldFork(seq) ==
  LET g == log[seq].gid IN
  /\ IsContent(seq) /\ files[g] \notin {NoText, seq}
  /\ log[seq].status = "conflict" \/ files[g] = Own \/ fork[g] # NoFork

PullApply(seq) ==
  /\ files' = IF log[seq].kind = "file.delete"
              THEN [files EXCEPT ![log[seq].gid] = NoText]
              ELSE IF IsContent(seq) THEN [files EXCEPT ![log[seq].gid] = seq] ELSE files
  /\ projects' = projects \cup ({log[seq].gid} \cap Projects)
  /\ UNCHANGED fork

Pull ==
  /\ phase = "joined"
  /\ \E seq \in DOMAIN log \cap Texts :
       /\ seq = cursor + 1
       /\ IF ShouldFork(seq) THEN ForkUnlessEqual(seq) ELSE PullApply(seq)
       /\ RecordVersion(log[seq].gid,
                        VersionAt(log, log[seq].gid, KindFamily(log[seq].kind), seq))
       /\ cursor' = seq
  /\ UNCHANGED <<relayVars, phase, saved, run, crashes>>

RunnerStep ==
  \E r \in Runners :
    \/ Start(r)
    \/ run[r] # Idle /\ (\/ Fetch(r) \/ Defer(r) \/ TakeRecord(r) \/ TakeConflict(r)
                         \/ FinishGid(r) \/ PageDone(r) \/ TakeDeferred(r) \/ Finish(r))

Next == OthersWrite \/ Join \/ RunnerStep \/ Pull \/ (\E r \in Runners : Crash(r))

Spec == Init /\ [][Next]_vars

\* A tick ends in another tick: the loop starts over, and pulls.
FairSpec == Spec /\ WF_vars(RunnerStep) /\ WF_vars(Pull)

-----------------------------------------------------------------------------
(* Properties.                                                              *)

Canonical(g) ==
  LET accepted == {k \in DOMAIN log : log[k].gid = g /\ log[k].status = "accepted"} IN
  IF accepted = {} \/ log[Max(accepted)].kind = "file.delete" THEN NoText ELSE Max(accepted)

CaughtUp == phase = "joined" /\ cursor = Len(log)

\* Once a machine has joined and caught up, a file that does not hold the brain's
\* text is one whose difference its user is shown as a conflict, or one the brain
\* does not have: crashes, pages and what others wrote meanwhile lose nothing.
DiffersOnlyInConflict ==
  CaughtUp =>
    \A g \in Files : \/ files[g] = Canonical(g)
                     \/ fork[g] # NoFork
                     \/ Canonical(g) = NoText

\* The cursor a bootstrap ends with, and every pull after it, covers only ops
\* whose effect the machine has: its version of each gid is at least the one
\* after the last op the cursor skips, unless the gid is gone.
CursorCovered ==
  /\ TypeOK
  /\ phase = "joined" =>
       \A g \in Gids :
         \/ known[g] >= VersionAt(log, g, Family(g), cursor)
         \/ "file.delete" \in KindsOf(g)

\* Joining never overwrites a text only this machine has: it stays in its file,
\* until the brain's delete of that file is pulled.
OwnTextKept ==
  [][\A g \in Files : files[g] = Own => files'[g] \in {Own, NoText}]_vars

\* A join comes to an end, however often it dies and whatever lands meanwhile:
\* in the end the machine has caught up.
Joins == phase = "joining" ~> CaughtUp
=============================================================================
