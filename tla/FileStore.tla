----------------------------- MODULE FileStore -----------------------------
(***************************************************************************)
(* The files of one machine: bytes on disk, rows in the database, and who  *)
(* writes them - users through createFile, updateFile, deleteFile,         *)
(* moveFile, restoreVersion and refreshIndex (core/src/files, git,         *)
(* metadata), the sync loop through applyRemoteOp (core/src/storage/       *)
(* apply.ts), editors that know nothing of Kontexta, and the watcher       *)
(* (core/src/watcher) that brings the rows in line.                        *)
(*                                                                         *)
(* Disk and database are two writes.  Within a process nothing comes       *)
(* between them: no await does.  Another process, or a crash, may.         *)
(* withLock is per process; LockQueue and FileLock say how it queues.      *)
(***************************************************************************)
EXTENDS Naturals, Sequences, FiniteSets

CONSTANTS
  Paths,
  Users,        \* the callers of the file operations
  Loop,         \* the sync loop that applies remote ops
  Host,         \* [user or loop -> its process]
  Watching,     \* the process with the watcher
  Strangers,    \* gids of files created on other machines
  Does,         \* what may happen: user operations, remote ops, faults
  Apart,        \* nobody moves, removes or edits a file another is at
  MaxTexts,     \* bounds: texts ever written,
  MaxRows,      \*         rows ever inserted,
  MaxEvents,    \*         events waiting on a path
  None

ASSUME FilesAssumption ==
  /\ {MaxTexts, MaxRows, MaxEvents} \subseteq Nat
  /\ IsFiniteSet(Paths)
  /\ None \notin Nat \cup Strangers
  /\ Strangers \cap Nat = {}
  /\ Loop \notin Users
  /\ DOMAIN Host = Users \cup {Loop}

VARIABLES
  disk,      \* [path -> the text there, or None]
  rows,      \* [path -> its row of files, or None]
  ids,       \* the AUTOINCREMENT of files: ids are not reused
  events,    \* [path -> the watcher's events, oldest first]
  act,       \* [user or loop -> where its operation is]
  texts,     \* texts ever written
  shared,    \* [gid -> what its last op, ours or a remote one, says, or None]
  remote,    \* history: the texts that came from other machines
  torn,      \* history: paths left apart on disk and in the database, by a crash, a
             \* handler that failed, or a delete or pull that left the bytes
  unsaid     \* history: gids changed here without an op

vars == <<disk, rows, ids, events, act, texts, shared, remote, torn, unsaid>>

Actors == Users \cup {Loop}
Texts == 1..MaxTexts
Gids == 1..MaxRows \cup Strangers   \* a row of ours has its id for gid
Row == [id : 1..MaxRows, gid : Gids \cup {None}, text : Texts]
Idle == [pc |-> "idle"]

ASSUME NoneAssumption == None \notin Row \cup [path : Paths, text : Texts]

\* row: as it was read, before any lock; stash: the bytes then there.
Op(pc, kind, path, to, row, text, stash) ==
  [pc |-> pc, kind |-> kind, path |-> path, to |-> to, row |-> row,
   text |-> text, stash |-> stash]

\* Every variable has its type: a row has an id and at most one gid and text.
TypeOK ==
  /\ disk \in [Paths -> Texts \cup {None}]
  /\ rows \in [Paths -> Row \cup {None}]
  /\ ids \in 0..MaxRows
  /\ \A p \in Paths : \A i \in DOMAIN events[p] : events[p][i] \in {"add", "change", "unlink"}
  /\ \A a \in Actors : act[a].pc \in {"idle", "wait", "half", "after", "again"}
  /\ texts \in 0..MaxTexts
  /\ shared \in [Gids -> [path : Paths, text : Texts] \cup {None}]
  /\ remote \subseteq Texts
  /\ torn \subseteq Paths
  /\ unsaid \subseteq Gids

Init ==
  /\ disk = [p \in Paths |-> None]
  /\ rows = [p \in Paths |-> None]
  /\ ids = 0
  /\ events = [p \in Paths |-> <<>>]
  /\ act = [a \in Actors |-> Idle]
  /\ texts = 0
  /\ shared = [g \in Gids |-> None]
  /\ remote = {}
  /\ torn = {}
  /\ unsaid = {}

-----------------------------------------------------------------------------
(* Rows, processes, the disk and its events *)

\* Mutant: the gid is computed again from the id.
Recomputed(row) == row.id

\* file.gid ?? formatGid(file.id)
GidOf(row) == IF row.gid = None THEN row.id ELSE row.gid
RowAt(g) == {p \in Paths : rows[p] # None /\ GidOf(rows[p]) = g}
WithId(id) == {p \in Paths : rows[p] # None /\ rows[p].id = id}

\* UPDATE ... SET content_hash WHERE id = ?: where the row is now, if it is.
ById(id, p, t) ==
  [q \in Paths |-> IF q \in WithId(id) THEN [rows[q] EXCEPT !.text = t] ELSE rows[q]]

\* Between a write's two halves its process does nothing else.
MayRun(proc) == \A a \in Actors : Host[a] = proc => act[a].pc # "half"

\* deleteFile, moveFile and restoreVersion take no lock of the file.
Holds(a) ==
  IF act[a].pc \in {"idle", "wait", "again"} \/ act[a].kind \in {"delete", "move", "restore"}
  THEN {} ELSE {act[a].path, act[a].to}

Free(proc, p) == \A a \in Actors : Host[a] = proc => p \notin Holds(a)

At(p) == {a \in Actors : act[a].pc # "idle" /\ p \in {act[a].path, act[a].to}}
Unattended(p) == Apart => At(p) = {}
Alone(p) == Unattended(p) /\ (Apart => events[p] = <<>>)
Among(p) == Apart => "unlink" \notin {events[p][i] : i \in DOMAIN events[p]} /\ Loop \notin At(p)

May(a, op) == op \in Does /\ act[a] = Idle /\ MayRun(Host[a])

\* chokidar's events: awaitWriteFinish makes one of writes in a row.
Noticed(p, t) ==
  LET kind == IF t = None THEN "unlink" ELSE IF disk[p] = None THEN "add" ELSE "change"
      last == IF events[p] = <<>> THEN "none" ELSE events[p][Len(events[p])]
  IN IF t = disk[p] \/ (kind = "change" /\ last \in {"add", "change"})
       THEN events[p] ELSE Append(events[p], kind)

\* The disk now holds f.
Put(f) ==
  /\ disk' = f
  /\ events' = [p \in Paths |-> Noticed(p, f[p])]
  /\ \A p \in Paths : Len(events'[p]) <= MaxEvents

Renamed(from, to) ==
  IF from = to THEN disk ELSE [disk EXCEPT ![from] = None, ![to] = disk[from]]

\* An op is enqueued with the row's change, or was pulled.  createFile and
\* applyFileCreate may give a row another gid: of the old one nothing is said.
Say(g, p, t) ==
  /\ shared' = [shared EXCEPT ![g] = [path |-> p, text |-> t]]
  /\ unsaid' = (unsaid \cup {GidOf(rows[q]) : q \in {p} \ {x \in Paths : rows[x] = None}}) \ {g}
SayGone(g) ==
  /\ shared' = [shared EXCEPT ![g] = None]
  /\ unsaid' = unsaid \ {g}

Step(a, pc) == act' = [act EXCEPT ![a].pc = pc]
Finish(a) == act' = [act EXCEPT ![a] = Idle]
NewText == texts < MaxTexts /\ texts' = texts + 1

-----------------------------------------------------------------------------
(* createFile and updateFile: disk, then row and op, under the file's lock *)

\* createFile gives a pulled file's row a gid of ours; whoever has read the row
\* goes on with the old one.
Strange(p) == rows[p] # None /\ rows[p].gid \notin {None, rows[p].id}

BeginWrite(u, p) ==
  /\ \/ /\ May(u, "create")
        /\ Apart => ~Strange(p)
        /\ act' = [act EXCEPT ![u] = Op("wait", "create", p, p, None, 0, None)]
     \/ /\ May(u, "update")
        /\ rows[p] # None
        /\ Apart => disk[p] # None
        /\ act' = [act EXCEPT ![u] = Op("wait", "update", p, p, rows[p], 0, None)]
  /\ Among(p)
  /\ UNCHANGED <<disk, rows, ids, events, texts, shared, remote, torn, unsaid>>

WriteDisk(u) ==
  LET p == act[u].path
  IN /\ act[u].pc = "wait"
     /\ MayRun(Host[u])
     /\ Free(Host[u], p)
     /\ NewText
     /\ Put([disk EXCEPT ![p] = texts'])
     /\ act' = [act EXCEPT ![u] = [act[u] EXCEPT !.pc = "half", !.text = texts',
                                                !.stash = disk[p]]]
     /\ UNCHANGED <<rows, ids, shared, remote, torn, unsaid>>

\* INSERT ... ON CONFLICT(path) DO UPDATE, and the gid is stamped anew.
CommitCreate(u) ==
  LET p == act[u].path
      id == IF rows[p] = None THEN ids + 1 ELSE rows[p].id
  IN /\ act[u].pc = "half"
     /\ act[u].kind = "create"
     /\ id <= MaxRows
     /\ ids' = IF rows[p] = None THEN id ELSE ids
     /\ rows' = [rows EXCEPT ![p] = [id |-> id, gid |-> id, text |-> act[u].text]]
     /\ Say(id, p, act[u].text)
     /\ torn' = torn \ {p}
     /\ Step(u, "after")
     /\ UNCHANGED <<disk, events, texts, remote>>

CommitUpdate(u) ==
  LET p == act[u].path
      row == act[u].row
  IN /\ act[u].pc = "half"
     /\ act[u].kind = "update"
     /\ rows' = ById(row.id, p, act[u].text)
     /\ Say(GidOf(row), p, act[u].text)
     /\ torn' = torn \ {p}
     /\ Step(u, "after")
     /\ UNCHANGED <<disk, ids, events, texts, remote>>

\* Mutant: the bytes stay although the transaction failed.
LeftThere(u) == disk[act[u].path]

\* updateFile has nothing to put back where no file was.
PutBack(u) ==
  IF act[u].stash = None /\ act[u].kind = "update" THEN disk[act[u].path] ELSE act[u].stash

FailWrite(u) ==
  /\ "dberror" \in Does
  /\ act[u].pc = "half"
  /\ act[u].kind \in {"create", "update"}
  /\ Put([disk EXCEPT ![act[u].path] = PutBack(u)])
  /\ Finish(u)
  /\ UNCHANGED <<rows, ids, texts, shared, remote, torn, unsaid>>

\* git has committed, or failed to: the lock comes free.
Unlock(u) ==
  /\ act[u].pc = "after"
  /\ MayRun(Host[u])
  /\ Finish(u)
  /\ UNCHANGED <<disk, rows, ids, events, texts, shared, remote, torn, unsaid>>

-----------------------------------------------------------------------------
(* deleteFile, moveFile, restoreVersion and refreshIndex: no lock of the file *)

\* A knowledge base file is unlinked, if that works; a project's file stays.
DeleteDisk(u, p) ==
  /\ May(u, "delete")
  /\ rows[p] # None
  /\ Alone(p)
  /\ \E left \in {disk[p], None} : Put([disk EXCEPT ![p] = left])
  /\ act' = [act EXCEPT ![u] = Op("half", "delete", p, p, rows[p], 0, None)]
  /\ UNCHANGED <<rows, ids, texts, shared, remote, torn, unsaid>>

CommitDelete(u) ==
  /\ act[u].pc = "half"
  /\ act[u].kind = "delete"
  /\ rows' = [p \in Paths |-> IF p \in WithId(act[u].row.id) THEN None ELSE rows[p]]
  /\ SayGone(GidOf(act[u].row))
  /\ torn' = IF disk[act[u].path] = None THEN torn \ {act[u].path} ELSE torn \cup {act[u].path}
  /\ Finish(u)
  /\ UNCHANGED <<disk, ids, events, texts, remote>>

\* The file is gone and its row is not: the watcher will remove it.
FailDelete(u) ==
  /\ "dberror" \in Does
  /\ act[u].pc = "half"
  /\ act[u].kind = "delete"
  /\ Finish(u)
  /\ UNCHANGED <<disk, rows, ids, events, texts, shared, remote, torn, unsaid>>

MoveDisk(u, from, to) ==
  /\ May(u, "move")
  /\ rows[from] # None
  /\ disk[from] # None
  /\ disk[to] = None
  /\ Alone(from) /\ Alone(to)
  /\ Put(Renamed(from, to))
  /\ act' = [act EXCEPT ![u] = Op("half", "move", from, to, rows[from], 0, None)]
  /\ UNCHANGED <<rows, ids, texts, shared, remote, torn, unsaid>>

MovedRow(id, to) ==
  [p \in Paths |->
     IF p = to THEN rows[CHOOSE q \in WithId(id) : TRUE]
     ELSE IF p \in WithId(id) THEN None ELSE rows[p]]

\* A move takes what a crash left with it.
Spread(from, to) == IF from \in torn THEN torn \cup {to} ELSE torn

\* A move says nothing of the text; of a gid nobody knows it says nothing.
CommitMove(u) ==
  LET row == act[u].row
      to == act[u].to
      g == GidOf(row)
  IN /\ act[u].pc = "half"
     /\ act[u].kind = "move"
     /\ rows[to] = None
     /\ rows' = IF WithId(row.id) = {} THEN rows ELSE MovedRow(row.id, to)
     /\ shared' = IF shared[g] = None THEN shared ELSE [shared EXCEPT ![g].path = to]
     /\ torn' = Spread(act[u].path, to)
     /\ Finish(u)
     /\ UNCHANGED <<disk, ids, events, texts, remote, unsaid>>

\* path is UNIQUE, or the write failed: the file is renamed back at once,
\* before the watcher could look.
Unrenamed(u) == Renamed(act[u].to, act[u].path)

FailMove(u) ==
  /\ act[u].pc = "half"
  /\ act[u].kind = "move"
  /\ rows[act[u].to] # None \/ "dberror" \in Does
  /\ disk' = Unrenamed(u)
  /\ events' = [p \in Paths |->
                  IF p \in {act[u].path, act[u].to} /\ events[p] # <<>>
                    THEN SubSeq(events[p], 1, Len(events[p]) - 1) ELSE events[p]]
  /\ Finish(u)
  /\ UNCHANGED <<rows, ids, texts, shared, remote, torn, unsaid>>

\* A version of the file that git has: what was pulled is not committed there.
RestoreDisk(u, p) ==
  /\ May(u, "restore")
  /\ Alone(p)
  /\ \E t \in 1..texts \ remote :
       /\ Put([disk EXCEPT ![p] = t])
       /\ act' = [act EXCEPT ![u] = Op("half", "restore", p, p, None, t, None)]
  /\ UNCHANGED <<rows, ids, texts, shared, remote, torn, unsaid>>

\* The row follows, no op is enqueued, and the watcher will see no difference.
CommitRestore(u) ==
  LET p == act[u].path
  IN /\ act[u].pc = "half"
     /\ act[u].kind = "restore"
     /\ rows' = IF rows[p] = None THEN rows ELSE [rows EXCEPT ![p].text = act[u].text]
     /\ unsaid' = IF rows[p] = None THEN unsaid ELSE unsaid \cup {GidOf(rows[p])}
     /\ torn' = IF rows[p] = None THEN torn ELSE torn \ {p}
     /\ Finish(u)
     /\ UNCHANGED <<disk, ids, events, texts, shared, remote>>

\* Rows without a file are pruned, files without a row get one with no gid.
Refresh(u) ==
  LET unknown == {p \in Paths : disk[p] # None /\ rows[p] = None}
      stale == {p \in Paths : rows[p] # None /\ rows[p].text # disk[p]}
  IN /\ May(u, "refresh")
     /\ unknown \cup stale # {}
     /\ \A p \in stale : Unattended(p)
     /\ ids + Cardinality(unknown) <= MaxRows
     /\ ids' = ids + Cardinality(unknown)
     /\ \E id \in [unknown -> ids + 1..ids'] :
          /\ \A p, q \in unknown : p # q => id[p] # id[q]
          /\ rows' = [p \in Paths |->
                        CASE p \in unknown -> [id |-> id[p], gid |-> None, text |-> disk[p]]
                          [] p \in stale -> IF disk[p] = None THEN None
                                            ELSE [rows[p] EXCEPT !.text = disk[p]]
                          [] OTHER -> rows[p]]
     /\ unsaid' = unsaid \cup (ids + 1..ids') \cup {GidOf(rows[p]) : p \in stale}
     /\ torn' = {}
     /\ UNCHANGED <<disk, events, act, texts, shared, remote>>

-----------------------------------------------------------------------------
(* Editors, and the watcher's handlers, under the file's lock *)

Edit(p) ==
  /\ "edit" \in Does
  /\ Alone(p)
  /\ NewText
  /\ Put([disk EXCEPT ![p] = texts'])
  /\ UNCHANGED <<rows, ids, act, shared, remote, torn, unsaid>>

Remove(p) ==
  /\ "remove" \in Does
  /\ Alone(p)
  /\ disk[p] # None
  /\ Put([disk EXCEPT ![p] = None])
  /\ UNCHANGED <<rows, ids, act, texts, shared, remote, torn, unsaid>>

Handle(p, kind) ==
  /\ events[p] # <<>>
  /\ Head(events[p]) = kind
  /\ MayRun(Watching)
  /\ Free(Watching, p)
  /\ events' = [events EXCEPT ![p] = Tail(@)]
  /\ UNCHANGED <<disk, act, texts, remote>>

Ignored == UNCHANGED <<rows, ids, shared, unsaid>>

\* A row that is there is left as it is, whatever the file holds.
Ingest(p) ==
  IF rows[p] # None \/ disk[p] = None THEN Ignored
  ELSE /\ ids < MaxRows
       /\ ids' = ids + 1
       /\ rows' = [rows EXCEPT ![p] = [id |-> ids', gid |-> ids', text |-> disk[p]]]
       /\ Say(ids', p, disk[p])

HandleAdd(p) == Handle(p, "add") /\ Ingest(p) /\ UNCHANGED torn

\* Mutant: no hash gate.
AlwaysNew(p) == FALSE

\* The hash gate: our own write, or a pulled one.
SameHash(p) == rows[p].text = disk[p]

HandleChange(p) ==
  /\ Handle(p, "change")
  /\ IF disk[p] = None THEN Ignored
     ELSE IF rows[p] = None THEN Ingest(p)
     ELSE IF SameHash(p) THEN Ignored
     ELSE /\ rows' = [rows EXCEPT ![p].text = disk[p]]
          /\ Say(GidOf(rows[p]), p, disk[p])
          /\ UNCHANGED ids
  /\ UNCHANGED torn

HandleUnlink(p) ==
  /\ Handle(p, "unlink")
  /\ IF rows[p] = None THEN Ignored
     ELSE /\ rows' = [rows EXCEPT ![p] = None]
          /\ SayGone(GidOf(rows[p]))
          /\ UNCHANGED ids
  /\ UNCHANGED torn

\* Has the handler of the next event a transaction to run?
HasWork(p) ==
  CASE Head(events[p]) = "unlink" -> rows[p] # None
    [] Head(events[p]) = "add" -> rows[p] = None /\ disk[p] # None
    [] OTHER -> disk[p] # None /\ (rows[p] # None => ~SameHash(p))

\* A handler catches what its transaction throws: the event is lost.
FailHandle(p) ==
  /\ "dberror" \in Does
  /\ \E kind \in {"add", "change", "unlink"} : Handle(p, kind)
  /\ HasWork(p)
  /\ torn' = torn \cup {p}
  /\ Ignored

-----------------------------------------------------------------------------
(* applyRemoteOp: row, then disk.  At a file of its own it never waits. *)

Pull(op, g, from, to, t) ==
  /\ May(Loop, op)
  /\ Alone(from) /\ Alone(to)
  /\ act' = [act EXCEPT ![Loop] = Op("half", op, from, to, None, t, None)]
  /\ UNCHANGED <<disk, events>>

\* applyFileCreate and applyFileUpdate, but for a path another gid's row has.
PullWrite(g, p) ==
  LET id == IF rows[p] = None THEN ids + 1 ELSE rows[p].id
  IN /\ NewText
     /\ Pull("pull", g, p, p, texts')
     /\ IF shared[g] = None THEN g \in Strangers ELSE shared[g].path = p
     /\ rows[p] # None => rows[p].gid \in {None, g}
     /\ \A q \in Paths \ {p} : rows[q] # None => rows[q].gid # g
     /\ id <= MaxRows
     /\ ids' = IF rows[p] = None THEN id ELSE ids
     /\ rows' = [rows EXCEPT ![p] = [id |-> id, gid |-> g, text |-> texts']]
     /\ Say(g, p, texts')
     /\ remote' = remote \cup {texts'}
     /\ UNCHANGED torn

PullDelete(p) ==
  /\ rows[p] # None
  /\ rows[p].gid # None
  /\ shared[rows[p].gid] # None
  /\ Pull("pulldelete", rows[p].gid, p, p, 0)
  /\ rows' = [rows EXCEPT ![p] = None]
  /\ SayGone(rows[p].gid)
  /\ UNCHANGED <<ids, texts, remote, torn>>

PullMove(from, to) ==
  /\ from # to
  /\ rows[from] # None /\ rows[to] = None
  /\ rows[from].gid # None
  /\ shared[rows[from].gid] # None
  /\ Pull("pullmove", rows[from].gid, from, to, 0)
  /\ rows' = MovedRow(rows[from].id, to)
  /\ shared' = [shared EXCEPT ![rows[from].gid].path = to]
  /\ UNCHANGED <<ids, texts, remote, torn, unsaid>>

\* What applying the op leaves on disk; rename only what exists.
Pulled ==
  LET a == act[Loop]
  IN CASE a.kind = "pull" -> [disk EXCEPT ![a.path] = a.text]
       [] a.kind = "pulldelete" -> [disk EXCEPT ![a.path] = None]
       [] OTHER -> IF disk[a.path] = None THEN disk ELSE Renamed(a.path, a.to)

\* The cursor was not advanced: an op cut short is applied again.  That gives
\* the row what it has; of a delete or a move it finds nothing left to do.
PullAgain ==
  /\ act[Loop].pc = "again"
  /\ MayRun(Host[Loop])
  /\ IF act[Loop].kind = "pull" THEN Step(Loop, "half") ELSE Finish(Loop)
  /\ UNCHANGED <<disk, rows, ids, events, texts, shared, remote, torn, unsaid>>

PullDisk ==
  /\ act[Loop].pc = "half"
  /\ Put(Pulled)
  /\ torn' = IF act[Loop].kind = "pullmove" THEN Spread(act[Loop].path, act[Loop].to)
             ELSE torn \ {act[Loop].path}
  /\ Finish(Loop)
  /\ UNCHANGED <<rows, ids, texts, shared, remote, unsaid>>

\* The disk refuses.  That a file could not be removed goes unnoticed; any other
\* op is applied again, or skipped after its last failure.
FailPull ==
  /\ "ioerror" \in Does
  /\ act[Loop].pc = "half"
  /\ \/ Finish(Loop)
     \/ act[Loop].kind # "pulldelete" /\ Step(Loop, "again")
  /\ torn' = torn \cup {act[Loop].path, act[Loop].to}
  /\ UNCHANGED <<disk, rows, ids, events, texts, shared, remote, unsaid>>

-----------------------------------------------------------------------------
(* A process dies: chokidar will not tell of what changed meanwhile *)

Crash(proc) ==
  LET mine == {a \in Actors : Host[a] = proc}
      halves == {a \in mine : act[a].pc = "half"}
      missed == IF proc = Watching THEN {p \in Paths : events[p] # <<>>} ELSE {}
  IN /\ "crash" \in Does
     /\ torn' = torn \cup missed \cup UNION {{act[a].path, act[a].to} : a \in halves}
     /\ act' = [a \in Actors |->
                  CASE a \notin mine -> act[a]
                    [] a = Loop /\ act[a] # Idle -> [act[a] EXCEPT !.pc = "again"]
                    [] OTHER -> Idle]
     /\ events' = IF proc = Watching THEN [p \in Paths |-> <<>>] ELSE events
     /\ UNCHANGED <<disk, rows, ids, texts, shared, remote, unsaid>>

-----------------------------------------------------------------------------
Next ==
  \/ \E u \in Users :
       \/ WriteDisk(u) \/ CommitCreate(u) \/ CommitUpdate(u) \/ FailWrite(u) \/ Unlock(u)
       \/ CommitDelete(u) \/ FailDelete(u) \/ CommitMove(u) \/ FailMove(u)
       \/ CommitRestore(u) \/ Refresh(u)
  \/ \E u \in Users, p \in Paths : BeginWrite(u, p) \/ DeleteDisk(u, p) \/ RestoreDisk(u, p)
  \/ \E u \in Users, p, q \in Paths : MoveDisk(u, p, q)
  \/ \E p \in Paths :
       \/ Edit(p) \/ Remove(p)
       \/ HandleAdd(p) \/ HandleChange(p) \/ HandleUnlink(p) \/ FailHandle(p)
       \/ PullDelete(p)
  \/ \E g \in Gids, p \in Paths : PullWrite(g, p)
  \/ \E p, q \in Paths : PullMove(p, q)
  \/ PullAgain \/ PullDisk \/ FailPull
  \/ \E proc \in {Host[a] : a \in Actors} : Crash(proc)

Spec == Init /\ [][Next]_vars

-----------------------------------------------------------------------------
(* Properties *)

Quiet == /\ \A a \in Actors : act[a] = Idle
         /\ \A p \in Paths : events[p] = <<>>

\* Once operations and events are through, a row has the hash of the bytes at
\* its path, and there is a row exactly where there is a file: after operations
\* whose transaction failed too, and everywhere but where a crash came between
\* disk and database, a handler's transaction failed, or a delete or a pull left
\* the bytes as they were.  The comments of updateFile and moveFile ask for it.
\* (Rows and events are well typed before that, too.)
IndexDescribesDisk ==
  /\ TypeOK
  /\ Quiet =>
       \A p \in Paths \ torn :
         /\ (rows[p] = None) = (disk[p] = None)
         /\ rows[p] # None => rows[p].text = disk[p]

\* What the other machines are told is what is here: op and row change in one
\* transaction.  Not so for refreshIndex and restoreVersion, which say nothing.
Published ==
  \A g \in Gids \ unsaid :
    /\ \A p \in RowAt(g) : shared[g] = [path |-> p, text |-> rows[p].text]
    /\ shared[g] # None => RowAt(g) # {}

\* No text that came from another machine is sent out as an edit made here:
\* the watcher's hash gate recognises what the sync loop wrote.
NoEcho ==
  [][\A g \in Gids :
       LET told == shared'[g]
       IN /\ told # None
          /\ told.path \notin torn
          /\ shared[g] # None => shared[g].text # told.text
          => told.text \notin remote]_vars
=============================================================================
