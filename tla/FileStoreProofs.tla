--------------------------- MODULE FileStoreProofs ---------------------------
(***************************************************************************)
(* With the restriction Apart, and one process that has the watcher: the   *)
(* rows describe the disk once all is through, what was said of the files  *)
(* is what the rows have, and no pulled text goes out as an edit.          *)
(*                                                                         *)
(* Four invariants, each resting on the ones before it: who may be at a    *)
(* path together (Shape); what rows, events and operations owe the disk    *)
(* (Index); what was said of the rows (Telling); where pulled texts may be *)
(* (Pulling).                                                              *)
(***************************************************************************)
EXTENDS FileStore, FiniteSetTheorems, SequenceTheorems, TLAPS

OneProcess == \A a \in Actors : Host[a] = Watching

Writing == {"create", "update"}
OfUsers == Writing \cup {"delete", "move", "restore"}
OfLoop == {"pull", "pulldelete", "pullmove"}
Moving == {"move", "pullmove"}
EventKinds == {"add", "change", "unlink"}

OpRec ==
  [pc : {"wait", "half", "after", "again"}, kind : OfUsers \cup OfLoop, path : Paths, to : Paths,
   row : Row \cup {None}, text : 0..MaxTexts, stash : Texts \cup {None}]

\* What an operation of a may look like.
Formed(a, o) ==
  /\ o.kind \in IF a = Loop THEN OfLoop ELSE OfUsers
  /\ o.kind \in Writing => o.pc \in {"wait", "half", "after"}
  /\ o.kind \in OfLoop => o.pc \in {"half", "again"}
  /\ o.kind \in {"delete", "move", "restore"} => o.pc = "half"
  /\ (o.to # o.path) <=> o.kind \in Moving
  /\ o.kind \in {"update", "delete", "move"} => o.row # None
  /\ o.pc # "wait" /\ o.kind \in Writing \cup {"restore", "pull"} => o.text \in Texts

ActsTyped ==
  /\ act \in [Actors -> OpRec \cup {Idle}]
  /\ \A a \in Actors : act[a] # Idle => Formed(a, act[a])

Typed ==
  /\ disk \in [Paths -> Texts \cup {None}]
  /\ rows \in [Paths -> Row \cup {None}]
  /\ ids \in 0..MaxRows
  /\ events \in [Paths -> Seq(EventKinds)]
  /\ texts \in 0..MaxTexts
  /\ shared \in [Gids -> [path : Paths, text : Texts] \cup {None}]
  /\ remote \subseteq Texts
  /\ torn \subseteq Paths
  /\ unsaid \subseteq Gids

-----------------------------------------------------------------------------
(* Types *)

LEMMA Bounds ==
  /\ MaxTexts \in Nat /\ MaxRows \in Nat
  /\ None \notin Texts /\ None \notin Row /\ None \notin [path : Paths, text : Texts]
  /\ None \notin Gids
BY FilesAssumption, NoneAssumption DEF Texts, Gids

\* An actor's operation is one of OpRec as soon as it does not idle.
LEMMA Pcs ==
  ASSUME ActsTyped, NEW a \in Actors
  PROVE  /\ (act[a].pc = "idle") <=> (act[a] = Idle)
         /\ act[a] # Idle => act[a] \in OpRec /\ Formed(a, act[a])
BY DEF ActsTyped, OpRec, Idle

\* The operation o steps on, or has written t over s.
Onto(o, pc) == [o EXCEPT !.pc = pc]
Opened(o, t, s) == [o EXCEPT !.pc = "half", !.text = t, !.stash = s]

LEMMA Fields ==
  ASSUME NEW o \in OpRec
  PROVE  /\ \A pc : LET n == Onto(o, pc) IN
              /\ n.pc = pc /\ n.kind = o.kind /\ n.path = o.path /\ n.to = o.to
              /\ n.row = o.row /\ n.text = o.text /\ n.stash = o.stash
              /\ pc \in {"half", "after", "again"} => n \in OpRec
         /\ \A t, s : LET n == Opened(o, t, s) IN
              /\ n.pc = "half" /\ n.kind = o.kind /\ n.path = o.path /\ n.to = o.to
              /\ n.row = o.row /\ n.text = t /\ n.stash = s
              /\ t \in Texts /\ s \in Texts \cup {None} => n \in OpRec
<1>1. \A t \in Texts : t \in 0..MaxTexts
  BY Bounds DEF Texts
<1> QED BY <1>1 DEF OpRec, Onto, Opened

LEMMA OpFields ==
  ASSUME NEW pc, NEW kind, NEW path, NEW to, NEW row, NEW text, NEW stash
  PROVE  LET n == Op(pc, kind, path, to, row, text, stash) IN
         /\ n.pc = pc /\ n.kind = kind /\ n.path = path /\ n.to = to
         /\ n.row = row /\ n.text = text /\ n.stash = stash
BY DEF Op

LEMMA ActSet ==
  ASSUME ActsTyped, NEW a \in Actors, NEW o \in OpRec \cup {Idle},
         o # Idle => Formed(a, o), act' = [act EXCEPT ![a] = o]
  PROVE  /\ ActsTyped'
         /\ act'[a] = o
         /\ \A b \in Actors \ {a} : act'[b] = act[b]
<1>1. act'[a] = o /\ \A b \in Actors \ {a} : act'[b] = act[b]
  BY DEF ActsTyped
<1>2. act' \in [Actors -> OpRec \cup {Idle}]
  BY DEF ActsTyped
<1>3. \A b \in Actors : act'[b] # Idle => Formed(b, act'[b])
  BY <1>1 DEF ActsTyped
<1> QED BY <1>1, <1>2, <1>3 DEF ActsTyped

LEMMA Finished ==
  ASSUME ActsTyped, NEW a \in Actors, Finish(a)
  PROVE  /\ ActsTyped'
         /\ act'[a] = Idle
         /\ \A b \in Actors \ {a} : act'[b] = act[b]
BY ActSet DEF Finish

\* The operation steps on, and nothing else of it changes.
LEMMA Stepped ==
  ASSUME ActsTyped, NEW a \in Actors, NEW pc \in {"half", "after", "again"},
         act[a] # Idle, Step(a, pc),
         act[a].kind \in Writing => pc = "after" /\ act[a].pc = "half",
         act[a].kind \notin Writing => pc = "half" \/ (pc = "again" /\ a = Loop)
  PROVE  /\ ActsTyped'
         /\ act'[a] = Onto(act[a], pc)
         /\ \A b \in Actors \ {a} : act'[b] = act[b]
<1> DEFINE o == Onto(act[a], pc)
<1>1. act[a] \in OpRec /\ Formed(a, act[a])
  BY Pcs
<1>2. o \in OpRec
  BY <1>1, Fields
<1>3. Formed(a, o)
  BY <1>1, Fields DEF Formed, OpRec, Writing, OfLoop, OfUsers
<1>4. act' = [act EXCEPT ![a] = o]
  BY DEF Step, ActsTyped, Onto
<1> HIDE DEF o
<1>5. ActsTyped' /\ act'[a] = o /\ \A b \in Actors \ {a} : act'[b] = act[b]
  BY <1>2, <1>3, <1>4, ActSet
<1> QED BY <1>5 DEF o

\* An operation that starts does so from nothing.
LEMMA Started ==
  ASSUME ActsTyped, NEW a \in Actors, NEW op, May(a, op),
         NEW o \in OpRec, Formed(a, o), act' = [act EXCEPT ![a] = o]
  PROVE  /\ ActsTyped'
         /\ act[a] = Idle
         /\ act'[a] = o
         /\ \A b \in Actors \ {a} : act'[b] = act[b]
BY ActSet DEF May

-----------------------------------------------------------------------------
(* The disk's events *)

Last(p) == events[p][Len(events[p])]
Unlinked(p) == \E i \in DOMAIN events[p] : events[p][i] = "unlink"

\* The last event says whether the file is there.
EventsFit(p) == events[p] # <<>> => ((Last(p) = "unlink") <=> (disk[p] = None))

\* What a write does to the events of a path.
Notices(p, t) ==
  IF t = disk[p] THEN events'[p] = events[p]
  ELSE IF t = None THEN events'[p] = Append(events[p], "unlink")
  ELSE IF disk[p] = None THEN events'[p] = Append(events[p], "add")
  ELSE IF events[p] # <<>> /\ Last(p) \in {"add", "change"} THEN events'[p] = events[p]
  ELSE events'[p] = Append(events[p], "change")

LEMMA PutNotices ==
  ASSUME Typed, NEW f \in [Paths -> Texts \cup {None}], Put(f)
  PROVE  /\ disk' = f
         /\ events' \in [Paths -> Seq(EventKinds)]
         /\ \A p \in Paths : Notices(p, f[p])
<1>1. disk' = f /\ events' = [p \in Paths |-> Noticed(p, f[p])]
  BY DEF Put
<1>2. ASSUME NEW p \in Paths PROVE Noticed(p, f[p]) \in Seq(EventKinds) /\ Notices(p, f[p])
  <2>1. events[p] \in Seq(EventKinds)
    BY DEF Typed
  <2>2. \A k \in EventKinds : Append(events[p], k) \in Seq(EventKinds)
    BY <2>1
  <2>3. events'[p] = Noticed(p, f[p])
    BY <1>1
  <2>4. CASE f[p] = disk[p]
    BY <2>1, <2>3, <2>4 DEF Noticed, Notices
  <2>5. CASE f[p] # disk[p] /\ f[p] = None
    BY <2>2, <2>3, <2>5 DEF Noticed, Notices, EventKinds
  <2>6. CASE f[p] # disk[p] /\ f[p] # None /\ disk[p] = None
    BY <2>2, <2>3, <2>6 DEF Noticed, Notices, EventKinds
  <2>7. CASE f[p] # disk[p] /\ f[p] # None /\ disk[p] # None
    BY <2>1, <2>2, <2>3, <2>7 DEF Noticed, Notices, EventKinds, Last
  <2> QED BY <2>4, <2>5, <2>6, <2>7
<1> QED BY <1>1, <1>2

\* An appended event is the last, and leaves the others where they are.
LEMMA Appended ==
  ASSUME Typed, NEW p \in Paths, NEW k \in EventKinds, events'[p] = Append(events[p], k)
  PROVE  /\ events'[p] # <<>> /\ Last(p)' = k
         /\ Unlinked(p)' <=> (Unlinked(p) \/ k = "unlink")
         /\ events[p] = <<>> => events'[p] = <<k>>
<1>1. events[p] \in Seq(EventKinds)
  BY DEF Typed
<1>2. /\ Len(events'[p]) = Len(events[p]) + 1 /\ Len(events[p]) \in Nat
      /\ DOMAIN events'[p] = 1..Len(events[p]) + 1 /\ DOMAIN events[p] = 1..Len(events[p])
      /\ \A i \in DOMAIN events[p] : events'[p][i] = events[p][i]
      /\ events'[p][Len(events[p]) + 1] = k
  BY <1>1
<1>3. events'[p] # <<>> /\ Last(p)' = k
  BY <1>2 DEF Last
<1>4. Unlinked(p)' <=> (Unlinked(p) \/ k = "unlink")
  BY <1>2 DEF Unlinked
<1>5. events[p] = <<>> => events'[p] = <<k>>
  BY <1>1
<1> QED BY <1>3, <1>4, <1>5

\* What a write leaves of a path: its events fit again; an add comes last only
\* of a file that was not there or was not yet noticed.
LEMMA AfterPut ==
  ASSUME Typed, NEW p \in Paths, disk'[p] \in Texts \cup {None}, Notices(p, disk'[p]), EventsFit(p)
  PROVE  /\ EventsFit(p)'
         /\ disk'[p] # disk[p] => events'[p] # <<>>
         /\ events[p] # <<>> => events'[p] # <<>>
         /\ events'[p] # <<>> /\ Last(p)' = "add" /\ disk[p] # None
               => events'[p] = events[p]
         /\ Unlinked(p)' <=> (Unlinked(p) \/ (disk'[p] = None /\ disk[p] # None))
         /\ events[p] = <<>> /\ disk[p] = None /\ disk'[p] # None => events'[p] = <<"add">>
         /\ events[p] = <<>> /\ disk[p] # None /\ disk'[p] = None => events'[p] = <<"unlink">>
<1>1. CASE \/ disk'[p] = disk[p]
           \/ events'[p] = events[p] /\ disk'[p] # None /\ disk[p] # None /\ events[p] # <<>>
  <2>1. events'[p] = events[p]
    BY <1>1 DEF Notices
  <2>2. Last(p)' = Last(p) /\ (Unlinked(p)' <=> Unlinked(p))
    BY <2>1 DEF Last, Unlinked
  <2> QED BY <1>1, <2>1, <2>2 DEF EventsFit
<1>2. CASE disk'[p] # disk[p] /\ events'[p] = Append(events[p], "unlink") /\ disk'[p] = None
  BY <1>2, Appended DEF EventsFit, EventKinds
<1>3. CASE events'[p] = Append(events[p], "add") /\ disk'[p] # None /\ disk[p] = None
  <2>1. /\ events'[p] # <<>> /\ Last(p)' = "add" /\ (Unlinked(p)' <=> Unlinked(p))
        /\ events[p] = <<>> => events'[p] = <<"add">>
    BY <1>3, Appended DEF EventKinds
  <2>2. EventsFit(p)'
    BY <1>3, <2>1 DEF EventsFit
  <2> QED BY <1>3, <2>1, <2>2
<1>4. CASE events'[p] = Append(events[p], "change") /\ disk'[p] # None /\ disk[p] # None
  BY <1>4, Appended DEF EventsFit, EventKinds
<1>5. \/ disk'[p] = disk[p]
      \/ disk'[p] # disk[p] /\ disk'[p] = None /\ events'[p] = Append(events[p], "unlink")
      \/ disk'[p] # None /\ disk[p] = None /\ events'[p] = Append(events[p], "add")
      \/ disk'[p] # None /\ disk[p] # None /\ events[p] # <<>> /\ events'[p] = events[p]
      \/ disk'[p] # None /\ disk[p] # None /\ events'[p] = Append(events[p], "change")
  BY DEF Notices
<1> QED BY <1>1, <1>2, <1>3, <1>4, <1>5

-----------------------------------------------------------------------------
(* Who is at a path *)

Half(a) == act[a].pc = "half"
OneHalf == \A a, b \in Actors : Half(a) /\ Half(b) => a = b

\* Only createFile and updateFile are ever at a path together.
Crowd == \A p \in Paths : \A a, b \in At(p) : a # b => act[a].kind \in Writing

Shape == Typed /\ ActsTyped /\ OneHalf /\ Crowd

NobodyHalf == \A a \in Actors : ~Half(a)

LEMMA Mine ==
  ASSUME OneProcess, MayRun(Watching) \/ \E a \in Actors : MayRun(Host[a])
  PROVE  NobodyHalf
BY DEF OneProcess, MayRun, NobodyHalf, Half

LEMMA Enters ==
  ASSUME ActsTyped, OneHalf, Crowd, NobodyHalf,
         NEW a \in Actors, act[a] = Idle, NEW o \in OpRec, act'[a] = o,
         \A b \in Actors \ {a} : act'[b] = act[b],
         \A p \in {o.path, o.to} : \A b \in At(p) : {o.kind, act[b].kind} \subseteq Writing
  PROVE  OneHalf' /\ Crowd'
<1>1. OneHalf'
  BY DEF OneHalf, NobodyHalf, Half
<1>2. ASSUME NEW p \in Paths, NEW b \in At(p)', NEW c \in At(p)', b # c PROVE act'[b].kind \in Writing
  <2>1. b \in Actors /\ c \in Actors
    BY DEF At
  <2>2. CASE b = a
    <3>1. c \in At(p) /\ p \in {o.path, o.to}
      BY <2>1, <2>2, <1>2 DEF At
    <3> QED BY <2>2, <3>1
  <2>3. CASE b # a /\ c = a
    <3>1. b \in At(p) /\ p \in {o.path, o.to}
      BY <2>1, <2>3 DEF At
    <3> QED BY <2>1, <2>3, <3>1
  <2>4. CASE b # a /\ c # a
    <3>1. b \in At(p) /\ c \in At(p)
      BY <2>1, <2>4 DEF At
    <3> QED BY <1>2, <2>1, <2>4, <3>1 DEF Crowd
  <2> QED BY <2>2, <2>3, <2>4
<1> QED BY <1>1, <1>2 DEF Crowd

LEMMA Stays ==
  ASSUME ActsTyped, OneHalf, Crowd, NEW a \in Actors, act[a] # Idle, NEW o \in OpRec, act'[a] = o,
         \A b \in Actors \ {a} : act'[b] = act[b],
         o.path = act[a].path /\ o.to = act[a].to /\ o.kind = act[a].kind,
         o.pc = "half" => NobodyHalf
  PROVE  OneHalf' /\ Crowd'
<1>1. OneHalf'
  BY DEF OneHalf, NobodyHalf, Half
<1>2. ASSUME NEW p \in Paths PROVE At(p)' = At(p)
  BY Pcs DEF At, OpRec
<1>3. \A b \in Actors : act'[b].kind = act[b].kind
  OBVIOUS
<1> QED BY <1>1, <1>2, <1>3 DEF Crowd, At

LEMMA Leaves ==
  ASSUME OneHalf, Crowd, NEW a \in Actors, act'[a] = Idle,
         \A b \in Actors \ {a} : act'[b] = act[b]
  PROVE  OneHalf' /\ Crowd'
<1>1. OneHalf'
  BY DEF OneHalf, Half, Idle
<1>2. ASSUME NEW p \in Paths PROVE At(p)' = At(p) \ {a}
  BY DEF At, Idle
<1>3. ASSUME NEW p \in Paths, NEW b \in At(p)', NEW c \in At(p)', b # c PROVE act'[b].kind \in Writing
  <2>1. b \in Actors \ {a} /\ b \in At(p) /\ c \in At(p)
    BY <1>2, <1>3 DEF At
  <2> QED BY <1>3, <2>1 DEF Crowd
<1> QED BY <1>1, <1>3 DEF Crowd

LEMMA ActSame ==
  ASSUME ActsTyped, OneHalf, Crowd, act' = act
  PROVE  ActsTyped' /\ OneHalf' /\ Crowd'
BY DEF ActsTyped, OneHalf, Crowd, At, Half

-----------------------------------------------------------------------------
(* What the steps do, each with Shape after it *)

OthersAct(a) == \A b \in Actors \ {a} : act'[b] = act[b]

\* The disk is now f, and the watcher's events tell of it.
Wrote(f) == disk' = f /\ \A p \in Paths : Notices(p, f[p])

LEMMA AloneAt == ASSUME Apart, NEW p, Alone(p) PROVE At(p) = {} /\ events[p] = <<>>
BY DEF Alone, Unattended

LEMMA UserActs == \A u \in Users : u \in Actors /\ u # Loop
BY FilesAssumption DEF Actors

LEMMA BeginWriteDoes ==
  ASSUME Shape, OneProcess, Apart, NEW u \in Users, NEW p \in Paths, BeginWrite(u, p)
  PROVE  /\ Shape' /\ OthersAct(u) /\ NobodyHalf /\ act[u] = Idle /\ act'[u] \in OpRec
         /\ act'[u].pc = "wait" /\ act'[u].path = p /\ act'[u].to = p
         /\ act'[u].text = 0 /\ act'[u].stash = None
         /\ \/ act'[u].kind = "create" /\ ~Strange(p)
            \/ /\ act'[u].kind = "update"
               /\ rows[p] # None /\ disk[p] # None /\ act'[u].row = rows[p]
         /\ ~Unlinked(p)
         /\ UNCHANGED <<disk, rows, ids, events, texts, shared, remote, torn, unsaid>>
<1>1. u \in Actors /\ u # Loop
  BY UserActs
<1>2. act[u] = Idle /\ MayRun(Host[u])
  BY DEF BeginWrite, May
<1>3. NobodyHalf
  BY <1>1, <1>2, Mine
<1>4. PICK o : /\ act' = [act EXCEPT ![u] = o]
               /\ \/ o = Op("wait", "create", p, p, None, 0, None) /\ ~Strange(p)
                  \/ /\ o = Op("wait", "update", p, p, rows[p], 0, None)
                     /\ rows[p] # None /\ disk[p] # None
  BY DEF BeginWrite
<1>5. o \in OpRec /\ Formed(u, o)
  <2>1. rows[p] \in Row \cup {None} /\ 0 \in 0..MaxTexts
    BY Bounds DEF Shape, Typed
  <2> QED BY <1>1, <1>4, <2>1 DEF Op, OpRec, Formed, OfUsers, OfLoop, Writing, Moving
<1>6. ActsTyped' /\ act'[u] = o /\ OthersAct(u)
  BY <1>1, <1>4, <1>5, ActSet DEF Shape, OthersAct
<1>7. o.pc = "wait" /\ o.path = p /\ o.to = p /\ o.text = 0 /\ o.stash = None
      /\ o.kind \in Writing /\ (o.kind = "update" => o.row = rows[p])
  BY <1>4 DEF Op, Writing
<1>8. Loop \notin At(p) /\ ~Unlinked(p)
  BY DEF BeginWrite, Among, Unlinked
<1>9. ASSUME NEW b \in At(p) PROVE act[b].kind \in Writing
  <2>1. b \in Actors /\ b # Loop /\ act[b] # Idle /\ ~Half(b)
    BY <1>3, <1>8 DEF At, Idle, NobodyHalf
  <2> QED BY <2>1, Pcs DEF Shape, Formed, OfUsers, Half
<1>10. OneHalf' /\ Crowd'
  BY <1>1, <1>2, <1>3, <1>5, <1>6, <1>7, <1>9, Enters DEF Shape, OthersAct
<1>11. UNCHANGED <<disk, rows, ids, events, texts, shared, remote, torn, unsaid>>
  BY DEF BeginWrite
<1>12. Typed'
  BY <1>11 DEF Typed, Shape
<1>13. \/ o.kind = "create" /\ ~Strange(p)
       \/ o.kind = "update" /\ rows[p] # None /\ disk[p] # None /\ o.row = rows[p]
  BY <1>4 DEF Op
<1> QED BY <1>2, <1>3, <1>5, <1>6, <1>7, <1>8, <1>10, <1>11, <1>12, <1>13 DEF Shape

LEMMA WriteDiskDoes ==
  ASSUME Shape, OneProcess, NEW u \in Users, WriteDisk(u)
  PROVE  /\ Shape' /\ OthersAct(u) /\ NobodyHalf /\ u \in Actors
         /\ act[u] \in OpRec /\ act[u].pc = "wait" /\ act[u].kind \in Writing
         /\ act[u].to = act[u].path
         /\ texts' = texts + 1 /\ texts' \in Texts
         /\ act'[u] = Opened(act[u], texts', disk[act[u].path])
         /\ Wrote([disk EXCEPT ![act[u].path] = texts'])
         /\ UNCHANGED <<rows, ids, shared, remote, torn, unsaid>>
<1> DEFINE p == act[u].path
           o == Opened(act[u], texts', disk[p])
           f == [disk EXCEPT ![p] = texts']
<1>1. u \in Actors /\ u # Loop /\ act[u].pc = "wait" /\ act[u] # Idle
  BY UserActs DEF WriteDisk, Idle
<1>2. act[u] \in OpRec /\ Formed(u, act[u])
  BY <1>1, Pcs DEF Shape
<1>3. act[u].kind \in Writing /\ p \in Paths /\ act[u].to = p
  BY <1>1, <1>2 DEF Formed, OpRec, OfUsers, Writing, Moving
<1>4. NobodyHalf
  BY <1>1, Mine DEF WriteDisk
<1>5. texts' = texts + 1 /\ texts' \in Texts /\ texts' \in 0..MaxTexts
  BY Bounds DEF WriteDisk, NewText, Texts, Shape, Typed
<1>6. o \in OpRec /\ Formed(u, o)
  <2>1. disk[p] \in Texts \cup {None}
    BY <1>3 DEF Shape, Typed
  <2>2. o \in OpRec
    BY <1>2, <1>5, <2>1, Fields
  <2>3. o.pc = "half" /\ o.text = texts' /\ o.kind = act[u].kind /\ o.path = p /\ o.to = p
        /\ o.row = act[u].row
    BY <1>2, <1>3, Fields
  <2> QED BY <1>2, <1>3, <1>5, <2>2, <2>3 DEF Formed, Writing, OfLoop, Moving
<1>7. act' = [act EXCEPT ![u] = o]
  BY DEF WriteDisk, Opened
<1>8. ActsTyped' /\ act'[u] = o /\ OthersAct(u)
  <2> HIDE DEF o
  <2> QED BY <1>1, <1>6, <1>7, ActSet DEF Shape, OthersAct
<1>9. o.path = p /\ o.to = act[u].to /\ o.kind = act[u].kind
  BY <1>2, Fields
<1>10. OneHalf' /\ Crowd'
  <2> HIDE DEF o
  <2> QED BY <1>1, <1>4, <1>6, <1>8, <1>9, Stays DEF Shape, OthersAct
<1>11. f \in [Paths -> Texts \cup {None}] /\ Put(f)
  BY <1>5 DEF WriteDisk, Shape, Typed
<1>12. Wrote(f) /\ events' \in [Paths -> Seq(EventKinds)]
  <2> HIDE DEF f
  <2> QED BY <1>11, PutNotices DEF Shape, Wrote
<1>13. UNCHANGED <<rows, ids, shared, remote, torn, unsaid>>
  BY DEF WriteDisk
<1>14. Typed'
  BY <1>5, <1>11, <1>12, <1>13 DEF Typed, Shape, Wrote
<1> QED BY <1>1, <1>2, <1>3, <1>4, <1>5, <1>8, <1>10, <1>12, <1>13, <1>14 DEF Shape

LEMMA GidOfType == \A row \in Row : GidOf(row) \in Gids
BY DEF Row, GidOf, Gids

\* Of a row that gets another gid the old one is unsaid.
LEMMA Said ==
  ASSUME Typed, NEW g \in Gids, NEW p \in Paths, NEW t \in Texts, Say(g, p, t)
  PROVE  /\ shared' = [shared EXCEPT ![g] = [path |-> p, text |-> t]]
         /\ shared' \in [Gids -> [path : Paths, text : Texts] \cup {None}]
         /\ unsaid' \subseteq Gids
         /\ \A h \in Gids \ unsaid' :
              h # g => h \notin unsaid /\ (rows[p] # None => GidOf(rows[p]) # h)
<1>1. shared' = [shared EXCEPT ![g] = [path |-> p, text |-> t]]
  BY DEF Say
<1>2. [path |-> p, text |-> t] \in [path : Paths, text : Texts]
  OBVIOUS
<1>3. shared' \in [Gids -> [path : Paths, text : Texts] \cup {None}]
  BY <1>1, <1>2 DEF Typed
<1>4. \A q \in {p} \ {x \in Paths : rows[x] = None} : GidOf(rows[q]) \in Gids
  BY GidOfType DEF Typed
<1>5. unsaid' \subseteq Gids
  BY <1>4 DEF Say, Typed
<1>6. \A h \in Gids \ unsaid' :
        h # g => h \notin unsaid /\ (rows[p] # None => GidOf(rows[p]) # h)
  BY DEF Say
<1> QED BY <1>1, <1>3, <1>5, <1>6

LEMMA SaidGone ==
  ASSUME Typed, NEW g \in Gids, SayGone(g)
  PROVE  /\ shared' \in [Gids -> [path : Paths, text : Texts] \cup {None}]
         /\ unsaid' \subseteq Gids
BY DEF SayGone, Typed

\* An operation between its two halves has the process to itself.
HalfOf(u, kinds) ==
  /\ act[u] \in OpRec /\ act[u].pc = "half" /\ act[u].kind \in kinds
  /\ Formed(u, act[u])
  /\ \A b \in Actors \ {u} : ~Half(b)

LEMMA InHalf ==
  ASSUME Shape, NEW u \in Actors, NEW kinds, act[u].pc = "half", act[u].kind \in kinds
  PROVE  HalfOf(u, kinds)
<1>1. act[u] # Idle
  BY DEF Idle
<1> QED BY <1>1, Pcs DEF Shape, HalfOf, OneHalf, Half

\* createFile and updateFile go on to git with the lock held.
LEMMA ToAfter ==
  ASSUME Shape, NEW u \in Users, act[u].pc = "half", act[u].kind \in Writing, Step(u, "after")
  PROVE  /\ ActsTyped' /\ OneHalf' /\ Crowd' /\ OthersAct(u)
         /\ HalfOf(u, Writing) /\ u \in Actors /\ act[u].to = act[u].path
         /\ act'[u] = Onto(act[u], "after")
<1> DEFINE o == Onto(act[u], "after")
<1>1. u \in Actors /\ HalfOf(u, Writing) /\ act[u] # Idle
  BY UserActs, InHalf DEF Idle
<1>2. ActsTyped' /\ act'[u] = o /\ OthersAct(u)
  BY <1>1, Stepped DEF Shape, OthersAct
<1>3. o \in OpRec /\ o.path = act[u].path /\ o.to = act[u].to /\ o.kind = act[u].kind
      /\ o.pc = "after"
  BY <1>1, Fields DEF HalfOf
<1>4. act[u].to = act[u].path
  BY <1>1 DEF HalfOf, Formed, Writing, Moving
<1> HIDE DEF o
<1>5. OneHalf' /\ Crowd'
  BY <1>1, <1>2, <1>3, Stays DEF Shape, OthersAct
<1> QED BY <1>1, <1>2, <1>4, <1>5 DEF o

\* Others end there.
LEMMA ToIdle ==
  ASSUME Shape, NEW u \in Actors, NEW kinds, act[u].pc = "half", act[u].kind \in kinds, Finish(u)
  PROVE  /\ ActsTyped' /\ OneHalf' /\ Crowd' /\ OthersAct(u)
         /\ HalfOf(u, kinds) /\ act'[u] = Idle
<1>1. HalfOf(u, kinds)
  BY InHalf
<1>2. ActsTyped' /\ act'[u] = Idle /\ OthersAct(u)
  BY <1>1, Finished DEF Shape, OthersAct
<1> QED BY <1>1, <1>2, Leaves DEF Shape, OthersAct

LEMMA CommitCreateDoes ==
  ASSUME Shape, NEW u \in Users, CommitCreate(u)
  PROVE  /\ Shape' /\ OthersAct(u) /\ HalfOf(u, {"create"}) /\ act[u].to = act[u].path
         /\ act'[u] = Onto(act[u], "after")
<1> DEFINE p == act[u].path
           id == IF rows[p] = None THEN ids + 1 ELSE rows[p].id
<1>1. u \in Actors /\ HalfOf(u, {"create"})
  BY UserActs, InHalf DEF CommitCreate
<1>2. /\ ActsTyped' /\ OneHalf' /\ Crowd' /\ OthersAct(u) /\ act[u].to = p
      /\ act'[u] = Onto(act[u], "after")
  BY ToAfter DEF CommitCreate, Writing
<1>3. p \in Paths /\ act[u].text \in Texts
  BY <1>1 DEF HalfOf, Formed, OpRec, Writing
<1>4. id \in 1..MaxRows /\ id \in Gids
  <2>1. rows[p] # None => rows[p] \in Row
    BY <1>3 DEF Shape, Typed
  <2> QED BY <2>1, Bounds DEF CommitCreate, Shape, Typed, Row, Gids
<1>5. ids' \in 0..MaxRows
  BY <1>4 DEF CommitCreate, Shape, Typed
<1>6. rows' = [rows EXCEPT ![p] = [id |-> id, gid |-> id, text |-> act[u].text]]
  BY DEF CommitCreate
<1>7. [id |-> id, gid |-> id, text |-> act[u].text] \in Row
  BY <1>3, <1>4 DEF Row
<1>8. rows' \in [Paths -> Row \cup {None}]
  <2> HIDE DEF id
  <2> QED BY <1>6, <1>7 DEF Shape, Typed
<1>9. /\ shared' \in [Gids -> [path : Paths, text : Texts] \cup {None}]
      /\ unsaid' \subseteq Gids
  BY <1>3, <1>4, Said DEF CommitCreate, Shape
<1>10. Typed'
  BY <1>5, <1>8, <1>9 DEF CommitCreate, Shape, Typed
<1> QED BY <1>1, <1>2, <1>10 DEF Shape

LEMMA CommitUpdateDoes ==
  ASSUME Shape, NEW u \in Users, CommitUpdate(u)
  PROVE  /\ Shape' /\ OthersAct(u) /\ HalfOf(u, {"update"}) /\ act[u].to = act[u].path
         /\ act'[u] = Onto(act[u], "after")
<1> DEFINE p == act[u].path
           row == act[u].row
<1>1. u \in Actors /\ HalfOf(u, {"update"})
  BY UserActs, InHalf DEF CommitUpdate
<1>2. /\ ActsTyped' /\ OneHalf' /\ Crowd' /\ OthersAct(u) /\ act[u].to = p
      /\ act'[u] = Onto(act[u], "after")
  BY ToAfter DEF CommitUpdate, Writing
<1>3. p \in Paths /\ act[u].text \in Texts /\ row \in Row
  BY <1>1 DEF HalfOf, Formed, OpRec, Writing
<1>4. \A r \in Row, t \in Texts : [r EXCEPT !.text = t] \in Row
  BY DEF Row
<1>5. rows' \in [Paths -> Row \cup {None}]
  <2>1. \A q \in WithId(row.id) : rows[q] \in Row
    BY DEF WithId, Shape, Typed
  <2> QED BY <1>3, <1>4, <2>1 DEF CommitUpdate, ById, Shape, Typed
<1>6. /\ shared' \in [Gids -> [path : Paths, text : Texts] \cup {None}]
      /\ unsaid' \subseteq Gids
  BY <1>3, Said, GidOfType DEF CommitUpdate, Shape
<1>7. Typed'
  BY <1>5, <1>6 DEF CommitUpdate, Shape, Typed
<1> QED BY <1>1, <1>2, <1>7 DEF Shape

\* What creates and updates have in common.
LEMMA CommitWriteDoes ==
  ASSUME Shape, NEW u \in Users, CommitCreate(u) \/ CommitUpdate(u)
  PROVE  /\ u \in Actors /\ OthersAct(u) /\ HalfOf(u, Writing)
         /\ act[u] \in OpRec /\ act[u] # Idle /\ act[u].path \in Paths
         /\ act[u].to = act[u].path /\ act'[u] = Onto(act[u], "after")
         /\ UNCHANGED <<disk, events, texts, remote>> /\ torn' = torn \ {act[u].path}
<1>1. u \in Actors
  BY UserActs
<1>2. /\ OthersAct(u) /\ act[u].to = act[u].path /\ act'[u] = Onto(act[u], "after")
      /\ HalfOf(u, {"create"}) \/ HalfOf(u, {"update"})
  BY CommitCreateDoes, CommitUpdateDoes
<1>3. HalfOf(u, Writing)
  BY <1>2 DEF HalfOf, Writing
<1>4. act[u] \in OpRec /\ act[u].pc = "half"
  BY <1>3 DEF HalfOf
<1>5. act[u] # Idle /\ act[u].path \in Paths
  BY <1>4 DEF Idle, OpRec
<1>6. UNCHANGED <<disk, events, texts, remote>> /\ torn' = torn \ {act[u].path}
  BY DEF CommitCreate, CommitUpdate
<1> QED BY <1>1, <1>2, <1>3, <1>4, <1>5, <1>6

LEMMA FailWriteDoes ==
  ASSUME Shape, NEW u \in Users, FailWrite(u)
  PROVE  /\ Shape' /\ OthersAct(u) /\ HalfOf(u, Writing) /\ act[u].to = act[u].path
         /\ act'[u] = Idle
         /\ Wrote([disk EXCEPT ![act[u].path] = PutBack(u)])
<1> DEFINE p == act[u].path
           f == [disk EXCEPT ![p] = PutBack(u)]
<1>1. /\ ActsTyped' /\ OneHalf' /\ Crowd' /\ OthersAct(u)
      /\ HalfOf(u, Writing) /\ act'[u] = Idle
  BY UserActs, ToIdle DEF FailWrite, Writing
<1>2. p \in Paths /\ act[u].to = p /\ act[u].stash \in Texts \cup {None}
  BY <1>1 DEF HalfOf, OpRec, Formed, Writing, Moving
<1>3. f \in [Paths -> Texts \cup {None}] /\ Put(f)
  BY <1>2 DEF FailWrite, PutBack, Shape, Typed
<1>4. Wrote(f) /\ disk' \in [Paths -> Texts \cup {None}] /\ events' \in [Paths -> Seq(EventKinds)]
  <2> HIDE DEF f
  <2> QED BY <1>3, PutNotices DEF Shape, Wrote
<1>5. Typed'
  BY <1>4 DEF FailWrite, Shape, Typed
<1> QED BY <1>1, <1>2, <1>4, <1>5 DEF Shape

LEMMA UnlockDoes ==
  ASSUME Shape, OneProcess, NEW u \in Users, Unlock(u)
  PROVE  /\ Shape' /\ OthersAct(u) /\ NobodyHalf /\ act'[u] = Idle
         /\ act[u] \in OpRec /\ act[u].pc = "after" /\ act[u].to = act[u].path
         /\ UNCHANGED <<disk, rows, ids, events, texts, shared, remote, torn, unsaid>>
<1>1. u \in Actors /\ NobodyHalf /\ act[u].pc = "after" /\ act[u] # Idle
  BY UserActs, Mine DEF Unlock, Idle
<1>2. act[u] \in OpRec /\ act[u].to = act[u].path
  BY <1>1, Pcs DEF Shape, Formed, OpRec, OfUsers, Moving, Writing, OfLoop
<1>3. ActsTyped' /\ act'[u] = Idle /\ OthersAct(u)
  BY <1>1, Finished DEF Shape, OthersAct, Unlock
<1>4. OneHalf' /\ Crowd'
  BY <1>1, <1>3, Leaves DEF Shape, OthersAct
<1>5. UNCHANGED <<disk, rows, ids, events, texts, shared, remote, torn, unsaid>>
  BY DEF Unlock
<1>6. Typed'
  BY <1>5 DEF Shape, Typed
<1> QED BY <1>1, <1>2, <1>3, <1>4, <1>5, <1>6 DEF Shape

\* deleteFile, moveFile and restoreVersion are alone at their paths from the start.
LEMMA EntersAlone ==
  ASSUME Shape, OneProcess, Apart, NEW a \in Actors, NEW op, May(a, op),
         NEW o \in OpRec, Formed(a, o), Alone(o.path), Alone(o.to), act' = [act EXCEPT ![a] = o]
  PROVE  /\ ActsTyped' /\ OneHalf' /\ Crowd' /\ OthersAct(a) /\ NobodyHalf
         /\ act[a] = Idle /\ act'[a] = o
         /\ \A p \in {o.path, o.to} : At(p) = {} /\ events[p] = <<>>
<1>1. ActsTyped' /\ act[a] = Idle /\ act'[a] = o /\ OthersAct(a)
  BY Started DEF Shape, OthersAct
<1>2. NobodyHalf
  BY Mine DEF May
<1>3. \A p \in {o.path, o.to} : At(p) = {} /\ events[p] = <<>>
  BY AloneAt
<1>4. OneHalf' /\ Crowd'
  BY <1>1, <1>2, <1>3, Enters DEF Shape, OthersAct
<1> QED BY <1>1, <1>2, <1>3, <1>4

LEMMA DeleteDiskDoes ==
  ASSUME Shape, OneProcess, Apart, NEW u \in Users, NEW p \in Paths, DeleteDisk(u, p)
  PROVE  /\ Shape' /\ OthersAct(u) /\ NobodyHalf /\ act[u] = Idle
         /\ act'[u] = Op("half", "delete", p, p, rows[p], 0, None) /\ act'[u] \in OpRec
         /\ At(p) = {} /\ events[p] = <<>>
         /\ \E left \in {disk[p], None} : Wrote([disk EXCEPT ![p] = left])
<1> PICK left \in {disk[p], None} : Put([disk EXCEPT ![p] = left])
  BY DEF DeleteDisk
<1> DEFINE o == Op("half", "delete", p, p, rows[p], 0, None)
           f == [disk EXCEPT ![p] = left]
<1>1. o \in OpRec /\ Formed(u, o) /\ o.path = p /\ o.to = p
  <2>1. rows[p] \in Row /\ 0 \in 0..MaxTexts
    BY Bounds DEF DeleteDisk, Shape, Typed
  <2> QED BY <2>1, Bounds, UserActs DEF Op, OpRec, Formed, OfUsers, OfLoop, Writing, Moving
<1>2. /\ ActsTyped' /\ OneHalf' /\ Crowd' /\ OthersAct(u) /\ NobodyHalf
      /\ act[u] = Idle /\ act'[u] = o /\ At(p) = {} /\ events[p] = <<>>
  <2>1. act' = [act EXCEPT ![u] = o] /\ Alone(p) /\ May(u, "delete")
    BY DEF DeleteDisk
  <2> HIDE DEF o
  <2>2. Alone(o.path) /\ Alone(o.to)
    BY <1>1, <2>1
  <2>3. /\ ActsTyped' /\ OneHalf' /\ Crowd' /\ OthersAct(u) /\ NobodyHalf
        /\ act[u] = Idle /\ act'[u] = o
        /\ \A x \in {o.path, o.to} : At(x) = {} /\ events[x] = <<>>
    BY <1>1, <2>1, <2>2, UserActs, EntersAlone
  <2> QED BY <1>1, <2>3
<1>3. f \in [Paths -> Texts \cup {None}] /\ Put(f)
  BY DEF DeleteDisk, Shape, Typed
<1>4. Wrote(f) /\ disk' \in [Paths -> Texts \cup {None}] /\ events' \in [Paths -> Seq(EventKinds)]
  <2> HIDE DEF f
  <2> QED BY <1>3, PutNotices DEF Shape, Wrote
<1>5. Typed'
  BY <1>4 DEF DeleteDisk, Shape, Typed
<1> QED BY <1>1, <1>2, <1>4, <1>5 DEF Shape

LEMMA MoveDiskDoes ==
  ASSUME Shape, OneProcess, Apart, NEW u \in Users, NEW p \in Paths, NEW q \in Paths,
         MoveDisk(u, p, q)
  PROVE  /\ Shape' /\ OthersAct(u) /\ NobodyHalf /\ act[u] = Idle
         /\ act'[u] = Op("half", "move", p, q, rows[p], 0, None) /\ act'[u] \in OpRec
         /\ At(p) = {} /\ At(q) = {} /\ events[p] = <<>> /\ events[q] = <<>>
         /\ p # q /\ rows[p] # None /\ disk[p] # None /\ disk[q] = None
         /\ Wrote([disk EXCEPT ![p] = None, ![q] = disk[p]])
<1> DEFINE o == Op("half", "move", p, q, rows[p], 0, None)
           f == [disk EXCEPT ![p] = None, ![q] = disk[p]]
<1>1. p # q /\ rows[p] # None /\ disk[p] # None /\ disk[q] = None
  BY DEF MoveDisk
<1>2. o \in OpRec /\ Formed(u, o) /\ o.path = p /\ o.to = q
  <2>1. rows[p] \in Row /\ 0 \in 0..MaxTexts
    BY Bounds DEF MoveDisk, Shape, Typed
  <2> QED BY <1>1, <2>1, Bounds, UserActs DEF Op, OpRec, Formed, OfUsers, OfLoop, Writing, Moving
<1>3. /\ ActsTyped' /\ OneHalf' /\ Crowd' /\ OthersAct(u) /\ NobodyHalf
      /\ act[u] = Idle /\ act'[u] = o
      /\ At(p) = {} /\ At(q) = {} /\ events[p] = <<>> /\ events[q] = <<>>
  <2>1. act' = [act EXCEPT ![u] = o] /\ Alone(p) /\ Alone(q) /\ May(u, "move")
    BY DEF MoveDisk
  <2> HIDE DEF o
  <2> QED BY <1>2, <2>1, UserActs, EntersAlone
<1>4. f \in [Paths -> Texts \cup {None}] /\ Put(f)
  BY <1>1 DEF MoveDisk, Renamed, Shape, Typed
<1>5. Wrote(f) /\ disk' \in [Paths -> Texts \cup {None}] /\ events' \in [Paths -> Seq(EventKinds)]
  <2> HIDE DEF f
  <2> QED BY <1>4, PutNotices DEF Shape, Wrote
<1>6. Typed'
  BY <1>5 DEF MoveDisk, Shape, Typed
<1> QED BY <1>1, <1>2, <1>3, <1>5, <1>6 DEF Shape

LEMMA RestoreDiskDoes ==
  ASSUME Shape, OneProcess, Apart, NEW u \in Users, NEW p \in Paths, RestoreDisk(u, p)
  PROVE  \E t \in 1..texts \ remote :
         /\ Shape' /\ OthersAct(u) /\ NobodyHalf /\ act[u] = Idle
         /\ act'[u] = Op("half", "restore", p, p, None, t, None) /\ act'[u] \in OpRec
         /\ At(p) = {} /\ events[p] = <<>>
         /\ Wrote([disk EXCEPT ![p] = t])
<1>1. PICK t \in 1..texts \ remote :
        /\ Put([disk EXCEPT ![p] = t])
        /\ act' = [act EXCEPT ![u] = Op("half", "restore", p, p, None, t, None)]
  BY DEF RestoreDisk
<1> DEFINE o == Op("half", "restore", p, p, None, t, None)
           f == [disk EXCEPT ![p] = t]
<1>2. t \in Texts /\ t \in 0..MaxTexts
  BY Bounds DEF Shape, Typed, Texts
<1>3. o \in OpRec /\ Formed(u, o) /\ o.path = p /\ o.to = p
  BY <1>2, Bounds, UserActs DEF Op, OpRec, Formed, OfUsers, OfLoop, Writing, Moving
<1>4. /\ ActsTyped' /\ OneHalf' /\ Crowd' /\ OthersAct(u) /\ NobodyHalf
      /\ act[u] = Idle /\ act'[u] = o /\ At(p) = {} /\ events[p] = <<>>
  <2>1. act' = [act EXCEPT ![u] = o] /\ Alone(p) /\ May(u, "restore")
    BY <1>1 DEF RestoreDisk
  <2> HIDE DEF o
  <2>2. Alone(o.path) /\ Alone(o.to)
    BY <1>3, <2>1
  <2>3. /\ ActsTyped' /\ OneHalf' /\ Crowd' /\ OthersAct(u) /\ NobodyHalf
        /\ act[u] = Idle /\ act'[u] = o
        /\ \A x \in {o.path, o.to} : At(x) = {} /\ events[x] = <<>>
    BY <1>3, <2>1, <2>2, UserActs, EntersAlone
  <2> QED BY <1>3, <2>3
<1>5. f \in [Paths -> Texts \cup {None}] /\ Put(f)
  BY <1>1, <1>2 DEF Shape, Typed
<1>6. Wrote(f) /\ disk' \in [Paths -> Texts \cup {None}] /\ events' \in [Paths -> Seq(EventKinds)]
  <2> HIDE DEF f
  <2> QED BY <1>5, PutNotices DEF Shape, Wrote
<1>7. Typed'
  BY <1>6 DEF RestoreDisk, Shape, Typed
<1> QED BY <1>3, <1>4, <1>6, <1>7 DEF Shape

LEMMA CommitDeleteDoes ==
  ASSUME Shape, NEW u \in Users, CommitDelete(u)
  PROVE  Shape' /\ OthersAct(u) /\ HalfOf(u, {"delete"}) /\ act[u].to = act[u].path /\ act'[u] = Idle
<1>1. /\ ActsTyped' /\ OneHalf' /\ Crowd' /\ OthersAct(u)
      /\ HalfOf(u, {"delete"}) /\ act'[u] = Idle
  BY UserActs, ToIdle DEF CommitDelete
<1>2. act[u].to = act[u].path /\ act[u].row \in Row
  BY <1>1 DEF HalfOf, OpRec, Formed, Moving
<1>3. rows' \in [Paths -> Row \cup {None}]
  BY DEF CommitDelete, Shape, Typed
<1>4. /\ shared' \in [Gids -> [path : Paths, text : Texts] \cup {None}]
      /\ unsaid' \subseteq Gids
  BY <1>2, SaidGone, GidOfType DEF CommitDelete, Shape
<1>5. torn' \subseteq Paths
  BY <1>1 DEF CommitDelete, HalfOf, OpRec, Shape, Typed
<1>6. Typed'
  BY <1>3, <1>4, <1>5 DEF CommitDelete, Shape, Typed
<1> QED BY <1>1, <1>2, <1>6 DEF Shape

LEMMA FailDeleteDoes ==
  ASSUME Shape, NEW u \in Users, FailDelete(u)
  PROVE  Shape' /\ OthersAct(u) /\ HalfOf(u, {"delete"}) /\ act[u].to = act[u].path /\ act'[u] = Idle
<1>1. /\ ActsTyped' /\ OneHalf' /\ Crowd' /\ OthersAct(u)
      /\ HalfOf(u, {"delete"}) /\ act'[u] = Idle
  BY UserActs, ToIdle DEF FailDelete
<1>2. act[u].to = act[u].path
  BY <1>1 DEF HalfOf, OpRec, Formed, Moving
<1>3. Typed'
  BY DEF FailDelete, Shape, Typed
<1> QED BY <1>1, <1>2, <1>3 DEF Shape

LEMMA MovedTyped ==
  ASSUME Typed, NEW id, NEW q \in Paths, WithId(id) # {}
  PROVE  MovedRow(id, q) \in [Paths -> Row \cup {None}]
<1>1. \A x \in WithId(id) : x \in Paths /\ rows[x] \in Row
  BY DEF WithId, Typed
<1>2. (CHOOSE x \in WithId(id) : TRUE) \in WithId(id)
  OBVIOUS
<1> QED BY <1>1, <1>2 DEF MovedRow, Typed

LEMMA CommitMoveDoes ==
  ASSUME Shape, NEW u \in Users, CommitMove(u)
  PROVE  Shape' /\ OthersAct(u) /\ HalfOf(u, {"move"}) /\ act[u].to # act[u].path /\ act'[u] = Idle
<1> DEFINE g == GidOf(act[u].row)
<1>1. /\ ActsTyped' /\ OneHalf' /\ Crowd' /\ OthersAct(u)
      /\ HalfOf(u, {"move"}) /\ act'[u] = Idle
  BY UserActs, ToIdle DEF CommitMove
<1>2. act[u].to # act[u].path /\ act[u].to \in Paths /\ act[u].row \in Row
  BY <1>1 DEF HalfOf, OpRec, Formed, Moving
<1>3. rows' \in [Paths -> Row \cup {None}]
  BY <1>2, MovedTyped DEF CommitMove, Shape, Typed
<1>4. shared' \in [Gids -> [path : Paths, text : Texts] \cup {None}]
  <2>1. g \in Gids
    BY <1>2, GidOfType
  <2>2. shared[g] # None => [shared[g] EXCEPT !.path = act[u].to] \in [path : Paths, text : Texts]
    BY <1>2, <2>1 DEF Shape, Typed
  <2>3. shared' = shared \/ (shared[g] # None /\ shared' = [shared EXCEPT ![g] = [shared[g] EXCEPT !.path = act[u].to]])
    BY <2>1 DEF CommitMove, Shape, Typed
  <2> HIDE DEF g
  <2> QED BY <2>1, <2>2, <2>3 DEF Shape, Typed
<1>5. torn' \subseteq Paths
  BY <1>2 DEF CommitMove, Spread, Shape, Typed
<1>6. Typed'
  BY <1>3, <1>4, <1>5 DEF CommitMove, Shape, Typed
<1> QED BY <1>1, <1>2, <1>6 DEF Shape

LEMMA FailMoveDoes ==
  ASSUME Shape, NEW u \in Users, FailMove(u)
  PROVE  Shape' /\ OthersAct(u) /\ HalfOf(u, {"move"}) /\ act[u].to # act[u].path /\ act'[u] = Idle
<1>1. /\ ActsTyped' /\ OneHalf' /\ Crowd' /\ OthersAct(u)
      /\ HalfOf(u, {"move"}) /\ act'[u] = Idle
  BY UserActs, ToIdle DEF FailMove
<1>2. act[u].to # act[u].path /\ act[u].to \in Paths /\ act[u].path \in Paths
  BY <1>1 DEF HalfOf, OpRec, Formed, Moving
<1>3. disk' \in [Paths -> Texts \cup {None}]
  BY <1>2 DEF FailMove, Unrenamed, Renamed, Shape, Typed
<1>4. events' \in [Paths -> Seq(EventKinds)]
  <2>1. ASSUME NEW p \in Paths, events[p] # <<>>
        PROVE  SubSeq(events[p], 1, Len(events[p]) - 1) \in Seq(EventKinds)
    <3>1. events[p] \in Seq(EventKinds)
      BY DEF Shape, Typed
    <3>2. Len(events[p]) \in Nat \ {0} /\ DOMAIN events[p] = 1..Len(events[p])
      BY <2>1, <3>1
    <3> QED BY <3>1, <3>2, SubSeqProperties
  <2> QED BY <2>1 DEF FailMove, Shape, Typed
<1>5. Typed'
  BY <1>3, <1>4 DEF FailMove, Shape, Typed
<1> QED BY <1>1, <1>2, <1>5 DEF Shape

LEMMA CommitRestoreDoes ==
  ASSUME Shape, NEW u \in Users, CommitRestore(u)
  PROVE  Shape' /\ OthersAct(u) /\ HalfOf(u, {"restore"}) /\ act[u].to = act[u].path /\ act'[u] = Idle
<1> DEFINE p == act[u].path
<1>1. /\ ActsTyped' /\ OneHalf' /\ Crowd' /\ OthersAct(u)
      /\ HalfOf(u, {"restore"}) /\ act'[u] = Idle
  BY UserActs, ToIdle DEF CommitRestore
<1>2. act[u].to = p /\ p \in Paths /\ act[u].text \in Texts
  BY <1>1 DEF HalfOf, OpRec, Formed, Moving
<1>3. rows[p] # None => [rows[p] EXCEPT !.text = act[u].text] \in Row /\ GidOf(rows[p]) \in Gids
  <2>1. rows[p] # None => rows[p] \in Row
    BY <1>2 DEF Shape, Typed
  <2> QED BY <1>2, <2>1, GidOfType DEF Row
<1>4. rows[p] # None => rows' = [rows EXCEPT ![p] = [rows[p] EXCEPT !.text = act[u].text]]
  BY <1>2 DEF CommitRestore, Shape, Typed
<1>5. rows' \in [Paths -> Row \cup {None}] /\ unsaid' \subseteq Gids /\ torn' \subseteq Paths
  BY <1>3, <1>4 DEF CommitRestore, Shape, Typed
<1>6. Typed'
  BY <1>5 DEF CommitRestore, Shape, Typed
<1> QED BY <1>1, <1>2, <1>6 DEF Shape

Unknown == {p \in Paths : disk[p] # None /\ rows[p] = None}
Stale == {p \in Paths : rows[p] # None /\ rows[p].text # disk[p]}

\* refreshIndex: what it gives each path.
Refreshed(p) ==
  IF p \in Unknown
    THEN \E id \in ids + 1..ids' : rows'[p] = [id |-> id, gid |-> None, text |-> disk[p]]
  ELSE IF p \in Stale
    THEN rows'[p] = IF disk[p] = None THEN None ELSE [rows[p] EXCEPT !.text = disk[p]]
  ELSE rows'[p] = rows[p]

LEMMA RefreshDoes ==
  ASSUME Shape, OneProcess, NEW u \in Users, Refresh(u)
  PROVE  /\ Shape' /\ NobodyHalf /\ act' = act
         /\ ids' \in ids..MaxRows
         /\ \A p \in Paths : Refreshed(p)
         /\ \A p, q \in Unknown : p # q => rows'[p].id # rows'[q].id
<1> DEFINE n == Cardinality(Unknown)
<1>1. n \in Nat
  BY FilesAssumption, FS_Subset, FS_CardinalityType DEF Unknown
<1>2. ids + n <= MaxRows /\ ids' = ids + n /\ act' = act
  BY DEF Refresh, Unknown
<1>3. ids' \in ids..MaxRows
  <2> HIDE DEF n
  <2> QED BY <1>1, <1>2, Bounds DEF Shape, Typed
<1>4. PICK id \in [Unknown -> ids + 1..ids'] :
        /\ \A p, q \in Unknown : p # q => id[p] # id[q]
        /\ rows' = [p \in Paths |->
                      CASE p \in Unknown -> [id |-> id[p], gid |-> None, text |-> disk[p]]
                        [] p \in Stale -> IF disk[p] = None THEN None
                                          ELSE [rows[p] EXCEPT !.text = disk[p]]
                        [] OTHER -> rows[p]]
  BY DEF Refresh, Unknown, Stale
<1>5. ASSUME NEW p \in Unknown
      PROVE  p \in Paths /\ id[p] \in ids + 1..ids'
             /\ rows'[p] = [id |-> id[p], gid |-> None, text |-> disk[p]] /\ rows'[p].id = id[p]
  <2>1. p \in Paths /\ p \notin Stale
    BY DEF Unknown, Stale
  <2>2. rows'[p] = [id |-> id[p], gid |-> None, text |-> disk[p]]
    BY <1>4, <2>1
  <2> QED BY <1>4, <2>1, <2>2
<1>6. ASSUME NEW p \in Paths PROVE Refreshed(p)
  <2>1. CASE p \in Unknown
    BY <1>5, <2>1 DEF Refreshed
  <2>2. CASE p \notin Unknown /\ p \in Stale
    BY <1>4, <2>2 DEF Refreshed
  <2>3. CASE p \notin Unknown /\ p \notin Stale
    BY <1>4, <2>3 DEF Refreshed
  <2> QED BY <2>1, <2>2, <2>3
<1>7. \A p, q \in Unknown : p # q => rows'[p].id # rows'[q].id
  <2>1. \A p, q \in Unknown : p # q => id[p] # id[q]
    BY <1>4
  <2>2. \A p \in Unknown : rows'[p].id = id[p]
    BY <1>5
  <2> QED BY <2>1, <2>2
<1>8. ASSUME NEW p \in Paths PROVE rows'[p] \in Row \cup {None}
  <2>1. CASE p \in Unknown
    <3>1. id[p] \in 1..MaxRows
      BY <1>3, <1>5, <2>1, Bounds DEF Shape, Typed
    <3>2. disk[p] \in Texts
      BY <2>1 DEF Unknown, Shape, Typed
    <3>3. [id |-> id[p], gid |-> None, text |-> disk[p]] \in Row
      BY <3>1, <3>2 DEF Row
    <3> QED BY <1>5, <2>1, <3>3
  <2>2. CASE p \in Stale /\ p \notin Unknown
    <3>1. rows[p] \in Row /\ disk[p] \in Texts \cup {None}
      BY <2>2 DEF Stale, Shape, Typed
    <3>2. rows'[p] = IF disk[p] = None THEN None ELSE [rows[p] EXCEPT !.text = disk[p]]
      BY <1>6, <2>2 DEF Refreshed
    <3>3. disk[p] # None => [rows[p] EXCEPT !.text = disk[p]] \in Row
      BY <3>1 DEF Row
    <3> QED BY <3>2, <3>3
  <2>3. CASE p \notin Stale /\ p \notin Unknown
    BY <1>6, <2>3 DEF Refreshed, Shape, Typed
  <2> QED BY <2>1, <2>2, <2>3
<1>9. rows' \in [Paths -> Row \cup {None}]
  BY <1>4, <1>8
<1>10. unsaid' \subseteq Gids
  <2>1. ids + 1..ids' \subseteq Gids
    BY <1>3, Bounds DEF Gids, Shape, Typed
  <2>2. \A p \in Stale : GidOf(rows[p]) \in Gids
    BY GidOfType DEF Stale, Shape, Typed
  <2>3. unsaid' = unsaid \cup (ids + 1..ids') \cup {GidOf(rows[p]) : p \in Stale}
    BY DEF Refresh, Stale
  <2> QED BY <2>1, <2>2, <2>3 DEF Shape, Typed
<1>11. ids' \in 0..MaxRows
  BY <1>3, Bounds DEF Shape, Typed
<1>12. Typed'
  BY <1>9, <1>10, <1>11 DEF Refresh, Shape, Typed
<1>13. ActsTyped' /\ OneHalf' /\ Crowd'
  BY <1>2, ActSame DEF Shape
<1>14. NobodyHalf
  BY UserActs, Mine DEF Refresh, May
<1> QED BY <1>2, <1>3, <1>6, <1>7, <1>12, <1>13, <1>14 DEF Shape

LEMMA EditDoes ==
  ASSUME Shape, Apart, NEW p \in Paths, Edit(p)
  PROVE  /\ Shape' /\ At(p) = {} /\ events[p] = <<>>
         /\ texts' = texts + 1 /\ texts' \in Texts
         /\ Wrote([disk EXCEPT ![p] = texts'])
<1> DEFINE f == [disk EXCEPT ![p] = texts']
<1>1. At(p) = {} /\ events[p] = <<>>
  BY AloneAt DEF Edit
<1>2. texts' = texts + 1 /\ texts' \in Texts /\ texts' \in 0..MaxTexts
  BY Bounds DEF Edit, NewText, Texts, Shape, Typed
<1>3. f \in [Paths -> Texts \cup {None}] /\ Put(f)
  BY <1>2 DEF Edit, Shape, Typed
<1>4. Wrote(f) /\ disk' \in [Paths -> Texts \cup {None}] /\ events' \in [Paths -> Seq(EventKinds)]
  <2> HIDE DEF f
  <2> QED BY <1>3, PutNotices DEF Shape, Wrote
<1>5. Typed' /\ ActsTyped' /\ OneHalf' /\ Crowd'
  BY <1>2, <1>4, ActSame DEF Edit, Shape, Typed
<1> QED BY <1>1, <1>2, <1>4, <1>5 DEF Shape

LEMMA RemoveDoes ==
  ASSUME Shape, Apart, NEW p \in Paths, Remove(p)
  PROVE  /\ Shape' /\ At(p) = {} /\ events[p] = <<>>
         /\ Wrote([disk EXCEPT ![p] = None])
<1> DEFINE f == [disk EXCEPT ![p] = None]
<1>1. At(p) = {} /\ events[p] = <<>>
  BY AloneAt DEF Remove
<1>2. f \in [Paths -> Texts \cup {None}] /\ Put(f)
  BY DEF Remove, Shape, Typed
<1>3. Wrote(f) /\ disk' \in [Paths -> Texts \cup {None}] /\ events' \in [Paths -> Seq(EventKinds)]
  <2> HIDE DEF f
  <2> QED BY <1>2, PutNotices DEF Shape, Wrote
<1>4. Typed' /\ ActsTyped' /\ OneHalf' /\ Crowd'
  BY <1>3, ActSame DEF Remove, Shape, Typed
<1> QED BY <1>1, <1>3, <1>4 DEF Shape

\* A handler takes the oldest event of its path.
LEMMA HandleDoes ==
  ASSUME Shape, OneProcess, NEW p \in Paths, NEW kind, Handle(p, kind)
  PROVE  /\ NobodyHalf /\ act' = act /\ ActsTyped' /\ OneHalf' /\ Crowd'
         /\ events[p] # <<>> /\ Head(events[p]) = kind
         /\ events'[p] = Tail(events[p])
         /\ \A q \in Paths \ {p} : events'[q] = events[q]
         /\ events' \in [Paths -> Seq(EventKinds)]
         /\ UNCHANGED <<disk, texts, remote>>
<1>1. events' = [events EXCEPT ![p] = Tail(events[p])] /\ events[p] # <<>>
      /\ Head(events[p]) = kind /\ act' = act
  BY DEF Handle
<1>2. events[p] \in Seq(EventKinds)
  BY DEF Shape, Typed
<1>3. Tail(events[p]) \in Seq(EventKinds)
  BY <1>1, <1>2
<1>4. events' \in [Paths -> Seq(EventKinds)]
  BY <1>1, <1>3 DEF Shape, Typed
<1>5. NobodyHalf
  BY Mine DEF Handle
<1> QED BY <1>1, <1>4, <1>5, ActSame DEF Handle, Shape, Typed

LEMMA IngestTyped ==
  ASSUME Typed, NEW p \in Paths, Ingest(p)
  PROVE  /\ rows' \in [Paths -> Row \cup {None}] /\ ids' \in 0..MaxRows
         /\ shared' \in [Gids -> [path : Paths, text : Texts] \cup {None}]
         /\ unsaid' \subseteq Gids
<1>1. CASE rows[p] # None \/ disk[p] = None
  BY <1>1 DEF Ingest, Ignored, Typed
<1>2. CASE rows[p] = None /\ disk[p] # None
  <2>1. ids' \in 1..MaxRows /\ ids' \in 0..MaxRows /\ ids' \in Gids
    BY <1>2, Bounds DEF Ingest, Typed, Gids
  <2>2. disk[p] \in Texts
    BY <1>2 DEF Typed
  <2>3. rows' \in [Paths -> Row \cup {None}]
    <3>1. rows' = [rows EXCEPT ![p] = [id |-> ids', gid |-> ids', text |-> disk[p]]]
      BY <1>2 DEF Ingest
    <3>2. [id |-> ids', gid |-> ids', text |-> disk[p]] \in Row
      BY <2>1, <2>2 DEF Row
    <3> QED BY <3>1, <3>2 DEF Typed
  <2> QED BY <1>2, <2>1, <2>2, <2>3, Said DEF Ingest
<1> QED BY <1>1, <1>2

LEMMA HandleTyped ==
  ASSUME Shape, OneProcess, NEW p \in Paths, HandleAdd(p) \/ HandleChange(p) \/ HandleUnlink(p)
  PROVE  Shape'
<1>1. /\ rows' \in [Paths -> Row \cup {None}] /\ ids' \in 0..MaxRows
      /\ shared' \in [Gids -> [path : Paths, text : Texts] \cup {None}]
      /\ unsaid' \subseteq Gids
  <2>1. rows[p] # None => rows[p] \in Row /\ GidOf(rows[p]) \in Gids
    BY GidOfType DEF Shape, Typed
  <2>2. CASE UNCHANGED <<rows, ids, shared, unsaid>>
    BY <2>2 DEF Shape, Typed
  <2>3. CASE Ingest(p)
    BY <2>3, IngestTyped DEF Shape
  <2>4. CASE /\ rows[p] # None /\ disk[p] # None
             /\ rows' = [rows EXCEPT ![p] = [rows[p] EXCEPT !.text = disk[p]]]
             /\ Say(GidOf(rows[p]), p, disk[p]) /\ UNCHANGED ids
    <3>1. disk[p] \in Texts
      BY <2>4 DEF Shape, Typed
    <3>2. [rows[p] EXCEPT !.text = disk[p]] \in Row
      BY <2>1, <2>4, <3>1 DEF Row
    <3>3. rows' \in [Paths -> Row \cup {None}]
      BY <2>4, <3>2 DEF Shape, Typed
    <3> QED BY <2>1, <2>4, <3>1, <3>3, Said DEF Shape, Typed
  <2>5. CASE /\ rows[p] # None /\ rows' = [rows EXCEPT ![p] = None]
             /\ SayGone(GidOf(rows[p])) /\ UNCHANGED ids
    BY <2>1, <2>5, SaidGone DEF Shape, Typed
  <2>6. HandleChange(p) => <2>2!1 \/ <2>3!1 \/ <2>4!1
    BY DEF HandleChange, Ignored, Shape, Typed
  <2> QED BY <2>2, <2>3, <2>4, <2>5, <2>6 DEF HandleAdd, HandleUnlink, Ignored
<1>2. PICK kind : Handle(p, kind)
  BY DEF HandleAdd, HandleChange, HandleUnlink
<1>3. /\ ActsTyped' /\ OneHalf' /\ Crowd' /\ events' \in [Paths -> Seq(EventKinds)]
      /\ UNCHANGED <<disk, texts, remote, torn>>
  BY <1>2, HandleDoes DEF HandleAdd, HandleChange, HandleUnlink
<1>4. Typed'
  BY <1>1, <1>3 DEF Shape, Typed
<1> QED BY <1>3, <1>4 DEF Shape

\* A handler whose transaction fails has taken its event all the same.
LEMMA FailHandleDoes ==
  ASSUME Shape, OneProcess, NEW p \in Paths, FailHandle(p)
  PROVE  /\ Shape' /\ NobodyHalf /\ act' = act
         /\ events[p] # <<>> /\ events'[p] = Tail(events[p])
         /\ \A q \in Paths \ {p} : events'[q] = events[q]
         /\ torn' = torn \cup {p}
         /\ UNCHANGED <<disk, rows, ids, texts, shared, remote, unsaid>>
<1>1. PICK kind : Handle(p, kind)
  BY DEF FailHandle
<1>2. torn' = torn \cup {p} /\ UNCHANGED <<rows, ids, shared, unsaid>>
  BY DEF FailHandle, Ignored
<1>3. /\ NobodyHalf /\ act' = act /\ ActsTyped' /\ OneHalf' /\ Crowd'
      /\ events[p] # <<>> /\ events'[p] = Tail(events[p])
      /\ \A q \in Paths \ {p} : events'[q] = events[q]
      /\ events' \in [Paths -> Seq(EventKinds)]
      /\ UNCHANGED <<disk, texts, remote>>
  BY <1>1, HandleDoes
<1>4. Typed'
  BY <1>2, <1>3 DEF Shape, Typed
<1> QED BY <1>2, <1>3, <1>4 DEF Shape

LEMMA LoopActs == Loop \in Actors
BY DEF Actors

LEMMA PullWriteDoes ==
  ASSUME Shape, OneProcess, Apart, NEW g \in Gids, NEW p \in Paths, PullWrite(g, p)
  PROVE  /\ Shape' /\ OthersAct(Loop) /\ NobodyHalf /\ act[Loop] = Idle
         /\ act'[Loop] = Op("half", "pull", p, p, None, texts', None) /\ act'[Loop] \in OpRec
         /\ At(p) = {} /\ events[p] = <<>>
         /\ texts' = texts + 1 /\ texts' \in Texts
<1> DEFINE o == Op("half", "pull", p, p, None, texts', None)
           id == IF rows[p] = None THEN ids + 1 ELSE rows[p].id
<1>1. texts' = texts + 1 /\ texts' \in Texts /\ texts' \in 0..MaxTexts
  BY Bounds DEF PullWrite, NewText, Texts, Shape, Typed
<1>2. o \in OpRec /\ Formed(Loop, o) /\ o.path = p /\ o.to = p
  BY <1>1, Bounds DEF Op, OpRec, Formed, OfUsers, OfLoop, Writing, Moving
<1>3. /\ ActsTyped' /\ OneHalf' /\ Crowd' /\ OthersAct(Loop) /\ NobodyHalf
      /\ act[Loop] = Idle /\ act'[Loop] = o /\ At(p) = {} /\ events[p] = <<>>
  <2>1. act' = [act EXCEPT ![Loop] = o] /\ Alone(p) /\ May(Loop, "pull")
    BY DEF PullWrite, Pull
  <2> HIDE DEF o
  <2>2. Alone(o.path) /\ Alone(o.to)
    BY <1>2, <2>1
  <2>3. /\ ActsTyped' /\ OneHalf' /\ Crowd' /\ OthersAct(Loop) /\ NobodyHalf
        /\ act[Loop] = Idle /\ act'[Loop] = o
        /\ \A x \in {o.path, o.to} : At(x) = {} /\ events[x] = <<>>
    BY <1>2, <2>1, <2>2, LoopActs, EntersAlone
  <2> QED BY <1>2, <2>3
<1>4. id \in 1..MaxRows
  <2>1. rows[p] # None => rows[p] \in Row
    BY DEF Shape, Typed
  <2> QED BY <2>1, Bounds DEF PullWrite, Shape, Typed, Row
<1>5. ids' \in 0..MaxRows
  BY <1>4 DEF PullWrite, Shape, Typed
<1>6. rows' \in [Paths -> Row \cup {None}]
  <2>1. rows' = [rows EXCEPT ![p] = [id |-> id, gid |-> g, text |-> texts']]
    BY DEF PullWrite
  <2>2. [id |-> id, gid |-> g, text |-> texts'] \in Row
    BY <1>1, <1>4 DEF Row
  <2> HIDE DEF id
  <2> QED BY <2>1, <2>2 DEF Shape, Typed
<1>7. /\ shared' \in [Gids -> [path : Paths, text : Texts] \cup {None}]
      /\ unsaid' \subseteq Gids
  BY <1>1, Said DEF PullWrite, Shape
<1>8. Typed'
  BY <1>1, <1>5, <1>6, <1>7 DEF PullWrite, Pull, Shape, Typed
<1> QED BY <1>1, <1>2, <1>3, <1>8 DEF Shape

LEMMA PullDeleteDoes ==
  ASSUME Shape, OneProcess, Apart, NEW p \in Paths, PullDelete(p)
  PROVE  /\ Shape' /\ OthersAct(Loop) /\ NobodyHalf /\ act[Loop] = Idle
         /\ act'[Loop] = Op("half", "pulldelete", p, p, None, 0, None) /\ act'[Loop] \in OpRec
         /\ At(p) = {} /\ events[p] = <<>>
<1> DEFINE o == Op("half", "pulldelete", p, p, None, 0, None)
<1>1. 0 \in 0..MaxTexts
  BY Bounds
<1>2. o \in OpRec /\ Formed(Loop, o) /\ o.path = p /\ o.to = p
  BY <1>1, Bounds DEF Op, OpRec, Formed, OfUsers, OfLoop, Writing, Moving
<1>3. /\ ActsTyped' /\ OneHalf' /\ Crowd' /\ OthersAct(Loop) /\ NobodyHalf
      /\ act[Loop] = Idle /\ act'[Loop] = o /\ At(p) = {} /\ events[p] = <<>>
  <2>1. act' = [act EXCEPT ![Loop] = o] /\ Alone(p) /\ May(Loop, "pulldelete")
    BY DEF PullDelete, Pull
  <2> HIDE DEF o
  <2>2. Alone(o.path) /\ Alone(o.to)
    BY <1>2, <2>1
  <2>3. /\ ActsTyped' /\ OneHalf' /\ Crowd' /\ OthersAct(Loop) /\ NobodyHalf
        /\ act[Loop] = Idle /\ act'[Loop] = o
        /\ \A x \in {o.path, o.to} : At(x) = {} /\ events[x] = <<>>
    BY <1>2, <2>1, <2>2, LoopActs, EntersAlone
  <2> QED BY <1>2, <2>3
<1>4. rows[p] \in Row /\ rows[p].gid \in Gids
  BY DEF PullDelete, Shape, Typed, Row
<1>5. /\ shared' \in [Gids -> [path : Paths, text : Texts] \cup {None}]
      /\ unsaid' \subseteq Gids
  BY <1>4, SaidGone DEF PullDelete, Shape
<1>6. Typed'
  BY <1>5 DEF PullDelete, Pull, Shape, Typed
<1> QED BY <1>2, <1>3, <1>6 DEF Shape

LEMMA PullMoveDoes ==
  ASSUME Shape, OneProcess, Apart, NEW p \in Paths, NEW q \in Paths, PullMove(p, q)
  PROVE  /\ Shape' /\ OthersAct(Loop) /\ NobodyHalf /\ act[Loop] = Idle
         /\ act'[Loop] = Op("half", "pullmove", p, q, None, 0, None) /\ act'[Loop] \in OpRec
         /\ At(p) = {} /\ events[p] = <<>> /\ At(q) = {} /\ events[q] = <<>>
<1> DEFINE o == Op("half", "pullmove", p, q, None, 0, None)
           g == rows[p].gid
<1>1. 0 \in 0..MaxTexts /\ p # q
  BY Bounds DEF PullMove
<1>2. o \in OpRec /\ Formed(Loop, o) /\ o.path = p /\ o.to = q
  BY <1>1, Bounds DEF Op, OpRec, Formed, OfUsers, OfLoop, Writing, Moving
<1>3. /\ ActsTyped' /\ OneHalf' /\ Crowd' /\ OthersAct(Loop) /\ NobodyHalf
      /\ act[Loop] = Idle /\ act'[Loop] = o
      /\ At(p) = {} /\ events[p] = <<>> /\ At(q) = {} /\ events[q] = <<>>
  <2>1. act' = [act EXCEPT ![Loop] = o] /\ Alone(p) /\ Alone(q) /\ May(Loop, "pullmove")
    BY DEF PullMove, Pull
  <2> HIDE DEF o
  <2>2. Alone(o.path) /\ Alone(o.to)
    BY <1>2, <2>1
  <2>3. /\ ActsTyped' /\ OneHalf' /\ Crowd' /\ OthersAct(Loop) /\ NobodyHalf
        /\ act[Loop] = Idle /\ act'[Loop] = o
        /\ \A x \in {o.path, o.to} : At(x) = {} /\ events[x] = <<>>
    BY <1>2, <2>1, <2>2, LoopActs, EntersAlone
  <2> QED BY <1>2, <2>3
<1>4. rows[p] \in Row /\ g \in Gids /\ shared[g] # None
  BY DEF PullMove, Shape, Typed, Row
<1>5. rows' \in [Paths -> Row \cup {None}]
  <2>1. p \in WithId(rows[p].id)
    BY <1>4, Bounds DEF WithId
  <2> QED BY <2>1, MovedTyped DEF PullMove, Shape
<1>6. shared' \in [Gids -> [path : Paths, text : Texts] \cup {None}]
  <2>1. shared' = [shared EXCEPT ![g] = [shared[g] EXCEPT !.path = q]]
    BY <1>4 DEF PullMove, Shape, Typed
  <2>2. [shared[g] EXCEPT !.path = q] \in [path : Paths, text : Texts]
    BY <1>4 DEF Shape, Typed
  <2> HIDE DEF g
  <2> QED BY <2>1, <2>2 DEF Shape, Typed
<1>7. Typed'
  BY <1>5, <1>6 DEF PullMove, Pull, Shape, Typed
<1> QED BY <1>2, <1>3, <1>7 DEF Shape

LEMMA PullAgainDoes ==
  ASSUME Shape, OneProcess, PullAgain
  PROVE  /\ Shape' /\ OthersAct(Loop) /\ NobodyHalf
         /\ act[Loop] \in OpRec /\ act[Loop].pc = "again" /\ act[Loop].kind \in OfLoop
         /\ act'[Loop] = IF act[Loop].kind = "pull" THEN Onto(act[Loop], "half") ELSE Idle
         /\ UNCHANGED <<disk, rows, ids, events, texts, shared, remote, torn, unsaid>>
<1>1. NobodyHalf /\ act[Loop].pc = "again" /\ act[Loop] # Idle
  BY LoopActs, Mine DEF PullAgain, Idle
<1>2. act[Loop] \in OpRec /\ act[Loop].kind \in OfLoop
  BY <1>1, LoopActs, Pcs DEF Shape, Formed
<1>3. UNCHANGED <<disk, rows, ids, events, texts, shared, remote, torn, unsaid>>
  BY DEF PullAgain
<1>4. Typed'
  BY <1>3 DEF Shape, Typed
<1>5. CASE act[Loop].kind = "pull"
  <2> DEFINE o == Onto(act[Loop], "half")
  <2>1. ActsTyped' /\ act'[Loop] = o /\ OthersAct(Loop)
    BY <1>1, <1>5, LoopActs, Stepped DEF PullAgain, Shape, OthersAct, Writing
  <2>2. o \in OpRec /\ o.path = act[Loop].path /\ o.to = act[Loop].to /\ o.kind = act[Loop].kind
    BY <1>2, Fields
  <2> HIDE DEF o
  <2>3. OneHalf' /\ Crowd'
    BY <1>1, <2>1, <2>2, LoopActs, Stays DEF Shape, OthersAct
  <2> QED BY <1>1, <1>2, <1>3, <1>4, <1>5, <2>1, <2>3 DEF Shape, o
<1>6. CASE act[Loop].kind # "pull"
  <2>1. ActsTyped' /\ act'[Loop] = Idle /\ OthersAct(Loop)
    BY <1>6, LoopActs, Finished DEF PullAgain, Shape, OthersAct
  <2>2. OneHalf' /\ Crowd'
    BY <2>1, LoopActs, Leaves DEF Shape, OthersAct
  <2> QED BY <1>1, <1>2, <1>3, <1>4, <1>6, <2>1, <2>2 DEF Shape
<1> QED BY <1>5, <1>6

LEMMA PullDiskDoes ==
  ASSUME Shape, PullDisk
  PROVE  /\ Shape' /\ OthersAct(Loop) /\ HalfOf(Loop, OfLoop) /\ act'[Loop] = Idle
         /\ Wrote(Pulled)
<1>1. act[Loop].kind \in OfLoop
  <2>1. act[Loop] # Idle
    BY DEF PullDisk, Idle
  <2> QED BY <2>1, LoopActs, Pcs DEF Shape, Formed
<1>2. /\ ActsTyped' /\ OneHalf' /\ Crowd' /\ OthersAct(Loop)
      /\ HalfOf(Loop, OfLoop) /\ act'[Loop] = Idle
  BY <1>1, LoopActs, ToIdle DEF PullDisk
<1>3. /\ act[Loop].path \in Paths /\ act[Loop].to \in Paths
      /\ act[Loop].kind = "pull" => act[Loop].text \in Texts
  BY <1>2 DEF HalfOf, Formed, OpRec
<1>4. Pulled \in [Paths -> Texts \cup {None}] /\ Put(Pulled)
  <2>1. disk \in [Paths -> Texts \cup {None}]
    BY DEF Shape, Typed
  <2>2. CASE act[Loop].kind = "pull"
    BY <1>3, <2>1, <2>2 DEF PullDisk, Pulled
  <2>3. CASE act[Loop].kind = "pulldelete"
    BY <1>3, <2>1, <2>3 DEF PullDisk, Pulled
  <2>4. CASE act[Loop].kind \notin {"pull", "pulldelete"}
    BY <1>3, <2>1, <2>4 DEF PullDisk, Pulled, Renamed
  <2> QED BY <2>2, <2>3, <2>4
<1>5. /\ Wrote(Pulled) /\ disk' \in [Paths -> Texts \cup {None}]
      /\ events' \in [Paths -> Seq(EventKinds)]
  BY <1>4, PutNotices DEF Shape, Wrote
<1>6. torn' \subseteq Paths
  BY <1>3 DEF PullDisk, Spread, Shape, Typed
<1>7. Typed'
  BY <1>5, <1>6 DEF PullDisk, Shape, Typed
<1> QED BY <1>2, <1>5, <1>7 DEF Shape

\* The disk half does not come off: the op is applied again, or is over.
LEMMA FailPullDoes ==
  ASSUME Shape, FailPull
  PROVE  /\ Shape' /\ OthersAct(Loop) /\ HalfOf(Loop, OfLoop)
         /\ act'[Loop] = Idle \/ act'[Loop] = Onto(act[Loop], "again")
         /\ torn' = torn \cup {act[Loop].path, act[Loop].to}
         /\ UNCHANGED <<disk, rows, ids, events, texts, shared, remote, unsaid>>
<1>1. HalfOf(Loop, OfLoop) /\ act[Loop] # Idle
  <2>1. act[Loop] # Idle /\ act[Loop].pc = "half"
    BY DEF FailPull, Idle
  <2>2. act[Loop].kind \in OfLoop
    BY <2>1, LoopActs, Pcs DEF Shape, Formed
  <2> QED BY <2>1, <2>2, LoopActs, InHalf
<1>2. /\ torn' = torn \cup {act[Loop].path, act[Loop].to}
      /\ UNCHANGED <<disk, rows, ids, events, texts, shared, remote, unsaid>>
  BY DEF FailPull
<1>3. Typed'
  <2>1. act[Loop].path \in Paths /\ act[Loop].to \in Paths
    BY <1>1 DEF HalfOf, OpRec
  <2> QED BY <1>2, <2>1 DEF Shape, Typed
<1>4. CASE Finish(Loop)
  <2>1. ActsTyped' /\ act'[Loop] = Idle /\ OthersAct(Loop)
    BY <1>4, LoopActs, Finished DEF Shape, OthersAct
  <2>2. OneHalf' /\ Crowd'
    BY <2>1, LoopActs, Leaves DEF Shape, OthersAct
  <2> QED BY <1>1, <1>2, <1>3, <2>1, <2>2 DEF Shape
<1>5. CASE Step(Loop, "again")
  <2> DEFINE o == Onto(act[Loop], "again")
  <2>1. ActsTyped' /\ act'[Loop] = o /\ OthersAct(Loop)
    <3>1. act[Loop].kind \notin Writing
      BY <1>1 DEF HalfOf, OfLoop, Writing
    <3> QED BY <1>1, <1>5, <3>1, LoopActs, Stepped DEF Shape, OthersAct
  <2>2. /\ o \in OpRec /\ o.path = act[Loop].path /\ o.to = act[Loop].to
        /\ o.kind = act[Loop].kind /\ o.pc = "again"
    BY <1>1, Fields DEF HalfOf
  <2> HIDE DEF o
  <2>3. OneHalf' /\ Crowd'
    BY <1>1, <2>1, <2>2, LoopActs, Stays DEF Shape, OthersAct
  <2> QED BY <1>1, <1>2, <1>3, <2>1, <2>3 DEF Shape, o
<1> QED BY <1>4, <1>5 DEF FailPull

LEMMA CrashDoes ==
  ASSUME Shape, OneProcess, NEW a \in Actors, Crash(Host[a])
  PROVE  /\ Shape' /\ torn \subseteq torn'
         /\ \A b \in Actors : act'[b] = IF b = Loop /\ act[b] # Idle THEN Onto(act[b], "again") ELSE Idle
         /\ \A p \in Paths : events'[p] = <<>>
         /\ \A p \in Paths \ torn' : events[p] = <<>> /\ \A b \in At(p) : ~Half(b)
         /\ UNCHANGED <<disk, rows, ids, texts, shared, remote, unsaid>>
<1> DEFINE halves == {b \in {c \in Actors : Host[c] = Host[a]} : Half(b)}
<1>1. \A b \in Actors : Host[b] = Host[a] /\ Host[a] = Watching
  BY DEF OneProcess
<1>2. halves = {b \in Actors : Half(b)}
  BY <1>1
<1>3. /\ events' = [p \in Paths |-> <<>>]
      /\ UNCHANGED <<disk, rows, ids, texts, shared, remote, unsaid>>
  BY <1>1 DEF Crash
<1>4. torn' = torn \cup {p \in Paths : events[p] # <<>>}
              \cup UNION {{act[b].path, act[b].to} : b \in halves}
  BY <1>1 DEF Crash, Half
<1>5. \A p \in Paths \ torn' : events[p] = <<>> /\ \A b \in At(p) : ~Half(b)
  BY <1>2, <1>4 DEF At
<1>6. act' = [b \in Actors |-> IF b = Loop /\ act[b] # Idle THEN Onto(act[b], "again") ELSE Idle]
  <2>1. act' = [b \in Actors |-> CASE b \notin Actors -> act[b]
                                   [] b = Loop /\ act[b] # Idle -> Onto(act[b], "again")
                                   [] OTHER -> Idle]
    BY <1>1 DEF Crash, Onto
  <2> QED BY <2>1
<1>7. \A b \in Actors : Half(b) => act[b] \in OpRec /\ Formed(b, act[b]) /\ act[b] # Idle
  BY Pcs DEF Shape, Half, Idle
<1>8. act[Loop] # Idle => Onto(act[Loop], "again") \in OpRec
                          /\ Formed(Loop, Onto(act[Loop], "again"))
  BY LoopActs, Pcs, Fields DEF Shape, Formed, OpRec, OfLoop, OfUsers, Writing
<1>9. ActsTyped'
  BY <1>6, <1>8 DEF ActsTyped
<1>10. \A b \in Actors : ~Half(b)' /\ (act'[b] # Idle => b = Loop)
  <2>1. act[Loop] # Idle => Onto(act[Loop], "again").pc = "again"
    BY LoopActs, Pcs, Fields DEF Shape
  <2> QED BY <1>6, <2>1 DEF Half, Idle
<1>11. OneHalf' /\ Crowd'
  <2>1. \A p \in Paths : \A b \in At(p)' : b = Loop
    BY <1>10 DEF At, Idle
  <2> QED BY <1>10, <2>1 DEF OneHalf, Crowd
<1>12. torn' \subseteq Paths
  BY <1>2, <1>4, <1>7 DEF OpRec, Shape, Typed
<1>13. Typed'
  BY <1>3, <1>12, EmptySeq DEF Shape, Typed
<1> QED BY <1>3, <1>4, <1>5, <1>6, <1>9, <1>11, <1>13 DEF Shape

LEMMA ShapeInit == Init => Shape
<1> SUFFICES ASSUME Init PROVE Shape
  OBVIOUS
<1>1. Typed
  BY Bounds, EmptySeq DEF Init, Typed
<1>2. ActsTyped
  BY DEF Init, ActsTyped
<1>3. OneHalf /\ Crowd
  BY DEF Init, OneHalf, Crowd, Half, Idle, At
<1> QED BY <1>1, <1>2, <1>3 DEF Shape

LEMMA ShapeNext ==
  ASSUME Shape, OneProcess, Apart, [Next]_vars
  PROVE  Shape'
<1>1. ASSUME NEW u \in Users,
             \/ WriteDisk(u) \/ CommitCreate(u) \/ CommitUpdate(u) \/ FailWrite(u) \/ Unlock(u)
             \/ CommitDelete(u) \/ FailDelete(u) \/ CommitMove(u) \/ FailMove(u)
             \/ CommitRestore(u) \/ Refresh(u)
      PROVE  Shape'
  BY <1>1, WriteDiskDoes, CommitCreateDoes, CommitUpdateDoes, FailWriteDoes, UnlockDoes,
     CommitDeleteDoes, FailDeleteDoes, CommitMoveDoes, FailMoveDoes, CommitRestoreDoes, RefreshDoes
<1>2. ASSUME NEW u \in Users, NEW p \in Paths,
             BeginWrite(u, p) \/ DeleteDisk(u, p) \/ RestoreDisk(u, p)
      PROVE  Shape'
  BY <1>2, BeginWriteDoes, DeleteDiskDoes, RestoreDiskDoes
<1>3. ASSUME NEW u \in Users, NEW p \in Paths, NEW q \in Paths, MoveDisk(u, p, q)
      PROVE  Shape'
  BY <1>3, MoveDiskDoes
<1>4. ASSUME NEW p \in Paths,
             \/ Edit(p) \/ Remove(p) \/ HandleAdd(p) \/ HandleChange(p) \/ HandleUnlink(p)
             \/ FailHandle(p) \/ PullDelete(p)
      PROVE  Shape'
  BY <1>4, EditDoes, RemoveDoes, HandleTyped, FailHandleDoes, PullDeleteDoes
<1>5. ASSUME NEW g \in Gids, NEW p \in Paths, PullWrite(g, p) PROVE Shape'
  BY <1>5, PullWriteDoes
<1>6. ASSUME NEW p \in Paths, NEW q \in Paths, PullMove(p, q) PROVE Shape'
  BY <1>6, PullMoveDoes
<1>7. ASSUME PullAgain \/ PullDisk \/ FailPull PROVE Shape'
  BY <1>7, PullAgainDoes, PullDiskDoes, FailPullDoes
<1>8. ASSUME NEW a \in Actors, Crash(Host[a]) PROVE Shape'
  BY <1>8, CrashDoes
<1>9. ASSUME UNCHANGED vars PROVE Shape'
  BY <1>9, ActSame DEF vars, Shape, Typed
<1> QED BY <1>1, <1>2, <1>3, <1>4, <1>5, <1>6, <1>7, <1>8, <1>9 DEF Next

-----------------------------------------------------------------------------
(* What rows, events and operations owe the disk                           *)

HalfAt(p) == \E b \in At(p) : Half(b)
Has(p, t) == rows[p] # None /\ rows[p].text = t
Agree(p) == IF disk[p] = None THEN rows[p] = None ELSE Has(p, disk[p])

\* The events that wait bring the row in line: a change or an unlink does, and
\* an add does when no row is there that it would leave as it is.
Mends(p) ==
  IF events[p] = <<>> THEN Agree(p)
  ELSE Last(p) = "add" => rows[p] = None \/ Has(p, disk[p]) \/ Unlinked(p)

PathFits(p) == EventsFit(p) /\ (p \in torn \/ HalfAt(p) \/ Mends(p))

\* The row an operation has read is still the row there.
Same(p, row) == rows[p] # None /\ rows[p].id = row.id /\ GidOf(rows[p]) = GidOf(row)

Reads(o) == IF o.kind = "update" THEN Same(o.path, o.row) ELSE ~Strange(o.path)

\* Who waits for the lock of a file will find it, if it was there to be updated.
Waits(o) ==
  /\ Reads(o)
  /\ o.kind = "update" => disk[o.path] # None /\ ~Unlinked(o.path)

\* Should the transaction fail, the bytes put back are the ones the row, or an
\* event, accounts for.
WriteFits(o) ==
  /\ disk[o.path] = o.text
  /\ events[o.path] # <<>>
  /\ Reads(o)
  /\ o.kind = "update" => o.stash # None
  /\ o.stash = None => \A b \in At(o.path) : act[b].kind = "update" => act[b].pc # "wait"
  /\ o.path \notin torn /\ o.stash # None /\ Last(o.path) = "add"
       => rows[o.path] = None \/ Has(o.path, o.stash) \/ Unlinked(o.path)

DeleteFits(o) ==
  /\ Same(o.path, o.row)
  /\ o.path \notin torn => IF disk[o.path] = None THEN events[o.path] # <<>>
                           ELSE Has(o.path, disk[o.path])

MoveFits(o) ==
  /\ disk[o.path] = None /\ events[o.path] = <<"unlink">>
  /\ disk[o.to] # None /\ events[o.to] = <<"add">>
  /\ Same(o.path, o.row)
  /\ o.path \notin torn => Has(o.path, disk[o.to])
  /\ o.to \notin torn => rows[o.to] = None

RestoreFits(o) ==
  /\ disk[o.path] = o.text
  /\ o.path \notin torn /\ rows[o.path] = None => events[o.path] # <<>>

PullFits(o) ==
  /\ events[o.path] = <<>> /\ events[o.to] = <<>>
  /\ o.kind = "pull" => Has(o.path, o.text)
  /\ o.kind = "pulldelete" /\ o.pc = "half" => rows[o.path] = None
  /\ o.kind = "pullmove" /\ o.pc = "half" =>
       /\ rows[o.path] = None
       /\ o.path \notin torn => disk[o.path] # None /\ Has(o.to, disk[o.path])

Fits(o) ==
  /\ o.kind \in Writing /\ o.pc = "wait" => Waits(o)
  /\ o.kind \in Writing /\ o.pc = "half" => WriteFits(o)
  /\ o.kind = "delete" => DeleteFits(o)
  /\ o.kind = "move" => MoveFits(o)
  /\ o.kind = "restore" => RestoreFits(o)
  /\ o.kind \in OfLoop => PullFits(o)

\* No two rows have an id, and AUTOINCREMENT is past them all.
IdsFit ==
  /\ \A p \in Paths : rows[p] # None => rows[p].id <= ids
  /\ \A p, q \in Paths :
       rows[p] # None /\ rows[q] # None /\ rows[p].id = rows[q].id => p = q

Owed ==
  /\ \A p \in Paths : PathFits(p)
  /\ \A a \in Actors : act[a] # Idle => Fits(act[a])

Index == IdsFit /\ Owed

\* Who else is at a path another acts on, and goes on there.
Bystander(b, p) ==
  b \in At(p) => /\ act[b].kind \in Writing /\ ~Half(b)
                 /\ act[b].pc = "wait" => Waits(act[b])'

\* A step of the actors A at the paths P owes the others nothing.
LEMMA Elsewhere ==
  ASSUME Shape, Shape', Owed, NEW A \in SUBSET Actors, NEW P \in SUBSET Paths,
         \A b \in Actors \ A : act'[b] = act[b],
         \A a \in A : /\ act[a] # Idle => act[a].path \in P /\ act[a].to \in P
                      /\ act'[a] # Idle => act'[a].path \in P /\ act'[a].to \in P
                      /\ act'[a] # Idle => Fits(act[a])',
         \A q \in Paths \ P : /\ disk'[q] = disk[q] /\ rows'[q] = rows[q]
                              /\ events'[q] = events[q]
                              /\ q \in torn' <=> q \in torn,
         \A p \in P : PathFits(p)',
         \A b \in Actors \ A, p \in P : Bystander(b, p)
  PROVE  Owed'
<1>1. ASSUME NEW q \in Paths \ P PROVE At(q)' = At(q) /\ \A b \in At(q) : b \in Actors \ A
  <2>1. ASSUME NEW b \in At(q) PROVE b \in Actors \ A
    BY <2>1, Pcs DEF At, Shape
  <2>2. ASSUME NEW b \in At(q)' PROVE b \in Actors \ A
    <3>1. b \in Actors /\ act'[b].pc # "idle" /\ q \in {act'[b].path, act'[b].to}
      BY DEF At
    <3>2. act'[b] # Idle
      BY <3>1 DEF Idle
    <3> QED BY <3>1, <3>2
  <2> QED BY <2>1, <2>2 DEF At
<1>2. ASSUME NEW q \in Paths PROVE PathFits(q)'
  <2>1. CASE q \in P
    BY <2>1
  <2>2. CASE q \notin P
    <3>1. /\ disk'[q] = disk[q] /\ rows'[q] = rows[q] /\ events'[q] = events[q]
          /\ q \in torn' <=> q \in torn
      BY <2>2
    <3>2. HalfAt(q) => HalfAt(q)'
      BY <1>1, <2>2 DEF HalfAt, Half
    <3>3. Last(q)' = Last(q) /\ (Unlinked(q)' <=> Unlinked(q)) /\ (Agree(q)' <=> Agree(q))
          /\ (Has(q, disk[q])' <=> Has(q, disk[q]))
      BY <3>1 DEF Last, Unlinked, Agree, Has
    <3> QED BY <3>1, <3>2, <3>3 DEF Owed, PathFits, EventsFit, Mends
  <2> QED BY <2>1, <2>2
<1>3. ASSUME NEW b \in Actors, act'[b] # Idle PROVE Fits(act[b])'
  <2>1. CASE b \in A
    BY <1>3, <2>1
  <2>2. CASE b \notin A /\ (act[b].path \in P \/ act[b].to \in P)
    <3>1. act'[b] = act[b] /\ act[b] # Idle /\ act[b] \in OpRec /\ Formed(b, act[b])
      BY <1>3, <2>2, Pcs DEF Shape
    <3>2. PICK p \in P : b \in At(p)
      BY <2>2, <3>1, Pcs DEF At, Shape
    <3>3. /\ act[b].kind \in Writing /\ ~Half(b)
          /\ act[b].pc = "wait" => Waits(act[b])'
      BY <2>2, <3>2 DEF Bystander
    <3> QED BY <3>1, <3>3 DEF Fits, Half, Writing, OfLoop
  <2>3. CASE b \notin A /\ act[b].path \notin P /\ act[b].to \notin P
    <3> DEFINE o == act[b]
    <3>1. act'[b] = o /\ o # Idle /\ o \in OpRec /\ o.path \in Paths \ P /\ o.to \in Paths \ P
      BY <1>3, <2>3, Pcs DEF Shape, OpRec
    <3>2. Fits(o)
      BY <3>1 DEF Owed
    <3>3. \A q \in {o.path, o.to} :
            /\ disk'[q] = disk[q] /\ rows'[q] = rows[q] /\ events'[q] = events[q]
            /\ q \in torn' <=> q \in torn
            /\ At(q)' = At(q) /\ \A c \in At(q) : act'[c] = act[c]
      BY <1>1, <3>1
    <3>4. Waits(o) => Waits(o)'
      BY <3>1, <3>3 DEF Waits, Reads, Strange, Same, Unlinked
    <3>5. WriteFits(o) => WriteFits(o)'
      BY <3>1, <3>3 DEF WriteFits, Reads, Strange, Same, Has, Unlinked, Last
    <3>6. (DeleteFits(o) => DeleteFits(o)') /\ (MoveFits(o) => MoveFits(o)')
      BY <3>1, <3>3 DEF DeleteFits, MoveFits, Same, Has
    <3>7. (RestoreFits(o) => RestoreFits(o)') /\ (PullFits(o) => PullFits(o)')
      BY <3>1, <3>3 DEF RestoreFits, PullFits, Has
    <3> QED BY <3>1, <3>2, <3>4, <3>5, <3>6, <3>7 DEF Fits
  <2> QED BY <2>1, <2>2, <2>3
<1> QED BY <1>2, <1>3 DEF Owed

-----------------------------------------------------------------------------
(* No text is there before it is written *)

Upto(t) == t # None => t <= texts

Fresh ==
  /\ \A p \in Paths : Upto(disk[p])
  /\ \A a \in Actors : act[a] # Idle => Upto(act[a].text) /\ Upto(act[a].stash)
  /\ \A t \in remote : Upto(t)

LEMMA FreshAct ==
  ASSUME Shape, Shape', Fresh, NEW a \in Actors, OthersAct(a),
         texts' >= texts, remote' = remote,
         \A p \in Paths : Upto(disk[p])',
         act'[a] # Idle => Upto(act[a].text)' /\ Upto(act[a].stash)'
  PROVE  Fresh'
<1>1. texts \in Nat /\ texts' \in Nat
  BY DEF Shape, Typed
<1>2. \A b \in Actors \ {a} : act'[b] # Idle => act[b] # Idle /\ act[b] \in OpRec /\ act'[b] = act[b]
  BY Pcs DEF OthersAct, Shape
<1>3. ASSUME NEW b \in Actors \ {a}, act'[b] # Idle
      PROVE  Upto(act[b].text)' /\ Upto(act[b].stash)'
  BY <1>1, <1>2, <1>3 DEF Fresh, Upto, OpRec, Texts
<1>4. ASSUME NEW t \in remote PROVE Upto(t)'
  BY <1>1 DEF Fresh, Upto, Shape, Typed, Texts
<1> QED BY <1>3, <1>4 DEF Fresh

LEMMA FreshStill ==
  ASSUME Shape, Shape', Fresh, texts' >= texts, remote' = remote, act' = act,
         \A p \in Paths : Upto(disk[p])'
  PROVE  Fresh'
<1>1. act'[Loop] # Idle => Upto(act[Loop].text)' /\ Upto(act[Loop].stash)'
  BY LoopActs, Pcs DEF Fresh, Upto, Shape, Typed, OpRec, Texts
<1> QED BY <1>1, LoopActs, FreshAct DEF OthersAct

\* What was on disk may stay there.
LEMMA FreshDisk ==
  ASSUME Shape, Fresh, texts' \in Nat, texts' >= texts
  PROVE  \A p \in Paths : (disk[p] # None => disk[p] <= texts')
BY DEF Fresh, Upto, Shape, Typed, Texts

LEMMA FreshNext ==
  ASSUME Shape, Fresh, OneProcess, Apart, [Next]_vars
  PROVE  Fresh'
<1>1. Shape' /\ texts \in Nat /\ texts' \in Nat
  BY ShapeNext DEF Shape, Typed
<1>2. ASSUME NEW u \in Users, WriteDisk(u) PROVE Fresh'
  <2>1. /\ texts' = texts + 1 /\ u \in Actors /\ OthersAct(u) /\ remote' = remote
        /\ act[u] \in OpRec
        /\ act'[u] = Opened(act[u], texts', disk[act[u].path])
        /\ disk' = [disk EXCEPT ![act[u].path] = texts']
    BY <1>2, WriteDiskDoes DEF Wrote
  <2>2. act'[u].text = texts' /\ act'[u].stash = disk[act[u].path]
    BY <2>1, Fields
  <2>3. \A p \in Paths : Upto(disk[p])'
    BY <1>1, <2>1, FreshDisk DEF Upto, Shape, Typed
  <2>4. Upto(act[u].text)' /\ Upto(act[u].stash)'
    <3>1. act[u].path \in Paths
      BY <2>1 DEF OpRec
    <3> QED BY <1>1, <2>1, <2>2, <3>1, FreshDisk DEF Upto
  <2> QED BY <1>1, <2>1, <2>3, <2>4, FreshAct
<1>3. ASSUME NEW u \in Users, CommitCreate(u) \/ CommitUpdate(u) PROVE Fresh'
  <2>1. /\ OthersAct(u) /\ act[u] \in OpRec /\ act'[u] = Onto(act[u], "after")
        /\ act[u] # Idle /\ u \in Actors /\ UNCHANGED <<disk, texts, remote>>
    BY <1>3, CommitWriteDoes
  <2>2. act'[u].text = act[u].text /\ act'[u].stash = act[u].stash
    BY <2>1, Fields
  <2> QED BY <1>1, <2>1, <2>2, FreshAct DEF Fresh, Upto
<1>4. ASSUME NEW u \in Users, FailWrite(u) PROVE Fresh'
  <2>1. /\ OthersAct(u) /\ act[u] \in OpRec /\ act'[u] = Idle /\ act[u] # Idle /\ u \in Actors
        /\ disk' = [disk EXCEPT ![act[u].path] = PutBack(u)]
        /\ UNCHANGED <<texts, remote>> /\ act[u].path \in Paths
    BY <1>4, UserActs, FailWriteDoes DEF HalfOf, Idle, FailWrite, Wrote, OpRec
  <2>2. Upto(PutBack(u))
    BY <2>1 DEF PutBack, Fresh
  <2>3. \A p \in Paths : Upto(disk[p])'
    BY <2>1, <2>2 DEF Fresh, Upto, Shape, Typed
  <2> QED BY <1>1, <2>1, <2>3, FreshAct
<1>5. ASSUME NEW u \in Users, Unlock(u) \/ CommitDelete(u) \/ FailDelete(u) \/ CommitMove(u) \/ CommitRestore(u)
      PROVE Fresh'
  <2>1. OthersAct(u) /\ act'[u] = Idle /\ u \in Actors
    BY <1>5, UserActs, UnlockDoes, CommitDeleteDoes, FailDeleteDoes, CommitMoveDoes, CommitRestoreDoes
  <2>2. UNCHANGED <<disk, texts, remote>>
    BY <1>5 DEF Unlock, CommitDelete, FailDelete, CommitMove, CommitRestore
  <2> QED BY <1>1, <2>1, <2>2, FreshAct DEF Fresh, Upto
<1>6. ASSUME NEW u \in Users, FailMove(u) PROVE Fresh'
  <2>1. /\ OthersAct(u) /\ act'[u] = Idle /\ u \in Actors /\ act[u] \in OpRec
        /\ disk' = Unrenamed(u) /\ UNCHANGED <<texts, remote>>
    BY <1>6, UserActs, FailMoveDoes DEF FailMove, HalfOf
  <2>2. \A p \in Paths : Upto(disk[p])'
    BY <2>1 DEF Fresh, Upto, Unrenamed, Renamed, Shape, Typed, OpRec
  <2> QED BY <1>1, <2>1, <2>2, FreshAct
<1>7. ASSUME NEW u \in Users, NEW p \in Paths, BeginWrite(u, p) PROVE Fresh'
  <2>1. /\ OthersAct(u) /\ act'[u].text = 0 /\ act'[u].stash = None /\ u \in Actors
        /\ UNCHANGED <<disk, texts, remote>>
    BY <1>7, UserActs, BeginWriteDoes
  <2> QED BY <1>1, <2>1, FreshAct DEF Fresh, Upto
<1>8. ASSUME NEW u \in Users, NEW p \in Paths, DeleteDisk(u, p) PROVE Fresh'
  <2>1. OthersAct(u) /\ act'[u] = Op("half", "delete", p, p, rows[p], 0, None) /\ u \in Actors
    BY <1>8, UserActs, DeleteDiskDoes
  <2> PICK left \in {disk[p], None} : disk' = [disk EXCEPT ![p] = left]
    BY <1>8, DeleteDiskDoes DEF Wrote
  <2>2. UNCHANGED <<texts, remote>> /\ act'[u].text = 0 /\ act'[u].stash = None
    BY <1>8, <2>1, OpFields DEF DeleteDisk
  <2>3. \A x \in Paths : Upto(disk[x])'
    BY <2>1, <2>2 DEF Fresh, Upto, Shape, Typed
  <2>4. Upto(act[u].text)' /\ Upto(act[u].stash)'
    BY <1>1, <2>2 DEF Upto
  <2>5. OthersAct(u) /\ u \in Actors /\ texts' >= texts /\ remote' = remote
    BY <1>1, <2>1, <2>2
  <2> QED BY <1>1, <2>3, <2>4, <2>5, FreshAct
<1>9. ASSUME NEW u \in Users, NEW p \in Paths, RestoreDisk(u, p) PROVE Fresh'
  <2>1. PICK t \in 1..texts :
           /\ OthersAct(u) /\ act'[u] = Op("half", "restore", p, p, None, t, None)
           /\ disk' = [disk EXCEPT ![p] = t]
    BY <1>9, RestoreDiskDoes DEF Wrote
  <2>2. act'[u].text = t /\ act'[u].stash = None /\ u \in Actors /\ UNCHANGED <<texts, remote>>
    BY <1>9, <2>1, UserActs, OpFields DEF RestoreDisk
  <2>3. t \in Nat /\ t <= texts /\ texts' = texts
    BY <1>1, <2>2
  <2>4. \A x \in Paths : Upto(disk[x])'
    BY <2>1, <2>3 DEF Fresh, Upto, Shape, Typed
  <2>5. Upto(act[u].text)' /\ Upto(act[u].stash)'
    BY <2>2, <2>3 DEF Upto
  <2>6. OthersAct(u) /\ u \in Actors /\ texts' >= texts /\ remote' = remote
    BY <1>1, <2>1, <2>2
  <2> QED BY <1>1, <2>4, <2>5, <2>6, FreshAct
<1>10. ASSUME NEW u \in Users, NEW p \in Paths, NEW q \in Paths, MoveDisk(u, p, q) PROVE Fresh'
  <2>1. /\ OthersAct(u) /\ act'[u] = Op("half", "move", p, q, rows[p], 0, None) /\ u \in Actors
        /\ disk' = [disk EXCEPT ![p] = None, ![q] = disk[p]]
    <3>1. Wrote([disk EXCEPT ![p] = None, ![q] = disk[p]])
      BY <1>10, MoveDiskDoes
    <3>2. disk' = [disk EXCEPT ![p] = None, ![q] = disk[p]]
      BY <3>1 DEF Wrote
    <3>3. OthersAct(u) /\ act'[u] = Op("half", "move", p, q, rows[p], 0, None)
      BY <1>10, MoveDiskDoes
    <3> QED BY <3>2, <3>3, UserActs
  <2>2. UNCHANGED <<texts, remote>> /\ act'[u].text = 0 /\ act'[u].stash = None
    BY <1>10, <2>1, OpFields DEF MoveDisk
  <2>3. \A x \in Paths : Upto(disk[x])'
    BY <2>1, <2>2 DEF Fresh, Upto, Shape, Typed
  <2>4. Upto(act[u].text)' /\ Upto(act[u].stash)'
    BY <1>1, <2>2 DEF Upto
  <2>5. OthersAct(u) /\ u \in Actors /\ texts' >= texts /\ remote' = remote
    BY <1>1, <2>1, <2>2
  <2> QED BY <1>1, <2>3, <2>4, <2>5, FreshAct
<1>11. ASSUME NEW u \in Users, Refresh(u) PROVE Fresh'
  <2>1. act' = act /\ texts' = texts /\ remote' = remote /\ disk' = disk
    BY <1>11 DEF Refresh
  <2>2. \A q \in Paths : Upto(disk[q])'
    BY <2>1 DEF Fresh, Upto
  <2> QED BY <1>1, <2>1, <2>2, FreshStill
<1>12. ASSUME NEW p \in Paths, Edit(p) PROVE Fresh'
  <2>1. texts' = texts + 1 /\ disk' = [disk EXCEPT ![p] = texts'] /\ act' = act /\ remote' = remote
    BY <1>12, EditDoes DEF Edit, Wrote
  <2>2. \A q \in Paths : Upto(disk[q])'
    BY <1>1, <2>1, FreshDisk DEF Upto, Shape, Typed
  <2> QED BY <1>1, <2>1, <2>2, FreshStill
<1>13. ASSUME NEW p \in Paths, Remove(p) PROVE Fresh'
  <2>1. disk' = [disk EXCEPT ![p] = None] /\ UNCHANGED <<act, remote, texts>>
    BY <1>13, RemoveDoes DEF Remove, Wrote
  <2> QED BY <1>1, <2>1, FreshStill DEF Fresh, Upto, Shape, Typed
<1>14. ASSUME NEW p \in Paths, HandleAdd(p) \/ HandleChange(p) \/ HandleUnlink(p) PROVE Fresh'
  <2>1. UNCHANGED <<disk, act, remote, texts>>
    BY <1>14 DEF HandleAdd, HandleChange, HandleUnlink, Handle
  <2> QED BY <1>1, <2>1, FreshStill DEF Fresh, Upto
<1>15. ASSUME NEW g \in Gids, NEW p \in Paths, PullWrite(g, p) PROVE Fresh'
  <2>1. /\ texts' = texts + 1 /\ OthersAct(Loop) /\ act'[Loop] = Op("half", "pull", p, p, None, texts', None)
        /\ disk' = disk /\ remote' = remote \cup {texts'}
    BY <1>15, PullWriteDoes DEF PullWrite, Pull
  <2>2. act'[Loop].text = texts' /\ act'[Loop].stash = None
    BY <2>1, OpFields
  <2>3. \A q \in Paths : Upto(disk[q])'
    BY <1>1, <2>1, FreshDisk DEF Upto
  <2>4. \A b \in Actors \ {Loop} : act'[b] # Idle => Upto(act[b].text)' /\ Upto(act[b].stash)'
    BY <1>1, <2>1, Pcs DEF OthersAct, Fresh, Upto, Shape, OpRec, Texts
  <2>5. \A t \in remote' : Upto(t)'
    BY <1>1, <2>1 DEF Fresh, Upto, Shape, Typed, Texts
  <2>6. Upto(act[Loop].text)' /\ Upto(act[Loop].stash)'
    BY <1>1, <2>2 DEF Upto
  <2> QED BY <2>3, <2>4, <2>5, <2>6 DEF Fresh
<1>16. ASSUME NEW p \in Paths, PullDelete(p) PROVE Fresh'
  <2>1. OthersAct(Loop) /\ act'[Loop] = Op("half", "pulldelete", p, p, None, 0, None)
    BY <1>16, PullDeleteDoes
  <2>2. /\ act'[Loop].text = 0 /\ act'[Loop].stash = None
        /\ UNCHANGED <<disk, texts, remote>>
    BY <1>16, <2>1, OpFields DEF PullDelete, Pull
  <2> QED BY <1>1, <2>1, <2>2, LoopActs, FreshAct DEF Fresh, Upto
<1>17. ASSUME NEW p \in Paths, NEW q \in Paths, PullMove(p, q) PROVE Fresh'
  <2>1. OthersAct(Loop) /\ act'[Loop] = Op("half", "pullmove", p, q, None, 0, None)
    BY <1>17, PullMoveDoes
  <2>2. /\ act'[Loop].text = 0 /\ act'[Loop].stash = None
        /\ UNCHANGED <<disk, texts, remote>>
    BY <1>17, <2>1, OpFields DEF PullMove, Pull
  <2> QED BY <1>1, <2>1, <2>2, LoopActs, FreshAct DEF Fresh, Upto
<1>18. ASSUME PullAgain PROVE Fresh'
  <2>1. /\ OthersAct(Loop) /\ act[Loop] \in OpRec /\ act[Loop] # Idle
        /\ UNCHANGED <<disk, texts, remote>>
        /\ act'[Loop] # Idle => act'[Loop] = Onto(act[Loop], "half")
    BY <1>18, PullAgainDoes DEF Idle
  <2>2. act'[Loop] # Idle => act'[Loop].text = act[Loop].text /\ act'[Loop].stash = act[Loop].stash
    BY <2>1, Fields
  <2> QED BY <1>1, <2>1, <2>2, LoopActs, FreshAct DEF Fresh, Upto
<1>19. ASSUME PullDisk PROVE Fresh'
  <2>1. /\ OthersAct(Loop) /\ act[Loop] \in OpRec /\ act[Loop] # Idle /\ act'[Loop] = Idle
        /\ disk' = Pulled /\ UNCHANGED <<texts, remote>>
    BY <1>19, PullDiskDoes DEF HalfOf, Idle, PullDisk, Wrote
  <2>2. Upto(act[Loop].text) /\ \A q \in Paths : Upto(disk[q])
    BY <2>1, LoopActs DEF Fresh
  <2>3. \A q \in Paths : Upto(Pulled[q])
    <3> TAKE q \in Paths
    <3>1. CASE act[Loop].kind = "pull"
      BY <2>2, <3>1 DEF Pulled, Shape, Typed
    <3>2. CASE act[Loop].kind = "pulldelete"
      BY <2>2, <3>2 DEF Pulled, Shape, Typed, Upto
    <3>3. CASE act[Loop].kind \notin {"pull", "pulldelete"}
      BY <2>1, <2>2, <3>3 DEF Pulled, Renamed, Shape, Typed, Upto, OpRec
    <3> QED BY <3>1, <3>2, <3>3
  <2>4. \A q \in Paths : Upto(disk[q])'
    BY <2>1, <2>3 DEF Upto
  <2> QED BY <1>1, <2>1, <2>4, LoopActs, FreshAct
<1>20. ASSUME NEW a \in Actors, Crash(Host[a]) PROVE Fresh'
  <2>1. /\ \A b \in Actors : act'[b] = IF b = Loop /\ act[b] # Idle THEN Onto(act[b], "again") ELSE Idle
        /\ UNCHANGED <<disk, texts, remote>>
    BY <1>20, CrashDoes
  <2>2. act[Loop] # Idle => act[Loop] \in OpRec
    BY LoopActs, Pcs DEF Shape
  <2>3. ASSUME NEW b \in Actors, act'[b] # Idle PROVE Upto(act[b].text)' /\ Upto(act[b].stash)'
    <3>1. b = Loop /\ act'[b].text = act[b].text /\ act'[b].stash = act[b].stash /\ act[b] # Idle
      BY <2>1, <2>2, <2>3, Fields
    <3> QED BY <2>1, <3>1 DEF Fresh, Upto
  <2> QED BY <2>1, <2>3 DEF Fresh, Upto
<1>21. ASSUME UNCHANGED vars PROVE Fresh'
  BY <1>21 DEF vars, Fresh, Upto
<1>22. ASSUME NEW p \in Paths, FailHandle(p) PROVE Fresh'
  BY <1>22, FailHandleDoes DEF Fresh, Upto
<1>23. ASSUME FailPull PROVE Fresh'
  <2>1. /\ OthersAct(Loop) /\ act[Loop] \in OpRec /\ act[Loop] # Idle
        /\ UNCHANGED <<disk, texts, remote>>
        /\ act'[Loop] # Idle => act'[Loop] = Onto(act[Loop], "again")
    BY <1>23, FailPullDoes DEF HalfOf, Idle
  <2>2. act'[Loop] # Idle => act'[Loop].text = act[Loop].text /\ act'[Loop].stash = act[Loop].stash
    BY <2>1, Fields
  <2> QED BY <1>1, <2>1, <2>2, LoopActs, FreshAct DEF Fresh, Upto
<1> QED
  BY <1>2, <1>3, <1>4, <1>5, <1>6, <1>7, <1>8, <1>9, <1>10, <1>11, <1>12, <1>13, <1>14, <1>15,
     <1>16, <1>17, <1>18, <1>19, <1>20, <1>21, <1>22, <1>23 DEF Next

-----------------------------------------------------------------------------
(* Index: every step leaves the rows, the events and the operations fit *)

SameAt(q) ==
  /\ disk'[q] = disk[q] /\ rows'[q] = rows[q] /\ events'[q] = events[q]
  /\ q \in torn' <=> q \in torn

\* A step of one actor at one path.
LEMMA OwedAt ==
  ASSUME Shape, Shape', Owed, NEW a \in Actors, NEW p \in Paths, OthersAct(a),
         act[a] # Idle => act[a].path = p /\ act[a].to = p,
         act'[a] # Idle => act'[a].path = p /\ act'[a].to = p /\ Fits(act[a])',
         \A q \in Paths \ {p} : SameAt(q),
         PathFits(p)',
         \A b \in Actors \ {a} : Bystander(b, p)
  PROVE  Owed'
<1> DEFINE A == {a}
           P == {p}
<1>1. A \in SUBSET Actors /\ P \in SUBSET Paths
  OBVIOUS
<1>2. \A b \in Actors \ A : act'[b] = act[b]
  BY DEF OthersAct
<1>3. \A b \in A : /\ act[b] # Idle => act[b].path \in P /\ act[b].to \in P
                   /\ act'[b] # Idle => act'[b].path \in P /\ act'[b].to \in P
                   /\ act'[b] # Idle => Fits(act[b])'
  OBVIOUS
<1>4. \A q \in Paths \ P : /\ disk'[q] = disk[q] /\ rows'[q] = rows[q]
                           /\ events'[q] = events[q]
                           /\ q \in torn' <=> q \in torn
  BY DEF SameAt
<1>5. (\A x \in P : PathFits(x)') /\ \A b \in Actors \ A, x \in P : Bystander(b, x)
  OBVIOUS
<1> HIDE DEF A, P
<1> QED BY <1>1, <1>2, <1>3, <1>4, <1>5, Elsewhere

\* A step of one actor between two paths.
LEMMA OwedBetween ==
  ASSUME Shape, Shape', Owed, NEW a \in Actors, NEW p \in Paths, NEW r \in Paths, OthersAct(a),
         act[a] # Idle => act[a].path \in {p, r} /\ act[a].to \in {p, r},
         act'[a] # Idle => act'[a].path \in {p, r} /\ act'[a].to \in {p, r} /\ Fits(act[a])',
         \A q \in Paths \ {p, r} : SameAt(q),
         PathFits(p)', PathFits(r)',
         \A b \in Actors \ {a} : Bystander(b, p) /\ Bystander(b, r)
  PROVE  Owed'
<1> DEFINE A == {a}
           P == {p, r}
<1>1. A \in SUBSET Actors /\ P \in SUBSET Paths
  OBVIOUS
<1>2. \A b \in Actors \ A : act'[b] = act[b]
  BY DEF OthersAct
<1>3. \A b \in A : /\ act[b] # Idle => act[b].path \in P /\ act[b].to \in P
                   /\ act'[b] # Idle => act'[b].path \in P /\ act'[b].to \in P
                   /\ act'[b] # Idle => Fits(act[b])'
  OBVIOUS
<1>4. \A q \in Paths \ P : /\ disk'[q] = disk[q] /\ rows'[q] = rows[q]
                           /\ events'[q] = events[q]
                           /\ q \in torn' <=> q \in torn
  BY DEF SameAt
<1>5. (\A x \in P : PathFits(x)') /\ \A b \in Actors \ A, x \in P : Bystander(b, x)
  OBVIOUS
<1> HIDE DEF A, P
<1> QED BY <1>1, <1>2, <1>3, <1>4, <1>5, Elsewhere

\* A step of no actor, at one path.
LEMMA OwedStill ==
  ASSUME Shape, Shape', Owed, NEW p \in Paths, act' = act,
         \A q \in Paths \ {p} : SameAt(q),
         PathFits(p)',
         \A b \in Actors : Bystander(b, p)
  PROVE  Owed'
<1> DEFINE P == {p}
<1>1. P \in SUBSET Paths /\ {} \in SUBSET Actors
  OBVIOUS
<1>2. \A q \in Paths \ P : /\ disk'[q] = disk[q] /\ rows'[q] = rows[q]
                           /\ events'[q] = events[q]
                           /\ q \in torn' <=> q \in torn
  BY DEF SameAt
<1>3. (\A x \in P : PathFits(x)') /\ \A b \in Actors \ {}, x \in P : Bystander(b, x)
  OBVIOUS
<1> HIDE DEF P
<1> QED BY <1>1, <1>2, <1>3, Elsewhere

\* At a path nobody is, or one that only writes, there is nobody to disturb.
LEMMA NobodyBy ==
  ASSUME NEW p \in Paths, At(p) = {}
  PROVE  \A b \in Actors : Bystander(b, p)
BY DEF Bystander

LEMMA AloneBy ==
  ASSUME Shape, NEW a \in Actors, act[a] # Idle, act[a].kind \notin Writing,
         NEW p \in Paths, p \in {act[a].path, act[a].to}
  PROVE  /\ a \in At(p) /\ \A b \in At(p) : b = a
         /\ \A b \in Actors \ {a} : Bystander(b, p)
<1>1. a \in At(p)
  BY Pcs DEF At, Shape
<1>2. \A b \in At(p) : b = a
  BY <1>1 DEF Shape, Crowd
<1> QED BY <1>1, <1>2 DEF Bystander

\* A path that nobody has left half done is torn, or its events mend it.
LEMMA Settled ==
  ASSUME Owed, NEW p \in Paths, \A b \in At(p) : ~Half(b)
  PROVE  /\ EventsFit(p)
         /\ p \in torn \/ Mends(p)
         /\ events[p] = <<>> => p \in torn \/ Agree(p)
BY DEF Owed, PathFits, HalfAt, Mends

LEMMA NobodyThere ==
  ASSUME NobodyHalf, NEW p \in Paths
  PROVE  \A b \in At(p) : ~Half(b)
BY DEF NobodyHalf, At

LEMMA WroteElse ==
  ASSUME NEW f, Wrote(f), NEW q \in Paths, f[q] = disk[q]
  PROVE  disk'[q] = disk[q] /\ events'[q] = events[q]
BY DEF Wrote, Notices

LEMMA WroteOne ==
  ASSUME Typed, NEW p \in Paths, NEW t, Wrote([disk EXCEPT ![p] = t])
  PROVE  /\ disk'[p] = t /\ Notices(p, disk'[p])
         /\ \A q \in Paths \ {p} : disk'[q] = disk[q] /\ events'[q] = events[q]
<1> DEFINE f == [disk EXCEPT ![p] = t]
<1>1. f[p] = t /\ \A q \in Paths \ {p} : f[q] = disk[q]
  BY DEF Typed
<1> HIDE DEF f
<1>2. Wrote(f)
  BY DEF f
<1> QED BY <1>1, <1>2, WroteElse DEF Wrote

LEMMA Untorn == \A p, q : q # p => (q \in torn \ {p} <=> q \in torn)
OBVIOUS

\* The row that an operation has read is the only one with its id.
LEMMA OnlyThere ==
  ASSUME IdsFit, NEW p \in Paths, NEW row, Same(p, row)
  PROVE  WithId(row.id) = {p}
BY DEF IdsFit, Same, WithId

\* What a step does not take from those who wait: the row, and the file.
KeepsRow(p) ==
  /\ rows[p] # None => /\ rows'[p] # None /\ rows'[p].id = rows[p].id
                       /\ GidOf(rows'[p]) = GidOf(rows[p])
  /\ ~Strange(p) => ~Strange(p)'

LEMMA WaitsKept ==
  ASSUME NEW o, NEW p \in Paths, o.path = p, Waits(o), KeepsRow(p),
         disk[p] # None => disk'[p] # None, Unlinked(p)' => Unlinked(p)
  PROVE  Waits(o)'
<1>1. Same(p, o.row) => Same(p, o.row)'
  BY DEF KeepsRow, Same, GidOf
<1> QED BY <1>1 DEF Waits, Reads, KeepsRow

LEMMA RowStays ==
  ASSUME NEW p \in Paths, rows'[p] = rows[p]
  PROVE  KeepsRow(p)
BY DEF KeepsRow, Strange

\* A bystander that waits has its Waits.
LEMMA BystanderKept ==
  ASSUME Shape, Owed, NEW b \in Actors, NEW p \in Paths,
         b \in At(p) => act[b].kind \in Writing /\ ~Half(b), act'[b] = act[b], KeepsRow(p),
         disk[p] # None => disk'[p] # None, Unlinked(p)' => Unlinked(p)
  PROVE  Bystander(b, p)
<1> SUFFICES ASSUME b \in At(p), act[b].pc = "wait" PROVE Waits(act[b])'
  BY DEF Bystander
<1> DEFINE o == act[b]
<1>1. o # Idle /\ Formed(b, o) /\ o.kind \in Writing
  BY Pcs DEF Shape, Idle
<1>2. o.path = p /\ Waits(o)
  BY <1>1 DEF At, Formed, Moving, Writing, Owed, Fits
<1>3. PICK n : n = o
  OBVIOUS
<1>4. Waits(n)'
  BY <1>2, <1>3, WaitsKept
<1> QED BY <1>3, <1>4

-----------------------------------------------------------------------------
(* createFile and updateFile *)

LEMMA BeginWriteOwes ==
  ASSUME Shape, Index, OneProcess, Apart, NEW u \in Users, NEW p \in Paths, BeginWrite(u, p)
  PROVE  Owed'
<1> DEFINE o == act'[u]
<1>1. /\ Shape' /\ OthersAct(u) /\ NobodyHalf /\ act[u] = Idle /\ act'[u] \in OpRec
      /\ o.pc = "wait" /\ o.path = p /\ o.to = p
      /\ \/ o.kind = "create" /\ ~Strange(p)
         \/ o.kind = "update" /\ rows[p] # None /\ disk[p] # None /\ o.row = rows[p]
      /\ ~Unlinked(p)
      /\ UNCHANGED <<disk, rows, ids, events, texts, shared, remote, torn, unsaid>>
  BY BeginWriteDoes
<1>2. u \in Actors /\ u \in At(p)'
  BY <1>1, UserActs DEF At
<1>3. PathFits(p)'
  <2>1. EventsFit(p) /\ (p \in torn \/ Mends(p))
    BY <1>1, NobodyThere, Settled DEF Index
  <2>2. EventsFit(p)' /\ (Mends(p) => Mends(p)')
    BY <1>1, <2>1 DEF EventsFit, Mends, Last, Unlinked, Has, Agree
  <2> QED BY <1>1, <2>1, <2>2 DEF PathFits
<1>4. Waits(act[u])'
  BY <1>1 DEF Waits, Reads, Same, Strange, Unlinked
<1>5. Fits(act[u])'
  BY <1>1, <1>4 DEF Fits, Writing, OfLoop
<1>6. ASSUME NEW b \in Actors \ {u} PROVE Bystander(b, p)
  <2>1. b \in At(p) => act[b].kind \in Writing /\ ~Half(b)
    BY <1>1, <1>2 DEF OthersAct, At, Shape, Crowd, NobodyHalf
  <2>2. act'[b] = act[b] /\ KeepsRow(p) /\ (Unlinked(p)' => Unlinked(p))
    BY <1>1, RowStays DEF OthersAct, Unlinked
  <2> QED BY <1>1, <2>1, <2>2, BystanderKept DEF Index
<1>7. \A q \in Paths \ {p} : SameAt(q)
  BY <1>1 DEF SameAt
<1> QED BY <1>1, <1>2, <1>3, <1>5, <1>6, <1>7, OwedAt DEF Index

\* Others at the path of one that writes: they write too, and are not half done.
LEMMA WritersBy ==
  ASSUME Shape, NEW u \in Actors, act[u] # Idle, NEW p \in Paths, act[u].path = p,
         NobodyHalf \/ HalfOf(u, Writing)
  PROVE  \A b \in Actors \ {u} : b \in At(p) => act[b].kind \in Writing /\ ~Half(b)
<1>1. u \in At(p)
  BY Pcs DEF At, Shape
<1> QED BY <1>1 DEF Shape, Crowd, NobodyHalf, HalfOf

LEMMA WriteDiskOwes ==
  ASSUME Shape, Fresh, Index, OneProcess, Apart, NEW u \in Users, WriteDisk(u)
  PROVE  Owed'
<1>0. PICK p \in Paths : p = act[u].path
  BY WriteDiskDoes DEF OpRec
<1>1. /\ Shape' /\ OthersAct(u) /\ NobodyHalf /\ u \in Actors
      /\ act[u] \in OpRec /\ act[u].pc = "wait" /\ act[u].kind \in Writing
      /\ act[u].path = p /\ act[u].to = p
      /\ texts' = texts + 1 /\ texts' \in Texts
      /\ Wrote([disk EXCEPT ![p] = texts'])
      /\ UNCHANGED <<rows, ids, shared, remote, torn, unsaid>>
  BY <1>0, WriteDiskDoes
<1>2. act'[u] = Opened(act[u], texts', disk[p])
  BY <1>0, WriteDiskDoes
<1>3. /\ act'[u].pc = "half" /\ act'[u].kind = act[u].kind /\ act'[u].path = p /\ act'[u].to = p
      /\ act'[u].row = act[u].row /\ act'[u].text = texts' /\ act'[u].stash = disk[p]
  BY <1>1, <1>2, Fields
<1>4. act[u] # Idle /\ u \in At(p) /\ u \in At(p)'
  BY <1>1, <1>3 DEF Idle, At
<1>5. disk[p] # texts' /\ disk'[p] = texts' /\ texts' # None /\ Notices(p, disk'[p])
  <2>1. disk'[p] = texts' /\ Notices(p, disk'[p])
    BY <1>1, WroteOne DEF Shape
  <2>2. texts' # None /\ texts \in Nat /\ (disk[p] # None => disk[p] \in Nat /\ disk[p] <= texts)
    BY <1>1, Bounds DEF Fresh, Upto, Shape, Typed, Texts
  <2> QED BY <1>1, <2>1, <2>2
<1>6. \A q \in Paths \ {p} : SameAt(q)
  BY <1>1, WroteOne DEF Shape, SameAt
<1>7. EventsFit(p) /\ (p \in torn \/ Mends(p))
  BY <1>1, NobodyThere, Settled DEF Index
<1>8. /\ EventsFit(p)' /\ events'[p] # <<>>
      /\ Last(p)' = "add" /\ disk[p] # None => events'[p] = events[p]
      /\ Unlinked(p)' <=> Unlinked(p)
  BY <1>1, <1>5, <1>7, AfterPut DEF Shape
<1>9. PathFits(p)'
  BY <1>3, <1>4, <1>8 DEF PathFits, HalfAt, Half
<1>10. ASSUME NEW b \in Actors, b \in At(p), act[b].kind = "update", act[b].pc = "wait"
       PROVE  disk[p] # None
  <2>1. act[b] # Idle /\ Formed(b, act[b])
    BY <1>10, Pcs DEF Idle, Shape
  <2> QED BY <1>10, <2>1 DEF Index, Owed, Fits, Waits, At, Formed, Moving, Writing
<1>11. WriteFits(act[u])'
  <2>1. Reads(act[u])' /\ (act'[u].kind = "update" => disk[p] # None)
    <3>1. Reads(act[u]) /\ (act[u].kind = "update" => disk[p] # None)
      BY <1>1, <1>4 DEF Index, Owed, Fits, Waits
    <3> QED BY <1>1, <1>3, <3>1 DEF Reads, Same, Strange
  <2>2. ASSUME disk[p] = None, NEW b \in At(p)', act'[b].kind = "update" PROVE act'[b].pc # "wait"
    <3>1. CASE b = u
      BY <1>3, <3>1
    <3>2. CASE b # u
      <4>1. b \in Actors /\ act'[b] = act[b] /\ b \in At(p)
        BY <1>1, <3>2 DEF OthersAct, At
      <4> QED BY <1>10, <2>2, <4>1
    <3> QED BY <3>1, <3>2
  <2>3. ASSUME p \notin torn, disk[p] # None, Last(p)' = "add"
        PROVE  (rows[p] = None)' \/ Has(p, disk[p]) \/ Unlinked(p)'
    <3>1. events'[p] = events[p] /\ events[p] # <<>>
      BY <1>8, <2>3
    <3>2. Last(p) = "add"
      BY <2>3, <3>1 DEF Last
    <3> QED BY <1>1, <1>7, <1>8, <2>3, <3>1, <3>2 DEF Mends
  <2> QED BY <1>1, <1>3, <1>5, <1>8, <2>1, <2>2, <2>3 DEF WriteFits, Has
<1>12. Fits(act[u])'
  BY <1>1, <1>3, <1>11 DEF Fits, Writing, OfLoop
<1>13. ASSUME NEW b \in Actors \ {u} PROVE Bystander(b, p)
  <2>1. b \in At(p) => act[b].kind \in Writing /\ ~Half(b)
    BY <1>1, <1>4, WritersBy
  <2>2. act'[b] = act[b] /\ KeepsRow(p)
    BY <1>1, RowStays DEF OthersAct
  <2> QED BY <1>5, <1>8, <2>1, <2>2, BystanderKept DEF Index
<1> QED BY <1>1, <1>3, <1>6, <1>9, <1>12, <1>13, OwedAt DEF Index

\* One that waits to create the file does not mind whether it is there.
LEMMA CreatorKept ==
  ASSUME Shape, Owed, NEW b \in Actors, NEW p \in Paths,
         b \in At(p) => act[b].kind \in Writing /\ ~Half(b), act'[b] = act[b],
         b \in At(p) /\ act[b].kind = "update" => act[b].pc # "wait",
         ~Strange(p) => ~Strange(p)'
  PROVE  Bystander(b, p)
<1> SUFFICES ASSUME b \in At(p), act[b].pc = "wait" PROVE Waits(act[b])'
  BY DEF Bystander
<1> DEFINE o == act[b]
<1>1. o # Idle /\ Formed(b, o) /\ o.kind \in Writing /\ o.kind # "update"
  BY Pcs DEF Shape, Idle
<1>2. o.path = p /\ Waits(o)
  BY <1>1 DEF At, Formed, Moving, Writing, Owed, Fits
<1>3. PICK n : n = o
  OBVIOUS
<1>4. Waits(n)'
  BY <1>1, <1>2, <1>3 DEF Waits, Reads
<1> QED BY <1>3, <1>4

\* The row and its op are written: the row has what is on disk.
LEMMA CommitOwes ==
  ASSUME Shape, Shape', Owed, NEW u \in Users, NEW p \in Paths, HalfOf(u, Writing),
         act[u].path = p, act[u].to = p, OthersAct(u), act'[u] = Onto(act[u], "after"),
         UNCHANGED <<disk, events>>, torn' = torn \ {p},
         \A q \in Paths \ {p} : rows'[q] = rows[q],
         Has(p, act[u].text)', KeepsRow(p)
  PROVE  Owed'
<1>1. u \in Actors /\ act[u] # Idle /\ WriteFits(act[u])
  BY UserActs DEF HalfOf, Idle, Owed, Fits
<1>2. /\ act'[u].pc = "after" /\ act'[u].kind = act[u].kind /\ act'[u].text = act[u].text
      /\ act'[u].path = p /\ act'[u].to = p
  BY Fields DEF HalfOf
<1>3. PathFits(p)'
  <2>1. EventsFit(p) /\ events[p] # <<>> /\ disk[p] = act[u].text
    BY <1>1 DEF WriteFits, Owed, PathFits
  <2>2. EventsFit(p)' /\ events'[p] # <<>>
    BY <2>1 DEF EventsFit, Last
  <2>3. Has(p, disk[p])'
    BY <1>2, <2>1 DEF Has
  <2> QED BY <2>2, <2>3 DEF PathFits, Mends
<1>4. Fits(act[u])'
  BY <1>2 DEF Fits, Writing, OfLoop, HalfOf
<1>5. ASSUME NEW b \in Actors \ {u} PROVE Bystander(b, p)
  <2>1. b \in At(p) => act[b].kind \in Writing /\ ~Half(b)
    BY <1>1, WritersBy
  <2>2. act'[b] = act[b] /\ (Unlinked(p)' => Unlinked(p)) /\ disk'[p] = disk[p]
    BY DEF OthersAct, Unlinked
  <2> QED BY <2>1, <2>2, BystanderKept
<1>6. \A q \in Paths \ {p} : SameAt(q)
  BY Untorn DEF SameAt
<1> QED BY <1>1, <1>2, <1>3, <1>4, <1>5, <1>6, OwedAt

\* A row gets what it has, or is new under the next id.
LEMMA IdsSet ==
  ASSUME Shape, IdsFit, NEW p \in Paths, NEW r \in Row \cup {None}, rows' = [rows EXCEPT ![p] = r],
         ids' = IF rows[p] = None THEN ids + 1 ELSE ids,
         r.id = IF rows[p] = None THEN ids + 1 ELSE rows[p].id
  PROVE  IdsFit'
<1>1. ids \in Nat /\ ids' \in Nat /\ \A q \in Paths : rows[q] # None => rows[q].id \in Nat
  BY Bounds DEF Shape, Typed, Row
<1>2. rows'[p] = r /\ \A q \in Paths \ {p} : rows'[q] = rows[q]
  BY DEF Shape, Typed
<1>3. \A q \in Paths : rows'[q] # None => rows'[q].id <= ids'
  BY <1>1, <1>2 DEF IdsFit
<1>4. \A q \in Paths \ {p} : rows'[q] # None => rows'[q].id # r.id
  BY <1>1, <1>2 DEF IdsFit
<1> QED BY <1>2, <1>3, <1>4 DEF IdsFit

\* A row goes, or keeps its id.
LEMMA IdsLess ==
  ASSUME Shape, IdsFit, ids' = ids,
         \A p \in Paths : rows'[p] # None => rows[p] # None /\ rows'[p].id = rows[p].id
  PROVE  IdsFit'
BY DEF IdsFit

\* A row with another text.
Retext(row, t) == [row EXCEPT !.text = t]

LEMMA RetextDoes ==
  \A row \in Row : \A t \in Texts :
    /\ Retext(row, t) \in Row /\ Retext(row, t) # None
    /\ Retext(row, t).id = row.id /\ Retext(row, t).gid = row.gid /\ Retext(row, t).text = t
    /\ GidOf(Retext(row, t)) = GidOf(row)
<1>1. \A row \in Row : \A t \in Texts :
        /\ Retext(row, t) \in Row
        /\ Retext(row, t).id = row.id /\ Retext(row, t).gid = row.gid /\ Retext(row, t).text = t
  BY DEF Retext, Row
<1> QED BY <1>1, Bounds DEF GidOf

\* createFile leaves a row its id, and has no gid to change: another machine's
\* file was not there when it began.
LEMMA CommitCreateRow ==
  ASSUME Shape, Owed, NEW u \in Users, CommitCreate(u), NEW p \in Paths, p = act[u].path
  PROVE  /\ rows'[p] \in Row /\ rows'[p] # None /\ rows'[p].text = act[u].text
         /\ rows'[p].id = IF rows[p] = None THEN ids + 1 ELSE rows[p].id
         /\ GidOf(rows'[p]) = rows'[p].id /\ rows'[p].gid = rows'[p].id
         /\ rows[p] # None => GidOf(rows[p]) = rows[p].id
         /\ rows' = [rows EXCEPT ![p] = rows'[p]]
         /\ \A q \in Paths \ {p} : rows'[q] = rows[q]
         /\ ids' = IF rows[p] = None THEN ids + 1 ELSE ids
         /\ Say(rows'[p].id, p, act[u].text)
<1>1. HalfOf(u, {"create"})
  BY CommitCreateDoes
<1>2. PICK id : id = IF rows[p] = None THEN ids + 1 ELSE rows[p].id
  OBVIOUS
<1>3. PICK r : r = [id |-> id, gid |-> id, text |-> act[u].text]
  OBVIOUS
<1>4. /\ rows' = [rows EXCEPT ![p] = r] /\ id <= MaxRows
      /\ ids' = IF rows[p] = None THEN ids + 1 ELSE ids
      /\ Say(id, p, act[u].text)
  BY <1>2, <1>3 DEF CommitCreate
<1>5. rows'[p] = r /\ \A q \in Paths \ {p} : rows'[q] = rows[q]
  BY <1>4 DEF Shape, Typed
<1>6. /\ r # None /\ r \in Row
      /\ r.id = id /\ r.gid = id /\ r.text = act[u].text /\ id # None
  <2>1. act[u].text \in Texts
    BY <1>1 DEF HalfOf, Formed, Writing
  <2>2. rows[p] # None => rows[p].id \in 1..MaxRows
    BY DEF Shape, Typed, Row
  <2>3. id \in 1..MaxRows
    BY <1>2, <1>4, <2>2, Bounds DEF Shape, Typed
  <2>4. r \in Row
    BY <1>3, <2>1, <2>3 DEF Row, Gids
  <2>5. id # None
    BY <2>3, Bounds DEF Gids
  <2> QED BY <1>3, <2>4, <2>5, Bounds
<1>7. GidOf(r) = id
  BY <1>6 DEF GidOf
<1>8. ~Strange(p)
  BY <1>1, UserActs DEF Owed, Fits, WriteFits, Reads, HalfOf, Idle, Writing
<1>9. rows[p] # None => GidOf(rows[p]) = rows[p].id
  BY <1>8 DEF Strange, GidOf
<1> QED BY <1>2, <1>4, <1>5, <1>6, <1>7, <1>9

LEMMA CommitCreateIndex ==
  ASSUME Shape, Index, NEW u \in Users, CommitCreate(u)
  PROVE  Index'
<1>0. PICK p \in Paths : p = act[u].path
  BY CommitCreateDoes DEF HalfOf, OpRec
<1>1. /\ Shape' /\ OthersAct(u) /\ HalfOf(u, Writing)
      /\ act[u].path = p /\ act[u].to = p /\ act'[u] = Onto(act[u], "after")
      /\ UNCHANGED <<disk, events>> /\ torn' = torn \ {p}
  BY <1>0, CommitCreateDoes DEF HalfOf, Writing, CommitCreate
<1>2. PICK r \in Row :
        /\ rows'[p] = r /\ r # None /\ r.text = act[u].text
        /\ r.id = IF rows[p] = None THEN ids + 1 ELSE rows[p].id
        /\ GidOf(r) = r.id /\ r.gid = r.id
        /\ rows[p] # None => GidOf(rows[p]) = rows[p].id
        /\ rows' = [rows EXCEPT ![p] = r]
        /\ \A q \in Paths \ {p} : rows'[q] = rows[q]
        /\ ids' = IF rows[p] = None THEN ids + 1 ELSE ids
  BY <1>0, CommitCreateRow DEF Index
<1>3. Has(p, act[u].text)'
  <2>1. act'[u].text = act[u].text
    BY <1>1, Fields DEF HalfOf
  <2> QED BY <1>2, <2>1 DEF Has
<1>4. KeepsRow(p)
  BY <1>2 DEF KeepsRow, Strange
<1>5. Owed'
  BY <1>1, <1>2, <1>3, <1>4, CommitOwes DEF Index
<1>6. IdsFit'
  BY <1>2, IdsSet DEF Index
<1> QED BY <1>5, <1>6 DEF Index

\* updateFile writes the row it has read, which is still there.
LEMMA CommitUpdateRow ==
  ASSUME Shape, Index, NEW u \in Users, CommitUpdate(u), NEW p \in Paths, p = act[u].path
  PROVE  /\ rows[p] # None /\ rows'[p] = Retext(rows[p], act[u].text)
         /\ rows'[p] # None /\ rows'[p].id = rows[p].id /\ rows'[p].gid = rows[p].gid
         /\ rows'[p].text = act[u].text /\ GidOf(rows'[p]) = GidOf(rows[p])
         /\ \A q \in Paths \ {p} : rows'[q] = rows[q]
         /\ Say(GidOf(rows[p]), p, act[u].text)
<1>1. HalfOf(u, {"update"})
  BY CommitUpdateDoes
<1>2. Same(p, act[u].row)
  BY <1>1, UserActs DEF Index, Owed, Fits, WriteFits, Reads, HalfOf, Idle, Writing
<1>3. WithId(act[u].row.id) = {p}
  BY <1>2, OnlyThere DEF Index
<1>4. rows' = ById(act[u].row.id, p, act[u].text) /\ Say(GidOf(rows[p]), p, act[u].text)
  BY <1>2 DEF CommitUpdate, Same
<1>5. PICK t : t = act[u].text
  OBVIOUS
<1>6. rows'[p] = Retext(rows[p], t) /\ \A q \in Paths \ {p} : rows'[q] = rows[q]
  BY <1>3, <1>4, <1>5 DEF ById, Retext
<1>7. rows[p] # None /\ rows[p] \in Row /\ t \in Texts
  BY <1>1, <1>2, <1>5 DEF Same, Shape, Typed, HalfOf, Formed, Writing
<1> QED BY <1>4, <1>5, <1>6, <1>7, RetextDoes

LEMMA CommitUpdateIndex ==
  ASSUME Shape, Index, NEW u \in Users, CommitUpdate(u)
  PROVE  Index'
<1>0. PICK p \in Paths : p = act[u].path
  BY CommitUpdateDoes DEF HalfOf, OpRec
<1>1. /\ Shape' /\ OthersAct(u) /\ HalfOf(u, Writing)
      /\ act[u].path = p /\ act[u].to = p /\ act'[u] = Onto(act[u], "after")
      /\ UNCHANGED <<disk, events, ids>> /\ torn' = torn \ {p}
  BY <1>0, CommitUpdateDoes DEF HalfOf, Writing, CommitUpdate
<1>2. /\ rows[p] # None /\ rows'[p] # None /\ rows'[p].text = act[u].text
      /\ rows'[p].id = rows[p].id /\ rows'[p].gid = rows[p].gid
      /\ GidOf(rows'[p]) = GidOf(rows[p])
      /\ \A q \in Paths \ {p} : rows'[q] = rows[q]
  BY <1>0, CommitUpdateRow
<1>3. Has(p, act[u].text)'
  <2>1. act'[u].text = act[u].text
    BY <1>1, Fields DEF HalfOf
  <2> QED BY <1>2, <2>1 DEF Has
<1>4. KeepsRow(p)
  BY <1>2 DEF KeepsRow, Strange
<1>5. Owed'
  BY <1>1, <1>2, <1>3, <1>4, CommitOwes DEF Index
<1>6. IdsFit'
  BY <1>1, <1>2, IdsLess DEF Index
<1> QED BY <1>5, <1>6 DEF Index

\* What a path owes when its row has what is on disk, and when there is neither.
LEMMA PathHas ==
  ASSUME NEW p \in Paths, EventsFit(p)', Has(p, disk[p])', disk'[p] # None
  PROVE  PathFits(p)'
BY DEF PathFits, Mends, Agree, Has

LEMMA PathGone ==
  ASSUME NEW p \in Paths, EventsFit(p)', (rows[p] = None)', disk'[p] = None \/ events'[p] # <<>>
  PROVE  PathFits(p)'
BY DEF PathFits, Mends, Agree

\* The file is not there, and an event will say so.
LEMMA PathUnlinked ==
  ASSUME NEW p \in Paths, EventsFit(p)', disk'[p] = None, events'[p] # <<>>
  PROVE  PathFits(p)'
BY DEF PathFits, Mends, EventsFit

LEMMA PathHalf ==
  ASSUME NEW p \in Paths, EventsFit(p)', NEW a \in Actors, act'[a].pc = "half",
         p \in {act'[a].path, act'[a].to}
  PROVE  PathFits(p)'
BY DEF PathFits, HalfAt, At, Half

LEMMA EventsSame ==
  ASSUME NEW p \in Paths, EventsFit(p), disk'[p] = disk[p], events'[p] = events[p]
  PROVE  EventsFit(p)'
BY DEF EventsFit, Last

LEMMA FailWriteIndex ==
  ASSUME Shape, Index, NEW u \in Users, FailWrite(u)
  PROVE  Index'
<1>0. PICK p \in Paths : p = act[u].path
  BY FailWriteDoes DEF HalfOf, OpRec
<1>1. /\ Shape' /\ OthersAct(u) /\ HalfOf(u, Writing) /\ act[u].path = p /\ act[u].to = p
      /\ act'[u] = Idle /\ u \in Actors /\ act[u] # Idle
      /\ UNCHANGED <<rows, ids, torn>>
  BY <1>0, FailWriteDoes, UserActs DEF FailWrite, HalfOf, Idle
<1>2. WriteFits(act[u])
  BY <1>1 DEF HalfOf, Index, Owed, Fits
<1>3. PICK t : t = act[u].stash
  OBVIOUS
<1>4. t \in Texts \cup {None} /\ disk[p] # None
  BY <1>1, <1>2, <1>3, Bounds DEF HalfOf, OpRec, Formed, WriteFits
<1>5. Wrote([disk EXCEPT ![p] = t])
  <2>1. PutBack(u) = t
    BY <1>2, <1>3 DEF PutBack, WriteFits
  <2> QED BY <1>0, <2>1, FailWriteDoes
<1>6. disk'[p] = t /\ Notices(p, disk'[p]) /\ \A q \in Paths \ {p} : SameAt(q)
  BY <1>1, <1>5, WroteOne DEF Shape, SameAt
<1>7. EventsFit(p) /\ events[p] # <<>>
  BY <1>1, <1>2 DEF Index, Owed, PathFits, WriteFits
<1>8. /\ EventsFit(p)' /\ events'[p] # <<>>
      /\ Last(p)' = "add" => events'[p] = events[p]
      /\ Unlinked(p)' <=> (Unlinked(p) \/ t = None)
  BY <1>4, <1>6, <1>7, AfterPut DEF Shape
<1>9. PathFits(p)'
  <2> SUFFICES ASSUME p \notin torn, Last(p)' = "add"
               PROVE  (rows[p] = None)' \/ Has(p, disk[p])' \/ Unlinked(p)'
    BY <1>1, <1>8 DEF PathFits, Mends
  <2>1. Last(p) = "add" /\ t # None
    BY <1>6, <1>8 DEF Last, EventsFit
  <2>2. rows[p] = None \/ Has(p, t) \/ Unlinked(p)
    BY <1>1, <1>2, <1>3, <2>1 DEF WriteFits
  <2> QED BY <1>1, <1>6, <1>8, <2>2 DEF Has
<1>10. ASSUME NEW b \in Actors \ {u} PROVE Bystander(b, p)
  <2>1. b \in At(p) => act[b].kind \in Writing /\ ~Half(b)
    BY <1>1, WritersBy
  <2>2. act'[b] = act[b] /\ KeepsRow(p) /\ (~Strange(p) => ~Strange(p)')
    BY <1>1, RowStays DEF OthersAct, KeepsRow
  <2>3. CASE t = None
    <3>1. b \in At(p) /\ act[b].kind = "update" => act[b].pc # "wait"
      BY <1>1, <1>2, <1>3, <2>3 DEF WriteFits
    <3> QED BY <2>1, <2>2, <3>1, CreatorKept DEF Index
  <2>4. CASE t # None
    BY <1>6, <1>8, <2>1, <2>2, <2>4, BystanderKept DEF Index
  <2> QED BY <2>3, <2>4
<1>11. Owed'
  BY <1>1, <1>6, <1>9, <1>10, OwedAt DEF Index
<1> QED BY <1>1, <1>11 DEF Index, IdsFit

LEMMA UnlockIndex ==
  ASSUME Shape, Index, OneProcess, NEW u \in Users, Unlock(u)
  PROVE  Index'
<1>0. PICK p \in Paths : p = act[u].path
  BY UnlockDoes DEF OpRec
<1>1. /\ Shape' /\ OthersAct(u) /\ NobodyHalf /\ act[u].path = p /\ act[u].to = p
      /\ act'[u] = Idle /\ u \in Actors /\ act[u] # Idle
      /\ UNCHANGED <<disk, rows, ids, events, torn>>
  BY <1>0, UnlockDoes, UserActs DEF Idle
<1>2. \A q \in Paths \ {p} : SameAt(q)
  BY <1>1 DEF SameAt
<1>3. PathFits(p)'
  <2>1. EventsFit(p) /\ (p \in torn \/ Mends(p))
    BY <1>1, NobodyThere, Settled DEF Index
  <2> QED BY <1>1, <2>1 DEF PathFits, EventsFit, Mends, Last, Unlinked, Has, Agree
<1>4. ASSUME NEW b \in Actors \ {u} PROVE Bystander(b, p)
  <2>1. b \in At(p) => act[b].kind \in Writing /\ ~Half(b)
    BY <1>1, WritersBy
  <2>2. act'[b] = act[b] /\ KeepsRow(p) /\ (Unlinked(p)' => Unlinked(p))
    BY <1>1, RowStays DEF OthersAct, Unlinked
  <2> QED BY <1>1, <2>1, <2>2, BystanderKept DEF Index
<1>5. Owed'
  BY <1>1, <1>2, <1>3, <1>4, OwedAt DEF Index
<1> QED BY <1>1, <1>5 DEF Index, IdsFit

-----------------------------------------------------------------------------
(* deleteFile, moveFile, restoreVersion, refreshIndex *)

LEMMA DeleteDiskIndex ==
  ASSUME Shape, Index, OneProcess, Apart, NEW u \in Users, NEW p \in Paths, DeleteDisk(u, p)
  PROVE  Index'
<1>1. /\ Shape' /\ OthersAct(u) /\ act[u] = Idle /\ u \in Actors
      /\ At(p) = {} /\ events[p] = <<>> /\ rows[p] # None
      /\ UNCHANGED <<rows, ids, torn>>
  BY DeleteDiskDoes, UserActs DEF DeleteDisk
<1> PICK left \in {disk[p], None} : Wrote([disk EXCEPT ![p] = left])
  BY DeleteDiskDoes
<1>2. /\ act'[u].pc = "half" /\ act'[u].kind = "delete" /\ act'[u].path = p /\ act'[u].to = p
      /\ act'[u].row = rows[p]
  <2>1. act'[u] = Op("half", "delete", p, p, rows[p], 0, None)
    BY DeleteDiskDoes
  <2> QED BY <2>1, OpFields
<1>3. disk'[p] = left /\ Notices(p, disk'[p]) /\ \A q \in Paths \ {p} : SameAt(q)
  BY <1>1, WroteOne DEF Shape, SameAt
<1>4. EventsFit(p) /\ (p \in torn \/ Agree(p))
  BY <1>1, Settled DEF Index
<1>5. EventsFit(p)' /\ (disk[p] # None /\ left = None => events'[p] # <<>>)
  BY <1>3, <1>4, AfterPut DEF Shape, Typed
<1>6. PathFits(p)'
  BY <1>1, <1>2, <1>5, PathHalf
<1>7. DeleteFits(act[u])'
  BY <1>1, <1>2, <1>3, <1>4, <1>5 DEF DeleteFits, Same, Agree, Has
<1>8. Fits(act[u])'
  BY <1>2, <1>7 DEF Fits, Writing, OfLoop
<1>9. Owed'
  BY <1>1, <1>2, <1>3, <1>6, <1>8, NobodyBy, OwedAt DEF Index
<1> QED BY <1>1, <1>9 DEF Index, IdsFit

LEMMA CommitDeleteIndex ==
  ASSUME Shape, Index, NEW u \in Users, CommitDelete(u)
  PROVE  Index'
<1>0. PICK p \in Paths : p = act[u].path
  BY CommitDeleteDoes DEF HalfOf, OpRec
<1>1. /\ Shape' /\ OthersAct(u) /\ act[u].kind = "delete" /\ act[u].path = p /\ act[u].to = p
      /\ act'[u] = Idle /\ u \in Actors /\ act[u] # Idle
      /\ UNCHANGED <<disk, events, ids>>
      /\ torn' = IF disk[p] = None THEN torn \ {p} ELSE torn \cup {p}
  BY <1>0, CommitDeleteDoes, UserActs DEF CommitDelete, HalfOf, Idle
<1>2. DeleteFits(act[u])
  BY <1>1 DEF Index, Owed, Fits
<1>3. WithId(act[u].row.id) = {p}
  BY <1>1, <1>2, OnlyThere DEF Index, DeleteFits
<1>4. rows'[p] = None /\ \A q \in Paths \ {p} : rows'[q] = rows[q]
  BY <1>3 DEF CommitDelete
<1>5. PathFits(p)'
  <2>1. EventsFit(p)'
    BY <1>1, EventsSame DEF Index, Owed, PathFits
  <2>2. CASE disk[p] = None
    BY <1>1, <1>4, <2>1, <2>2, PathGone
  <2>3. CASE disk[p] # None
    BY <1>1, <2>1, <2>3 DEF PathFits
  <2> QED BY <2>2, <2>3
<1>6. \A q \in Paths \ {p} : SameAt(q)
  BY <1>1, <1>4, Untorn DEF SameAt
<1>7. \A b \in Actors \ {u} : Bystander(b, p)
  BY <1>1, AloneBy DEF Writing
<1>8. Owed'
  BY <1>1, <1>5, <1>6, <1>7, OwedAt DEF Index
<1>9. IdsFit'
  BY <1>1, <1>4, IdsLess DEF Index
<1> QED BY <1>8, <1>9 DEF Index

LEMMA FailDeleteIndex ==
  ASSUME Shape, Index, NEW u \in Users, FailDelete(u)
  PROVE  Index'
<1>0. PICK p \in Paths : p = act[u].path
  BY FailDeleteDoes DEF HalfOf, OpRec
<1>1. /\ Shape' /\ OthersAct(u) /\ act[u].kind = "delete" /\ act[u].path = p /\ act[u].to = p
      /\ act'[u] = Idle /\ u \in Actors /\ act[u] # Idle
      /\ UNCHANGED <<disk, events, ids, rows, torn>>
  BY <1>0, FailDeleteDoes, UserActs DEF FailDelete, HalfOf, Idle
<1>2. DeleteFits(act[u]) /\ EventsFit(p)
  BY <1>1 DEF Index, Owed, Fits, PathFits
<1>3. PathFits(p)'
  <2>1. EventsFit(p)'
    BY <1>1, <1>2, EventsSame
  <2>2. CASE p \in torn
    BY <1>1, <2>1, <2>2 DEF PathFits
  <2>3. CASE p \notin torn /\ disk[p] = None
    BY <1>1, <1>2, <2>1, <2>3, PathUnlinked DEF DeleteFits
  <2>4. CASE p \notin torn /\ disk[p] # None
    <3>1. Has(p, disk[p])'
      BY <1>1, <1>2, <2>4 DEF DeleteFits, Has
    <3> QED BY <1>1, <2>1, <2>4, <3>1, PathHas
  <2> QED BY <2>2, <2>3, <2>4
<1>4. \A q \in Paths \ {p} : SameAt(q)
  BY <1>1 DEF SameAt
<1>5. \A b \in Actors \ {u} : Bystander(b, p)
  BY <1>1, AloneBy DEF Writing
<1>6. Owed'
  BY <1>1, <1>3, <1>4, <1>5, OwedAt DEF Index
<1> QED BY <1>1, <1>6 DEF Index, IdsFit

LEMMA WroteBetween ==
  ASSUME NEW p \in Paths, NEW q \in Paths, NEW f, Wrote(f),
         \A x \in Paths \ {p, q} : f[x] = disk[x]
  PROVE  /\ disk'[p] = f[p] /\ Notices(p, disk'[p])
         /\ disk'[q] = f[q] /\ Notices(q, disk'[q])
         /\ \A x \in Paths \ {p, q} : disk'[x] = disk[x] /\ events'[x] = events[x]
BY WroteElse DEF Wrote

LEMMA MoveDiskIndex ==
  ASSUME Shape, Index, OneProcess, Apart, NEW u \in Users, NEW p \in Paths, NEW q \in Paths,
         MoveDisk(u, p, q)
  PROVE  Index'
<1>1. /\ Shape' /\ OthersAct(u) /\ act[u] = Idle /\ u \in Actors
      /\ At(p) = {} /\ At(q) = {} /\ events[p] = <<>> /\ events[q] = <<>>
      /\ p # q /\ rows[p] # None /\ disk[p] # None /\ disk[q] = None
      /\ Wrote([disk EXCEPT ![p] = None, ![q] = disk[p]])
      /\ UNCHANGED <<rows, ids, torn>>
  BY MoveDiskDoes, UserActs DEF MoveDisk
<1>2. /\ act'[u].pc = "half" /\ act'[u].kind = "move" /\ act'[u].path = p /\ act'[u].to = q
      /\ act'[u].row = rows[p]
  <2>1. act'[u] = Op("half", "move", p, q, rows[p], 0, None)
    BY MoveDiskDoes
  <2> QED BY <2>1, OpFields
<1>3. /\ disk'[p] = None /\ Notices(p, disk'[p]) /\ disk'[q] = disk[p] /\ Notices(q, disk'[q])
      /\ \A x \in Paths \ {p, q} : SameAt(x)
  <2> DEFINE f == [disk EXCEPT ![p] = None, ![q] = disk[p]]
  <2>1. f[p] = None /\ f[q] = disk[p] /\ (\A x \in Paths \ {p, q} : f[x] = disk[x]) /\ Wrote(f)
    BY <1>1 DEF Shape, Typed
  <2> HIDE DEF f
  <2> QED BY <1>1, <2>1, WroteBetween DEF SameAt
<1>4. /\ EventsFit(p) /\ (p \in torn \/ Agree(p))
      /\ EventsFit(q) /\ (q \in torn \/ Agree(q))
  BY <1>1, Settled DEF Index
<1>5. EventsFit(p)' /\ events'[p] = <<"unlink">>
  BY <1>1, <1>3, <1>4, AfterPut DEF Shape
<1>6. EventsFit(q)' /\ events'[q] = <<"add">>
  <2>1. disk'[q] \in Texts \cup {None}
    BY <1>3 DEF Shape, Typed
  <2> QED BY <1>1, <1>3, <1>4, <2>1, AfterPut DEF Shape
<1>7. PathFits(p)' /\ PathFits(q)'
  BY <1>1, <1>2, <1>5, <1>6, PathHalf
<1>8. MoveFits(act[u])'
  BY <1>1, <1>2, <1>3, <1>4, <1>5, <1>6 DEF MoveFits, Same, Agree, Has
<1>9. Fits(act[u])'
  BY <1>2, <1>8 DEF Fits, Writing, OfLoop
<1>10. \A b \in Actors \ {u} : Bystander(b, p) /\ Bystander(b, q)
  BY <1>1, NobodyBy
<1>11. Owed'
  BY <1>1, <1>2, <1>3, <1>7, <1>9, <1>10, OwedBetween DEF Index
<1> QED BY <1>1, <1>11 DEF Index, IdsFit

\* The row with the id goes from p to q.
LEMMA MovedOne ==
  ASSUME Typed, NEW p \in Paths, NEW q \in Paths, p # q, NEW id, WithId(id) = {p},
         rows' = MovedRow(id, q)
  PROVE  /\ rows'[p] = None /\ rows'[q] = rows[p]
         /\ \A x \in Paths \ {p, q} : rows'[x] = rows[x]
<1>1. (CHOOSE x \in WithId(id) : TRUE) = p
  OBVIOUS
<1> QED BY <1>1 DEF MovedRow

LEMMA IdsMoved ==
  ASSUME IdsFit, NEW p \in Paths, NEW q \in Paths, ids' = ids,
         rows'[p] = None, rows'[q] = rows[p],
         \A x \in Paths \ {p, q} : rows'[x] = rows[x]
  PROVE  IdsFit'
<1>1. \A x \in Paths : rows'[x] # None => rows'[x].id <= ids'
  BY DEF IdsFit
<1>2. \A x \in Paths \ {p, q} : rows'[x] # None /\ rows'[q] # None => rows'[x].id # rows'[q].id
  BY DEF IdsFit
<1>3. \A x, y \in Paths \ {p, q} :
        rows'[x] # None /\ rows'[y] # None /\ rows'[x].id = rows'[y].id => x = y
  BY DEF IdsFit
<1> QED BY <1>1, <1>2, <1>3 DEF IdsFit

LEMMA CommitMoveIndex ==
  ASSUME Shape, Index, NEW u \in Users, CommitMove(u)
  PROVE  Index'
<1>0. PICK p \in Paths, q \in Paths : p = act[u].path /\ q = act[u].to
  BY CommitMoveDoes DEF HalfOf, OpRec
<1>1. /\ Shape' /\ OthersAct(u) /\ act[u].kind = "move" /\ act[u].path = p /\ act[u].to = q
      /\ p # q /\ act'[u] = Idle /\ u \in Actors /\ act[u] # Idle
      /\ UNCHANGED <<disk, events, ids>> /\ torn' = Spread(p, q) /\ rows[q] = None
  BY <1>0, CommitMoveDoes, UserActs DEF CommitMove, HalfOf, Idle
<1>2. MoveFits(act[u]) /\ EventsFit(p) /\ EventsFit(q)
  BY <1>1 DEF Index, Owed, Fits, PathFits
<1>3. WithId(act[u].row.id) = {p}
  BY <1>1, <1>2, OnlyThere DEF Index, MoveFits
<1>4. rows'[p] = None /\ rows'[q] = rows[p] /\ \A x \in Paths \ {p, q} : rows'[x] = rows[x]
  <2>1. rows' = MovedRow(act[u].row.id, q)
    BY <1>0, <1>3 DEF CommitMove
  <2> QED BY <1>1, <1>3, <2>1, MovedOne DEF Shape
<1>5. /\ disk[p] = None /\ events[p] = <<"unlink">> /\ disk[q] # None
      /\ p \notin torn => Has(p, disk[q])
  BY <1>1, <1>2 DEF MoveFits
<1>6. EventsFit(p)' /\ EventsFit(q)'
  BY <1>1, <1>2, EventsSame
<1>7. PathFits(p)'
  BY <1>1, <1>4, <1>5, <1>6, PathGone
<1>8. PathFits(q)'
  <2>1. CASE p \in torn
    BY <1>1, <1>6, <2>1 DEF Spread, PathFits
  <2>2. CASE p \notin torn
    <3>1. Has(q, disk[q])'
      BY <1>1, <1>4, <1>5, <2>2 DEF Has
    <3> QED BY <1>1, <1>5, <1>6, <3>1, PathHas
  <2> QED BY <2>1, <2>2
<1>9. \A x \in Paths \ {p, q} : SameAt(x)
  BY <1>1, <1>4 DEF SameAt, Spread
<1>10. \A b \in Actors \ {u} : Bystander(b, p) /\ Bystander(b, q)
  BY <1>1, AloneBy DEF Writing
<1>11. Owed'
  BY <1>1, <1>7, <1>8, <1>9, <1>10, OwedBetween DEF Index
<1>12. IdsFit'
  BY <1>1, <1>4, IdsMoved DEF Index
<1> QED BY <1>11, <1>12 DEF Index

LEMMA FailMoveIndex ==
  ASSUME Shape, Index, NEW u \in Users, FailMove(u)
  PROVE  Index'
<1>0. PICK p \in Paths, q \in Paths : p = act[u].path /\ q = act[u].to
  BY FailMoveDoes DEF HalfOf, OpRec
<1>1. /\ Shape' /\ OthersAct(u) /\ act[u].kind = "move" /\ act[u].path = p /\ act[u].to = q
      /\ p # q /\ act'[u] = Idle /\ u \in Actors /\ act[u] # Idle
      /\ UNCHANGED <<rows, ids, torn>>
  BY <1>0, FailMoveDoes, UserActs DEF FailMove, HalfOf, Idle
<1>2. MoveFits(act[u])
  BY <1>1 DEF Index, Owed, Fits
<1>3. /\ events[p] = <<"unlink">> /\ events[q] = <<"add">> /\ disk[q] # None
      /\ p \notin torn => Has(p, disk[q])
      /\ q \notin torn => rows[q] = None
  BY <1>1, <1>2 DEF MoveFits
<1>4. /\ disk'[q] = None /\ disk'[p] = disk[q]
      /\ \A x \in Paths \ {p, q} : disk'[x] = disk[x]
  <2>1. disk' = [disk EXCEPT ![q] = None, ![p] = disk[q]]
    BY <1>0, <1>1 DEF FailMove, Unrenamed, Renamed
  <2> QED BY <1>1, <2>1 DEF Shape, Typed
<1>5. /\ events'[p] = <<>> /\ events'[q] = <<>>
      /\ \A x \in Paths \ {p, q} : events'[x] = events[x]
  <2>1. /\ events'[p] = SubSeq(events[p], 1, Len(events[p]) - 1)
        /\ events'[q] = SubSeq(events[q], 1, Len(events[q]) - 1)
        /\ \A x \in Paths \ {p, q} : events'[x] = events[x]
    <3>1. events[p] # <<>> /\ events[q] # <<>>
      BY <1>3
    <3>2. events' = [x \in Paths |->
                       IF x \in {p, q} /\ events[x] # <<>>
                         THEN SubSeq(events[x], 1, Len(events[x]) - 1) ELSE events[x]]
      BY <1>0 DEF FailMove
    <3> QED BY <3>1, <3>2
  <2>2. \A k : Len(<<k>>) = 1 /\ SubSeq(<<k>>, 1, 0) = <<>>
    OBVIOUS
  <2> QED BY <1>3, <2>1, <2>2
<1>6. PathFits(p)' /\ PathFits(q)'
  BY <1>1, <1>3, <1>4, <1>5 DEF PathFits, EventsFit, Mends, Agree, Has
<1>7. \A x \in Paths \ {p, q} : SameAt(x)
  BY <1>1, <1>4, <1>5 DEF SameAt
<1>8. \A b \in Actors \ {u} : Bystander(b, p) /\ Bystander(b, q)
  BY <1>1, AloneBy DEF Writing
<1>9. Owed'
  BY <1>1, <1>6, <1>7, <1>8, OwedBetween DEF Index
<1> QED BY <1>1, <1>9 DEF Index, IdsFit

LEMMA RestoreDiskIndex ==
  ASSUME Shape, Index, OneProcess, Apart, NEW u \in Users, NEW p \in Paths, RestoreDisk(u, p)
  PROVE  Index'
<1>1. PICK t \in 1..texts \ remote :
        /\ Shape' /\ OthersAct(u) /\ act[u] = Idle
        /\ act'[u] = Op("half", "restore", p, p, None, t, None)
        /\ At(p) = {} /\ events[p] = <<>>
        /\ Wrote([disk EXCEPT ![p] = t])
  BY RestoreDiskDoes
<1>2. /\ act'[u].pc = "half" /\ act'[u].kind = "restore" /\ act'[u].path = p /\ act'[u].to = p
      /\ act'[u].text = t /\ u \in Actors /\ UNCHANGED <<rows, ids, torn>>
  BY <1>1, OpFields, UserActs DEF RestoreDisk
<1>3. disk'[p] = t /\ Notices(p, disk'[p]) /\ \A q \in Paths \ {p} : SameAt(q)
  BY <1>1, <1>2, WroteOne DEF Shape, SameAt
<1>4. EventsFit(p) /\ (p \in torn \/ Agree(p))
  BY <1>1, Settled DEF Index
<1>5. disk'[p] \in Texts
  <2>1. t \in Texts
    BY Bounds DEF Shape, Typed, Texts
  <2> QED BY <1>3, <2>1
<1>6. EventsFit(p)' /\ (disk[p] # disk'[p] => events'[p] # <<>>)
  BY <1>3, <1>4, <1>5, AfterPut DEF Shape
<1>7. PathFits(p)'
  BY <1>2, <1>6, PathHalf
<1>8. RestoreFits(act[u])'
  <2>1. p \notin torn /\ rows[p] = None => disk[p] = None
    BY <1>4 DEF Agree, Has
  <2>2. p \notin torn /\ rows[p] = None => events'[p] # <<>>
    BY <1>5, <1>6, <2>1, Bounds
  <2> QED BY <1>2, <1>3, <2>2 DEF RestoreFits
<1>9. Fits(act[u])'
  BY <1>2, <1>8 DEF Fits, Writing, OfLoop
<1>10. Owed'
  BY <1>1, <1>2, <1>3, <1>7, <1>9, NobodyBy, OwedAt DEF Index
<1> QED BY <1>2, <1>10 DEF Index, IdsFit

LEMMA CommitRestoreIndex ==
  ASSUME Shape, Index, NEW u \in Users, CommitRestore(u)
  PROVE  Index'
<1>0. PICK p \in Paths : p = act[u].path
  BY CommitRestoreDoes DEF HalfOf, OpRec
<1>1. /\ Shape' /\ OthersAct(u) /\ HalfOf(u, {"restore"}) /\ act[u].kind = "restore"
      /\ act[u].path = p /\ act[u].to = p
      /\ act'[u] = Idle /\ u \in Actors /\ act[u] # Idle
      /\ UNCHANGED <<disk, events, ids>>
  BY <1>0, CommitRestoreDoes, UserActs DEF CommitRestore, HalfOf, Idle
<1>2. RestoreFits(act[u]) /\ EventsFit(p)
  BY <1>1 DEF Index, Owed, Fits, PathFits
<1>3. PICK t : t = act[u].text
  OBVIOUS
<1>4. disk[p] = t /\ t \in Texts /\ EventsFit(p)'
  BY <1>1, <1>2, <1>3, EventsSame DEF RestoreFits, HalfOf, Formed
<1>5. \A b \in Actors \ {u} : Bystander(b, p)
  BY <1>1, AloneBy DEF Writing
<1>6. CASE rows[p] = None
  <2>1. rows' = rows /\ torn' = torn
    BY <1>0, <1>6 DEF CommitRestore
  <2>2. \A q \in Paths \ {p} : SameAt(q)
    BY <1>1, <2>1 DEF SameAt
  <2>3. p \in torn \/ events'[p] # <<>>
    BY <1>1, <1>2, <1>6 DEF RestoreFits
  <2>4. PathFits(p)'
    BY <1>4, <1>6, <2>1, <2>3, PathGone DEF PathFits
  <2>5. Owed'
    BY <1>1, <1>5, <2>2, <2>4, OwedAt DEF Index
  <2> QED BY <1>1, <2>1, <2>5 DEF Index, IdsFit
<1>7. CASE rows[p] # None
  <2>1. rows[p] \in Row
    BY <1>7 DEF Shape, Typed
  <2>2. torn' = torn \ {p} /\ rows' = [rows EXCEPT ![p] = Retext(rows[p], t)]
    BY <1>0, <1>3, <1>7 DEF CommitRestore, Retext
  <2>3. rows'[p] = Retext(rows[p], t) /\ \A q \in Paths \ {p} : rows'[q] = rows[q]
    BY <2>2 DEF Shape, Typed
  <2>4. rows'[p] # None /\ rows'[p].id = rows[p].id /\ rows'[p].text = t
    BY <1>4, <2>1, <2>3, RetextDoes
  <2>5. Has(p, disk[p])' /\ disk'[p] # None
    BY <1>1, <1>4, <2>4, Bounds DEF Has
  <2>6. \A q \in Paths \ {p} : SameAt(q)
    BY <1>1, <2>2, <2>3, Untorn DEF SameAt
  <2>7. Owed'
    BY <1>1, <1>4, <1>5, <2>5, <2>6, PathHas, OwedAt DEF Index
  <2>8. IdsFit'
    BY <1>1, <1>7, <2>3, <2>4, IdsLess DEF Index
  <2> QED BY <2>7, <2>8 DEF Index
<1> QED BY <1>6, <1>7

\* A file whose row now has what is on disk, or lost it with the file.
LEMMA PathAgrees ==
  ASSUME NEW p \in Paths, EventsFit(p)', Agree(p)'
  PROVE  PathFits(p)'
BY DEF PathFits, Mends, Agree, Has

\* refreshIndex, path by path: a new row, the row that was there, or none.
LEMMA RefreshedAgrees ==
  ASSUME Typed, NEW p \in Paths, Refreshed(p), disk' = disk, ids' \in ids..MaxRows
  PROVE  /\ Agree(p)'
         /\ p \in Unknown => /\ rows[p] = None /\ rows'[p] # None
                             /\ rows'[p].gid = None /\ rows'[p].id \in ids + 1..ids'
         /\ p \notin Unknown /\ rows'[p] # None =>
              rows[p] # None /\ rows'[p].id = rows[p].id /\ rows'[p].gid = rows[p].gid
         /\ p \notin Unknown \cup Stale => rows'[p] = rows[p]
<1>1. disk[p] \in Texts \cup {None} /\ rows[p] \in Row \cup {None} /\ None \notin Row
  BY Bounds DEF Typed
<1>2. CASE p \in Unknown
  <2>1. PICK id \in ids + 1..ids' : rows'[p] = [id |-> id, gid |-> None, text |-> disk[p]]
    BY <1>2 DEF Refreshed
  <2>2. rows'[p].id = id /\ rows'[p].gid = None /\ rows'[p].text = disk[p]
    BY <2>1
  <2>3. rows[p] = None /\ disk[p] # None
    BY <1>2 DEF Unknown
  <2>4. rows'[p] # None
    <3>1. id \in 1..MaxRows
      BY Bounds DEF Typed
    <3>2. rows'[p] \in Row
      BY <1>1, <2>1, <2>3, <3>1 DEF Row
    <3> QED BY <1>1, <3>2
  <2> QED BY <1>2, <2>2, <2>3, <2>4 DEF Agree, Has
<1>3. CASE p \notin Unknown /\ p \in Stale /\ disk[p] = None
  BY <1>1, <1>3 DEF Refreshed, Agree
<1>4. CASE p \notin Unknown /\ p \in Stale /\ disk[p] # None
  <2>1. rows'[p] = Retext(rows[p], disk[p]) /\ rows[p] \in Row /\ disk[p] \in Texts
    BY <1>1, <1>4 DEF Refreshed, Stale, Retext
  <2>2. /\ rows'[p] # None /\ rows'[p].id = rows[p].id /\ rows'[p].gid = rows[p].gid
        /\ rows'[p].text = disk[p]
    BY <2>1, RetextDoes
  <2> QED BY <1>1, <1>4, <2>1, <2>2 DEF Agree, Has
<1>5. CASE p \notin Unknown /\ p \notin Stale
  <2>1. rows'[p] = rows[p]
    BY <1>5 DEF Refreshed
  <2>2. rows[p] # None => rows[p].text \in Texts /\ rows[p].text # None
    BY <1>1, Bounds DEF Row
  <2> QED BY <1>5, <2>1, <2>2 DEF Unknown, Stale, Agree, Has
<1> QED BY <1>2, <1>3, <1>4, <1>5

LEMMA RefreshIndex ==
  ASSUME Shape, Index, OneProcess, Apart, NEW u \in Users, Refresh(u)
  PROVE  Index'
<1>1. /\ Shape' /\ NobodyHalf /\ act' = act /\ ids' \in ids..MaxRows /\ ids \in Nat
      /\ \A p \in Paths : Refreshed(p)
      /\ \A p, q \in Unknown : p # q => rows'[p].id # rows'[q].id
  BY RefreshDoes DEF Shape, Typed
<1>2. UNCHANGED <<disk, events>> /\ \A p \in Stale : At(p) = {}
  BY DEF Refresh, Unattended, Stale
<1>3. \A p \in Paths :
        /\ Agree(p)'
        /\ p \in Unknown => /\ rows[p] = None /\ rows'[p] # None
                            /\ rows'[p].gid = None /\ rows'[p].id \in ids + 1..ids'
        /\ p \notin Unknown /\ rows'[p] # None =>
             rows[p] # None /\ rows'[p].id = rows[p].id /\ rows'[p].gid = rows[p].gid
        /\ p \notin Unknown \cup Stale => rows'[p] = rows[p]
  BY <1>1, <1>2, RefreshedAgrees DEF Shape, Typed
<1>4. \A p \in Paths : PathFits(p)'
  <2> TAKE p \in Paths
  <2>1. EventsFit(p)
    BY DEF Index, Owed, PathFits
  <2> QED BY <1>2, <1>3, <2>1, EventsSame, PathAgrees
<1>5. ASSUME NEW a \in Actors, act'[a] # Idle PROVE Fits(act[a])'
  <2>1. act[a] # Idle /\ act'[a] = act[a] /\ act[a].pc # "half" /\ act[a] \in OpRec
        /\ Formed(a, act[a]) /\ Fits(act[a])
    BY <1>1, <1>5, Pcs DEF NobodyHalf, Half, Shape, Index, Owed
  <2>2. PICK p \in Paths : p = act[a].path
    BY <2>1 DEF OpRec
  <2>3. a \in At(p)
    BY <2>1, <2>2, Pcs DEF At, Shape
  <2>4. p \notin Stale
    BY <1>2, <2>3
  <2>5. KeepsRow(p) /\ (rows[p] # None => rows'[p] = rows[p])
    <3>1. CASE p \in Unknown
      BY <1>3, <3>1 DEF KeepsRow, Strange
    <3>2. CASE p \notin Unknown
      BY <1>3, <2>4, <3>2, RowStays
    <3> QED BY <3>1, <3>2
  <2>6. PICK o : o = act[a]
    OBVIOUS
  <2>7. CASE act[a].kind \in Writing
    <3>1. act[a].pc = "wait" => Waits(o)'
      <4> HAVE act[a].pc = "wait"
      <4>1. Waits(o)
        BY <2>1, <2>6, <2>7 DEF Fits
      <4>2. Unlinked(p)' => Unlinked(p)
        BY <1>2 DEF Unlinked
      <4> QED BY <1>2, <2>2, <2>5, <2>6, <4>1, <4>2, WaitsKept
    <3> QED BY <2>1, <2>6, <2>7, <3>1 DEF Fits, Writing, OfLoop
  <2>8. CASE act[a].kind \notin Writing
    <3>1. act[a].kind \in OfLoop /\ PullFits(act[a])
      BY <2>1, <2>8 DEF Formed, OfUsers, Fits, OpRec
    <3>2. PullFits(act[a])'
      BY <1>2, <2>1, <2>2, <2>5, <3>1 DEF PullFits, Has
    <3> QED BY <2>1, <3>1, <3>2 DEF Fits, Writing, OfLoop
  <2> QED BY <2>7, <2>8
<1>6. Owed'
  BY <1>4, <1>5 DEF Owed
<1>7. IdsFit'
  <2>1. \A p \in Paths : rows[p] # None => rows[p].id \in Nat /\ rows[p].id <= ids
    BY DEF Index, IdsFit, Shape, Typed, Row
  <2>2. \A p \in Paths : rows'[p] # None => rows'[p].id <= ids'
    BY <1>1, <1>3, <2>1
  <2>3. ASSUME NEW p \in Paths, NEW q \in Paths, rows'[p] # None, rows'[q] # None,
               rows'[p].id = rows'[q].id
        PROVE  p = q
    <3>1. CASE p \in Unknown /\ q \in Unknown
      BY <1>1, <2>3, <3>1
    <3>2. CASE p \notin Unknown /\ q \notin Unknown
      BY <1>3, <2>3, <3>2 DEF Index, IdsFit
    <3>3. CASE p \in Unknown /\ q \notin Unknown
      BY <1>1, <1>3, <2>1, <2>3, <3>3
    <3>4. CASE p \notin Unknown /\ q \in Unknown
      BY <1>1, <1>3, <2>1, <2>3, <3>4
    <3> QED BY <3>1, <3>2, <3>3, <3>4
  <2> QED BY <2>2, <2>3 DEF IdsFit
<1> QED BY <1>6, <1>7 DEF Index

-----------------------------------------------------------------------------
(* Editors and the watcher *)

LEMMA EditIndex ==
  ASSUME Shape, Fresh, Index, Apart, NEW p \in Paths, Edit(p)
  PROVE  Index'
<1>1. /\ Shape' /\ At(p) = {} /\ events[p] = <<>>
      /\ texts' = texts + 1 /\ texts' \in Texts
      /\ Wrote([disk EXCEPT ![p] = texts'])
      /\ UNCHANGED <<rows, ids, act, torn>>
  BY EditDoes DEF Edit
<1>2. disk'[p] = texts' /\ Notices(p, disk'[p]) /\ \A q \in Paths \ {p} : SameAt(q)
  BY <1>1, WroteOne DEF Shape, SameAt
<1>3. disk[p] # texts' /\ texts' # None
  <2>1. texts' # None /\ texts \in Nat /\ (disk[p] # None => disk[p] \in Nat /\ disk[p] <= texts)
    BY <1>1, Bounds DEF Fresh, Upto, Shape, Typed, Texts
  <2> QED BY <1>1, <2>1
<1>4. EventsFit(p) /\ (p \in torn \/ Agree(p))
  BY <1>1, Settled DEF Index
<1>5. /\ EventsFit(p)' /\ events'[p] # <<>>
      /\ Last(p)' = "add" /\ disk[p] # None => events'[p] = events[p]
  BY <1>1, <1>2, <1>3, <1>4, AfterPut DEF Shape
<1>6. PathFits(p)'
  BY <1>1, <1>4, <1>5 DEF PathFits, Mends, Agree
<1>7. Owed'
  BY <1>1, <1>2, <1>6, NobodyBy, OwedStill DEF Index
<1> QED BY <1>1, <1>7 DEF Index, IdsFit

LEMMA RemoveIndex ==
  ASSUME Shape, Index, Apart, NEW p \in Paths, Remove(p)
  PROVE  Index'
<1>1. /\ Shape' /\ At(p) = {} /\ events[p] = <<>> /\ disk[p] # None
      /\ Wrote([disk EXCEPT ![p] = None])
      /\ UNCHANGED <<rows, ids, act, torn>>
  BY RemoveDoes DEF Remove
<1>2. disk'[p] = None /\ Notices(p, disk'[p]) /\ \A q \in Paths \ {p} : SameAt(q)
  BY <1>1, WroteOne DEF Shape, SameAt
<1>3. EventsFit(p)
  BY DEF Index, Owed, PathFits
<1>4. EventsFit(p)' /\ events'[p] # <<>>
  BY <1>1, <1>2, <1>3, AfterPut DEF Shape
<1>5. Owed'
  BY <1>1, <1>2, <1>4, PathUnlinked, NobodyBy, OwedStill DEF Index
<1> QED BY <1>1, <1>5 DEF Index, IdsFit

\* The oldest event goes: the last one stays, unless it was the only one.
LEMMA Taken ==
  ASSUME Typed, NEW p \in Paths, events[p] # <<>>, events'[p] = Tail(events[p])
  PROVE  /\ events'[p] # <<>> => Last(p)' = Last(p)
         /\ events'[p] = <<>> => Last(p) = Head(events[p]) /\ ~Unlinked(p)'
         /\ Unlinked(p)' => Unlinked(p)
         /\ Unlinked(p) => Unlinked(p)' \/ Head(events[p]) = "unlink"
         /\ Head(events[p]) = "unlink" => Unlinked(p)
<1> DEFINE e == events[p]
<1>1. e \in Seq(EventKinds) /\ e # <<>>
  BY DEF Typed
<1>2. PICK n \in Nat : n = Len(e)
  BY <1>1
<1>3. /\ n >= 1 /\ DOMAIN e = 1..n /\ Head(e) = e[1]
      /\ Len(Tail(e)) = n - 1 /\ DOMAIN Tail(e) = 1..n - 1
      /\ \A i \in 1..n - 1 : Tail(e)[i] = e[i + 1]
  BY <1>1, <1>2
<1>4. Tail(e) = <<>> <=> n = 1
  <2>1. Tail(e) \in Seq(EventKinds)
    BY <1>1
  <2>2. Tail(e) = <<>> <=> Len(Tail(e)) = 0
    BY <2>1, EmptySeq
  <2> QED BY <1>3, <2>2
<1>5. events'[p] # <<>> => Last(p)' = Last(p)
  BY <1>2, <1>3, <1>4 DEF Last
<1>6. events'[p] = <<>> => Last(p) = Head(events[p]) /\ ~Unlinked(p)'
  <2> HAVE events'[p] = <<>>
  <2>1. n = 1
    BY <1>4
  <2>2. ~Unlinked(p)'
    <3>1. DOMAIN events'[p] = 1..0
      BY <1>3, <2>1
    <3> QED BY <3>1 DEF Unlinked
  <2> QED BY <1>2, <1>3, <2>1, <2>2 DEF Last
<1>7. Unlinked(p)' => Unlinked(p)
  BY <1>3 DEF Unlinked
<1>8. Unlinked(p) => Unlinked(p)' \/ Head(events[p]) = "unlink"
  <2> SUFFICES ASSUME Unlinked(p), e[1] # "unlink" PROVE Unlinked(p)'
    BY <1>3
  <2>1. PICK i \in 1..n : e[i] = "unlink"
    BY <1>3 DEF Unlinked
  <2>2. i - 1 \in 1..n - 1 /\ Tail(e)[i - 1] = "unlink"
    BY <1>3, <2>1
  <2> QED BY <1>3, <2>2 DEF Unlinked
<1>9. Head(events[p]) = "unlink" => Unlinked(p)
  BY <1>3 DEF Unlinked
<1> QED BY <1>5, <1>6, <1>7, <1>8, <1>9

\* While events wait on a path only writers are there.
LEMMA AtEvents ==
  ASSUME Shape, Owed, NobodyHalf, NEW p \in Paths, events[p] # <<>>
  PROVE  \A b \in At(p) : act[b].kind \in Writing /\ ~Half(b)
<1> SUFFICES ASSUME NEW b \in Actors, b \in At(p) PROVE act[b].kind \in Writing /\ ~Half(b)
  BY DEF At
<1>1. act[b] # Idle /\ act[b].pc # "half" /\ Formed(b, act[b]) /\ act[b] \in OpRec /\ Fits(act[b])
  BY Pcs DEF At, NobodyHalf, Half, Shape, Owed, Idle
<1>2. act[b].kind \notin OfLoop
  BY <1>1 DEF Fits, PullFits, At
<1> QED BY <1>1, <1>2 DEF Formed, OfUsers, Half

\* A handler brings the row in line, or finds that the file is gone and waits
\* for the unlink, or takes an add of a file that has a row.
LEMMA HandledOwes ==
  ASSUME Shape, Shape', Index, OneProcess, NEW p \in Paths, NEW kind, Handle(p, kind), torn' = torn,
         \A q \in Paths \ {p} : rows'[q] = rows[q],
         \/ kind = "unlink" /\ rows'[p] = None
         \/ kind # "unlink" /\ KeepsRow(p) /\ Has(p, disk[p])' /\ disk[p] # None
         \/ kind # "unlink" /\ rows'[p] = rows[p] /\ (disk[p] = None \/ (kind = "add" /\ rows[p] # None))
  PROVE  Owed'
<1>1. /\ NobodyHalf /\ act' = act /\ events[p] # <<>> /\ Head(events[p]) = kind
      /\ events'[p] = Tail(events[p])
      /\ \A q \in Paths \ {p} : events'[q] = events[q]
      /\ UNCHANGED <<disk, torn>>
  BY HandleDoes
<1>2. /\ events'[p] # <<>> => Last(p)' = Last(p)
      /\ events'[p] = <<>> => Last(p) = Head(events[p]) /\ ~Unlinked(p)'
      /\ Unlinked(p)' => Unlinked(p)
      /\ Unlinked(p) => Unlinked(p)' \/ Head(events[p]) = "unlink"
      /\ Head(events[p]) = "unlink" => Unlinked(p)
  BY <1>1, Taken DEF Shape
<1>3. EventsFit(p) /\ (p \in torn \/ Mends(p))
  BY <1>1, NobodyThere, Settled DEF Index
<1>4. EventsFit(p)'
  BY <1>1, <1>2, <1>3 DEF EventsFit
<1>5. PathFits(p)'
  <2>1. CASE kind = "unlink" /\ rows'[p] = None
    <3>1. events'[p] = <<>> => disk[p] = None
      BY <1>1, <1>2, <1>3, <2>1 DEF EventsFit
    <3> QED BY <1>1, <1>4, <2>1, <3>1, PathGone
  <2>2. CASE KeepsRow(p) /\ Has(p, disk[p])' /\ disk[p] # None
    BY <1>1, <1>4, <2>2, PathHas
  <2>3. CASE kind # "unlink" /\ rows'[p] = rows[p] /\ disk[p] = None
    <3>1. events'[p] # <<>>
      BY <1>1, <1>2, <1>3, <2>3 DEF EventsFit
    <3> QED BY <1>1, <1>4, <2>3, <3>1, PathUnlinked
  <2>4. CASE kind = "add" /\ rows'[p] = rows[p] /\ rows[p] # None /\ disk[p] # None
    <3> SUFFICES ASSUME p \notin torn PROVE Mends(p)'
      BY <1>1, <1>4 DEF PathFits
    <3>1. events[p] # <<>> /\ (Last(p) = "add" => Has(p, disk[p]) \/ Unlinked(p))
      BY <1>1, <1>3, <2>4 DEF Mends
    <3>2. CASE events'[p] = <<>>
      <4>1. Has(p, disk[p])
        BY <1>1, <1>2, <2>4, <3>1, <3>2
      <4> QED BY <1>1, <2>4, <3>2, <4>1 DEF Mends, Agree, Has
    <3>3. CASE events'[p] # <<>>
      BY <1>1, <1>2, <2>4, <3>1, <3>3 DEF Mends, Has
    <3> QED BY <3>2, <3>3
  <2> QED BY <2>1, <2>2, <2>3, <2>4
<1>6. \A q \in Paths \ {p} : SameAt(q)
  BY <1>1 DEF SameAt
<1>7. \A b \in At(p) : act[b].kind \in Writing /\ ~Half(b)
  BY <1>1, AtEvents DEF Index
<1>8. ASSUME NEW b \in Actors PROVE Bystander(b, p)
  <2>1. CASE kind = "unlink" /\ rows'[p] = None
    <3>1. ASSUME b \in At(p), act[b].kind = "update" PROVE act[b].pc # "wait"
      <4>1. act[b] # Idle /\ act[b].path = p
        BY <3>1, Pcs DEF At, Idle, Shape, Formed, Moving
      <4> QED BY <1>1, <1>2, <2>1, <3>1, <4>1 DEF Index, Owed, Fits, Writing, Waits
    <3>2. ~Strange(p)'
      BY <2>1 DEF Strange
    <3> QED BY <1>1, <1>7, <3>1, <3>2, CreatorKept DEF Index
  <2>2. CASE kind # "unlink"
    <3>1. KeepsRow(p)
      BY <2>2, RowStays
    <3> QED BY <1>1, <1>2, <1>7, <3>1, BystanderKept DEF Index
  <2> QED BY <2>1, <2>2
<1> QED BY <1>1, <1>5, <1>6, <1>8, OwedStill DEF Index

\* A file the database does not know gets a row under the next id.
LEMMA IngestDoes ==
  ASSUME Shape, IdsFit, NEW p \in Paths, Ingest(p), rows[p] = None, disk[p] # None
  PROVE  /\ rows'[p] # None /\ rows'[p].id = ids + 1 /\ rows'[p].gid = ids + 1
         /\ rows'[p].text = disk[p] /\ rows'[p] \in Row
         /\ \A q \in Paths \ {p} : rows'[q] = rows[q]
         /\ ids' = ids + 1 /\ ids + 1 \in 1..MaxRows
         /\ Say(ids + 1, p, disk[p])
         /\ IdsFit'
<1>1. PICK r : r = [id |-> ids + 1, gid |-> ids + 1, text |-> disk[p]]
  OBVIOUS
<1>2. rows' = [rows EXCEPT ![p] = r] /\ ids' = ids + 1 /\ ids < MaxRows /\ Say(ids + 1, p, disk[p])
  BY <1>1 DEF Ingest
<1>3. ids + 1 \in 1..MaxRows /\ disk[p] \in Texts
  BY <1>2, Bounds DEF Shape, Typed
<1>4. r \in Row /\ r.id = ids + 1 /\ r.gid = ids + 1 /\ r.text = disk[p]
  BY <1>1, <1>3 DEF Row, Gids
<1>5. rows'[p] = r /\ \A q \in Paths \ {p} : rows'[q] = rows[q]
  BY <1>2 DEF Shape, Typed
<1>6. IdsFit'
  BY <1>2, <1>4, IdsSet
<1> QED BY <1>2, <1>3, <1>4, <1>5, <1>6, Bounds

LEMMA HandleIndex ==
  ASSUME Shape, Index, OneProcess, NEW p \in Paths, HandleAdd(p) \/ HandleChange(p) \/ HandleUnlink(p)
  PROVE  Index'
<1>1. Shape'
  BY HandleTyped
<1>2. PICK kind : Handle(p, kind)
  BY DEF HandleAdd, HandleChange, HandleUnlink
<1>3. disk' = disk /\ torn' = torn
  BY <1>2, HandleDoes DEF HandleAdd, HandleChange, HandleUnlink
<1>4. CASE rows[p] = None /\ disk[p] # None /\ Ingest(p) /\ (Handle(p, "add") \/ Handle(p, "change"))
  <2>1. /\ rows'[p] # None /\ rows'[p].id = ids + 1 /\ rows'[p].gid = ids + 1
        /\ rows'[p].text = disk[p]
        /\ \A q \in Paths \ {p} : rows'[q] = rows[q]
        /\ IdsFit'
    BY <1>4, IngestDoes DEF Index
  <2>2. KeepsRow(p) /\ Has(p, disk[p])'
    BY <1>3, <1>4, <2>1 DEF KeepsRow, Strange, Has
  <2>3. Owed'
    BY <1>1, <1>3, <1>4, <2>1, <2>2, HandledOwes
  <2> QED BY <2>1, <2>3 DEF Index
<1>5. CASE Ignored /\ \/ Handle(p, "add") /\ (rows[p] # None \/ disk[p] = None)
                      \/ Handle(p, "change") /\ disk[p] = None
                      \/ Handle(p, "change") /\ rows[p] # None /\ SameHash(p) /\ disk[p] # None
                      \/ Handle(p, "unlink") /\ rows[p] = None
  <2>1. rows' = rows /\ ids' = ids
    BY <1>5 DEF Ignored
  <2>2. KeepsRow(p)
    BY <2>1, RowStays
  <2>3. rows[p] # None /\ SameHash(p) => Has(p, disk[p])'
    BY <1>3, <2>1 DEF SameHash, Has
  <2>4. \A q \in Paths \ {p} : rows'[q] = rows[q]
    BY <2>1
  <2>5. ASSUME Handle(p, "add") /\ (rows[p] # None \/ disk[p] = None) PROVE Owed'
    BY <1>1, <1>3, <2>1, <2>4, <2>5, HandledOwes
  <2>6. ASSUME Handle(p, "change") /\ disk[p] = None PROVE Owed'
    BY <1>1, <1>3, <2>1, <2>4, <2>6, HandledOwes
  <2>7. ASSUME Handle(p, "change") /\ rows[p] # None /\ SameHash(p) /\ disk[p] # None PROVE Owed'
    BY <1>1, <1>3, <2>2, <2>3, <2>4, <2>7, HandledOwes
  <2>8. ASSUME Handle(p, "unlink") /\ rows[p] = None PROVE Owed'
    BY <1>1, <1>3, <2>1, <2>4, <2>8, HandledOwes
  <2>9. Owed'
    BY <1>5, <2>5, <2>6, <2>7, <2>8
  <2> QED BY <2>1, <2>9 DEF Index, IdsFit
<1>6. CASE /\ Handle(p, "change") /\ disk[p] # None /\ rows[p] # None
           /\ rows' = [rows EXCEPT ![p].text = disk[p]] /\ ids' = ids
  <2>1. rows[p] \in Row /\ disk[p] \in Texts
    BY <1>6 DEF Shape, Typed
  <2>2. rows' = [rows EXCEPT ![p] = Retext(rows[p], disk[p])]
    BY <1>6 DEF Retext, Shape, Typed
  <2>3. rows'[p] = Retext(rows[p], disk[p]) /\ \A q \in Paths \ {p} : rows'[q] = rows[q]
    BY <2>2 DEF Shape, Typed
  <2>4. /\ rows'[p] # None /\ rows'[p].id = rows[p].id /\ rows'[p].gid = rows[p].gid
        /\ rows'[p].text = disk[p] /\ GidOf(rows'[p]) = GidOf(rows[p])
    BY <2>1, <2>3, RetextDoes
  <2>5. KeepsRow(p) /\ Has(p, disk[p])'
    BY <1>3, <1>6, <2>4 DEF KeepsRow, Strange, Has
  <2>6. Owed'
    BY <1>1, <1>3, <1>6, <2>3, <2>5, HandledOwes
  <2>7. IdsFit'
    BY <1>6, <2>3, <2>4, IdsLess DEF Index
  <2> QED BY <2>6, <2>7 DEF Index
<1>7. CASE Handle(p, "unlink") /\ rows' = [rows EXCEPT ![p] = None] /\ ids' = ids
  <2>1. rows'[p] = None /\ \A q \in Paths \ {p} : rows'[q] = rows[q]
    BY <1>7 DEF Shape, Typed
  <2>2. Owed'
    BY <1>1, <1>3, <1>7, <2>1, HandledOwes
  <2>3. IdsFit'
    BY <1>7, <2>1, IdsLess DEF Index
  <2> QED BY <2>2, <2>3 DEF Index
<1>8. CASE HandleAdd(p)
  BY <1>4, <1>5, <1>8 DEF HandleAdd, Ingest
<1>9. CASE HandleChange(p)
  BY <1>4, <1>5, <1>6, <1>9 DEF HandleChange
<1>10. CASE HandleUnlink(p)
  BY <1>5, <1>7, <1>10 DEF HandleUnlink
<1> QED BY <1>8, <1>9, <1>10

LEMMA FailHandleIndex ==
  ASSUME Shape, Index, OneProcess, NEW p \in Paths, FailHandle(p)
  PROVE  Index'
<1>1. /\ Shape' /\ NobodyHalf /\ act' = act
      /\ events[p] # <<>> /\ events'[p] = Tail(events[p])
      /\ \A q \in Paths \ {p} : events'[q] = events[q]
      /\ torn' = torn \cup {p}
      /\ UNCHANGED <<disk, rows, ids>>
  BY FailHandleDoes
<1>2. /\ events'[p] # <<>> => Last(p)' = Last(p)
      /\ Unlinked(p)' => Unlinked(p)
  BY <1>1, Taken DEF Shape
<1>3. EventsFit(p)
  BY DEF Index, Owed, PathFits
<1>4. PathFits(p)'
  BY <1>1, <1>2, <1>3 DEF EventsFit, PathFits
<1>5. \A q \in Paths \ {p} : SameAt(q)
  BY <1>1 DEF SameAt
<1>6. ASSUME NEW b \in Actors PROVE Bystander(b, p)
  <2>1. b \in At(p) => act[b].kind \in Writing /\ ~Half(b)
    BY <1>1, AtEvents DEF Index
  <2>2. KeepsRow(p)
    BY <1>1, RowStays
  <2> QED BY <1>1, <1>2, <2>1, <2>2, BystanderKept DEF Index
<1>7. Owed'
  BY <1>1, <1>4, <1>5, <1>6, OwedStill DEF Index
<1> QED BY <1>1, <1>7 DEF Index, IdsFit

-----------------------------------------------------------------------------
(* The sync loop, and crashes *)

LEMMA PullWriteDoesRow ==
  ASSUME Shape, OneProcess, Apart, NEW g \in Gids, NEW p \in Paths, PullWrite(g, p)
  PROVE  /\ rows'[p] \in Row /\ rows'[p] # None
         /\ rows'[p].id = IF rows[p] = None THEN ids + 1 ELSE rows[p].id
         /\ rows'[p].gid = g /\ rows'[p].text = texts'
         /\ rows' = [rows EXCEPT ![p] = rows'[p]]
         /\ \A q \in Paths \ {p} : rows'[q] = rows[q]
         /\ ids' = IF rows[p] = None THEN ids + 1 ELSE ids
         /\ UNCHANGED <<disk, events, torn>>
<1>1. PICK id : id = IF rows[p] = None THEN ids + 1 ELSE rows[p].id
  OBVIOUS
<1>2. PICK r : r = [id |-> id, gid |-> g, text |-> texts']
  OBVIOUS
<1>3. /\ rows' = [rows EXCEPT ![p] = r] /\ id <= MaxRows
      /\ ids' = IF rows[p] = None THEN ids + 1 ELSE ids
      /\ UNCHANGED <<disk, events, torn>>
  BY <1>1, <1>2 DEF PullWrite, Pull
<1>4. id \in 1..MaxRows
  <2>1. rows[p] # None => rows[p].id \in 1..MaxRows
    BY DEF Shape, Typed, Row
  <2> QED BY <1>1, <1>3, <2>1, Bounds DEF Shape, Typed
<1>5. r \in Row /\ r.id = id /\ r.gid = g /\ r.text = texts'
  BY <1>2, <1>4, PullWriteDoes DEF Row
<1>6. rows'[p] = r /\ \A q \in Paths \ {p} : rows'[q] = rows[q]
  BY <1>3 DEF Shape, Typed
<1> QED BY <1>1, <1>3, <1>5, <1>6, Bounds

LEMMA PullWriteIndex ==
  ASSUME Shape, Index, OneProcess, Apart, NEW g \in Gids, NEW p \in Paths, PullWrite(g, p)
  PROVE  Index'
<1>1. /\ Shape' /\ OthersAct(Loop) /\ act[Loop] = Idle /\ Loop \in Actors
      /\ At(p) = {} /\ events[p] = <<>>
  BY PullWriteDoes, LoopActs
<1>2. /\ act'[Loop].pc = "half" /\ act'[Loop].kind = "pull"
      /\ act'[Loop].path = p /\ act'[Loop].to = p /\ act'[Loop].text = texts'
  <2>1. act'[Loop] = Op("half", "pull", p, p, None, texts', None)
    BY PullWriteDoes
  <2> QED BY <2>1, OpFields
<1>3. /\ rows'[p] # None /\ rows'[p].text = texts'
      /\ \A q \in Paths \ {p} : rows'[q] = rows[q]
      /\ UNCHANGED <<disk, events, torn>>
  BY PullWriteDoesRow
<1>4. PathFits(p)'
  BY <1>1, <1>2, <1>3, EventsSame, PathHalf DEF Index, Owed, PathFits
<1>5. PullFits(act[Loop])'
  BY <1>1, <1>2, <1>3 DEF PullFits, Has
<1>6. Fits(act[Loop])'
  BY <1>2, <1>5 DEF Fits, Writing, OfLoop
<1>7. \A q \in Paths \ {p} : SameAt(q)
  BY <1>3 DEF SameAt
<1>8. Owed'
  BY <1>1, <1>2, <1>4, <1>6, <1>7, NobodyBy, OwedAt DEF Index
<1>9. IdsFit'
  <2>1. PICK r \in Row : /\ rows' = [rows EXCEPT ![p] = r]
                         /\ r.id = IF rows[p] = None THEN ids + 1 ELSE rows[p].id
                         /\ ids' = IF rows[p] = None THEN ids + 1 ELSE ids
    BY PullWriteDoesRow
  <2> QED BY <2>1, IdsSet DEF Index
<1> QED BY <1>8, <1>9 DEF Index

LEMMA PullDeleteIndex ==
  ASSUME Shape, Index, OneProcess, Apart, NEW p \in Paths, PullDelete(p)
  PROVE  Index'
<1>1. /\ Shape' /\ OthersAct(Loop) /\ act[Loop] = Idle /\ Loop \in Actors
      /\ At(p) = {} /\ events[p] = <<>>
      /\ UNCHANGED <<disk, events, torn, ids>> /\ rows' = [rows EXCEPT ![p] = None]
  BY PullDeleteDoes, LoopActs DEF PullDelete, Pull
<1>2. /\ act'[Loop].pc = "half" /\ act'[Loop].kind = "pulldelete"
      /\ act'[Loop].path = p /\ act'[Loop].to = p
  <2>1. act'[Loop] = Op("half", "pulldelete", p, p, None, 0, None)
    BY PullDeleteDoes
  <2> QED BY <2>1, OpFields
<1>3. rows'[p] = None /\ \A q \in Paths \ {p} : rows'[q] = rows[q]
  BY <1>1 DEF Shape, Typed
<1>4. PathFits(p)'
  BY <1>1, <1>2, EventsSame, PathHalf DEF Index, Owed, PathFits
<1>5. PullFits(act[Loop])'
  BY <1>1, <1>2, <1>3 DEF PullFits
<1>6. Fits(act[Loop])'
  BY <1>2, <1>5 DEF Fits, Writing, OfLoop
<1>7. \A q \in Paths \ {p} : SameAt(q)
  BY <1>1, <1>3 DEF SameAt
<1>8. Owed'
  BY <1>1, <1>2, <1>4, <1>6, <1>7, NobodyBy, OwedAt DEF Index
<1>9. IdsFit'
  BY <1>1, <1>3, IdsLess DEF Index
<1> QED BY <1>8, <1>9 DEF Index

LEMMA PullMoveDoesRow ==
  ASSUME Shape, IdsFit, NEW p \in Paths, NEW q \in Paths, PullMove(p, q)
  PROVE  /\ p # q /\ rows[p] # None /\ rows[q] = None
         /\ rows'[p] = None /\ rows'[q] = rows[p]
         /\ \A x \in Paths \ {p, q} : rows'[x] = rows[x]
         /\ UNCHANGED <<disk, events, torn, ids>>
<1>1. /\ p # q /\ rows[p] # None /\ rows[q] = None
      /\ UNCHANGED <<disk, events, torn, ids>> /\ rows' = MovedRow(rows[p].id, q)
  BY DEF PullMove, Pull
<1>2. WithId(rows[p].id) = {p}
  BY <1>1, OnlyThere DEF Same
<1> QED BY <1>1, <1>2, MovedOne DEF Shape

LEMMA PullMoveIndex ==
  ASSUME Shape, Index, OneProcess, Apart, NEW p \in Paths, NEW q \in Paths, PullMove(p, q)
  PROVE  Index'
<1>1. /\ Shape' /\ OthersAct(Loop) /\ act[Loop] = Idle /\ Loop \in Actors
      /\ At(p) = {} /\ events[p] = <<>> /\ At(q) = {} /\ events[q] = <<>>
  BY PullMoveDoes, LoopActs
<1>2. /\ act'[Loop].pc = "half" /\ act'[Loop].kind = "pullmove"
      /\ act'[Loop].path = p /\ act'[Loop].to = q
  <2>1. act'[Loop] = Op("half", "pullmove", p, q, None, 0, None)
    BY PullMoveDoes
  <2> QED BY <2>1, OpFields
<1>3. /\ p # q /\ rows[p] # None /\ rows[q] = None
      /\ rows'[p] = None /\ rows'[q] = rows[p]
      /\ \A x \in Paths \ {p, q} : rows'[x] = rows[x]
      /\ UNCHANGED <<disk, events, torn, ids>>
  BY PullMoveDoesRow DEF Index
<1>4. PathFits(p)' /\ PathFits(q)'
  BY <1>1, <1>2, <1>3, EventsSame, PathHalf DEF Index, Owed, PathFits
<1>5. PullFits(act[Loop])'
  <2>1. p \notin torn => disk[p] # None /\ Has(p, disk[p])
    BY <1>1, <1>3, Settled DEF Index, Agree
  <2> QED BY <1>1, <1>2, <1>3, <2>1 DEF PullFits, Has
<1>6. Fits(act[Loop])'
  BY <1>2, <1>5 DEF Fits, Writing, OfLoop
<1>7. \A x \in Paths \ {p, q} : SameAt(x)
  BY <1>3 DEF SameAt
<1>8. \A b \in Actors \ {Loop} : Bystander(b, p) /\ Bystander(b, q)
  BY <1>1, NobodyBy
<1>9. Owed'
  BY <1>1, <1>2, <1>4, <1>6, <1>7, <1>8, OwedBetween DEF Index
<1>10. IdsFit'
  BY <1>3, IdsMoved DEF Index
<1> QED BY <1>9, <1>10 DEF Index

LEMMA PullAgainIndex ==
  ASSUME Shape, Index, OneProcess, PullAgain
  PROVE  Index'
<1>0. PICK p \in Paths, q \in Paths : p = act[Loop].path /\ q = act[Loop].to
  BY PullAgainDoes DEF OpRec
<1>1. /\ Shape' /\ OthersAct(Loop) /\ NobodyHalf /\ Loop \in Actors /\ act[Loop] # Idle
      /\ act[Loop] \in OpRec /\ act[Loop].kind \in OfLoop /\ act[Loop].path = p /\ act[Loop].to = q
      /\ act'[Loop] # Idle => act[Loop].kind = "pull" /\ act'[Loop] = Onto(act[Loop], "half")
      /\ UNCHANGED <<disk, rows, ids, events, torn>>
  BY <1>0, PullAgainDoes, LoopActs DEF Idle
<1>2. PullFits(act[Loop])
  BY <1>1 DEF Index, Owed, Fits
<1>3. ASSUME NEW x \in Paths PROVE PathFits(x)'
  <2>1. EventsFit(x) /\ (x \in torn \/ Mends(x))
    BY <1>1, NobodyThere, Settled DEF Index
  <2> QED BY <1>1, <2>1 DEF PathFits, EventsFit, Mends, Last, Unlinked, Has, Agree
<1>4. ASSUME act'[Loop] # Idle
      PROVE  act'[Loop].path = p /\ act'[Loop].to = q /\ Fits(act[Loop])'
  <2>1. /\ act'[Loop].path = p /\ act'[Loop].to = q /\ act'[Loop].kind = "pull"
        /\ act'[Loop].text = act[Loop].text
    BY <1>1, <1>4, Fields
  <2>2. PullFits(act[Loop])'
    BY <1>1, <1>2, <1>4, <2>1 DEF PullFits, Has
  <2> QED BY <2>1, <2>2 DEF Fits, Writing, OfLoop
<1>5. \A b \in Actors \ {Loop} : Bystander(b, p) /\ Bystander(b, q)
  <2>1. act[Loop].kind \notin Writing
    BY <1>1 DEF OfLoop, Writing
  <2> QED BY <1>1, <2>1, AloneBy
<1>6. \A x \in Paths \ {p, q} : SameAt(x)
  BY <1>1 DEF SameAt
<1>7. Owed'
  BY <1>1, <1>3, <1>4, <1>5, <1>6, OwedBetween DEF Index
<1> QED BY <1>1, <1>7 DEF Index, IdsFit

\* What applying the op leaves: the paths of the op, and no other.
LEMMA PullDiskPaths ==
  ASSUME Shape, PullDisk
  PROVE  \E p, q \in Paths :
         /\ act[Loop].path = p /\ act[Loop].to = q
         /\ act[Loop].kind = "pull" => p = q /\ disk'[p] = act[Loop].text
         /\ act[Loop].kind = "pulldelete" => p = q /\ disk'[p] = None
         /\ act[Loop].kind = "pullmove" =>
              /\ p # q
              /\ disk[p] # None => disk'[p] = None /\ disk'[q] = disk[p]
              /\ disk[p] = None => disk'[p] = disk[p] /\ disk'[q] = disk[q]
         /\ Notices(p, disk'[p]) /\ Notices(q, disk'[q])
         /\ \A x \in Paths \ {p, q} : disk'[x] = disk[x] /\ events'[x] = events[x]
<1>1. Wrote(Pulled) /\ HalfOf(Loop, OfLoop)
  BY PullDiskDoes
<1>2. PICK p \in Paths, q \in Paths : p = act[Loop].path /\ q = act[Loop].to
  BY <1>1 DEF HalfOf, OpRec
<1>3. (p # q) <=> act[Loop].kind = "pullmove"
  BY <1>1, <1>2 DEF HalfOf, Formed, Moving, OfLoop
<1>4. act[Loop].kind = "pull" => Pulled = [disk EXCEPT ![p] = act[Loop].text]
  BY <1>2 DEF Pulled
<1>5. act[Loop].kind = "pulldelete" => Pulled = [disk EXCEPT ![p] = None]
  BY <1>2 DEF Pulled
<1>6. act[Loop].kind = "pullmove" =>
        Pulled = IF disk[p] = None THEN disk ELSE [disk EXCEPT ![p] = None, ![q] = disk[p]]
  BY <1>2, <1>3 DEF Pulled, Renamed
<1>7. /\ \A x \in Paths \ {p, q} : Pulled[x] = disk[x]
      /\ act[Loop].kind = "pull" => Pulled[p] = act[Loop].text
      /\ act[Loop].kind = "pulldelete" => Pulled[p] = None
      /\ act[Loop].kind = "pullmove" =>
           /\ disk[p] # None => Pulled[p] = None /\ Pulled[q] = disk[p]
           /\ disk[p] = None => Pulled[p] = disk[p] /\ Pulled[q] = disk[q]
  BY <1>1, <1>3, <1>4, <1>5, <1>6 DEF Shape, Typed, HalfOf, OfLoop
<1>8. PICK f : f = Pulled
  OBVIOUS
<1>9. /\ disk'[p] = f[p] /\ Notices(p, disk'[p])
      /\ disk'[q] = f[q] /\ Notices(q, disk'[q])
      /\ \A x \in Paths \ {p, q} : disk'[x] = disk[x] /\ events'[x] = events[x]
  BY <1>1, <1>7, <1>8, WroteBetween
<1> QED BY <1>2, <1>3, <1>7, <1>8, <1>9

LEMMA PullDiskIndex ==
  ASSUME Shape, Index, PullDisk
  PROVE  Index'
<1>1. PICK p, q \in Paths :
         /\ act[Loop].path = p /\ act[Loop].to = q
         /\ act[Loop].kind = "pull" => p = q /\ disk'[p] = act[Loop].text
         /\ act[Loop].kind = "pulldelete" => p = q /\ disk'[p] = None
         /\ act[Loop].kind = "pullmove" =>
              /\ p # q
              /\ disk[p] # None => disk'[p] = None /\ disk'[q] = disk[p]
              /\ disk[p] = None => disk'[p] = disk[p] /\ disk'[q] = disk[q]
         /\ Notices(p, disk'[p]) /\ Notices(q, disk'[q])
         /\ \A x \in Paths \ {p, q} : disk'[x] = disk[x] /\ events'[x] = events[x]
  BY PullDiskPaths
<1>2. /\ Shape' /\ OthersAct(Loop) /\ HalfOf(Loop, OfLoop) /\ act'[Loop] = Idle
      /\ Loop \in Actors /\ act[Loop] # Idle
      /\ act[Loop].pc = "half" /\ act[Loop].kind \in OfLoop
      /\ UNCHANGED <<rows, ids>>
      /\ torn' = IF act[Loop].kind = "pullmove" THEN Spread(p, q) ELSE torn \ {p}
  BY <1>1, PullDiskDoes, LoopActs DEF HalfOf, Idle, PullDisk
<1>3. PullFits(act[Loop]) /\ EventsFit(p) /\ EventsFit(q)
  BY <1>2 DEF Index, Owed, Fits, PathFits
<1>4. EventsFit(p)' /\ EventsFit(q)'
  <2>1. disk'[p] \in Texts \cup {None} /\ disk'[q] \in Texts \cup {None}
    BY <1>2 DEF Shape, Typed
  <2> QED BY <1>1, <1>2, <1>3, <2>1, AfterPut DEF Shape
<1>5. PathFits(p)' /\ PathFits(q)'
  <2>1. CASE act[Loop].kind = "pull"
    <3>1. act[Loop].text # None
      BY <1>2, <2>1, Bounds DEF HalfOf, Formed, Writing
    <3>2. Has(p, disk[p])' /\ disk'[p] # None
      BY <1>1, <1>2, <1>3, <2>1, <3>1 DEF PullFits, Has
    <3> QED BY <1>1, <1>4, <2>1, <3>2, PathHas
  <2>2. CASE act[Loop].kind = "pulldelete"
    <3>1. rows'[p] = None
      BY <1>1, <1>2, <1>3, <2>2 DEF PullFits
    <3> QED BY <1>1, <1>4, <2>2, <3>1, PathGone
  <2>3. CASE act[Loop].kind = "pullmove" /\ p \in torn
    BY <1>2, <1>4, <2>3 DEF Spread, PathFits
  <2>4. CASE act[Loop].kind = "pullmove" /\ p \notin torn
    <3>1. disk[p] # None /\ Has(q, disk[p]) /\ rows[p] = None
      BY <1>1, <1>2, <1>3, <2>4 DEF PullFits
    <3>2. disk'[p] = None /\ disk'[q] = disk[p]
      BY <1>1, <2>4, <3>1
    <3>3. Has(q, disk[q])'
      BY <1>2, <3>1, <3>2 DEF Has
    <3> QED BY <1>2, <1>4, <3>1, <3>2, <3>3, PathGone, PathHas
  <2> QED BY <1>2, <2>1, <2>2, <2>3, <2>4 DEF OfLoop
<1>6. \A x \in Paths \ {p, q} : SameAt(x)
  BY <1>1, <1>2 DEF SameAt, Spread
<1>7. \A b \in Actors \ {Loop} : Bystander(b, p) /\ Bystander(b, q)
  <2>1. act[Loop].kind \notin Writing
    BY <1>2 DEF OfLoop, Writing
  <2> QED BY <1>1, <1>2, <2>1, AloneBy
<1>8. Owed'
  BY <1>1, <1>2, <1>5, <1>6, <1>7, OwedBetween DEF Index
<1> QED BY <1>2, <1>8 DEF Index, IdsFit

LEMMA FailPullIndex ==
  ASSUME Shape, Index, FailPull
  PROVE  Index'
<1>0. PICK p \in Paths, q \in Paths : p = act[Loop].path /\ q = act[Loop].to
  BY FailPullDoes DEF HalfOf, OpRec
<1>1. /\ Shape' /\ OthersAct(Loop) /\ Loop \in Actors /\ act[Loop] # Idle
      /\ act[Loop] \in OpRec /\ act[Loop].kind \in OfLoop /\ act[Loop].path = p /\ act[Loop].to = q
      /\ act'[Loop] # Idle => act'[Loop] = Onto(act[Loop], "again")
      /\ torn' = torn \cup {p, q}
      /\ UNCHANGED <<disk, rows, ids, events>>
  BY <1>0, FailPullDoes, LoopActs DEF HalfOf, Idle
<1>2. PullFits(act[Loop])
  BY <1>1 DEF Index, Owed, Fits
<1>3. PathFits(p)' /\ PathFits(q)'
  <2>1. EventsFit(p)' /\ EventsFit(q)'
    BY <1>1, EventsSame DEF Index, Owed, PathFits
  <2> QED BY <1>1, <2>1 DEF PathFits
<1>4. ASSUME act'[Loop] # Idle
      PROVE  act'[Loop].path = p /\ act'[Loop].to = q /\ Fits(act[Loop])'
  <2>1. /\ act'[Loop].path = p /\ act'[Loop].to = q /\ act'[Loop].kind = act[Loop].kind
        /\ act'[Loop].text = act[Loop].text /\ act'[Loop].pc = "again"
    BY <1>1, <1>4, Fields
  <2>2. PullFits(act[Loop])'
    BY <1>1, <1>2, <2>1 DEF PullFits, Has
  <2> QED BY <1>1, <2>1, <2>2 DEF Fits, Writing, OfLoop
<1>5. \A b \in Actors \ {Loop} : Bystander(b, p) /\ Bystander(b, q)
  <2>1. act[Loop].kind \notin Writing
    BY <1>1 DEF OfLoop, Writing
  <2> QED BY <1>1, <2>1, AloneBy
<1>6. \A x \in Paths \ {p, q} : SameAt(x)
  BY <1>1 DEF SameAt
<1>7. Owed'
  BY <1>1, <1>3, <1>4, <1>5, <1>6, OwedBetween DEF Index
<1> QED BY <1>1, <1>7 DEF Index, IdsFit

\* A crash leaves nobody half done, but an op that will be applied again.
LEMMA CrashIndex ==
  ASSUME Shape, Index, OneProcess, NEW a \in Actors, Crash(Host[a])
  PROVE  Index'
<1>1. /\ torn \subseteq torn'
      /\ \A b \in Actors : act'[b] = IF b = Loop /\ act[b] # Idle THEN Onto(act[b], "again") ELSE Idle
      /\ \A p \in Paths : events'[p] = <<>>
      /\ \A p \in Paths \ torn' : events[p] = <<>> /\ \A b \in At(p) : ~Half(b)
      /\ UNCHANGED <<disk, rows, ids>>
  BY CrashDoes
<1>2. ASSUME NEW p \in Paths PROVE PathFits(p)'
  <2>1. EventsFit(p)'
    BY <1>1 DEF EventsFit
  <2>2. CASE p \in torn'
    BY <2>1, <2>2 DEF PathFits
  <2>3. CASE p \notin torn'
    <3>1. Agree(p)
      BY <1>1, <2>3, Settled DEF Index
    <3>2. Agree(p)'
      BY <1>1, <3>1 DEF Agree, Has
    <3> QED BY <2>1, <3>2, PathAgrees
  <2> QED BY <2>2, <2>3
<1>3. ASSUME NEW b \in Actors, act'[b] # Idle PROVE Fits(act[b])'
  <2>1. b = Loop /\ act[b] # Idle /\ act'[b] = Onto(act[b], "again")
    BY <1>1, <1>3
  <2>2. act[b] # Idle /\ act[b] \in OpRec /\ act[b].kind \in OfLoop /\ Fits(act[b])
    BY <2>1, LoopActs, Pcs DEF Half, Idle, Shape, Formed, Index, Owed
  <2>3. /\ act'[b].pc = "again" /\ act'[b].kind = act[b].kind /\ act'[b].path = act[b].path
        /\ act'[b].to = act[b].to /\ act'[b].text = act[b].text
    BY <2>1, <2>2, Fields
  <2>4. PICK p \in Paths, q \in Paths : p = act[b].path /\ q = act[b].to
    BY <2>2 DEF OpRec
  <2>5. PullFits(act[b])'
    BY <1>1, <2>2, <2>3, <2>4 DEF PullFits, Has, Fits
  <2> QED BY <2>2, <2>3, <2>5 DEF Fits, Writing, OfLoop
<1>4. Owed'
  BY <1>2, <1>3 DEF Owed
<1> QED BY <1>1, <1>4 DEF Index, IdsFit

LEMMA IndexInit == Init => Index /\ Fresh
<1> SUFFICES ASSUME Init PROVE Index /\ Fresh
  OBVIOUS
<1>1. /\ \A p \in Paths : disk[p] = None /\ rows[p] = None /\ events[p] = <<>>
      /\ \A a \in Actors : act[a] = Idle
      /\ remote = {}
  BY DEF Init
<1>2. \A p \in Paths : PathFits(p)
  BY <1>1 DEF PathFits, EventsFit, Mends, Agree
<1> QED BY <1>1, <1>2 DEF Index, IdsFit, Owed, Fresh, Upto

LEMMA IndexNext ==
  ASSUME Shape, Fresh, Index, OneProcess, Apart, [Next]_vars
  PROVE  Index'
<1>1. ASSUME NEW u \in Users,
             \/ WriteDisk(u) \/ CommitCreate(u) \/ CommitUpdate(u) \/ FailWrite(u) \/ Unlock(u)
             \/ CommitDelete(u) \/ FailDelete(u) \/ CommitMove(u) \/ FailMove(u)
             \/ CommitRestore(u) \/ Refresh(u)
      PROVE  Index'
  <2>1. CASE WriteDisk(u)
    <3>1. Owed' /\ rows' = rows /\ ids' = ids
      BY <2>1, WriteDiskOwes DEF WriteDisk
    <3> QED BY <3>1 DEF Index, IdsFit
  <2> QED
    BY <1>1, <2>1, CommitCreateIndex, CommitUpdateIndex, FailWriteIndex, UnlockIndex,
       CommitDeleteIndex, FailDeleteIndex, CommitMoveIndex, FailMoveIndex, CommitRestoreIndex,
       RefreshIndex
<1>2. ASSUME NEW u \in Users, NEW p \in Paths,
             BeginWrite(u, p) \/ DeleteDisk(u, p) \/ RestoreDisk(u, p)
      PROVE  Index'
  <2>1. CASE BeginWrite(u, p)
    <3>1. Owed' /\ rows' = rows /\ ids' = ids
      BY <2>1, BeginWriteOwes DEF BeginWrite
    <3> QED BY <3>1 DEF Index, IdsFit
  <2> QED BY <1>2, <2>1, DeleteDiskIndex, RestoreDiskIndex
<1>3. ASSUME NEW u \in Users, NEW p \in Paths, NEW q \in Paths, MoveDisk(u, p, q)
      PROVE  Index'
  BY <1>3, MoveDiskIndex
<1>4. ASSUME NEW p \in Paths,
             \/ Edit(p) \/ Remove(p) \/ HandleAdd(p) \/ HandleChange(p) \/ HandleUnlink(p)
             \/ FailHandle(p) \/ PullDelete(p)
      PROVE  Index'
  BY <1>4, EditIndex, RemoveIndex, HandleIndex, FailHandleIndex, PullDeleteIndex
<1>5. ASSUME NEW g \in Gids, NEW p \in Paths, PullWrite(g, p) PROVE Index'
  BY <1>5, PullWriteIndex
<1>6. ASSUME NEW p \in Paths, NEW q \in Paths, PullMove(p, q) PROVE Index'
  BY <1>6, PullMoveIndex
<1>7. ASSUME PullAgain \/ PullDisk \/ FailPull PROVE Index'
  BY <1>7, PullAgainIndex, PullDiskIndex, FailPullIndex
<1>8. ASSUME NEW a \in Actors, Crash(Host[a]) PROVE Index'
  BY <1>8, CrashIndex
<1>9. ASSUME UNCHANGED vars PROVE Index'
  <2>1. UNCHANGED <<disk, rows, ids, events, act, torn>>
    BY <1>9 DEF vars
  <2>2. \A p \in Paths : PathFits(p)'
    BY <2>1 DEF Index, Owed, PathFits, EventsFit, Mends, Last, Unlinked, Has, Agree, HalfAt, At, Half
  <2>3. \A b \in Actors : act'[b] # Idle => Fits(act[b])'
    BY <2>1 DEF Index, Owed, Fits, Waits, Reads, Strange, WriteFits, DeleteFits, MoveFits,
       RestoreFits, PullFits, Same, Has, Unlinked, Last, At
  <2> QED BY <2>1, <2>2, <2>3 DEF Index, IdsFit, Owed
<1> QED BY <1>1, <1>2, <1>3, <1>4, <1>5, <1>6, <1>7, <1>8, <1>9 DEF Next

-----------------------------------------------------------------------------
\* Whatever operations, remote ops, editors and crashes come between, and although
\* transactions of operations and of the watcher's handlers fail: once all is
\* through, the rows describe the disk, everywhere but where a crash came between
\* the two, a handler's transaction failed, or a delete or a pull left the bytes.
THEOREM Indexed ==
  ASSUME OneProcess, Apart
  PROVE  Spec => []IndexDescribesDisk
<1>1. Init => Shape /\ Fresh /\ Index
  BY ShapeInit, IndexInit
<1>2. Shape /\ Fresh /\ Index /\ [Next]_vars => (Shape /\ Fresh /\ Index)'
  BY ShapeNext, FreshNext, IndexNext
<1>3. Shape /\ Fresh /\ Index => IndexDescribesDisk
  <2> SUFFICES ASSUME Shape, Fresh, Index PROVE IndexDescribesDisk
    OBVIOUS
  <2>1. TypeOK
    <3>1. \A p \in Paths : \A i \in DOMAIN events[p] : events[p][i] \in {"add", "change", "unlink"}
      BY DEF Shape, Typed, EventKinds
    <3>2. \A a \in Actors : act[a].pc \in {"idle", "wait", "half", "after", "again"}
      BY DEF Shape, ActsTyped, OpRec, Idle
    <3> QED BY <3>1, <3>2 DEF TypeOK, Shape, Typed
  <2>2. ASSUME Quiet, NEW p \in Paths \ torn
        PROVE  /\ (rows[p] = None) = (disk[p] = None)
               /\ rows[p] # None => rows[p].text = disk[p]
    <3>1. At(p) = {} /\ events[p] = <<>>
      BY <2>2 DEF Quiet, At, Idle
    <3>2. Agree(p)
      BY <2>2, <3>1, Settled DEF Index
    <3>3. disk[p] = None <=> rows[p] = None
      BY <3>2 DEF Agree, Has
    <3> QED BY <3>2, <3>3 DEF Agree, Has
  <2> QED BY <2>1, <2>2 DEF IndexDescribesDisk
<1> QED BY <1>1, <1>2, <1>3, PTL DEF Spec

-----------------------------------------------------------------------------
(* What was said of the rows *)

\* The gids given so far: other machines', and those of ids.
Given == Strangers \cup 1..ids

\* What is known of a gid is of the row that has it, wherever it was said;
\* where all was said it is the row's path and text.
Known(p) ==
  rows[p] # None =>
    LET g == GidOf(rows[p])
    IN /\ g \in Given
       /\ shared[g] # None => shared[g].path = p
       /\ g \notin unsaid => shared[g] = [path |-> p, text |-> rows[p].text]

OneGid ==
  \A p, q \in Paths :
    rows[p] # None /\ rows[q] # None /\ GidOf(rows[p]) = GidOf(rows[q]) => p = q

\* Nothing is said of a file that is not there.
Placed(g) ==
  shared[g] # None =>
    /\ g \in Given
    /\ g \notin unsaid => /\ shared[g].path \in Paths
                          /\ rows[shared[g].path] # None
                          /\ GidOf(rows[shared[g].path]) = g

Telling ==
  /\ \A p \in Paths : Known(p)
  /\ OneGid
  /\ \A g \in Gids : Placed(g)

LEMMA GivenGrows ==
  ASSUME Shape, Shape', ids' >= ids
  PROVE  \A g \in Given : g \in Given'
BY DEF Given, Shape, Typed

\* The row at p is g's, with text t, and that is what is said of g.
LEMMA Tell ==
  ASSUME Shape, Shape', Telling, ids' >= ids, NEW g \in Gids, NEW p \in Paths, NEW t \in Texts,
         Say(g, p, t), rows'[p] # None, GidOf(rows'[p]) = g, rows'[p].text = t, g \in Given',
         \A q \in Paths \ {p} : rows'[q] = rows[q],
         \A q \in Paths \ {p} : rows[q] # None => GidOf(rows[q]) # g
  PROVE  Telling'
<1>1. /\ shared' = [shared EXCEPT ![g] = [path |-> p, text |-> t]]
      /\ \A h \in Gids \ unsaid' :
           h # g => h \notin unsaid /\ (rows[p] # None => GidOf(rows[p]) # h)
  BY Said DEF Shape
<1>2. /\ shared'[g] = [path |-> p, text |-> t] /\ shared'[g].path = p
      /\ \A h \in Gids \ {g} : shared'[h] = shared[h]
  BY <1>1 DEF Shape, Typed
<1>3. \A h \in Given : h \in Given'
  BY GivenGrows
<1>4. ASSUME NEW q \in Paths PROVE Known(q)'
  <2>1. CASE q = p
    BY <1>2, <2>1 DEF Known, GidOf
  <2>2. CASE q # p
    <3> SUFFICES ASSUME rows[q] # None PROVE Known(q)'
      BY <2>2 DEF Known
    <3>1. GidOf(rows[q]) \in Gids \ {g} /\ rows'[q] = rows[q]
      BY <2>2, GidOfType DEF Shape, Typed
    <3> QED BY <1>1, <1>2, <1>3, <3>1 DEF Telling, Known, GidOf
  <2> QED BY <2>1, <2>2
<1>5. OneGid'
  BY DEF Telling, OneGid, GidOf
<1>6. ASSUME NEW h \in Gids PROVE Placed(h)'
  <2>1. CASE h = g
    BY <1>2, <2>1 DEF Placed, GidOf
  <2>2. CASE h # g
    <3> SUFFICES ASSUME shared[h] # None PROVE Placed(h)'
      BY <1>2, <2>2 DEF Placed
    <3>1. shared'[h] = shared[h] /\ h \in Given'
      BY <1>2, <1>3, <2>2 DEF Telling, Placed
    <3>2. ASSUME h \notin unsaid'
          PROVE  /\ shared[h].path \in Paths \ {p} /\ rows[shared[h].path] # None
                 /\ GidOf(rows[shared[h].path]) = h
      BY <1>1, <2>2, <3>2 DEF Telling, Placed
    <3>3. ASSUME h \notin unsaid'
          PROVE  rows'[shared'[h].path] = rows[shared[h].path]
      BY <3>1, <3>2, <3>3
    <3> QED BY <3>1, <3>2, <3>3 DEF Placed, GidOf
  <2> QED BY <2>1, <2>2
<1> QED BY <1>4, <1>5, <1>6 DEF Telling

\* The row of g is gone, and that is said.
LEMMA Silence ==
  ASSUME Shape, Shape', Telling, ids' = ids, NEW p \in Paths, rows[p] # None,
         SayGone(GidOf(rows[p])), rows'[p] = None,
         \A q \in Paths \ {p} : rows'[q] = rows[q]
  PROVE  Telling'
<1>1. PICK g \in Gids : g = GidOf(rows[p])
  BY GidOfType DEF Shape, Typed
<1>2. /\ shared'[g] = None /\ \A h \in Gids \ {g} : shared'[h] = shared[h]
      /\ \A h \in Gids \ {g} : h \notin unsaid' => h \notin unsaid
  BY <1>1 DEF SayGone, Shape, Typed
<1>3. \A h \in Given : h \in Given'
  BY DEF Given
<1>4. ASSUME NEW q \in Paths PROVE Known(q)'
  <2> SUFFICES ASSUME q # p, rows[q] # None PROVE Known(q)'
    BY DEF Known
  <2>1. GidOf(rows[q]) \in Gids \ {g} /\ rows'[q] = rows[q]
    BY <1>1, GidOfType DEF Telling, OneGid, Shape, Typed
  <2> QED BY <1>2, <1>3, <2>1 DEF Telling, Known, GidOf
<1>5. OneGid'
  BY DEF Telling, OneGid, GidOf
<1>6. ASSUME NEW h \in Gids PROVE Placed(h)'
  <2> SUFFICES ASSUME h # g, shared[h] # None PROVE Placed(h)'
    BY <1>2 DEF Placed
  <2>1. shared'[h] = shared[h] /\ h \in Given'
    BY <1>2, <1>3 DEF Telling, Placed
  <2>2. ASSUME h \notin unsaid'
        PROVE  /\ shared[h].path \in Paths \ {p} /\ rows[shared[h].path] # None
               /\ GidOf(rows[shared[h].path]) = h
    BY <1>1, <1>2, <2>2 DEF Telling, Placed
  <2>3. ASSUME h \notin unsaid'
        PROVE  rows'[shared'[h].path] = rows[shared[h].path]
    BY <2>1, <2>2, <2>3
  <2> QED BY <2>1, <2>2, <2>3 DEF Placed, GidOf
<1> QED BY <1>4, <1>5, <1>6 DEF Telling

\* The row of g goes to q, and where g is known so does what is said of it.
LEMMA Transfer ==
  ASSUME Shape, Shape', Telling, ids' = ids, unsaid' = unsaid,
         NEW p \in Paths, NEW q \in Paths, p # q, rows[p] # None, rows[q] = None,
         rows'[p] = None, rows'[q] = rows[p],
         \A x \in Paths \ {p, q} : rows'[x] = rows[x],
         NEW g \in Gids, g = GidOf(rows[p]),
         shared' = IF shared[g] = None THEN shared ELSE [shared EXCEPT ![g].path = q]
  PROVE  Telling'
<1>1. /\ \A h \in Gids \ {g} : shared'[h] = shared[h]
      /\ shared[g] = None => shared'[g] = None
      /\ shared[g] # None => shared'[g] = [shared[g] EXCEPT !.path = q]
  BY DEF Shape, Typed
<1>2. shared[g] # None => shared[g] \in [path : Paths, text : Texts]
  BY DEF Shape, Typed
<1>3. \A s \in [path : Paths, text : Texts] : [s EXCEPT !.path = q] = [path |-> q, text |-> s.text]
  OBVIOUS
<1>4. /\ shared[g] # None => shared'[g] = [path |-> q, text |-> shared[g].text]
      /\ shared'[g] # None => shared[g] # None /\ shared'[g].path = q
  BY <1>1, <1>2, <1>3
<1>5. Given' = Given
  BY DEF Given
<1>6. ASSUME NEW x \in Paths PROVE Known(x)'
  <2>1. CASE x = p
    BY <2>1 DEF Known
  <2>2. CASE x = q
    <3>1. g \in Given' /\ (shared'[g] # None => shared'[g].path = q)
      BY <1>4, <1>5 DEF Telling, Known
    <3>2. ASSUME g \notin unsaid PROVE shared'[g] = [path |-> q, text |-> rows[p].text]
      <4>1. shared[g] = [path |-> p, text |-> rows[p].text]
        BY <3>2 DEF Telling, Known
      <4>2. [path |-> p, text |-> rows[p].text] \in [path : Paths, text : Texts]
        BY DEF Shape, Typed, Row
      <4>3. shared[g] # None /\ shared[g].text = rows[p].text
        BY <4>1, <4>2, Bounds
      <4> QED BY <1>4, <4>3
    <3> QED BY <2>2, <3>1, <3>2 DEF Known, GidOf
  <2>3. CASE x \notin {p, q}
    <3> SUFFICES ASSUME rows[x] # None PROVE Known(x)'
      BY <2>3 DEF Known
    <3>1. GidOf(rows[x]) \in Gids \ {g} /\ rows'[x] = rows[x]
      BY <2>3, GidOfType DEF Telling, OneGid, Shape, Typed
    <3>2. Known(x) /\ shared'[GidOf(rows[x])] = shared[GidOf(rows[x])]
      BY <1>1, <3>1 DEF Telling
    <3> QED BY <1>5, <3>1, <3>2 DEF Known
  <2> QED BY <2>1, <2>2, <2>3
<1>7. OneGid'
  <2>1. ASSUME NEW x \in Paths \ {p, q}, rows'[x] # None PROVE GidOf(rows'[x]) # g
    BY <2>1 DEF Telling, OneGid
  <2>2. GidOf(rows'[q]) = g
    OBVIOUS
  <2>3. ASSUME NEW x \in Paths \ {p, q}, NEW y \in Paths \ {p, q}, rows'[x] # None, rows'[y] # None,
               GidOf(rows'[x]) = GidOf(rows'[y])
        PROVE  x = y
    BY <2>3 DEF Telling, OneGid
  <2> QED BY <2>1, <2>2, <2>3 DEF OneGid, GidOf
<1>8. ASSUME NEW h \in Gids PROVE Placed(h)'
  <2>1. CASE h = g
    <3> SUFFICES ASSUME shared'[g] # None PROVE Placed(g)'
      BY <2>1 DEF Placed
    <3>1. shared'[g].path = q /\ g \in Given' /\ rows'[q] # None
      BY <1>4, <1>5 DEF Telling, Placed
    <3>2. GidOf(rows'[q]) = g
      OBVIOUS
    <3>3. GidOf(rows[shared[g].path])' = g
      BY <3>1, <3>2 DEF GidOf
    <3> QED BY <3>1, <3>3 DEF Placed
  <2>2. CASE h # g
    <3> SUFFICES ASSUME shared[h] # None PROVE Placed(h)'
      BY <1>1, <2>2 DEF Placed
    <3>1. shared'[h] = shared[h] /\ h \in Given'
      BY <1>1, <1>5, <2>2 DEF Telling, Placed
    <3>2. ASSUME h \notin unsaid'
          PROVE  /\ shared[h].path \in Paths \ {p, q} /\ rows[shared[h].path] # None
                 /\ GidOf(rows[shared[h].path]) = h
      BY <2>2, <3>2 DEF Telling, Placed
    <3>3. ASSUME h \notin unsaid'
          PROVE  rows'[shared'[h].path] = rows[shared[h].path]
      BY <3>1, <3>2, <3>3
    <3> QED BY <3>1, <3>2, <3>3 DEF Placed, GidOf
  <2> QED BY <2>1, <2>2
<1> QED BY <1>6, <1>7, <1>8 DEF Telling

\* Where rows and what is said of them stay, so does Telling.
LEMMA TellingStill ==
  ASSUME Telling, UNCHANGED <<rows, ids, shared, unsaid>>
  PROVE  Telling'
BY DEF Telling, Known, OneGid, Placed, Given, GidOf

LEMMA NextGidNew ==
  ASSUME Shape, Telling, ids + 1 \in 1..MaxRows, ids' = ids + 1
  PROVE  /\ ids + 1 \in Gids /\ ids + 1 \in Given' /\ ids' >= ids
         /\ \A q \in Paths : rows[q] # None => GidOf(rows[q]) # ids + 1
<1>1. ids \in Nat
  BY DEF Shape, Typed
<1>2. ids + 1 \notin Given
  BY <1>1, FilesAssumption DEF Given
<1>3. \A q \in Paths : rows[q] # None => GidOf(rows[q]) \in Given
  BY DEF Telling, Known
<1> QED BY <1>1, <1>2, <1>3 DEF Gids, Given

LEMMA CommitCreateTells ==
  ASSUME Shape, Index, Telling, NEW u \in Users, CommitCreate(u)
  PROVE  Telling'
<1>0. PICK p \in Paths : p = act[u].path
  BY CommitCreateDoes DEF HalfOf, OpRec
<1>1. PICK r \in Row :
        /\ rows'[p] = r /\ r # None /\ r.text = act[u].text
        /\ r.id = IF rows[p] = None THEN ids + 1 ELSE rows[p].id
        /\ GidOf(r) = r.id
        /\ rows[p] # None => GidOf(rows[p]) = rows[p].id
        /\ \A q \in Paths \ {p} : rows'[q] = rows[q]
        /\ ids' = IF rows[p] = None THEN ids + 1 ELSE ids
        /\ Say(r.id, p, act[u].text)
  BY <1>0, CommitCreateRow DEF Index
<1>2. Shape' /\ act[u].text \in Texts /\ ids \in Nat
  <2>1. ids \in Nat
    BY DEF Shape, Typed
  <2> QED BY <2>1, CommitCreateDoes DEF HalfOf, Formed, Writing
<1>3. r.id \in 1..MaxRows /\ r.id \in Gids /\ ids' >= ids
  BY <1>1, <1>2 DEF Row, Gids
<1>4. r.id \in Given' /\ \A q \in Paths \ {p} : rows[q] # None => GidOf(rows[q]) # r.id
  <2>1. CASE rows[p] = None
    BY <1>1, <1>3, <2>1, NextGidNew
  <2>2. CASE rows[p] # None
    <3>1. GidOf(rows[p]) = r.id /\ r.id \in Given /\ ids' = ids
      BY <1>1, <2>2 DEF Telling, Known
    <3> QED BY <2>2, <3>1 DEF Telling, OneGid, Given
  <2> QED BY <2>1, <2>2
<1>5. PICK g \in Gids, t \in Texts : g = r.id /\ t = act[u].text
  BY <1>2, <1>3
<1> QED BY <1>1, <1>2, <1>3, <1>4, <1>5, Tell

\* The row stays the file's, with another text, and that is said.
LEMMA RetextTells ==
  ASSUME Shape, Shape', Telling, ids' = ids, NEW p \in Paths, rows[p] # None, NEW t \in Texts,
         Say(GidOf(rows[p]), p, t), rows'[p] # None, GidOf(rows'[p]) = GidOf(rows[p]),
         rows'[p].text = t, \A q \in Paths \ {p} : rows'[q] = rows[q]
  PROVE  Telling'
<1>1. PICK g \in Gids : g = GidOf(rows[p])
  BY GidOfType DEF Shape, Typed
<1>2. g \in Given' /\ ids' >= ids
  <2>1. g \in Given /\ Given' = Given
    BY <1>1 DEF Telling, Known, Given
  <2>2. ids \in Nat
    BY DEF Shape, Typed
  <2> QED BY <2>1, <2>2
<1>3. \A q \in Paths \ {p} : rows[q] # None => GidOf(rows[q]) # g
  BY <1>1 DEF Telling, OneGid
<1> QED BY <1>1, <1>2, <1>3, Tell

LEMMA CommitUpdateTells ==
  ASSUME Shape, Index, Telling, NEW u \in Users, CommitUpdate(u)
  PROVE  Telling'
<1>0. PICK p \in Paths : p = act[u].path
  BY CommitUpdateDoes DEF HalfOf, OpRec
<1>1. Shape' /\ act[u].text \in Texts /\ ids' = ids
  BY CommitUpdateDoes DEF HalfOf, Formed, Writing, CommitUpdate
<1>2. PICK t \in Texts : t = act[u].text
  BY <1>1
<1>3. /\ rows[p] # None /\ rows'[p] # None /\ rows'[p].text = t
      /\ GidOf(rows'[p]) = GidOf(rows[p])
      /\ \A q \in Paths \ {p} : rows'[q] = rows[q]
      /\ Say(GidOf(rows[p]), p, t)
  BY <1>0, <1>2, CommitUpdateRow
<1> QED BY <1>1, <1>3, RetextTells

LEMMA CommitDeleteTells ==
  ASSUME Shape, Index, Telling, NEW u \in Users, CommitDelete(u)
  PROVE  Telling'
<1>0. PICK p \in Paths : p = act[u].path
  BY CommitDeleteDoes DEF HalfOf, OpRec
<1>1. Shape' /\ act[u].kind = "delete" /\ u \in Actors /\ act[u] # Idle /\ ids' = ids
  BY CommitDeleteDoes, UserActs DEF CommitDelete, HalfOf, Idle
<1>2. Same(p, act[u].row)
  BY <1>0, <1>1 DEF Index, Owed, Fits, DeleteFits
<1>3. WithId(act[u].row.id) = {p}
  BY <1>2, OnlyThere DEF Index
<1>4. rows'[p] = None /\ \A q \in Paths \ {p} : rows'[q] = rows[q]
  BY <1>3 DEF CommitDelete
<1>5. rows[p] # None /\ SayGone(GidOf(rows[p]))
  BY <1>2 DEF Same, CommitDelete
<1> QED BY <1>1, <1>4, <1>5, Silence

LEMMA CommitMoveTells ==
  ASSUME Shape, Index, Telling, NEW u \in Users, CommitMove(u)
  PROVE  Telling'
<1>0. PICK p \in Paths, q \in Paths : p = act[u].path /\ q = act[u].to
  BY CommitMoveDoes DEF HalfOf, OpRec
<1>1. /\ Shape' /\ act[u].kind = "move" /\ p # q /\ u \in Actors /\ act[u] # Idle
      /\ UNCHANGED <<ids, unsaid>> /\ rows[q] = None
  BY <1>0, CommitMoveDoes, UserActs DEF CommitMove, HalfOf, Idle
<1>2. Same(p, act[u].row)
  BY <1>0, <1>1 DEF Index, Owed, Fits, MoveFits
<1>3. WithId(act[u].row.id) = {p}
  BY <1>2, OnlyThere DEF Index
<1>4. rows'[p] = None /\ rows'[q] = rows[p] /\ \A x \in Paths \ {p, q} : rows'[x] = rows[x]
  <2>1. rows' = MovedRow(act[u].row.id, q)
    BY <1>0, <1>3 DEF CommitMove
  <2> QED BY <1>1, <1>3, <2>1, MovedOne DEF Shape
<1>5. PICK g \in Gids : g = GidOf(rows[p])
  BY <1>2, GidOfType DEF Same, Shape, Typed
<1>6. shared' = IF shared[g] = None THEN shared ELSE [shared EXCEPT ![g].path = q]
  BY <1>0, <1>2, <1>5 DEF CommitMove, Same
<1>7. rows[p] # None
  BY <1>2 DEF Same
<1> QED BY <1>1, <1>4, <1>5, <1>6, <1>7, Transfer

\* refreshIndex and restoreVersion say nothing: of those gids no more is claimed.
LEMMA CommitRestoreTells ==
  ASSUME Shape, Telling, NEW u \in Users, CommitRestore(u)
  PROVE  Telling'
<1>0. PICK p \in Paths : p = act[u].path
  BY CommitRestoreDoes DEF HalfOf, OpRec
<1>1. act[u].text \in Texts /\ UNCHANGED <<ids, shared>>
  BY CommitRestoreDoes DEF CommitRestore, HalfOf, Formed, Writing
<1>2. CASE rows[p] = None
  BY <1>0, <1>2, TellingStill DEF CommitRestore
<1>3. CASE rows[p] # None
  <2>1. PICK t \in Texts : t = act[u].text
    BY <1>1
  <2>2. rows' = [rows EXCEPT ![p] = Retext(rows[p], t)] /\ unsaid' = unsaid \cup {GidOf(rows[p])}
    BY <1>0, <1>3, <2>1 DEF CommitRestore, Retext
  <2>3. /\ rows'[p] # None /\ GidOf(rows'[p]) = GidOf(rows[p])
        /\ \A q \in Paths \ {p} : rows'[q] = rows[q]
    BY <1>3, <2>2, RetextDoes DEF Shape, Typed
  <2>4. \A q \in Paths : /\ (rows'[q] # None) <=> (rows[q] # None)
                         /\ GidOf(rows'[q]) = GidOf(rows[q])
    BY <1>3, <2>3
  <2>5. \A q \in Paths : Known(q)'
    <3>1. Given' = Given
      BY <1>1 DEF Given
    <3> TAKE q \in Paths
    <3> SUFFICES ASSUME rows[q] # None PROVE Known(q)'
      BY <2>4 DEF Known
    <3>2. PICK g : g = GidOf(rows[q]) /\ g = GidOf(rows'[q])
      BY <2>4
    <3>3. /\ g \in Given /\ (shared[g] # None => shared[g].path = q)
          /\ g \notin unsaid => shared[g] = [path |-> q, text |-> rows[q].text]
      BY <3>2 DEF Telling, Known
    <3>4. g \notin unsaid' => g \notin unsaid /\ rows'[q] = rows[q]
      BY <2>2, <2>3, <3>2
    <3> QED BY <1>1, <3>1, <3>2, <3>3, <3>4 DEF Known, GidOf
  <2>6. OneGid'
    BY <2>4 DEF Telling, OneGid, GidOf
  <2>7. \A g \in Gids : Placed(g)'
    BY <1>1, <2>2, <2>4 DEF Telling, Placed, Given, GidOf
  <2> QED BY <2>5, <2>6, <2>7 DEF Telling
<1> QED BY <1>2, <1>3

LEMMA RefreshTells ==
  ASSUME Shape, Index, Telling, OneProcess, Apart, NEW u \in Users, Refresh(u)
  PROVE  Telling'
<1>1. /\ Shape' /\ ids' \in ids..MaxRows /\ ids \in Nat
      /\ \A p \in Paths : Refreshed(p)
      /\ \A p, q \in Unknown : p # q => rows'[p].id # rows'[q].id
  BY RefreshDoes DEF Shape, Typed
<1>2. /\ disk' = disk /\ shared' = shared
      /\ unsaid' = unsaid \cup (ids + 1..ids') \cup {GidOf(rows[p]) : p \in Stale}
  BY DEF Refresh, Stale, Unknown
<1>3. \A p \in Paths :
        /\ p \in Unknown => /\ rows[p] = None /\ rows'[p] # None
                            /\ rows'[p].gid = None /\ rows'[p].id \in ids + 1..ids'
        /\ p \notin Unknown /\ rows'[p] # None =>
             rows[p] # None /\ rows'[p].id = rows[p].id /\ rows'[p].gid = rows[p].gid
        /\ p \notin Unknown \cup Stale => rows'[p] = rows[p]
  BY <1>1, <1>2, RefreshedAgrees DEF Shape
<1>4. \A p \in Unknown : p \in Paths /\ GidOf(rows'[p]) = rows'[p].id /\ GidOf(rows'[p]) \in ids + 1..ids'
  BY <1>3 DEF Unknown, GidOf
<1>5. \A p \in Paths \ Unknown :
        rows'[p] # None => rows[p] # None /\ GidOf(rows'[p]) = GidOf(rows[p])
  BY <1>3 DEF GidOf
<1>6. /\ \A g \in Given : g \in Given' /\ g \notin ids + 1..ids'
      /\ \A g \in ids + 1..ids' : g \in Given' /\ g \in Gids /\ shared[g] = None
  <2>1. \A g \in Given : g \in Given' /\ g \notin ids + 1..ids'
    BY <1>1, FilesAssumption DEF Given
  <2>2. \A g \in ids + 1..ids' : g \in Given' /\ g \in Gids
    <3>1. \A g \in ids + 1..ids' : g \in 1..ids' /\ g \in 1..MaxRows
      BY <1>1, Bounds
    <3> QED BY <3>1 DEF Given, Gids
  <2> QED BY <2>1, <2>2 DEF Telling, Placed
<1>7. ASSUME NEW p \in Paths PROVE Known(p)'
  <2> SUFFICES ASSUME rows'[p] # None PROVE Known(p)'
    BY DEF Known
  <2>1. CASE p \in Unknown
    <3>1. PICK g \in ids + 1..ids' : g = GidOf(rows'[p])
      BY <1>4, <2>1
    <3>2. g \in Given' /\ shared'[g] = None /\ g \in unsaid'
      BY <1>2, <1>6
    <3> QED BY <3>1, <3>2 DEF Known, GidOf
  <2>2. CASE p \in Stale /\ p \notin Unknown
    <3>1. rows[p] # None /\ GidOf(rows'[p]) = GidOf(rows[p]) /\ GidOf(rows[p]) \in unsaid'
      BY <1>2, <1>5, <2>2
    <3>2. GidOf(rows[p]) \in Given' /\ (shared'[GidOf(rows[p])] # None => shared'[GidOf(rows[p])].path = p)
      BY <1>2, <1>6, <3>1 DEF Telling, Known
    <3> QED BY <3>1, <3>2 DEF Known, GidOf
  <2>3. CASE p \notin Unknown \cup Stale
    <3>1. rows'[p] = rows[p] /\ rows[p] # None
      BY <1>3, <2>3
    <3>2. GidOf(rows[p]) \notin unsaid' => GidOf(rows[p]) \notin unsaid
      BY <1>2
    <3> QED BY <1>2, <1>6, <3>1, <3>2 DEF Telling, Known, GidOf
  <2> QED BY <2>1, <2>2, <2>3
<1>8. OneGid'
  <2>1. ASSUME NEW p \in Paths, NEW q \in Paths, rows'[p] # None, rows'[q] # None,
               GidOf(rows'[p]) = GidOf(rows'[q])
        PROVE  p = q
    <3>1. CASE p \in Unknown /\ q \in Unknown
      BY <1>1, <1>4, <2>1, <3>1
    <3>2. CASE p \notin Unknown /\ q \notin Unknown
      BY <1>5, <2>1, <3>2 DEF Telling, OneGid
    <3>3. CASE p \in Unknown /\ q \notin Unknown
      BY <1>4, <1>5, <1>6, <2>1, <3>3 DEF Telling, Known
    <3>4. CASE p \notin Unknown /\ q \in Unknown
      BY <1>4, <1>5, <1>6, <2>1, <3>4 DEF Telling, Known
    <3> QED BY <3>1, <3>2, <3>3, <3>4
  <2> QED BY <2>1 DEF OneGid, GidOf
<1>9. ASSUME NEW g \in Gids PROVE Placed(g)'
  <2> SUFFICES ASSUME shared[g] # None PROVE Placed(g)'
    BY <1>2 DEF Placed
  <2>1. g \in Given'
    BY <1>6 DEF Telling, Placed
  <2>2. ASSUME g \notin unsaid'
        PROVE  /\ shared'[g].path \in Paths /\ rows'[shared'[g].path] # None
               /\ GidOf(rows'[shared'[g].path]) = g
    <3>1. PICK x \in Paths : x = shared[g].path /\ rows[x] # None /\ GidOf(rows[x]) = g
      BY <1>2, <2>2 DEF Telling, Placed
    <3>2. x \notin Stale /\ x \notin Unknown
      BY <1>2, <2>2, <3>1 DEF Unknown
    <3> QED BY <1>2, <1>3, <3>1, <3>2
  <2> QED BY <2>1, <2>2 DEF Placed, GidOf
<1> QED BY <1>7, <1>8, <1>9 DEF Telling

LEMMA HandleTells ==
  ASSUME Shape, Index, Telling, OneProcess, NEW p \in Paths,
         HandleAdd(p) \/ HandleChange(p) \/ HandleUnlink(p)
  PROVE  Telling'
<1>1. Shape'
  BY HandleTyped
<1>2. CASE Ignored
  BY <1>2, TellingStill DEF Ignored
<1>3. CASE rows[p] = None /\ disk[p] # None /\ Ingest(p)
  <2>1. /\ rows'[p] # None /\ rows'[p].gid = ids + 1 /\ rows'[p].text = disk[p]
        /\ \A q \in Paths \ {p} : rows'[q] = rows[q]
        /\ ids' = ids + 1 /\ ids + 1 \in 1..MaxRows
        /\ Say(ids + 1, p, disk[p])
    BY <1>3, IngestDoes DEF Index
  <2>2. /\ ids + 1 \in Gids /\ ids + 1 \in Given' /\ ids' >= ids
        /\ \A q \in Paths : rows[q] # None => GidOf(rows[q]) # ids + 1
    BY <2>1, NextGidNew
  <2>3. PICK g \in Gids : g = ids + 1
    BY <2>2
  <2>4. GidOf(rows'[p]) = g
    BY <2>1, <2>3, Bounds DEF GidOf
  <2>5. PICK t \in Texts : t = disk[p]
    BY <1>3 DEF Shape, Typed
  <2> QED BY <1>1, <2>1, <2>2, <2>3, <2>4, <2>5, Tell
<1>4. CASE /\ disk[p] # None /\ rows[p] # None
           /\ rows' = [rows EXCEPT ![p].text = disk[p]]
           /\ Say(GidOf(rows[p]), p, disk[p]) /\ ids' = ids
  <2>1. PICK t \in Texts : t = disk[p]
    BY <1>4 DEF Shape, Typed
  <2>2. rows[p] \in Row
    BY <1>4 DEF Shape, Typed
  <2>3. rows' = [rows EXCEPT ![p] = Retext(rows[p], t)]
    BY <1>4, <2>1 DEF Retext, Shape, Typed
  <2>4. rows'[p] = Retext(rows[p], t) /\ \A q \in Paths \ {p} : rows'[q] = rows[q]
    BY <2>3 DEF Shape, Typed
  <2>5. rows'[p] # None /\ rows'[p].text = t /\ GidOf(rows'[p]) = GidOf(rows[p])
    BY <2>2, <2>4, RetextDoes
  <2> QED BY <1>1, <1>4, <2>1, <2>4, <2>5, RetextTells
<1>5. CASE /\ rows[p] # None /\ rows' = [rows EXCEPT ![p] = None]
           /\ SayGone(GidOf(rows[p])) /\ ids' = ids
  <2>1. rows'[p] = None /\ \A q \in Paths \ {p} : rows'[q] = rows[q]
    BY <1>5 DEF Shape, Typed
  <2> QED BY <1>1, <1>5, <2>1, Silence
<1>6. CASE HandleAdd(p)
  BY <1>2, <1>3, <1>6 DEF HandleAdd, Ingest
<1>7. CASE HandleChange(p)
  BY <1>2, <1>3, <1>4, <1>7 DEF HandleChange
<1>8. CASE HandleUnlink(p)
  BY <1>2, <1>5, <1>8 DEF HandleUnlink
<1> QED BY <1>6, <1>7, <1>8

\* A pulled create or update: no other row has the gid, nor another file's.
LEMMA PullWriteTells ==
  ASSUME Shape, Index, Telling, OneProcess, Apart, NEW g \in Gids, NEW p \in Paths, PullWrite(g, p)
  PROVE  Telling'
<1>1. Shape' /\ texts' \in Texts /\ ids \in Nat
  <2>1. ids \in Nat
    BY DEF Shape, Typed
  <2> QED BY <2>1, PullWriteDoes
<1>2. /\ rows'[p] # None /\ rows'[p].gid = g /\ rows'[p].text = texts'
      /\ \A q \in Paths \ {p} : rows'[q] = rows[q]
      /\ ids' = IF rows[p] = None THEN ids + 1 ELSE ids
  BY PullWriteDoesRow
<1>3. /\ IF shared[g] = None THEN g \in Strangers ELSE shared[g].path = p
      /\ \A q \in Paths \ {p} : rows[q] # None => rows[q].gid # g
      /\ Say(g, p, texts')
  BY DEF PullWrite
<1>4. ids' >= ids
  BY <1>1, <1>2
<1>5. GidOf(rows'[p]) = g
  BY <1>2, Bounds DEF GidOf
<1>6. g \in Given'
  <2>1. \A h \in Given : h \in Given'
    BY <1>1, <1>4, GivenGrows
  <2> QED BY <1>3, <2>1 DEF Telling, Placed, Given
<1>7. ASSUME NEW q \in Paths \ {p}, rows[q] # None PROVE GidOf(rows[q]) # g
  <2> SUFFICES ASSUME rows[q].gid = None, rows[q].id = g PROVE FALSE
    BY <1>3, <1>7 DEF GidOf
  <2>1. GidOf(rows[q]) = g /\ g \in Nat
    BY <1>7 DEF GidOf, Shape, Typed, Row
  <2>2. shared[g] # None
    BY <1>3, <2>1, FilesAssumption
  <2>3. shared[g].path = q
    <3>1. Known(q)
      BY DEF Telling
    <3> QED BY <1>7, <2>1, <2>2, <3>1 DEF Known
  <2> QED BY <1>3, <2>2, <2>3
<1>8. PICK t \in Texts : t = texts'
  BY <1>1
<1> QED BY <1>1, <1>2, <1>3, <1>4, <1>5, <1>6, <1>7, <1>8, Tell

LEMMA PullDeleteTells ==
  ASSUME Shape, Telling, OneProcess, Apart, NEW p \in Paths, PullDelete(p)
  PROVE  Telling'
<1>1. Shape'
  BY PullDeleteDoes
<1>2. /\ rows[p] # None /\ rows[p].gid # None /\ rows' = [rows EXCEPT ![p] = None]
      /\ SayGone(rows[p].gid) /\ ids' = ids
  BY DEF PullDelete
<1>3. GidOf(rows[p]) = rows[p].gid
  BY <1>2 DEF GidOf
<1>4. rows'[p] = None /\ \A q \in Paths \ {p} : rows'[q] = rows[q]
  BY <1>2 DEF Shape, Typed
<1> QED BY <1>1, <1>2, <1>3, <1>4, Silence

LEMMA PullMoveTells ==
  ASSUME Shape, Index, Telling, OneProcess, Apart, NEW p \in Paths, NEW q \in Paths, PullMove(p, q)
  PROVE  Telling'
<1>1. Shape'
  BY PullMoveDoes
<1>2. /\ p # q /\ rows[p] # None /\ rows[q] = None
      /\ rows'[p] = None /\ rows'[q] = rows[p]
      /\ \A x \in Paths \ {p, q} : rows'[x] = rows[x]
  BY PullMoveDoesRow DEF Index
<1>3. rows[p].gid # None /\ shared[rows[p].gid] # None
      /\ shared' = [shared EXCEPT ![rows[p].gid].path = q] /\ UNCHANGED <<ids, unsaid>>
  BY DEF PullMove
<1>4. PICK g \in Gids : g = rows[p].gid /\ g = GidOf(rows[p])
  BY <1>2, <1>3, GidOfType DEF GidOf, Shape, Typed
<1>5. shared' = IF shared[g] = None THEN shared ELSE [shared EXCEPT ![g].path = q]
  BY <1>3, <1>4
<1>6. ids' = ids /\ unsaid' = unsaid
  BY <1>3
<1> QED BY <1>1, <1>2, <1>4, <1>5, <1>6, Transfer

LEMMA TellingInit == Init => Telling
<1> SUFFICES ASSUME Init PROVE Telling
  OBVIOUS
<1>1. (\A p \in Paths : rows[p] = None) /\ (\A g \in Gids : shared[g] = None)
  BY DEF Init
<1> QED BY <1>1 DEF Telling, Known, OneGid, Placed

LEMMA TellingNext ==
  ASSUME Shape, Index, Telling, OneProcess, Apart, [Next]_vars
  PROVE  Telling'
<1>1. ASSUME NEW u \in Users,
             \/ WriteDisk(u) \/ CommitCreate(u) \/ CommitUpdate(u) \/ FailWrite(u) \/ Unlock(u)
             \/ CommitDelete(u) \/ FailDelete(u) \/ CommitMove(u) \/ FailMove(u)
             \/ CommitRestore(u) \/ Refresh(u)
      PROVE  Telling'
  <2>1. CASE WriteDisk(u) \/ FailWrite(u) \/ Unlock(u) \/ FailDelete(u) \/ FailMove(u)
    <3>1. UNCHANGED <<rows, ids, shared, unsaid>>
      BY <2>1 DEF WriteDisk, FailWrite, Unlock, FailDelete, FailMove
    <3> QED BY <3>1, TellingStill
  <2> QED
    BY <1>1, <2>1, CommitCreateTells, CommitUpdateTells, CommitDeleteTells, CommitMoveTells,
       CommitRestoreTells, RefreshTells
<1>2. ASSUME NEW u \in Users, NEW p \in Paths,
             BeginWrite(u, p) \/ DeleteDisk(u, p) \/ RestoreDisk(u, p)
      PROVE  Telling'
  BY <1>2, TellingStill DEF BeginWrite, DeleteDisk, RestoreDisk
<1>3. ASSUME NEW u \in Users, NEW p \in Paths, NEW q \in Paths, MoveDisk(u, p, q)
      PROVE  Telling'
  BY <1>3, TellingStill DEF MoveDisk
<1>4. ASSUME NEW p \in Paths,
             \/ Edit(p) \/ Remove(p) \/ HandleAdd(p) \/ HandleChange(p) \/ HandleUnlink(p)
             \/ FailHandle(p) \/ PullDelete(p)
      PROVE  Telling'
  <2>1. CASE Edit(p) \/ Remove(p) \/ FailHandle(p)
    <3>1. UNCHANGED <<rows, ids, shared, unsaid>>
      BY <2>1 DEF Edit, Remove, FailHandle, Ignored
    <3> QED BY <3>1, TellingStill
  <2> QED BY <1>4, <2>1, HandleTells, PullDeleteTells
<1>5. ASSUME NEW g \in Gids, NEW p \in Paths, PullWrite(g, p) PROVE Telling'
  BY <1>5, PullWriteTells
<1>6. ASSUME NEW p \in Paths, NEW q \in Paths, PullMove(p, q) PROVE Telling'
  BY <1>6, PullMoveTells
<1>7. ASSUME PullAgain \/ PullDisk \/ FailPull PROVE Telling'
  BY <1>7, TellingStill DEF PullAgain, PullDisk, FailPull
<1>8. ASSUME NEW a \in Actors, Crash(Host[a]) PROVE Telling'
  BY <1>8, TellingStill DEF Crash
<1>9. ASSUME UNCHANGED vars PROVE Telling'
  BY <1>9, TellingStill DEF vars
<1> QED BY <1>1, <1>2, <1>3, <1>4, <1>5, <1>6, <1>7, <1>8, <1>9 DEF Next

\* What the other machines were told of a file is where it is and what its row
\* has, whichever of create, update, move, delete, the watcher's handlers and
\* applyRemoteOp came last; refreshIndex and restoreVersion, which say nothing,
\* are set aside.
THEOREM ToldWhatIsHere ==
  ASSUME OneProcess, Apart
  PROVE  Spec => []Published
<1>1. Init => Shape /\ Fresh /\ Index /\ Telling
  BY ShapeInit, IndexInit, TellingInit
<1>2. Shape /\ Fresh /\ Index /\ Telling /\ [Next]_vars => (Shape /\ Fresh /\ Index /\ Telling)'
  BY ShapeNext, FreshNext, IndexNext, TellingNext
<1>3. Telling => Published
  BY DEF Telling, Known, Placed, Published, RowAt
<1> QED BY <1>1, <1>2, <1>3, PTL DEF Spec

-----------------------------------------------------------------------------
(* Where pulled texts may be *)

\* A pulled text is on disk where its row has it, and no unlink waits there.
Recognised(p) ==
  disk[p] \in remote =>
    /\ ~Unlinked(p)
    /\ p \notin torn /\ ~HalfAt(p) => Has(p, disk[p])

\* What a user's operation has on disk is no pulled text; what it would put
\* back may be one.
Owns(o) ==
  o.kind \in OfUsers =>
    /\ o.text \notin remote
    /\ o.kind \in Writing /\ o.stash \in remote =>
         /\ ~Unlinked(o.path)
         /\ o.path \notin torn => Has(o.path, o.stash)

Pulling ==
  /\ \A p \in Paths : Recognised(p)
  /\ \A a \in Actors : Half(a) => Owns(act[a])

LEMMA PullingStep ==
  ASSUME Pulling, NEW P \in SUBSET Paths,
         \A q \in Paths \ P : /\ SameAt(q)
                              /\ HalfAt(q) => HalfAt(q)'
                              /\ disk[q] \in remote' => disk[q] \in remote,
         \A p \in P : Recognised(p)',
         \A b \in Actors : Half(b)' => Owns(act[b])'
  PROVE  Pulling'
<1>1. ASSUME NEW q \in Paths \ P PROVE Recognised(q)'
  <2>1. SameAt(q) /\ (HalfAt(q) => HalfAt(q)') /\ (disk[q] \in remote' => disk[q] \in remote)
    OBVIOUS
  <2> QED BY <2>1 DEF Pulling, Recognised, SameAt, Unlinked, Has
<1> QED BY <1>1 DEF Pulling

LEMMA NoPulledNone == ASSUME Typed PROVE None \notin remote /\ 0 \notin remote
<1>1. remote \subseteq Texts
  BY DEF Typed
<1>2. None \notin Texts /\ 0 \notin Texts
  BY Bounds DEF Texts
<1> QED BY <1>1, <1>2

\* The next text was never pulled, nor is it on disk.
LEMMA NextTextNew ==
  ASSUME Shape, Fresh
  PROVE  texts + 1 \notin remote /\ \A p \in Paths : disk[p] # texts + 1
<1>1. texts \in Nat /\ remote \subseteq Nat
  BY DEF Shape, Typed, Texts
<1>2. None \notin Nat /\ \A t \in remote : t # None
  BY FilesAssumption, NoPulledNone DEF Shape
<1> QED BY <1>1, <1>2 DEF Fresh, Upto

LEMMA NoHalfAt == ASSUME NobodyHalf PROVE \A q \in Paths : ~HalfAt(q)
BY DEF NobodyHalf, HalfAt, At

LEMMA OnlyHalf ==
  ASSUME NEW u \in Actors, NEW kinds, HalfOf(u, kinds)
  PROVE  \A q \in Paths : HalfAt(q) => q \in {act[u].path, act[u].to}
BY DEF HalfOf, HalfAt, At

LEMMA HalfEnds ==
  ASSUME NEW u \in Actors, NEW kinds, HalfOf(u, kinds), OthersAct(u), act'[u].pc # "half"
  PROVE  \A b \in Actors : ~Half(b)'
BY DEF HalfOf, OthersAct, Half

LEMMA HalfStarts ==
  ASSUME NEW u \in Actors, NobodyHalf, OthersAct(u)
  PROVE  \A b \in Actors : Half(b)' => b = u
BY DEF NobodyHalf, OthersAct, Half

\* A step at two paths, or at none.
LEMMA PullingBetween ==
  ASSUME Pulling, NEW p \in Paths, NEW q \in Paths,
         \A x \in Paths \ {p, q} : /\ SameAt(x)
                                   /\ HalfAt(x) => HalfAt(x)'
                                   /\ disk[x] \in remote' => disk[x] \in remote,
         Recognised(p)', Recognised(q)',
         \A b \in Actors : Half(b)' => Owns(act[b])'
  PROVE  Pulling'
<1> DEFINE P == {p, q}
<1>1. \A x \in Paths \ P : /\ SameAt(x)
                           /\ HalfAt(x) => HalfAt(x)'
                           /\ disk[x] \in remote' => disk[x] \in remote
  OBVIOUS
<1>2. (\A x \in P : Recognised(x)') /\ P \in SUBSET Paths
  OBVIOUS
<1> HIDE DEF P
<1> QED BY <1>1, <1>2, PullingStep

LEMMA PullingStill ==
  ASSUME Pulling, remote' = remote, \A q \in Paths : SameAt(q) /\ (HalfAt(q) => HalfAt(q)'),
         \A b \in Actors : Half(b)' => Owns(act[b])'
  PROVE  Pulling'
<1>1. ASSUME NEW q \in Paths PROVE Recognised(q)'
  <2>1. SameAt(q) /\ (HalfAt(q) => HalfAt(q)')
    OBVIOUS
  <2> QED BY <2>1 DEF Pulling, Recognised, SameAt, Unlinked, Has
<1> QED BY <1>1 DEF Pulling

\* An operation ends its second half at p.
LEMMA PullingEnds ==
  ASSUME Pulling, NEW u \in Actors, NEW kinds, HalfOf(u, kinds), OthersAct(u), act'[u].pc # "half",
         remote' = remote, NEW p \in Paths, act[u].path = p, act[u].to = p,
         \A q \in Paths \ {p} : SameAt(q), Recognised(p)'
  PROVE  Pulling'
<1> DEFINE P == {p}
<1>1. \A b \in Actors : Half(b)' => Owns(act[b])'
  BY HalfEnds
<1>2. \A q \in Paths \ P : SameAt(q) /\ ~HalfAt(q) /\ (disk[q] \in remote' => disk[q] \in remote)
  BY OnlyHalf
<1>3. \A x \in P : Recognised(x)'
  OBVIOUS
<1>4. P \in SUBSET Paths
  OBVIOUS
<1> HIDE DEF P
<1> QED BY <1>1, <1>2, <1>3, <1>4, PullingStep

\* One begins its first half at p.
LEMMA PullingBegins ==
  ASSUME Pulling, NEW u \in Actors, NobodyHalf, OthersAct(u),
         NEW p \in Paths, \A q \in Paths \ {p} : SameAt(q) /\ (disk[q] \in remote' => disk[q] \in remote),
         Recognised(p)', Owns(act[u])'
  PROVE  Pulling'
<1> DEFINE P == {p}
<1>1. \A b \in Actors : Half(b)' => Owns(act[b])'
  BY HalfStarts
<1>2. \A q \in Paths \ P : SameAt(q) /\ ~HalfAt(q) /\ (disk[q] \in remote' => disk[q] \in remote)
  BY NoHalfAt
<1>3. (\A x \in P : Recognised(x)') /\ P \in SUBSET Paths
  OBVIOUS
<1> HIDE DEF P
<1> QED BY <1>1, <1>2, <1>3, PullingStep

LEMMA BeginWritePulls ==
  ASSUME Shape, Pulling, OneProcess, Apart, NEW u \in Users, NEW p \in Paths, BeginWrite(u, p)
  PROVE  Pulling'
<1>1. /\ OthersAct(u) /\ NobodyHalf /\ u \in Actors /\ act'[u].pc = "wait"
      /\ UNCHANGED <<disk, rows, events, torn, remote>>
  BY BeginWriteDoes, UserActs
<1>2. \A b \in Actors : ~Half(b)'
  BY <1>1 DEF OthersAct, NobodyHalf, Half
<1>3. \A q \in Paths : SameAt(q) /\ ~HalfAt(q)
  BY <1>1, NoHalfAt DEF SameAt
<1> QED BY <1>1, <1>2, <1>3, PullingStill

LEMMA UnlockPulls ==
  ASSUME Shape, Pulling, OneProcess, NEW u \in Users, Unlock(u)
  PROVE  Pulling'
<1>1. /\ OthersAct(u) /\ NobodyHalf /\ u \in Actors /\ act'[u] = Idle
      /\ UNCHANGED <<disk, rows, events, torn, remote>>
  BY UnlockDoes, UserActs
<1>2. \A b \in Actors : ~Half(b)'
  BY <1>1 DEF OthersAct, NobodyHalf, Half, Idle
<1>3. \A q \in Paths : SameAt(q) /\ ~HalfAt(q)
  BY <1>1, NoHalfAt DEF SameAt
<1> QED BY <1>1, <1>2, <1>3, PullingStill

LEMMA WriteDiskPulls ==
  ASSUME Shape, Fresh, Index, Pulling, OneProcess, NEW u \in Users, WriteDisk(u)
  PROVE  Pulling'
<1>0. PICK p \in Paths : p = act[u].path
  BY WriteDiskDoes DEF OpRec
<1>1. /\ Shape' /\ OthersAct(u) /\ NobodyHalf /\ u \in Actors /\ act[u] \in OpRec
      /\ act[u].kind \in Writing /\ act[u].path = p /\ texts' = texts + 1 /\ texts' \in Texts
      /\ act'[u] = Opened(act[u], texts', disk[p])
      /\ Wrote([disk EXCEPT ![p] = texts'])
      /\ UNCHANGED <<rows, remote, torn>>
  BY <1>0, WriteDiskDoes
<1>2. /\ act'[u].kind = act[u].kind /\ act'[u].path = p
      /\ act'[u].text = texts' /\ act'[u].stash = disk[p]
  BY <1>1, Fields
<1>3. disk'[p] = texts' /\ Notices(p, disk'[p]) /\ \A q \in Paths \ {p} : SameAt(q)
  BY <1>1, WroteOne DEF Shape, SameAt
<1>4. texts' \notin remote' /\ texts' # None
  BY <1>1, NextTextNew, Bounds
<1>5. Unlinked(p)' <=> Unlinked(p)
  <2>1. EventsFit(p) /\ disk'[p] \in Texts \cup {None}
    BY <1>1, <1>3 DEF Index, Owed, PathFits
  <2> QED BY <1>3, <1>4, <2>1, AfterPut DEF Shape
<1>6. Recognised(p)'
  BY <1>3, <1>4 DEF Recognised
<1>7. Owns(act[u])'
  <2>1. disk[p] \in remote => ~Unlinked(p) /\ (p \notin torn => Has(p, disk[p]))
    BY <1>1, NoHalfAt DEF Pulling, Recognised
  <2> QED BY <1>1, <1>2, <1>4, <1>5, <2>1 DEF Owns, Has
<1>8. \A q \in Paths \ {p} : SameAt(q) /\ (disk[q] \in remote' => disk[q] \in remote)
  BY <1>1, <1>3
<1> QED BY <1>1, <1>6, <1>7, <1>8, PullingBegins

LEMMA CommitWritePulls ==
  ASSUME Shape, Index, Pulling, NEW u \in Users, CommitCreate(u) \/ CommitUpdate(u)
  PROVE  Pulling'
<1>0. PICK p \in Paths : p = act[u].path
  BY CommitCreateDoes, CommitUpdateDoes DEF HalfOf, OpRec
<1>1. /\ OthersAct(u) /\ HalfOf(u, Writing) /\ u \in Actors /\ act[u] # Idle
      /\ act[u].path = p /\ act[u].to = p /\ act'[u] = Onto(act[u], "after")
      /\ UNCHANGED <<disk, events, remote>> /\ torn' = torn \ {p}
  BY <1>0, CommitWriteDoes
<1>2. \A q \in Paths \ {p} : rows'[q] = rows[q]
  BY <1>0, CommitCreateRow, CommitUpdateRow DEF Index
<1>3. \A q \in Paths \ {p} : SameAt(q)
  BY <1>1, <1>2, Untorn DEF SameAt
<1>4. act'[u].pc # "half"
  BY <1>1, Fields DEF HalfOf
<1>5. disk[p] \notin remote
  <2>1. disk[p] = act[u].text
    BY <1>1 DEF Index, Owed, Fits, WriteFits, HalfOf
  <2>2. Owns(act[u]) /\ act[u].kind \in OfUsers
    BY <1>1 DEF Pulling, Half, HalfOf, OfUsers
  <2> QED BY <2>1, <2>2 DEF Owns
<1>6. Recognised(p)'
  BY <1>1, <1>5 DEF Recognised
<1> QED BY <1>1, <1>3, <1>4, <1>6, PullingEnds

LEMMA FailWritePulls ==
  ASSUME Shape, Index, Pulling, NEW u \in Users, FailWrite(u)
  PROVE  Pulling'
<1>0. PICK p \in Paths : p = act[u].path
  BY FailWriteDoes DEF HalfOf, OpRec
<1>1. /\ OthersAct(u) /\ HalfOf(u, Writing) /\ u \in Actors /\ act[u] # Idle
      /\ act[u].path = p /\ act[u].to = p /\ act'[u] = Idle /\ act'[u].pc # "half"
      /\ UNCHANGED <<rows, remote, torn>> /\ Wrote([disk EXCEPT ![p] = PutBack(u)])
  BY <1>0, UserActs, FailWriteDoes DEF FailWrite, HalfOf, Idle
<1>2. PutBack(u) = act[u].stash
  BY <1>1 DEF Index, Owed, Fits, WriteFits, HalfOf, PutBack
<1>3. PICK t \in Texts \cup {None} : t = act[u].stash
  BY <1>1 DEF HalfOf, OpRec
<1>4. Wrote([disk EXCEPT ![p] = t])
  BY <1>1, <1>2, <1>3
<1>5. disk'[p] = t /\ Notices(p, disk'[p]) /\ \A q \in Paths \ {p} : SameAt(q)
  BY <1>1, <1>4, WroteOne DEF Shape, SameAt
<1>6. Recognised(p)'
  <2> SUFFICES ASSUME t \in remote PROVE ~Unlinked(p)' /\ (p \notin torn' => Has(p, disk[p])')
    BY <1>1, <1>5 DEF Recognised
  <2>1. ~Unlinked(p) /\ (p \notin torn => Has(p, t))
    BY <1>1, <1>3 DEF Pulling, Owns, Half, HalfOf, OfUsers
  <2>2. t # None
    BY NoPulledNone DEF Shape
  <2>3. EventsFit(p)
    BY DEF Index, Owed, PathFits
  <2>4. Unlinked(p)' <=> Unlinked(p)
    BY <1>5, <2>2, <2>3, AfterPut DEF Shape
  <2> QED BY <1>1, <1>5, <2>1, <2>4 DEF Has
<1> QED BY <1>1, <1>5, <1>6, PullingEnds

LEMMA DeleteDiskPulls ==
  ASSUME Shape, Pulling, OneProcess, Apart, NEW u \in Users, NEW p \in Paths, DeleteDisk(u, p)
  PROVE  Pulling'
<1>1. /\ OthersAct(u) /\ NobodyHalf /\ u \in Actors
      /\ At(p) = {} /\ UNCHANGED <<rows, torn, remote>>
  BY DeleteDiskDoes, UserActs DEF DeleteDisk
<1> PICK left \in {disk[p], None} : Wrote([disk EXCEPT ![p] = left])
  BY DeleteDiskDoes
<1>2. act'[u].kind = "delete" /\ act'[u].text = 0
  <2>1. act'[u] = Op("half", "delete", p, p, rows[p], 0, None)
    BY DeleteDiskDoes
  <2> QED BY <2>1, OpFields
<1>3. disk'[p] = left /\ Notices(p, left) /\ \A q \in Paths \ {p} : SameAt(q)
  BY <1>1, WroteOne DEF Shape, SameAt
<1>4. Owns(act[u])'
  BY <1>1, <1>2, NoPulledNone DEF Owns, Shape, Writing
<1>5. Recognised(p)'
  <2>1. CASE left = None
    BY <1>1, <1>3, <2>1, NoPulledNone DEF Recognised, Shape
  <2>2. CASE left = disk[p]
    <3>1. events'[p] = events[p] /\ Recognised(p) /\ ~HalfAt(p)
      BY <1>1, <1>3, <2>2, NoHalfAt DEF Notices, Pulling
    <3> QED BY <1>1, <1>3, <2>2, <3>1 DEF Recognised, Unlinked, Has
  <2> QED BY <2>1, <2>2
<1> QED BY <1>1, <1>3, <1>4, <1>5, PullingBegins

LEMMA EndDeletePulls ==
  ASSUME Shape, Index, Pulling, NEW u \in Users, CommitDelete(u) \/ FailDelete(u)
  PROVE  Pulling'
<1>0. PICK p \in Paths : p = act[u].path
  BY CommitDeleteDoes, FailDeleteDoes DEF HalfOf, OpRec
<1>1. /\ OthersAct(u) /\ HalfOf(u, {"delete"}) /\ u \in Actors /\ act[u] # Idle
      /\ act[u].path = p /\ act[u].to = p /\ act'[u].pc # "half"
      /\ UNCHANGED <<disk, events, remote>>
      /\ \/ torn' = IF disk[p] = None THEN torn \ {p} ELSE torn \cup {p}
         \/ torn' = torn /\ rows' = rows
  BY <1>0, UserActs, CommitDeleteDoes, FailDeleteDoes DEF HalfOf, CommitDelete, FailDelete, Idle
<1>2. DeleteFits(act[u])
  BY <1>1 DEF HalfOf, Index, Owed, Fits
<1>3. \A q \in Paths \ {p} : rows'[q] = rows[q]
  <2>1. WithId(act[u].row.id) = {p}
    BY <1>1, <1>2, OnlyThere DEF Index, DeleteFits
  <2> QED BY <2>1 DEF CommitDelete, FailDelete
<1>4. \A q \in Paths \ {p} : SameAt(q)
  BY <1>1, <1>3, Untorn DEF SameAt
<1>5. Recognised(p)'
  <2> SUFFICES ASSUME disk[p] \in remote PROVE ~Unlinked(p)' /\ (p \notin torn' => Has(p, disk[p])')
    BY <1>1 DEF Recognised
  <2>1. disk[p] # None /\ ~Unlinked(p)
    BY NoPulledNone DEF Pulling, Recognised, Shape
  <2>2. ~Unlinked(p)'
    BY <1>1, <2>1 DEF Unlinked
  <2>3. p \notin torn => Has(p, disk[p])
    BY <1>1, <1>2, <2>1 DEF DeleteFits
  <2> QED BY <1>1, <2>1, <2>2, <2>3 DEF Has
<1> QED BY <1>1, <1>4, <1>5, PullingEnds

\* A file comes where no event waits.
LEMMA Arrives ==
  ASSUME Typed, NEW p \in Paths, events[p] = <<>>, disk'[p] \in Texts, Notices(p, disk'[p])
  PROVE  ~Unlinked(p)'
<1>1. EventsFit(p) /\ ~Unlinked(p)
  BY DEF EventsFit, Unlinked
<1>2. disk'[p] # None /\ disk'[p] \in Texts \cup {None}
  BY Bounds
<1> QED BY <1>1, <1>2, AfterPut

LEMMA HalfThere ==
  ASSUME NEW a \in Actors, NEW p \in Paths, act'[a].pc = "half", p \in {act'[a].path, act'[a].to}
  PROVE  HalfAt(p)'
BY DEF HalfAt, At, Half

LEMMA MoveDiskPulls ==
  ASSUME Shape, Index, Pulling, OneProcess, Apart, NEW u \in Users, NEW p \in Paths, NEW q \in Paths,
         MoveDisk(u, p, q)
  PROVE  Pulling'
<1>1. /\ OthersAct(u) /\ NobodyHalf /\ u \in Actors /\ events[q] = <<>> /\ disk[p] # None /\ p # q
      /\ Wrote([disk EXCEPT ![p] = None, ![q] = disk[p]])
      /\ UNCHANGED <<rows, torn, remote>>
  BY MoveDiskDoes, UserActs DEF MoveDisk
<1>2. /\ act'[u].pc = "half" /\ act'[u].kind = "move" /\ act'[u].to = q /\ act'[u].text = 0
  <2>1. act'[u] = Op("half", "move", p, q, rows[p], 0, None)
    BY MoveDiskDoes
  <2> QED BY <2>1, OpFields
<1>3. /\ disk'[p] = None /\ disk'[q] = disk[p] /\ Notices(q, disk'[q])
      /\ \A x \in Paths \ {p, q} : SameAt(x) /\ disk'[x] = disk[x]
  <2> DEFINE f == [disk EXCEPT ![p] = None, ![q] = disk[p]]
  <2>1. f[p] = None /\ f[q] = disk[p] /\ (\A x \in Paths \ {p, q} : f[x] = disk[x]) /\ Wrote(f)
    BY <1>1 DEF Shape, Typed
  <2> HIDE DEF f
  <2> QED BY <1>1, <2>1, WroteBetween DEF SameAt
<1>4. Recognised(p)'
  BY <1>1, <1>3, NoPulledNone DEF Recognised, Shape
<1>5. Recognised(q)'
  <2>1. disk'[q] \in Texts
    BY <1>1, <1>3 DEF Shape, Typed
  <2>2. ~Unlinked(q)' /\ HalfAt(q)'
    BY <1>1, <1>2, <1>3, <2>1, Arrives, HalfThere DEF Shape
  <2> QED BY <2>2 DEF Recognised
<1>6. Owns(act[u])'
  BY <1>1, <1>2, NoPulledNone DEF Owns, Shape, Writing
<1>7. \A b \in Actors : Half(b)' => Owns(act[b])'
  BY <1>1, <1>6, HalfStarts
<1>8. \A x \in Paths : ~HalfAt(x)
  BY <1>1, NoHalfAt
<1> QED BY <1>1, <1>3, <1>4, <1>5, <1>7, <1>8, PullingBetween

LEMMA CommitMovePulls ==
  ASSUME Shape, Index, Pulling, NEW u \in Users, CommitMove(u)
  PROVE  Pulling'
<1>0. PICK p \in Paths, q \in Paths : p = act[u].path /\ q = act[u].to
  BY CommitMoveDoes DEF HalfOf, OpRec
<1>1. /\ OthersAct(u) /\ HalfOf(u, {"move"}) /\ act[u].kind = "move" /\ act[u].path = p /\ act[u].to = q
      /\ p # q /\ act'[u] = Idle /\ act'[u].pc # "half" /\ u \in Actors /\ act[u] # Idle
      /\ UNCHANGED <<disk, events, remote>> /\ torn' = Spread(p, q)
  BY <1>0, CommitMoveDoes, UserActs DEF CommitMove, HalfOf, Idle
<1>2. MoveFits(act[u])
  BY <1>1 DEF Index, Owed, Fits
<1>3. WithId(act[u].row.id) = {p}
  BY <1>1, <1>2, OnlyThere DEF Index, MoveFits
<1>4. rows'[p] = None /\ rows'[q] = rows[p] /\ \A x \in Paths \ {p, q} : rows'[x] = rows[x]
  <2>1. rows' = MovedRow(act[u].row.id, q)
    BY <1>0, <1>3 DEF CommitMove
  <2> QED BY <1>1, <1>3, <2>1, MovedOne DEF Shape
<1>5. /\ disk[p] = None /\ events[q] = <<"add">> /\ p \notin torn => Has(p, disk[q])
  BY <1>1, <1>2 DEF MoveFits
<1>6. \A x \in Paths \ {p, q} : SameAt(x) /\ ~HalfAt(x)
  BY <1>1, <1>4, OnlyHalf DEF SameAt, Spread
<1>7. Recognised(p)'
  BY <1>1, <1>2, NoPulledNone DEF MoveFits, Recognised, Shape
<1>8. Recognised(q)'
  <2>1. ~Unlinked(q)'
    BY <1>1, <1>2 DEF MoveFits, Unlinked
  <2>2. q \notin torn' => Has(q, disk[q])'
    BY <1>1, <1>2, <1>4 DEF MoveFits, Spread, Has
  <2> QED BY <2>1, <2>2 DEF Recognised
<1>9. \A b \in Actors : ~Half(b)'
  BY <1>1, HalfEnds
<1> QED BY <1>1, <1>6, <1>7, <1>8, <1>9, PullingBetween

LEMMA FailMovePulls ==
  ASSUME Shape, Index, Pulling, NEW u \in Users, FailMove(u)
  PROVE  Pulling'
<1>0. PICK p \in Paths, q \in Paths : p = act[u].path /\ q = act[u].to
  BY FailMoveDoes DEF HalfOf, OpRec
<1>1. /\ OthersAct(u) /\ HalfOf(u, {"move"}) /\ act[u].kind = "move" /\ act[u].path = p /\ act[u].to = q
      /\ p # q /\ act'[u] = Idle /\ act'[u].pc # "half" /\ u \in Actors /\ act[u] # Idle
      /\ UNCHANGED <<rows, remote, torn>>
  BY <1>0, FailMoveDoes, UserActs DEF FailMove, HalfOf, Idle
<1>2. MoveFits(act[u])
  BY <1>1 DEF Index, Owed, Fits
<1>3. /\ disk'[q] = None /\ disk'[p] = disk[q]
      /\ \A x \in Paths \ {p, q} : disk'[x] = disk[x]
  <2>1. disk' = [disk EXCEPT ![q] = None, ![p] = disk[q]]
    BY <1>0, <1>1 DEF FailMove, Unrenamed, Renamed
  <2> QED BY <1>1, <2>1 DEF Shape, Typed
<1>4. ~Unlinked(p)' /\ \A x \in Paths \ {p, q} : events'[x] = events[x]
  <2>1. events[p] = <<"unlink">>
    BY <1>1, <1>2 DEF MoveFits
  <2>2. /\ events'[p] = SubSeq(events[p], 1, Len(events[p]) - 1)
        /\ \A x \in Paths \ {p, q} : events'[x] = events[x]
    <3>1. events' = [x \in Paths |->
                       IF x \in {p, q} /\ events[x] # <<>>
                         THEN SubSeq(events[x], 1, Len(events[x]) - 1) ELSE events[x]]
      BY <1>0 DEF FailMove
    <3>2. events[p] # <<>>
      BY <2>1
    <3> QED BY <3>1, <3>2
  <2>3. \A k : Len(<<k>>) = 1 /\ SubSeq(<<k>>, 1, 0) = <<>>
    OBVIOUS
  <2>4. events'[p] = <<>>
    BY <2>1, <2>2, <2>3
  <2> QED BY <2>2, <2>4 DEF Unlinked
<1>5. \A x \in Paths \ {p, q} : SameAt(x) /\ ~HalfAt(x)
  BY <1>1, <1>3, <1>4, OnlyHalf DEF SameAt
<1>6. Recognised(p)'
  BY <1>1, <1>2, <1>3, <1>4 DEF MoveFits, Recognised, Has
<1>7. Recognised(q)'
  BY <1>1, <1>3, NoPulledNone DEF Recognised, Shape
<1>8. \A b \in Actors : ~Half(b)'
  BY <1>1, HalfEnds
<1> QED BY <1>1, <1>3, <1>5, <1>6, <1>7, <1>8, PullingBetween

\* restoreVersion writes a text that was never pulled.
LEMMA RestoreDiskPulls ==
  ASSUME Shape, Pulling, OneProcess, Apart, NEW u \in Users, NEW p \in Paths, RestoreDisk(u, p)
  PROVE  Pulling'
<1>1. PICK t \in 1..texts \ remote :
        /\ OthersAct(u) /\ NobodyHalf
        /\ act'[u] = Op("half", "restore", p, p, None, t, None)
        /\ Wrote([disk EXCEPT ![p] = t])
  BY RestoreDiskDoes
<1>2. /\ act'[u].kind = "restore" /\ act'[u].text = t /\ u \in Actors
      /\ UNCHANGED <<rows, torn, remote>>
  BY <1>1, OpFields, UserActs DEF RestoreDisk
<1>3. disk'[p] = t /\ \A q \in Paths \ {p} : SameAt(q) /\ disk'[q] = disk[q]
  BY <1>1, <1>2, WroteOne DEF Shape, SameAt
<1>4. Recognised(p)' /\ Owns(act[u])'
  BY <1>1, <1>2, <1>3 DEF Recognised, Owns, Writing
<1> QED BY <1>1, <1>2, <1>3, <1>4, PullingBegins

LEMMA CommitRestorePulls ==
  ASSUME Shape, Index, Pulling, NEW u \in Users, CommitRestore(u)
  PROVE  Pulling'
<1>0. PICK p \in Paths : p = act[u].path
  BY CommitRestoreDoes DEF HalfOf, OpRec
<1>1. /\ OthersAct(u) /\ HalfOf(u, {"restore"}) /\ act[u].kind = "restore"
      /\ act[u].path = p /\ act[u].to = p
      /\ act'[u] = Idle /\ act'[u].pc # "half" /\ u \in Actors /\ act[u] # Idle
      /\ UNCHANGED <<disk, events, remote>>
  BY <1>0, CommitRestoreDoes, UserActs, SMTT(20) DEF CommitRestore, HalfOf, Idle
<1>2. disk[p] \notin remote
  <2>1. disk[p] = act[u].text
    BY <1>1 DEF Index, Owed, Fits, RestoreFits
  <2>2. Owns(act[u]) /\ act[u].kind \in OfUsers
    BY <1>1 DEF Pulling, Half, HalfOf, OfUsers
  <2> QED BY <2>1, <2>2 DEF Owns
<1>3. \A q \in Paths \ {p} : SameAt(q)
  <2>1. \A q \in Paths \ {p} : rows'[q] = rows[q]
    BY <1>0 DEF CommitRestore, Shape, Typed
  <2>2. torn' = torn \/ torn' = torn \ {p}
    BY <1>0 DEF CommitRestore
  <2> QED BY <1>1, <2>1, <2>2, Untorn DEF SameAt
<1>4. Recognised(p)'
  BY <1>1, <1>2 DEF Recognised
<1> QED BY <1>1, <1>3, <1>4, PullingEnds

\* refreshIndex gives every row what is on disk.
LEMMA RefreshPulls ==
  ASSUME Shape, Pulling, OneProcess, NEW u \in Users, Refresh(u)
  PROVE  Pulling'
<1>1. /\ NobodyHalf /\ act' = act /\ ids' \in ids..MaxRows /\ \A p \in Paths : Refreshed(p)
  BY RefreshDoes
<1>2. UNCHANGED <<disk, events, remote>>
  BY DEF Refresh
<1>3. ASSUME NEW p \in Paths PROVE Recognised(p)'
  <2> SUFFICES ASSUME disk[p] \in remote PROVE ~Unlinked(p)' /\ Has(p, disk[p])'
    BY <1>2 DEF Recognised
  <2>1. ~Unlinked(p)'
    BY <1>2 DEF Pulling, Recognised, Unlinked
  <2>2. disk'[p] # None
    BY <1>2, NoPulledNone DEF Shape
  <2>3. Agree(p)'
    BY <1>1, <1>2, RefreshedAgrees DEF Shape
  <2> QED BY <2>1, <2>2, <2>3 DEF Agree
<1>4. \A b \in Actors : ~Half(b)'
  BY <1>1 DEF NobodyHalf, Half
<1> QED BY <1>3, <1>4 DEF Pulling

\* Others' operations go on when a file is written that nobody is at.
LEMMA PullingElse ==
  ASSUME Shape, Pulling, act' = act, remote' = remote, NEW p \in Paths, At(p) = {},
         \A q \in Paths \ {p} : SameAt(q), Recognised(p)'
  PROVE  Pulling'
<1>1. ASSUME NEW b \in Actors, Half(b)' PROVE Owns(act[b])'
  <2>1. Half(b) /\ act'[b] = act[b] /\ Owns(act[b]) /\ act[b] # Idle
    BY <1>1 DEF Pulling, Half, Idle
  <2>2. PICK x \in Paths : x = act[b].path
    BY <2>1, Pcs DEF Shape, OpRec
  <2>3. x # p
    BY <2>1, <2>2 DEF At, Half
  <2>4. SameAt(x)
    BY <2>2, <2>3
  <2> QED BY <2>1, <2>2, <2>4 DEF Owns, SameAt, Unlinked, Has
<1>2. \A x \in Paths \ {p, p} : SameAt(x) /\ (HalfAt(x) => HalfAt(x)')
  BY DEF HalfAt, At, Half
<1> QED BY <1>1, <1>2, PullingBetween

LEMMA EditPulls ==
  ASSUME Shape, Fresh, Pulling, Apart, NEW p \in Paths, Edit(p)
  PROVE  Pulling'
<1>1. /\ At(p) = {} /\ texts' = texts + 1 /\ Wrote([disk EXCEPT ![p] = texts'])
      /\ UNCHANGED <<rows, act, torn, remote>>
  BY EditDoes DEF Edit
<1>2. disk'[p] = texts' /\ \A q \in Paths \ {p} : SameAt(q)
  BY <1>1, WroteOne DEF Shape, SameAt
<1>3. Recognised(p)'
  BY <1>1, <1>2, NextTextNew DEF Recognised
<1> QED BY <1>1, <1>2, <1>3, PullingElse

LEMMA RemovePulls ==
  ASSUME Shape, Pulling, Apart, NEW p \in Paths, Remove(p)
  PROVE  Pulling'
<1>1. At(p) = {} /\ Wrote([disk EXCEPT ![p] = None]) /\ UNCHANGED <<rows, act, torn, remote>>
  BY RemoveDoes DEF Remove
<1>2. disk'[p] = None /\ \A q \in Paths \ {p} : SameAt(q)
  BY <1>1, WroteOne DEF Shape, SameAt
<1>3. Recognised(p)'
  BY <1>1, <1>2, NoPulledNone DEF Recognised, Shape
<1> QED BY <1>1, <1>2, <1>3, PullingElse

\* The watcher's handlers give the row what is on disk, or leave it.
LEMMA HandlePulls ==
  ASSUME Shape, Index, Pulling, OneProcess, NEW p \in Paths,
         HandleAdd(p) \/ HandleChange(p) \/ HandleUnlink(p)
  PROVE  Pulling'
<1>1. PICK kind : Handle(p, kind) /\ (HandleUnlink(p) => kind = "unlink")
  BY DEF HandleAdd, HandleChange, HandleUnlink
<1>2. /\ NobodyHalf /\ act' = act /\ events[p] # <<>> /\ Head(events[p]) = kind
      /\ events'[p] = Tail(events[p]) /\ \A q \in Paths \ {p} : events'[q] = events[q]
      /\ UNCHANGED <<disk, remote, torn>>
  BY <1>1, HandleDoes DEF HandleAdd, HandleChange, HandleUnlink
<1>3. \A q \in Paths \ {p} : rows'[q] = rows[q]
  BY DEF HandleAdd, HandleChange, HandleUnlink, Ingest, Ignored, Shape, Typed
<1>4. HandleUnlink(p) \/ rows'[p] = rows[p] \/ Has(p, disk[p])'
  <2>1. CASE Ignored
    BY <2>1 DEF Ignored
  <2>2. CASE rows[p] = None /\ disk[p] # None /\ Ingest(p)
    BY <1>2, <2>2, IngestDoes DEF Index, Has
  <2>3. CASE disk[p] # None /\ rows[p] # None /\ rows' = [rows EXCEPT ![p].text = disk[p]]
    <3>1. rows[p] \in Row /\ disk[p] \in Texts
      BY <2>3 DEF Shape, Typed
    <3>2. rows'[p] = Retext(rows[p], disk[p])
      BY <2>3 DEF Retext, Shape, Typed
    <3> QED BY <1>2, <3>1, <3>2, RetextDoes DEF Has
  <2>4. Ingest(p) => Ignored \/ (rows[p] = None /\ disk[p] # None)
    BY DEF Ingest
  <2>5. HandleAdd(p) \/ HandleChange(p) =>
          \/ Ignored
          \/ rows[p] = None /\ disk[p] # None /\ Ingest(p)
          \/ disk[p] # None /\ rows[p] # None /\ rows' = [rows EXCEPT ![p].text = disk[p]]
    BY <2>4 DEF HandleAdd, HandleChange
  <2> QED BY <2>1, <2>2, <2>3, <2>5
<1>5. Recognised(p)'
  <2> SUFFICES ASSUME disk[p] \in remote PROVE ~Unlinked(p)' /\ (p \notin torn' => Has(p, disk[p])')
    BY <1>2 DEF Recognised
  <2>1. ~Unlinked(p) /\ (p \notin torn => Has(p, disk[p]))
    BY <1>2, NoHalfAt DEF Pulling, Recognised
  <2>2. ~Unlinked(p)' /\ ~HandleUnlink(p)
    BY <1>1, <1>2, <2>1, Taken DEF Shape
  <2> QED BY <1>2, <1>4, <2>1, <2>2 DEF Has
<1>6. \A b \in Actors : ~Half(b)'
  BY <1>2 DEF NobodyHalf, Half
<1>7. \A q \in Paths \ {p, p} : SameAt(q) /\ ~HalfAt(q)
  BY <1>2, <1>3, NoHalfAt DEF SameAt
<1> QED BY <1>2, <1>5, <1>6, <1>7, PullingBetween

LEMMA FailHandlePulls ==
  ASSUME Shape, Pulling, OneProcess, NEW p \in Paths, FailHandle(p)
  PROVE  Pulling'
<1>1. /\ NobodyHalf /\ act' = act /\ events[p] # <<>>
      /\ events'[p] = Tail(events[p]) /\ \A q \in Paths \ {p} : events'[q] = events[q]
      /\ torn' = torn \cup {p}
      /\ UNCHANGED <<disk, rows, remote>>
  BY FailHandleDoes
<1>2. Recognised(p)'
  <2>1. Unlinked(p)' => Unlinked(p)
    BY <1>1, Taken DEF Shape
  <2> QED BY <1>1, <2>1 DEF Pulling, Recognised
<1>3. \A b \in Actors : ~Half(b)'
  BY <1>1 DEF NobodyHalf, Half
<1>4. \A q \in Paths \ {p, p} : SameAt(q) /\ ~HalfAt(q)
  BY <1>1, NoHalfAt DEF SameAt
<1> QED BY <1>1, <1>2, <1>3, <1>4, PullingBetween

\* An op that has come is at its paths until they have what it says.
LEMMA PullComes ==
  ASSUME Shape, Pulling, OthersAct(Loop), NobodyHalf, UNCHANGED <<disk, events, torn>>,
         act'[Loop].pc = "half", act'[Loop].kind \in OfLoop,
         NEW p \in Paths, NEW q \in Paths, act'[Loop].path = p, act'[Loop].to = q,
         events[p] = <<>>, events[q] = <<>>,
         \A x \in Paths \ {p, q} : rows'[x] = rows[x],
         \A x \in Paths : disk[x] \in remote' => disk[x] \in remote
  PROVE  Pulling'
<1>1. ~Unlinked(p)' /\ ~Unlinked(q)'
  BY DEF Unlinked
<1>2. HalfAt(p)' /\ HalfAt(q)'
  BY LoopActs, HalfThere
<1>3. Recognised(p)' /\ Recognised(q)'
  BY <1>1, <1>2 DEF Recognised
<1>4. \A b \in Actors : Half(b)' => Owns(act[b])'
  <2>1. Owns(act[Loop])'
    BY DEF Owns, OfUsers, OfLoop, Writing
  <2> QED BY <2>1, LoopActs, HalfStarts
<1>5. \A x \in Paths \ {p, q} : SameAt(x) /\ ~HalfAt(x)
  BY NoHalfAt DEF SameAt
<1> QED BY <1>3, <1>4, <1>5, PullingBetween

LEMMA PullWritePulls ==
  ASSUME Shape, Fresh, Pulling, OneProcess, Apart, NEW g \in Gids, NEW p \in Paths, PullWrite(g, p)
  PROVE  Pulling'
<1>1. /\ OthersAct(Loop) /\ NobodyHalf /\ events[p] = <<>> /\ texts' = texts + 1
      /\ act'[Loop] = Op("half", "pull", p, p, None, texts', None)
  BY PullWriteDoes
<1>2. (\A q \in Paths \ {p} : rows'[q] = rows[q]) /\ UNCHANGED <<disk, events, torn>>
  BY PullWriteDoesRow
<1>3. act'[Loop].pc = "half" /\ act'[Loop].kind \in OfLoop /\ act'[Loop].path = p /\ act'[Loop].to = p
  BY <1>1, OpFields DEF OfLoop
<1>4. \A x \in Paths : disk[x] \in remote' => disk[x] \in remote
  BY <1>1, NextTextNew DEF PullWrite
<1> QED BY <1>1, <1>2, <1>3, <1>4, PullComes

LEMMA PullDeletePulls ==
  ASSUME Shape, Pulling, OneProcess, Apart, NEW p \in Paths, PullDelete(p)
  PROVE  Pulling'
<1>1. /\ OthersAct(Loop) /\ NobodyHalf /\ events[p] = <<>>
      /\ act'[Loop] = Op("half", "pulldelete", p, p, None, 0, None)
  BY PullDeleteDoes
<1>2. UNCHANGED <<disk, events, torn, remote>> /\ \A q \in Paths \ {p} : rows'[q] = rows[q]
  BY DEF PullDelete, Pull, Shape, Typed
<1>3. act'[Loop].pc = "half" /\ act'[Loop].kind \in OfLoop /\ act'[Loop].path = p /\ act'[Loop].to = p
  BY <1>1, OpFields DEF OfLoop
<1> QED BY <1>1, <1>2, <1>3, PullComes

LEMMA PullMovePulls ==
  ASSUME Shape, Index, Pulling, OneProcess, Apart, NEW p \in Paths, NEW q \in Paths, PullMove(p, q)
  PROVE  Pulling'
<1>1. /\ OthersAct(Loop) /\ NobodyHalf /\ events[p] = <<>> /\ events[q] = <<>>
      /\ act'[Loop] = Op("half", "pullmove", p, q, None, 0, None)
  BY PullMoveDoes
<1>2. /\ \A x \in Paths \ {p, q} : rows'[x] = rows[x]
      /\ UNCHANGED <<disk, events, torn, remote>>
  BY PullMoveDoesRow DEF Index, PullMove
<1>3. act'[Loop].pc = "half" /\ act'[Loop].kind \in OfLoop /\ act'[Loop].path = p /\ act'[Loop].to = q
  BY <1>1, OpFields DEF OfLoop
<1> QED BY <1>1, <1>2, <1>3, PullComes

LEMMA PullAgainPulls ==
  ASSUME Shape, Pulling, OneProcess, PullAgain
  PROVE  Pulling'
<1>1. /\ OthersAct(Loop) /\ NobodyHalf /\ act[Loop] \in OpRec /\ act[Loop].kind \in OfLoop
      /\ act'[Loop] = Idle \/ act'[Loop] = Onto(act[Loop], "half")
      /\ UNCHANGED <<disk, rows, events, torn, remote>>
  BY PullAgainDoes
<1>2. \A b \in Actors : Half(b)' => Owns(act[b])'
  <2>1. Half(Loop)' => act'[Loop].kind \in OfLoop
    BY <1>1, Fields DEF Half, Idle
  <2>2. Half(Loop)' => Owns(act[Loop])'
    BY <2>1 DEF Owns, OfUsers, OfLoop, Writing
  <2> QED BY <1>1, <2>2, LoopActs, HalfStarts
<1>3. \A q \in Paths : SameAt(q) /\ ~HalfAt(q)
  BY <1>1, NoHalfAt DEF SameAt
<1> QED BY <1>1, <1>2, <1>3, PullingStill

LEMMA PullDiskPulls ==
  ASSUME Shape, Index, Pulling, PullDisk
  PROVE  Pulling'
<1>1. PICK p, q \in Paths :
         /\ act[Loop].path = p /\ act[Loop].to = q
         /\ act[Loop].kind = "pull" => p = q /\ disk'[p] = act[Loop].text
         /\ act[Loop].kind = "pulldelete" => p = q /\ disk'[p] = None
         /\ act[Loop].kind = "pullmove" =>
              /\ p # q
              /\ disk[p] # None => disk'[p] = None /\ disk'[q] = disk[p]
              /\ disk[p] = None => disk'[p] = disk[p] /\ disk'[q] = disk[q]
         /\ Notices(p, disk'[p]) /\ Notices(q, disk'[q])
         /\ \A x \in Paths \ {p, q} : disk'[x] = disk[x] /\ events'[x] = events[x]
  BY PullDiskPaths
<1>2. /\ Shape' /\ OthersAct(Loop) /\ HalfOf(Loop, OfLoop) /\ act'[Loop] = Idle
      /\ Loop \in Actors /\ act[Loop] # Idle /\ act'[Loop].pc # "half"
      /\ act[Loop].pc = "half" /\ act[Loop].kind \in OfLoop
      /\ UNCHANGED <<rows, remote>>
      /\ torn' = IF act[Loop].kind = "pullmove" THEN Spread(p, q) ELSE torn \ {p}
  BY <1>1, PullDiskDoes, LoopActs DEF HalfOf, Idle, PullDisk
<1>3. PullFits(act[Loop])
  BY <1>2 DEF Index, Owed, Fits
<1>4. /\ events[p] = <<>> /\ events[q] = <<>>
      /\ disk'[p] \in Texts \cup {None} /\ disk'[q] \in Texts \cup {None}
      /\ None \notin remote'
  BY <1>1, <1>2, <1>3, NoPulledNone DEF PullFits, Shape, Typed
<1>5. disk'[p] # None => ~Unlinked(p)'
  BY <1>1, <1>4, Arrives DEF Shape
<1>6. disk'[q] # None => ~Unlinked(q)'
  BY <1>1, <1>4, Arrives DEF Shape
<1>7. Recognised(p)' /\ Recognised(q)'
  <2>1. CASE act[Loop].kind = "pull"
    BY <1>1, <1>2, <1>3, <1>4, <1>5, <2>1 DEF PullFits, Recognised, Has
  <2>2. CASE act[Loop].kind = "pulldelete"
    BY <1>1, <1>4, <2>2 DEF Recognised
  <2>3. CASE act[Loop].kind = "pullmove"
    <3>1. disk'[p] = None
      BY <1>1, <2>3
    <3>2. q \notin torn' => Has(q, disk[q])'
      BY <1>1, <1>2, <1>3, <2>3 DEF PullFits, Spread, Has
    <3> QED BY <1>4, <1>6, <3>1, <3>2 DEF Recognised
  <2> QED BY <1>2, <2>1, <2>2, <2>3 DEF OfLoop
<1>8. \A x \in Paths \ {p, q} : SameAt(x) /\ ~HalfAt(x)
  BY <1>1, <1>2, OnlyHalf DEF SameAt, Spread
<1>9. \A b \in Actors : ~Half(b)'
  BY <1>2, HalfEnds
<1> QED BY <1>1, <1>2, <1>7, <1>8, <1>9, PullingBetween

LEMMA FailPullPulls ==
  ASSUME Shape, Pulling, FailPull
  PROVE  Pulling'
<1>0. PICK p \in Paths, q \in Paths : p = act[Loop].path /\ q = act[Loop].to
  BY FailPullDoes DEF HalfOf, OpRec
<1>1. /\ OthersAct(Loop) /\ HalfOf(Loop, OfLoop) /\ act'[Loop].pc # "half"
      /\ torn' = torn \cup {p, q}
      /\ UNCHANGED <<disk, rows, events, remote>>
  <2>1. Idle.pc # "half" /\ Onto(act[Loop], "again").pc # "half"
    BY FailPullDoes, Fields DEF HalfOf, Idle
  <2> QED BY <1>0, <2>1, FailPullDoes
<1>2. Recognised(p)' /\ Recognised(q)'
  BY <1>1 DEF Pulling, Recognised, Unlinked
<1>3. \A x \in Paths \ {p, q} : SameAt(x) /\ ~HalfAt(x)
  BY <1>0, <1>1, LoopActs, OnlyHalf DEF SameAt
<1>4. \A b \in Actors : ~Half(b)'
  BY <1>1, LoopActs, HalfEnds
<1> QED BY <1>1, <1>2, <1>3, <1>4, PullingBetween

LEMMA CrashPulls ==
  ASSUME Shape, Pulling, OneProcess, NEW a \in Actors, Crash(Host[a])
  PROVE  Pulling'
<1>1. /\ torn \subseteq torn'
      /\ \A b \in Actors : act'[b] = IF b = Loop /\ act[b] # Idle THEN Onto(act[b], "again") ELSE Idle
      /\ \A p \in Paths : events'[p] = <<>>
      /\ \A p \in Paths \ torn' : events[p] = <<>> /\ \A b \in At(p) : ~Half(b)
      /\ UNCHANGED <<disk, rows, remote>>
  BY CrashDoes
<1>2. ASSUME NEW p \in Paths PROVE Recognised(p)'
  BY <1>1 DEF Pulling, Recognised, Unlinked, HalfAt, Has
<1>3. ASSUME NEW b \in Actors PROVE ~Half(b)'
  <2>1. CASE b = Loop /\ act[b] # Idle
    <3>1. act[b] \in OpRec /\ act'[b] = Onto(act[b], "again")
      BY <1>1, <2>1, Pcs DEF Shape
    <3> QED BY <3>1, Fields DEF Half
  <2>2. CASE ~(b = Loop /\ act[b] # Idle)
    BY <1>1, <2>2 DEF Half, Idle
  <2> QED BY <2>1, <2>2
<1> QED BY <1>2, <1>3 DEF Pulling

LEMMA PullingInit == Init => Pulling
<1> SUFFICES ASSUME Init PROVE Pulling
  OBVIOUS
<1>1. remote = {} /\ \A a \in Actors : act[a] = Idle
  BY DEF Init
<1> QED BY <1>1 DEF Pulling, Recognised, Half, Idle

LEMMA PullingNext ==
  ASSUME Shape, Fresh, Index, Pulling, OneProcess, Apart, [Next]_vars
  PROVE  Pulling'
<1>1. ASSUME NEW u \in Users,
             \/ WriteDisk(u) \/ CommitCreate(u) \/ CommitUpdate(u) \/ FailWrite(u) \/ Unlock(u)
             \/ CommitDelete(u) \/ FailDelete(u) \/ CommitMove(u) \/ FailMove(u)
             \/ CommitRestore(u) \/ Refresh(u)
      PROVE  Pulling'
  BY <1>1, WriteDiskPulls, CommitWritePulls, FailWritePulls, UnlockPulls, EndDeletePulls,
     CommitMovePulls, FailMovePulls, CommitRestorePulls, RefreshPulls
<1>2. ASSUME NEW u \in Users, NEW p \in Paths,
             BeginWrite(u, p) \/ DeleteDisk(u, p) \/ RestoreDisk(u, p)
      PROVE  Pulling'
  BY <1>2, BeginWritePulls, DeleteDiskPulls, RestoreDiskPulls
<1>3. ASSUME NEW u \in Users, NEW p \in Paths, NEW q \in Paths, MoveDisk(u, p, q)
      PROVE  Pulling'
  BY <1>3, MoveDiskPulls
<1>4. ASSUME NEW p \in Paths,
             \/ Edit(p) \/ Remove(p) \/ HandleAdd(p) \/ HandleChange(p) \/ HandleUnlink(p)
             \/ FailHandle(p) \/ PullDelete(p)
      PROVE  Pulling'
  BY <1>4, EditPulls, RemovePulls, HandlePulls, FailHandlePulls, PullDeletePulls
<1>5. ASSUME NEW g \in Gids, NEW p \in Paths, PullWrite(g, p) PROVE Pulling'
  BY <1>5, PullWritePulls
<1>6. ASSUME NEW p \in Paths, NEW q \in Paths, PullMove(p, q) PROVE Pulling'
  BY <1>6, PullMovePulls
<1>7. ASSUME PullAgain \/ PullDisk \/ FailPull PROVE Pulling'
  BY <1>7, PullAgainPulls, PullDiskPulls, FailPullPulls
<1>8. ASSUME NEW a \in Actors, Crash(Host[a]) PROVE Pulling'
  BY <1>8, CrashPulls
<1>9. ASSUME UNCHANGED vars PROVE Pulling'
  BY <1>9 DEF vars, Pulling, Recognised, Owns, Half, HalfAt, At, Has, Unlinked
<1> QED BY <1>1, <1>2, <1>3, <1>4, <1>5, <1>6, <1>7, <1>8, <1>9 DEF Next

-----------------------------------------------------------------------------
(* Nothing pulled is sent *)

\* What the step tells of g it did not tell before.
News(g) ==
  /\ shared'[g] # None
  /\ shared'[g].path \notin torn
  /\ shared[g] # None => shared[g].text # shared'[g].text

OursOnly == \A g \in Gids : News(g) => shared'[g].text \notin remote

LEMMA Saying ==
  ASSUME Typed, NEW h \in Gids, NEW p \in Paths, NEW t \in Texts, Say(h, p, t),
         p \notin torn => t \notin remote
  PROVE  OursOnly
<1>1. PICK r : r = [path |-> p, text |-> t]
  OBVIOUS
<1>2. r.path = p /\ r.text = t
  BY <1>1
<1>3. shared'[h] = r /\ \A g \in Gids \ {h} : shared'[g] = shared[g]
  BY <1>1 DEF Say, Typed
<1> QED BY <1>2, <1>3 DEF OursOnly, News

LEMMA SayingGone ==
  ASSUME Typed, NEW h, SayGone(h)
  PROVE  OursOnly
<1>1. \A g \in Gids : shared'[g] = None \/ shared'[g] = shared[g]
  BY DEF SayGone, Typed
<1> QED BY <1>1 DEF OursOnly, News

LEMMA SayingNothing == ASSUME shared' = shared PROVE OursOnly
BY DEF OursOnly, News

\* A move says nothing of the text.
LEMMA SayingWhere ==
  ASSUME Typed, NEW h \in Gids, NEW q \in Paths,
         shared' = IF shared[h] = None THEN shared ELSE [shared EXCEPT ![h].path = q]
  PROVE  OursOnly
<1>1. CASE shared[h] = None
  BY <1>1, SayingNothing
<1>2. CASE shared[h] # None
  <2>1. shared[h] \in [path : Paths, text : Texts]
    BY <1>2 DEF Typed
  <2>2. PICK r : r = [shared[h] EXCEPT !.path = q]
    OBVIOUS
  <2>3. r.text = shared[h].text
    BY <2>1, <2>2
  <2>4. shared' = [shared EXCEPT ![h] = r]
    BY <1>2, <2>2 DEF Typed
  <2>5. \A g \in Gids : shared'[g] = IF g = h THEN r ELSE shared[g]
    BY <2>4 DEF Typed
  <2> QED BY <1>2, <2>3, <2>5 DEF OursOnly, News
<1> QED BY <1>1, <1>2

LEMMA CommitWriteSays ==
  ASSUME Shape, Index, Pulling, NEW u \in Users, CommitCreate(u) \/ CommitUpdate(u)
  PROVE  OursOnly
<1>1. HalfOf(u, Writing) /\ u \in Actors
  BY UserActs, CommitCreateDoes, CommitUpdateDoes DEF HalfOf, Writing
<1>2. PICK p \in Paths, t \in Texts : p = act[u].path /\ t = act[u].text
  BY <1>1 DEF HalfOf, OpRec, Formed
<1>3. t \notin remote
  <2>1. Owns(act[u]) /\ act[u].kind \in OfUsers
    BY <1>1 DEF Pulling, Half, HalfOf, OfUsers
  <2> QED BY <1>2, <2>1 DEF Owns
<1>4. PICK g \in Gids : Say(g, p, t)
  <2>1. CASE CommitCreate(u)
    <3>1. rows'[p] \in Row /\ Say(rows'[p].id, p, t)
      BY <1>2, <2>1, CommitCreateRow DEF Index
    <3>2. rows'[p].id \in Gids
      BY <3>1 DEF Row, Gids
    <3> QED BY <3>1, <3>2
  <2>2. CASE CommitUpdate(u)
    <3>1. rows[p] # None /\ Say(GidOf(rows[p]), p, t)
      BY <1>2, <2>2, CommitUpdateRow
    <3>2. GidOf(rows[p]) \in Gids
      BY <3>1, GidOfType DEF Shape, Typed
    <3> QED BY <3>1, <3>2
  <2> QED BY <2>1, <2>2
<1> QED BY <1>3, <1>4, Saying DEF Shape

LEMMA CommitMoveSays ==
  ASSUME Shape, NEW u \in Users, CommitMove(u)
  PROVE  OursOnly
<1>1. HalfOf(u, {"move"})
  BY CommitMoveDoes
<1>2. act[u].row \in Row /\ act[u].to \in Paths
  BY <1>1 DEF HalfOf, OpRec, Formed
<1>3. PICK g \in Gids, q \in Paths : g = GidOf(act[u].row) /\ q = act[u].to
  BY <1>2, GidOfType
<1>4. shared' = IF shared[g] = None THEN shared ELSE [shared EXCEPT ![g].path = q]
  BY <1>3 DEF CommitMove
<1> QED BY <1>3, <1>4, SayingWhere DEF Shape

\* The watcher says what it finds where the row has something else: had it
\* been pulled, the row would have it.
LEMMA HandleSays ==
  ASSUME Shape, Index, Pulling, OneProcess, NEW p \in Paths,
         HandleAdd(p) \/ HandleChange(p) \/ HandleUnlink(p)
  PROVE  OursOnly
<1>1. NobodyHalf
  <2>1. PICK kind : Handle(p, kind)
    BY DEF HandleAdd, HandleChange, HandleUnlink
  <2> QED BY <2>1, HandleDoes
<1>2. disk[p] \in remote /\ p \notin torn => Has(p, disk[p])
  BY <1>1, NoHalfAt DEF Pulling, Recognised
<1>3. CASE Ignored
  BY <1>3, SayingNothing DEF Ignored
<1>4. CASE rows[p] = None /\ disk[p] # None /\ Ingest(p)
  <2>1. ids + 1 \in 1..MaxRows /\ Say(ids + 1, p, disk[p])
    BY <1>4, IngestDoes DEF Index
  <2>2. PICK g \in Gids, t \in Texts : g = ids + 1 /\ t = disk[p]
    BY <1>4, <2>1 DEF Gids, Shape, Typed
  <2>3. p \notin torn => t \notin remote
    BY <1>2, <1>4, <2>2 DEF Has
  <2> QED BY <2>1, <2>2, <2>3, Saying DEF Shape
<1>5. CASE rows[p] # None /\ disk[p] # None /\ ~SameHash(p) /\ Say(GidOf(rows[p]), p, disk[p])
  <2>1. PICK g \in Gids, t \in Texts : g = GidOf(rows[p]) /\ t = disk[p]
    BY <1>5, GidOfType DEF Shape, Typed
  <2>2. p \notin torn => t \notin remote
    BY <1>2, <1>5, <2>1 DEF Has, SameHash
  <2> QED BY <1>5, <2>1, <2>2, Saying DEF Shape
<1>6. CASE SayGone(GidOf(rows[p]))
  BY <1>6, SayingGone DEF Shape
<1>7. CASE HandleAdd(p)
  BY <1>3, <1>4, <1>7 DEF HandleAdd, Ingest
<1>8. CASE HandleChange(p)
  BY <1>3, <1>4, <1>5, <1>8 DEF HandleChange
<1>9. CASE HandleUnlink(p)
  BY <1>3, <1>6, <1>9 DEF HandleUnlink
<1> QED BY <1>7, <1>8, <1>9

LEMMA PullSays ==
  ASSUME Shape, Fresh, OneProcess, Apart, NEW p \in Paths,
         \/ PullDelete(p)
         \/ \E g \in Gids : PullWrite(g, p)
         \/ \E q \in Paths : PullMove(p, q)
  PROVE  OursOnly
<1>1. CASE PullDelete(p)
  BY <1>1, SayingGone DEF PullDelete, Shape
<1>2. ASSUME NEW g \in Gids, PullWrite(g, p) PROVE OursOnly
  <2>1. PICK t \in Texts : t = texts' /\ t = texts + 1
    BY <1>2, PullWriteDoes
  <2>2. t \notin remote
    BY <2>1, NextTextNew
  <2>3. Say(g, p, t)
    BY <1>2, <2>1 DEF PullWrite
  <2> QED BY <2>2, <2>3, Saying DEF Shape
<1>3. ASSUME NEW q \in Paths, PullMove(p, q) PROVE OursOnly
  <2>1. rows[p].gid # None /\ rows[p] # None /\ shared' = [shared EXCEPT ![rows[p].gid].path = q]
        /\ shared[rows[p].gid] # None
    BY <1>3 DEF PullMove
  <2>2. PICK g \in Gids : g = rows[p].gid
    BY <2>1 DEF Shape, Typed, Row
  <2>3. shared' = IF shared[g] = None THEN shared ELSE [shared EXCEPT ![g].path = q]
    BY <2>1, <2>2
  <2> QED BY <2>2, <2>3, SayingWhere DEF Shape
<1> QED BY <1>1, <1>2, <1>3

LEMMA NextSays ==
  ASSUME Shape, Fresh, Index, Pulling, OneProcess, Apart, Next
  PROVE  OursOnly
<1>1. ASSUME NEW u \in Users,
             \/ WriteDisk(u) \/ CommitCreate(u) \/ CommitUpdate(u) \/ FailWrite(u) \/ Unlock(u)
             \/ CommitDelete(u) \/ FailDelete(u) \/ CommitMove(u) \/ FailMove(u)
             \/ CommitRestore(u) \/ Refresh(u)
      PROVE  OursOnly
  <2>1. CASE CommitDelete(u)
    BY <2>1, SayingGone DEF CommitDelete, Shape
  <2>2. CASE \/ WriteDisk(u) \/ FailWrite(u) \/ Unlock(u) \/ FailDelete(u) \/ FailMove(u)
             \/ CommitRestore(u) \/ Refresh(u)
    <3>1. shared' = shared
      BY <2>2 DEF WriteDisk, FailWrite, Unlock, FailDelete, FailMove, CommitRestore, Refresh
    <3> QED BY <3>1, SayingNothing
  <2> QED BY <1>1, <2>1, <2>2, CommitWriteSays, CommitMoveSays
<1>2. ASSUME NEW u \in Users, NEW p \in Paths,
             BeginWrite(u, p) \/ DeleteDisk(u, p) \/ RestoreDisk(u, p)
      PROVE  OursOnly
  BY <1>2, SayingNothing DEF BeginWrite, DeleteDisk, RestoreDisk
<1>3. ASSUME NEW u \in Users, NEW p \in Paths, NEW q \in Paths, MoveDisk(u, p, q)
      PROVE  OursOnly
  BY <1>3, SayingNothing DEF MoveDisk
<1>4. ASSUME NEW p \in Paths,
             \/ Edit(p) \/ Remove(p) \/ HandleAdd(p) \/ HandleChange(p) \/ HandleUnlink(p)
             \/ FailHandle(p) \/ PullDelete(p)
      PROVE  OursOnly
  <2>1. CASE Edit(p) \/ Remove(p) \/ FailHandle(p)
    BY <2>1, SayingNothing DEF Edit, Remove, FailHandle, Ignored
  <2> QED BY <1>4, <2>1, HandleSays, PullSays
<1>5. ASSUME NEW g \in Gids, NEW p \in Paths, PullWrite(g, p) PROVE OursOnly
  BY <1>5, PullSays
<1>6. ASSUME NEW p \in Paths, NEW q \in Paths, PullMove(p, q) PROVE OursOnly
  BY <1>6, PullSays
<1>7. ASSUME PullAgain \/ PullDisk \/ FailPull PROVE OursOnly
  BY <1>7, SayingNothing DEF PullAgain, PullDisk, FailPull
<1>8. ASSUME NEW a \in Actors, Crash(Host[a]) PROVE OursOnly
  BY <1>8, SayingNothing DEF Crash
<1> QED BY <1>1, <1>2, <1>3, <1>4, <1>5, <1>6, <1>7, <1>8 DEF Next

\* No text another machine sent goes out as an edit made here: the watcher sees
\* a pulled file only when its row has the text, so that its hash gate holds it
\* back, and a rollback puts a pulled text back where its row still is.
THEOREM NothingEchoed ==
  ASSUME OneProcess, Apart
  PROVE  Spec => NoEcho
<1>1. Init => Shape /\ Fresh /\ Index /\ Pulling
  BY ShapeInit, IndexInit, PullingInit
<1>2. Shape /\ Fresh /\ Index /\ Pulling /\ [Next]_vars => (Shape /\ Fresh /\ Index /\ Pulling)'
  BY ShapeNext, FreshNext, IndexNext, PullingNext
<1>3. Shape /\ Fresh /\ Index /\ Pulling /\ Next => OursOnly
  BY NextSays
<1>4. Shape /\ Fresh /\ Index /\ Pulling /\ [Next]_vars =>
        [\A g \in Gids :
           LET told == shared'[g]
           IN /\ told # None
              /\ told.path \notin torn
              /\ shared[g] # None => shared[g].text # told.text
              => told.text \notin remote]_vars
  BY <1>3 DEF OursOnly, News
<1> QED BY <1>1, <1>2, <1>4, PTL DEF Spec, NoEcho

=============================================================================
