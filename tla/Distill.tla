------------------------------- MODULE Distill -------------------------------
(***************************************************************************)
(* Journal distillation (core/src/journal): raw events are appended to     *)
(* files; runs of distillJournal in several processes take those past the  *)
(* high-water mark in batches, write entries from them into the files of   *)
(* tasks and move the mark, under a lock in SQLite that is claimed once it *)
(* is old.  An event is its place in the raw files; its key, which is what *)
(* the mark remembers of it, another event may have too.                   *)
(***************************************************************************)
EXTENDS Integers, Sequences, FiniteSets

CONSTANTS
  Workers,     \* the callers of distillJournal, each one run at a time
  Engines,     \* of them: those of MCP servers, which go by mtimes,
  Schedulers,  \*          those of web apps, which wait for MCP servers to be idle
  Tasks,       \* the tasks entries are written under, each in a file of its own
  TailOf,      \* [event -> its kind and its sha, branch or first path]
  Max,         \* maxEvents
  Window,      \* cooldownSeconds: the age at which a lock is claimed
  InFlight,    \* inFlightWindowSeconds: younger events are left for later
  Presence,    \* presenceWindowSec: what was appended to since is active
  Delay,       \* how long after its timestamp an event is in its file
  MaxEvents, MaxSame, MaxTime, LastAppend, MaxCrashes,  \* bounds
  None

ASSUME TimesAssumption ==
  /\ Max \in Nat \ {0} /\ Window \in Nat /\ Presence \in Nat
  /\ Delay \in Nat /\ InFlight \in Nat /\ Delay <= InFlight
  /\ MaxEvents \in Nat /\ MaxSame \in Nat /\ MaxCrashes \in Nat
  /\ MaxTime \in Nat /\ LastAppend \in Nat

ASSUME WorkersAssumption ==
  /\ Engines \cup Schedulers \subseteq Workers
  /\ None \notin Workers /\ None \notin Int

ASSUME TailsAssumption == DOMAIN TailOf = 1..MaxEvents

VARIABLES
  now,
  raw,      \* the raw files: the timestamp of each event, as appended
  rawAt,    \* their newest mtime
  mark,     \* .distilled-up-to.json: last_event_ts, last_event_keys, mtime
  entries,  \* [task -> its file: how often it has each event; 2 is more than once]
  lock,     \* the row of journal_locks: whose token, acquired_at
  run,      \* [worker -> its run, or NoRun]
  crashes,  \* counts crashes, for the bound only
  dropped,  \* history: the events of entries that another process wrote over
  torn,     \* history: the events of runs that ended before they moved the mark
  overtaken \* history: has a live run lost its lock?

vars == <<now, raw, rawAt, mark, entries, lock, run, crashes, dropped, torn, overtaken>>

Events == DOMAIN raw

NoRow == [by |-> None, at |-> 0]
NoMark == [ts |-> 0, keys |-> {}, at |-> None]
NoEntry == [i \in 1..MaxEvents |-> 0]
NoFile == [task |-> None, bucket |-> {}, text |-> NoEntry]
NoRun ==
  [pc |-> "no", todo |-> {}, last |-> 0, keys |-> {}, batch |-> {}, at |-> 0, file |-> NoFile]

\* Only the lock is left to give back.
Leaving(w) == [NoRun EXCEPT !.pc = "leaving", !.at = run[w].at]

Running(w) == run[w].pc # "no"
AtWork(w) == run[w].pc \in {"writing", "saving"}

\* eventKey
Key(i) == <<raw[i], TailOf[i]>>
KeysOf(S) == {Key(i) : i \in S}
Keys == Nat \X {TailOf[i] : i \in 1..MaxEvents}

\* file: what is being saved, between reading a task's file and writing it.
Run ==
  [pc : {"no", "writing", "saving", "leaving"}, todo : SUBSET (1..MaxEvents), last : Nat,
   keys : SUBSET Keys, batch : SUBSET (1..MaxEvents), at : Nat,
   file : [task : Tasks \cup {None}, bucket : SUBSET (1..MaxEvents), text : [1..MaxEvents -> 0..2]]]

TypeOK ==
  /\ now \in Nat
  /\ raw \in Seq(Nat) /\ Len(raw) <= MaxEvents
  /\ rawAt \in Nat
  /\ mark \in [ts : Nat, keys : SUBSET Keys, at : Nat \cup {None}]
  /\ entries \in [Tasks -> [1..MaxEvents -> 0..2]]
  /\ lock \in [by : Workers \cup {None}, at : Nat]
  /\ run \in [Workers -> Run]
  /\ crashes \in 0..MaxCrashes
  /\ dropped \subseteq 1..MaxEvents
  /\ torn \subseteq 1..MaxEvents
  /\ overtaken \in BOOLEAN

Init ==
  /\ now = Delay
  /\ raw = <<>>
  /\ rawAt = 0
  /\ mark = NoMark
  /\ entries = [k \in Tasks |-> NoEntry]
  /\ lock = NoRow
  /\ run = [w \in Workers |-> NoRun]
  /\ crashes = 0
  /\ dropped = {}
  /\ torn = {}
  /\ overtaken = FALSE

\* JournalWriter.append, in this or another process.
AppendEvent(t) ==
  /\ now <= LastAppend
  /\ Len(raw) < MaxEvents
  /\ t \in now - Delay..now
  /\ Cardinality({i \in Events : raw[i] = t}) < MaxSame
  /\ raw' = Append(raw, t)
  /\ rawAt' = now
  /\ UNCHANGED <<now, mark, entries, lock, run, crashes, dropped, torn, overtaken>>

\* listSlugsWithBacklog goes by mtimes alone.
Dirty == rawAt > 0 /\ (mark.at # None => rawAt > mark.at - InFlight)

\* The order of all.sort, which is stable.
Before(i, j) == raw[i] < raw[j] \/ (raw[i] = raw[j] /\ i < j)

\* Mutant: the events of the mark's own millisecond count as done.
DueAfter == {i \in Events : raw[i] > mark.ts /\ raw[i] < now - InFlight}

\* The filter of readRawEvents.
Due == {i \in Events : raw[i] >= mark.ts /\ raw[i] < now - InFlight /\ Key(i) \notin mark.keys}

\* all.slice(0, max).
Batch == {i \in Due : Cardinality({j \in Due : Before(j, i)}) < Max}

\* Mutant: the mark is the batch's first timestamp.
FirstOf(B) == CHOOSE t \in {raw[i] : i \in B} : \A i \in B : t <= raw[i]

\* events[events.length - 1].ts.
LastOf(B) == CHOOSE t \in {raw[i] : i \in B} : \A i \in B : raw[i] <= t

\* Mutant: an abandoned lock is never claimed.
FreeWhenGone == lock.by = None

\* acquireCooldown: there is no row, or it is old.
Free == lock.by = None \/ now - lock.at >= Window

\* isMcpActive goes by the raw files' mtimes.
Active == rawAt > 0 /\ now - rawAt <= Presence

\* Acquire, read the mark and the raw files; nothing to do ends the run.  Tools
\* that users call begin whenever they like.
Begin(w) ==
  /\ ~Running(w)
  /\ w \in Engines => Dirty
  /\ w \in Schedulers => ~Active
  /\ Free
  /\ overtaken' = (overtaken \/ \E v \in Workers : Running(v))
  /\ IF Batch = {}
     THEN lock' = NoRow /\ UNCHANGED run
     ELSE /\ lock' = [by |-> w, at |-> now]
          /\ run' = [run EXCEPT ![w] =
               [pc |-> "writing", todo |-> Batch, batch |-> Batch, last |-> LastOf(Batch),
                keys |-> KeysOf({i \in Batch : raw[i] = LastOf(Batch)}), at |-> now,
                file |-> NoFile]]
  /\ UNCHANGED <<now, raw, rawAt, mark, entries, crashes, dropped, torn>>

\* One bucket: its task's file is read, if there is one.
ReadTask(w, S, k) ==
  /\ run[w].pc = "writing"
  /\ S # {} /\ S \subseteq run[w].todo
  /\ run' = [run EXCEPT ![w].pc = "saving", ![w].todo = @ \ S,
                         ![w].file = [task |-> k, bucket |-> S, text |-> entries[k]]]
  /\ UNCHANGED <<now, raw, rawAt, mark, entries, lock, crashes, dropped, torn, overtaken>>

\* The bucket's entry, in front of what was in the file when it was read.
NewText(f) ==
  [i \in 1..MaxEvents |-> IF i \in f.bucket /\ f.text[i] < 2 THEN f.text[i] + 1 ELSE f.text[i]]

\* The file is written as a whole: what another process wrote meanwhile is gone.
WriteEntry(w) ==
  LET k == run[w].file.task
      text == NewText(run[w].file)
  IN /\ run[w].pc = "saving"
     /\ entries' = [entries EXCEPT ![k] = text]
     /\ dropped' = dropped \cup {i \in 1..MaxEvents : entries[k][i] > 0 /\ text[i] = 0}
     /\ run' = [run EXCEPT ![w].pc = "writing", ![w].file = NoFile]
     /\ UNCHANGED <<now, raw, rawAt, mark, lock, crashes, torn, overtaken>>

\* writeHighWater: a file renamed into place.
Advance(w) ==
  /\ run[w].pc = "writing"
  /\ run[w].todo = {}
  /\ mark' = [ts |-> run[w].last, keys |-> run[w].keys, at |-> now]
  /\ run' = [run EXCEPT ![w] = Leaving(w)]
  /\ UNCHANGED <<now, raw, rawAt, entries, lock, crashes, dropped, torn, overtaken>>

\* An exception on the way leaves the mark where it was.
Fail(w) ==
  /\ AtWork(w)
  /\ crashes < MaxCrashes
  /\ crashes' = crashes + 1
  /\ torn' = torn \cup run[w].batch
  /\ run' = [run EXCEPT ![w] = Leaving(w)]
  /\ UNCHANGED <<now, raw, rawAt, mark, entries, lock, dropped, overtaken>>

\* Mutant: whoever ends its run removes the row.
RowGone(w) == NoRow

\* DELETE ... AND token = ?
RowAfter(w) == IF lock.by = w THEN NoRow ELSE lock

\* releaseCooldown, in the finally clause.
Release(w) ==
  /\ run[w].pc = "leaving"
  /\ lock' = RowAfter(w)
  /\ run' = [run EXCEPT ![w] = NoRun]
  /\ UNCHANGED <<now, raw, rawAt, mark, entries, crashes, dropped, torn, overtaken>>

\* The process dies; its lock stays.
Crash(w) ==
  /\ Running(w)
  /\ crashes < MaxCrashes
  /\ now + Window <= MaxTime
  /\ crashes' = crashes + 1
  /\ torn' = IF AtWork(w) THEN torn \cup run[w].batch ELSE torn
  /\ run' = [run EXCEPT ![w] = NoRun]
  /\ UNCHANGED <<now, raw, rawAt, mark, entries, lock, dropped, overtaken>>

Tick ==
  /\ now < MaxTime
  /\ now' = now + 1
  /\ UNCHANGED <<raw, rawAt, mark, entries, lock, run, crashes, dropped, torn, overtaken>>

\* A run goes on.
GoOn(w) ==
  \/ WriteEntry(w) \/ Advance(w) \/ Release(w)
  \/ \E S \in SUBSET run[w].todo, k \in Tasks : ReadTask(w, S, k)

Next ==
  \/ \E t \in 0..MaxTime : AppendEvent(t)
  \/ \E w \in Workers : Begin(w) \/ GoOn(w) \/ Fail(w) \/ Crash(w)
  \/ Tick

Spec == Init /\ [][Next]_vars

\* Every process goes on with its runs.  Engines and schedulers have timers; who
\* has neither running, such as an MCP server without the web app, promises less.
FairSpec ==
  /\ Spec
  /\ WF_vars(Tick)
  /\ \A w \in Workers : WF_vars(GoOn(w))
  /\ \A w \in Engines \cup Schedulers : WF_vars(Begin(w))

-----------------------------------------------------------------------------
InEntry(i) == \E k \in Tasks : entries[k][i] > 0

\* The events that the mark cannot tell from i.
Twins(i) == {j \in Events : Key(j) = Key(i)}

\* i went into an entry, or one that goes for i did.
Entered(i) == \E j \in Twins(i) : InEntry(j) \/ j \in dropped

\* What the mark says is done has gone into an entry - the event itself, or one
\* with its key -, whichever run moved the mark last and whatever became of the
\* others; and unless a run outlived its lock the entry is still there.
NothingSkipped ==
  /\ \A i \in Events : raw[i] < mark.ts \/ Key(i) \in mark.keys => Entered(i)
  /\ dropped # {} => overtaken

\* An event is written again only if it shares the mark's millisecond, or a run
\* that had it ended early, or a run outlived its lock.
OnlyBoundaryRepeats ==
  [][\A i \in Events, k \in Tasks : InEntry(i) /\ entries'[k][i] > entries[k][i] =>
       raw[i] = mark.ts \/ i \in torn \/ overtaken]_vars

\* While its lock is young a run has it: no late release of another takes it.
HolderHasLock ==
  \A w \in Workers : Running(w) /\ now - run[w].at < Window => lock = [by |-> w, at |-> run[w].at]

\* When no more events come and a scheduler is there to look after what engines
\* take for done, all events go into entries, each or one with its key, if
\* fewer than twice Max of them share a millisecond.
Distilled == <>[](\A i \in Events : Entered(i))
=============================================================================
