---------------------------- MODULE DistillProofs ----------------------------
(***************************************************************************)
(* Proofs about Distill, for any batch size, windows, tasks, workers and   *)
(* tails of keys: the mark never passes an event that no entry goes for, a *)
(* young lock is safe, and an event is not distilled twice but at the      *)
(* mark's own millisecond, or after a run that ended early or lost its     *)
(* lock.                                                                   *)
(***************************************************************************)
EXTENDS Distill, TLAPS, FiniteSetTheorems, WellFoundedInduction

\* What a run has still to see into an entry.
Pending(w) == run[w].todo \cup run[w].file.bucket

\* A run is about events there are, and of a bucket only while it saves a file.
Proper(r) ==
  /\ r.todo \cup r.file.bucket \cup r.batch \subseteq Events
  /\ r.pc = "saving" => r.file.task \in Tasks
  /\ r.pc = "writing" => r.file.bucket = {}

Types == TypeOK /\ \A w \in Workers : Proper(run[w])

\* Too old for any event still on its way to a raw file.
Settled(t) == t = 0 \/ t < now - InFlight
AllSettled(K) == \A k \in K : k[1] < now - InFlight

\* An event a run is about to put behind the mark has been entered, or one with
\* its key is still pending.
RunCovers(w) ==
  \A i \in Events : raw[i] < run[w].last \/ Key(i) \in run[w].keys =>
    Entered(i) \/ \E j \in Twins(i) : j \in Pending(w)

Passed == \A i \in Events : raw[i] < mark.ts \/ Key(i) \in mark.keys => Entered(i)

Covered ==
  /\ Settled(mark.ts) /\ AllSettled(mark.keys)
  /\ \A w \in Workers : AtWork(w) =>
       Settled(run[w].last) /\ AllSettled(run[w].keys) /\ RunCovers(w)
  /\ Passed

LEMMA EventsBounded ==
  ASSUME Types
  PROVE  /\ Events = 1..Len(raw) /\ Len(raw) \in Nat
         /\ Events \subseteq 1..MaxEvents
         /\ \A i \in Events : raw[i] \in Nat /\ i \in Nat
  BY TimesAssumption DEF Types, TypeOK, Events

LEMMA RunTyped ==
  ASSUME Types, NEW w \in Workers
  PROVE  /\ run[w] \in Run /\ run[w].at \in Nat /\ run[w].last \in Nat
         /\ run[w].keys \subseteq Keys /\ run[w].file.text \in [1..MaxEvents -> 0..2]
         /\ run[w].todo \subseteq Events /\ run[w].file.bucket \subseteq Events
         /\ run[w].batch \subseteq Events
         /\ run[w].pc \in {"no", "writing", "saving", "leaving"}
  BY DEF Types, TypeOK, Run, Proper

LEMMA EntryTyped ==
  ASSUME Types, NEW i \in Events, NEW k \in Tasks
  PROVE  entries[k][i] \in 0..2
<1>1. entries \in [Tasks -> [1..MaxEvents -> 0..2]]
  BY DEF Types, TypeOK
<1>2. i \in 1..MaxEvents
  BY EventsBounded
<1> QED BY <1>1, <1>2

LEMMA KeysTyped ==
  ASSUME Types, NEW B \in SUBSET Events
  PROVE  KeysOf(B) \subseteq Keys
  BY EventsBounded DEF KeysOf, Key, Keys

LEMMA LastExists ==
  ASSUME Types, NEW B \in SUBSET Events, B # {}, \A i \in B : raw[i] < now
  PROVE  /\ \E j \in B : raw[j] = LastOf(B)
         /\ \A i \in B : raw[i] <= LastOf(B)
<1> DEFINE Less == {p \in Nat \X Nat : p[1] < p[2]}
           S == {raw[i] : i \in B}
           Upper == {n \in Nat : \A x \in S : x <= n}
<1>0. S \subseteq Nat
  BY EventsBounded
<1>1. IsWellFoundedOn(Less, Nat)
  BY NatLessThanWellFounded DEF OpToRel
<1>2. Upper # {} /\ Upper \subseteq Nat
  <2>1. now \in Nat BY DEF Types, TypeOK
  <2>2. now \in Upper BY <2>1, EventsBounded
  <2> QED BY <2>2
<1>3. PICK n \in Upper : \A y \in Upper : ~(<<y, n>> \in Less)
  <2> HIDE DEF Less, Upper
  <2> QED BY <1>1, <1>2, WFMin
<1>4. n \in Nat /\ \A x \in S : x <= n
  BY <1>3
<1>5. \A y \in Upper : n <= y
  <2> TAKE y \in Upper
  <2>1. y \in Nat /\ ~(<<y, n>> \in Less)
    BY <1>3
  <2>2. <<y, n>> \in Nat \X Nat
    BY <2>1, <1>4
  <2>3. ~(y < n)
    BY <2>1, <2>2
  <2> QED BY <2>1, <2>3, <1>4
<1>6. n \in S
  <2> SUFFICES ASSUME n \notin S PROVE FALSE
    OBVIOUS
  <2>1. PICK x \in S : x \in Nat
    BY <1>0
  <2>2. \A z \in S : z \in Nat /\ z < n
    <3> HIDE DEF S
    <3> QED BY <1>0, <1>4
  <2>3. n # 0
    BY <2>1, <2>2, <1>4
  <2>4. n - 1 \in Nat /\ \A z \in S : z <= n - 1
    <3> HIDE DEF S
    <3> QED BY <2>2, <2>3, <1>4
  <2>5. n <= n - 1
    BY <2>4, <1>5
  <2> QED BY <2>5, <1>4
<1>7. \E t \in S : \A i \in B : raw[i] <= t
  BY <1>4, <1>6
<1>8. LastOf(B) \in S /\ \A i \in B : raw[i] <= LastOf(B)
  BY <1>7 DEF LastOf
<1> QED BY <1>8

\* A batch leaves nothing out below its last timestamp.
LEMMA BatchIsPrefix ==
  ASSUME Types, Batch # {}
  PROVE  /\ Batch \subseteq Due /\ Batch \subseteq Events
         /\ LastOf(Batch) \in Nat /\ Settled(LastOf(Batch))
         /\ \A i \in Due : raw[i] < LastOf(Batch) => i \in Batch
<1>1. Batch \subseteq Due /\ Due \subseteq Events
  BY DEF Batch, Due
<1>2. \A i \in Due : raw[i] \in Nat /\ raw[i] < now - InFlight /\ raw[i] < now
  <2> TAKE i \in Due
  <2>1. raw[i] \in Nat /\ raw[i] < now - InFlight
    BY <1>1, EventsBounded DEF Due
  <2>2. now \in Nat /\ InFlight \in Nat
    BY TimesAssumption DEF Types, TypeOK
  <2> QED BY <2>1, <2>2
<1>3. PICK j \in Batch : raw[j] = LastOf(Batch)
  BY <1>1, <1>2, LastExists
<1>4. LastOf(Batch) \in Nat /\ Settled(LastOf(Batch))
  BY <1>1, <1>2, <1>3 DEF Settled
<1>5. ASSUME NEW i \in Due, raw[i] < LastOf(Batch)
      PROVE  i \in Batch
  <2> DEFINE Pre(x) == {k \in Due : Before(k, x)}
  <2>1. Pre(i) \subseteq Pre(j)
    <3> SUFFICES ASSUME NEW k \in Due, Before(k, i) PROVE Before(k, j)
      OBVIOUS
    <3>1. raw[k] \in Nat /\ raw[i] \in Nat /\ raw[j] \in Nat
      BY <1>1, <1>2
    <3>2. raw[k] <= raw[i] /\ raw[i] < raw[j]
      BY <1>3, <1>5, <3>1 DEF Before
    <3> QED BY <3>1, <3>2 DEF Before
  <2>2. IsFiniteSet(Pre(j))
    <3>1. IsFiniteSet(Events)
      BY EventsBounded, FS_Interval
    <3>2. Pre(j) \subseteq Events
      BY <1>1
    <3> QED BY <3>1, <3>2, FS_Subset
  <2>3. Cardinality(Pre(i)) <= Cardinality(Pre(j))
    BY <2>1, <2>2, FS_Subset
  <2>4. Cardinality(Pre(i)) \in Nat /\ Cardinality(Pre(j)) \in Nat
    BY <2>1, <2>2, FS_Subset, FS_CardinalityType
  <2>5. Cardinality(Pre(j)) < Max
    BY DEF Batch
  <2>6. Cardinality(Pre(i)) < Max
    BY <2>3, <2>4, <2>5, TimesAssumption
  <2> QED BY <2>6 DEF Batch
<1> QED BY <1>1, <1>4, <1>5

-----------------------------------------------------------------------------
LEMMA NoRunTyped == NoRun \in Run
  BY TimesAssumption DEF NoRun, NoFile, NoEntry, Run

LEMMA LeavingTyped ==
  ASSUME Types, NEW w \in Workers
  PROVE  Leaving(w) \in Run /\ Leaving(w).pc = "leaving" /\ Leaving(w).at = run[w].at
         /\ Proper(Leaving(w))
<1>1. run[w].at \in Nat
  BY RunTyped
<1>2. Leaving(w) \in Run
  BY <1>1, NoRunTyped DEF Leaving, NoRun, Run
<1> QED BY <1>2 DEF Leaving, NoRun, NoFile, Proper

\* A step that gives w a well-typed run of events there are, and the others theirs.
LEMMA RunChanges ==
  ASSUME Types, NEW w \in Workers, NEW r \in Run, run' = [run EXCEPT ![w] = r],
         Proper(r), raw' = raw
  PROVE  /\ run' \in [Workers -> Run] /\ run'[w] = r
         /\ \A v \in Workers : v # w => run'[v] = run[v]
         /\ \A v \in Workers : Proper(run[v])'
<1>1. run' \in [Workers -> Run] /\ run'[w] = r /\ \A v \in Workers : v # w => run'[v] = run[v]
  BY DEF Types, TypeOK
<1> QED BY <1>1 DEF Types, Proper, Events

LEMMA TypesInit == Init => Types
<1> SUFFICES ASSUME Init PROVE Types
  OBVIOUS
<1>1. run \in [Workers -> Run] /\ \A w \in Workers : run[w] = NoRun
  BY NoRunTyped DEF Init
<1>2. entries \in [Tasks -> [1..MaxEvents -> 0..2]]
  BY DEF Init, NoEntry
<1>3. mark \in [ts : Nat, keys : SUBSET Keys, at : Nat \cup {None}]
  BY DEF Init, NoMark
<1>4. lock \in [by : Workers \cup {None}, at : Nat]
  BY DEF Init, NoRow
<1>5. raw \in Seq(Nat) /\ Len(raw) <= MaxEvents
  BY TimesAssumption DEF Init
<1>6. now \in Nat /\ rawAt \in Nat /\ crashes \in 0..MaxCrashes
  BY TimesAssumption DEF Init
<1>7. \A w \in Workers : Proper(run[w])
  BY <1>1 DEF Proper, NoRun, NoFile
<1> QED BY <1>1, <1>2, <1>3, <1>4, <1>5, <1>6, <1>7 DEF Init, Types, TypeOK

LEMMA AppendTypes ==
  ASSUME Types, NEW t \in Nat, AppendEvent(t)
  PROVE  /\ Types'
         /\ Len(raw) + 1 \in 1..MaxEvents
         /\ Events' = Events \cup {Len(raw) + 1} /\ Len(raw) + 1 \notin Events
         /\ raw'[Len(raw) + 1] = t /\ \A i \in Events : raw'[i] = raw[i]
<1> DEFINE n == Len(raw) + 1
<1>1. raw \in Seq(Nat) /\ Len(raw) \in Nat /\ raw' = Append(raw, t) /\ Len(raw) < MaxEvents
  BY DEF AppendEvent, Types, TypeOK
<1>2. n \in 1..MaxEvents
  BY <1>1, TimesAssumption
<1>3. raw' \in Seq(Nat) /\ Len(raw') = n
  BY <1>1
<1>4. Events = 1..Len(raw) /\ Events' = 1..n
  BY <1>1, <1>3 DEF Events
<1>5. Events' = Events \cup {n} /\ n \notin Events
  BY <1>1, <1>4
<1>6. raw'[n] = t /\ \A i \in Events : raw'[i] = raw[i]
  BY <1>1, <1>4
<1>7. Types'
  BY <1>2, <1>3, <1>5 DEF AppendEvent, Types, TypeOK, Proper
<1> QED BY <1>2, <1>5, <1>6, <1>7

LEMMA BeginTypes ==
  ASSUME Types, NEW w \in Workers, Begin(w)
  PROVE  Types'
<1>1. CASE Batch = {}
  BY <1>1 DEF Begin, Types, TypeOK, NoRow, Proper, Events
<1>2. CASE Batch # {}
  <2> DEFINE L == LastOf(Batch)
             r == [pc |-> "writing", todo |-> Batch, batch |-> Batch, last |-> L,
                   keys |-> KeysOf({i \in Batch : raw[i] = L}), at |-> now, file |-> NoFile]
  <2>1. Batch \subseteq Events /\ L \in Nat
    BY <1>2, BatchIsPrefix
  <2>2. KeysOf({i \in Batch : raw[i] = L}) \subseteq Keys
    BY <2>1, KeysTyped
  <2>3. NoFile \in [task : Tasks \cup {None}, bucket : SUBSET (1..MaxEvents),
                    text : [1..MaxEvents -> 0..2]] /\ NoFile.bucket = {}
    BY DEF NoFile, NoEntry
  <2>4. r \in Run /\ now \in Nat
    BY <2>1, <2>2, <2>3, EventsBounded DEF Types, TypeOK, Run
  <2>5. run' = [run EXCEPT ![w] = r] /\ lock' = [by |-> w, at |-> now]
    BY <1>2 DEF Begin
  <2>6. /\ run' \in [Workers -> Run]
        /\ \A v \in Workers : Proper(run[v])'
    <3> HIDE DEF L
    <3>1. Proper(r)
      BY <2>1, <2>3 DEF Proper
    <3>2. raw' = raw
      BY DEF Begin
    <3> HIDE DEF r
    <3> QED BY <2>4, <2>5, <3>1, <3>2, RunChanges
  <2> QED BY <2>4, <2>5, <2>6 DEF Begin, Types, TypeOK
<1> QED BY <1>1, <1>2

\* What has been read of a task, and the bucket to go in front of it.
LEMMA ReadTypes ==
  ASSUME Types, NEW w \in Workers, NEW S, NEW k \in Tasks, ReadTask(w, S, k)
  PROVE  /\ Types'
         /\ \A v \in Workers : v # w => run'[v] = run[v]
         /\ run'[w].pc = "saving" /\ run'[w].todo = run[w].todo \ S
         /\ run'[w].file = [task |-> k, bucket |-> S, text |-> entries[k]]
         /\ run'[w].batch = run[w].batch /\ run'[w].last = run[w].last
         /\ run'[w].keys = run[w].keys /\ run'[w].at = run[w].at
<1> DEFINE f == [task |-> k, bucket |-> S, text |-> entries[k]]
           r == [run[w] EXCEPT !.pc = "saving", !.todo = @ \ S, !.file = f]
<1>1. S \subseteq Events /\ S \subseteq 1..MaxEvents /\ entries[k] \in [1..MaxEvents -> 0..2]
  BY RunTyped, EventsBounded DEF ReadTask, Types, TypeOK
<1>2. r \in Run
  <2>1. f \in [task : Tasks \cup {None}, bucket : SUBSET (1..MaxEvents),
               text : [1..MaxEvents -> 0..2]]
    BY <1>1
  <2> HIDE DEF f
  <2> QED BY <2>1, RunTyped DEF Run
<1>3. /\ r.pc = "saving" /\ r.todo = run[w].todo \ S /\ r.file = f
      /\ r.batch = run[w].batch /\ r.last = run[w].last
      /\ r.keys = run[w].keys /\ r.at = run[w].at
  BY RunTyped DEF Run
<1>4. run' = [run EXCEPT ![w] = r] /\ raw' = raw
  BY DEF ReadTask
<1>5. Proper(r)
  BY <1>1, <1>3, RunTyped DEF Proper
<1> HIDE DEF r
<1>6. /\ run' \in [Workers -> Run] /\ run'[w] = r
      /\ \A v \in Workers : v # w => run'[v] = run[v]
      /\ \A v \in Workers : Proper(run[v])'
  BY <1>2, <1>4, <1>5, RunChanges
<1> QED BY <1>3, <1>6 DEF ReadTask, Types, TypeOK

\* What is saved has all of the bucket and all that had been read.
LEMMA TextTyped ==
  ASSUME Types, NEW w \in Workers
  PROVE  /\ NewText(run[w].file) \in [1..MaxEvents -> 0..2]
         /\ \A i \in run[w].file.bucket : NewText(run[w].file)[i] > 0
         /\ \A i \in 1..MaxEvents : NewText(run[w].file)[i] >= run[w].file.text[i]
         /\ \A i \in (1..MaxEvents) \ run[w].file.bucket :
              NewText(run[w].file)[i] = run[w].file.text[i]
<1> DEFINE f == run[w].file
<1>1. f.text \in [1..MaxEvents -> 0..2] /\ f.bucket \subseteq 1..MaxEvents
  BY RunTyped, EventsBounded
<1> HIDE DEF f
<1>2. ASSUME NEW i \in 1..MaxEvents
      PROVE  /\ NewText(f)[i] \in 0..2
             /\ i \in f.bucket => NewText(f)[i] > 0
             /\ NewText(f)[i] >= f.text[i]
             /\ i \notin f.bucket => NewText(f)[i] = f.text[i]
  <2>1. f.text[i] \in 0..2
    BY <1>1
  <2>2. NewText(f)[i] = IF i \in f.bucket /\ f.text[i] < 2 THEN f.text[i] + 1 ELSE f.text[i]
    BY DEF NewText
  <2> QED BY <2>1, <2>2
<1>3. NewText(f) = [i \in 1..MaxEvents |-> NewText(f)[i]]
  BY DEF NewText
<1>4. NewText(f) \in [1..MaxEvents -> 0..2]
  BY <1>2, <1>3
<1> QED BY <1>1, <1>2, <1>4 DEF f

LEMMA WriteTypes ==
  ASSUME Types, NEW w \in Workers, WriteEntry(w)
  PROVE  /\ Types'
         /\ \A v \in Workers : v # w => run'[v] = run[v]
         /\ run'[w].pc = "writing" /\ run'[w].file = NoFile /\ run'[w].todo = run[w].todo
         /\ run'[w].batch = run[w].batch /\ run'[w].last = run[w].last
         /\ run'[w].keys = run[w].keys /\ run'[w].at = run[w].at
<1> DEFINE r == [run[w] EXCEPT !.pc = "writing", !.file = NoFile]
<1>1. /\ r \in Run /\ r.pc = "writing" /\ r.file = NoFile /\ r.todo = run[w].todo
      /\ r.batch = run[w].batch /\ r.last = run[w].last
      /\ r.keys = run[w].keys /\ r.at = run[w].at
  <2>1. NoFile \in [task : Tasks \cup {None}, bucket : SUBSET (1..MaxEvents),
                    text : [1..MaxEvents -> 0..2]]
    BY DEF NoFile, NoEntry
  <2> QED BY <2>1, RunTyped DEF Run
<1>2. run' = [run EXCEPT ![w] = r] /\ raw' = raw
  BY DEF WriteEntry
<1>3. Proper(r)
  BY <1>1, RunTyped DEF NoFile, Proper
<1> HIDE DEF r
<1>4. /\ run' \in [Workers -> Run] /\ run'[w] = r
      /\ \A v \in Workers : v # w => run'[v] = run[v]
      /\ \A v \in Workers : Proper(run[v])'
  BY <1>1, <1>2, <1>3, RunChanges
<1>5. entries' \in [Tasks -> [1..MaxEvents -> 0..2]]
  BY TextTyped DEF WriteEntry, Types, TypeOK
<1>6. dropped' \subseteq 1..MaxEvents
  BY DEF WriteEntry, Types, TypeOK
<1> QED BY <1>1, <1>4, <1>5, <1>6 DEF WriteEntry, Types, TypeOK

LEMMA AdvanceTypes ==
  ASSUME Types, NEW w \in Workers, Advance(w)
  PROVE  /\ Types' /\ run'[w] = Leaving(w)
         /\ \A v \in Workers : v # w => run'[v] = run[v]
<1>1. /\ run' \in [Workers -> Run] /\ run'[w] = Leaving(w)
      /\ \A v \in Workers : v # w => run'[v] = run[v]
      /\ \A v \in Workers : Proper(run[v])'
  BY LeavingTyped, RunChanges DEF Advance
<1>2. mark' \in [ts : Nat, keys : SUBSET Keys, at : Nat \cup {None}]
  BY RunTyped DEF Advance, Types, TypeOK
<1> QED BY <1>1, <1>2 DEF Advance, Types, TypeOK

\* A run ends without having moved the mark, or after it.
LEMMA EndTypes ==
  ASSUME Types, NEW w \in Workers, Fail(w) \/ Release(w) \/ Crash(w)
  PROVE  /\ Types'
         /\ \A v \in Workers : v # w => run'[v] = run[v]
         /\ run'[w] = IF Fail(w) THEN Leaving(w) ELSE NoRun
         /\ torn \subseteq torn' /\ (AtWork(w) => run[w].batch \subseteq torn')
<1>1. run[w].batch \subseteq 1..MaxEvents
  BY RunTyped, EventsBounded
<1>2. CASE Fail(w)
  <2>1. /\ run' \in [Workers -> Run] /\ run'[w] = Leaving(w)
        /\ \A v \in Workers : v # w => run'[v] = run[v]
        /\ \A v \in Workers : Proper(run[v])'
    BY <1>2, LeavingTyped, RunChanges DEF Fail
  <2>2. crashes' \in 0..MaxCrashes
    BY <1>2, TimesAssumption DEF Fail, Types, TypeOK
  <2> QED BY <1>1, <1>2, <2>1, <2>2 DEF Fail, Types, TypeOK
<1>3. CASE Release(w) \/ Crash(w)
  <2>1. NoRun \in Run /\ Proper(NoRun)
    BY NoRunTyped DEF NoRun, NoFile, Proper
  <2>2. run' = [run EXCEPT ![w] = NoRun] /\ raw' = raw
    BY <1>3 DEF Release, Crash
  <2>3. /\ run' \in [Workers -> Run] /\ run'[w] = NoRun
        /\ \A v \in Workers : v # w => run'[v] = run[v]
        /\ \A v \in Workers : Proper(run[v])'
    BY <2>1, <2>2, RunChanges
  <2>4. ~Fail(w)
    <3>1. SUFFICES ASSUME Fail(w) PROVE FALSE
      OBVIOUS
    <3>2. Leaving(w) = NoRun
      BY <2>3, <3>1 DEF Fail, Types, TypeOK
    <3> QED BY <3>2, LeavingTyped DEF NoRun
  <2>5. CASE Release(w)
    <3>1. lock' \in [by : Workers \cup {None}, at : Nat]
      BY <2>5 DEF Release, RowAfter, NoRow, Types, TypeOK
    <3>2. ~AtWork(w)
      BY <2>5 DEF Release, AtWork
    <3> QED BY <2>3, <2>4, <2>5, <3>1, <3>2 DEF Release, Types, TypeOK
  <2>6. CASE Crash(w)
    <3>1. crashes' \in 0..MaxCrashes
      BY <2>6, TimesAssumption DEF Crash, Types, TypeOK
    <3> QED BY <1>1, <2>3, <2>4, <2>6, <3>1 DEF Crash, Types, TypeOK
  <2> QED BY <1>3, <2>5, <2>6
<1> QED BY <1>2, <1>3

LEMMA TypesNext == Types /\ [Next]_vars => Types'
<1> SUFFICES ASSUME Types, [Next]_vars PROVE Types'
  OBVIOUS
<1>1. ASSUME NEW t \in 0..MaxTime, AppendEvent(t) PROVE Types'
  BY <1>1, AppendTypes
<1>2. ASSUME NEW w \in Workers, Begin(w) \/ GoOn(w) \/ Fail(w) \/ Crash(w) PROVE Types'
  BY <1>2, BeginTypes, ReadTypes, WriteTypes, AdvanceTypes, EndTypes DEF GoOn
<1>3. CASE Tick \/ UNCHANGED vars
  <2>1. now' \in Nat /\ UNCHANGED <<raw, rawAt, mark, entries, lock, run, crashes, dropped, torn, overtaken>>
    BY <1>3 DEF Tick, vars, Types, TypeOK
  <2> QED BY <2>1 DEF Types, TypeOK, Proper, Events
<1> QED BY <1>1, <1>2, <1>3 DEF Next

\* Every variable of distillation stays well typed, and a run is about events
\* there are; in particular the last event of its batch exists.
THEOREM WellTyped == Spec => []TypeOK
<1>1. Types => TypeOK
  BY DEF Types
<1> QED BY <1>1, TypesInit, TypesNext, PTL DEF Spec

-----------------------------------------------------------------------------
LEMMA CoveredInit == Init => Covered
  BY DEF Init, Covered, Settled, AllSettled, Passed, NoMark, NoRun, AtWork, Events

\* What has been entered stays entered, unless the files lose it unnoticed.
LEMMA EnteredStays ==
  ASSUME Types, Types', NEW i \in Events, Entered(i),
         \A j \in Events : j \in Events' /\ raw'[j] = raw[j],
         \A j \in Events : InEntry(j) \/ j \in dropped => InEntry(j)' \/ j \in dropped'
  PROVE  Entered(i)'
<1>1. PICK j \in Twins(i) : InEntry(j) \/ j \in dropped
  BY DEF Entered
<1>2. j \in Events /\ Key(j) = Key(i)
  BY <1>1 DEF Twins
<1>3. Key(j)' = Key(i)'
  BY <1>2 DEF Key
<1>4. j \in Twins(i)'
  BY <1>2, <1>3 DEF Twins
<1>5. InEntry(j)' \/ j \in dropped'
  BY <1>1, <1>2
<1> QED BY <1>4, <1>5 DEF Entered

\* Steps that leave the files of events and of entries, and the clock, alone.
LEMMA SameFiles ==
  ASSUME UNCHANGED <<now, raw, entries, dropped>>
  PROVE  /\ Events' = Events /\ \A i \in Events : Key(i)' = Key(i)
         /\ \A i \in Events : (Entered(i)' <=> Entered(i)) /\ Twins(i)' = Twins(i)
         /\ \A x : Settled(x)' <=> Settled(x)
         /\ \A K : AllSettled(K)' <=> AllSettled(K)
<1>1. Events' = Events /\ \A i \in Events : Key(i)' = Key(i)
  BY DEF Events, Key
<1>2. \A i \in Events : Twins(i)' = Twins(i)
  BY <1>1 DEF Twins
<1>3. \A i \in Events : Entered(i)' <=> Entered(i)
  BY <1>2 DEF Entered, InEntry
<1> QED BY <1>1, <1>2, <1>3 DEF Settled, AllSettled

\* An event on its way is too young to be behind any mark.
LEMMA AppendCovers ==
  ASSUME Types, Covered, NEW t \in Nat, AppendEvent(t)
  PROVE  Covered'
<1>1. PICK n \in Nat :
        /\ Types' /\ Events' = Events \cup {n} /\ n \notin Events
        /\ raw'[n] = t /\ \A i \in Events : raw'[i] = raw[i]
  BY AppendTypes
<1>2. UNCHANGED <<now, mark, entries, run, dropped>>
  BY DEF AppendEvent
<1>3. now \in Nat /\ mark.ts \in Nat /\ t >= now - InFlight
  BY TimesAssumption DEF AppendEvent, Types, TypeOK
<1>4. \A x \in Nat : Settled(x) => ~(t < x)
  BY <1>3, TimesAssumption DEF Settled
<1>5. \A K : AllSettled(K) => Key(n)' \notin K
  <2>1. Key(n)'[1] = t
    BY <1>1 DEF Key
  <2> QED BY <1>3, <2>1, TimesAssumption DEF AllSettled
<1>6. \A i \in Events : Key(i)' = Key(i) /\ Twins(i) \subseteq Twins(i)'
  BY <1>1 DEF Key, Twins
<1>7. \A i \in Events : Entered(i) => Entered(i)'
  BY <1>1, <1>2, EnteredStays DEF InEntry
<1>8. Passed'
  <2>1. ~(t < mark.ts) /\ Key(n)' \notin mark.keys
    BY <1>3, <1>4, <1>5 DEF Covered
  <2> QED BY <1>1, <1>2, <1>6, <1>7, <2>1 DEF Covered, Passed
<1>9. ASSUME NEW w \in Workers, AtWork(w)
      PROVE  Settled(run[w].last)' /\ AllSettled(run[w].keys)' /\ RunCovers(w)'
  <2>1. Settled(run[w].last) /\ AllSettled(run[w].keys) /\ RunCovers(w)
    BY <1>9 DEF Covered
  <2>2. ~(t < run[w].last) /\ Key(n)' \notin run[w].keys
    BY <1>4, <1>5, <2>1, RunTyped
  <2>3. RunCovers(w)'
    <3> SUFFICES ASSUME NEW i \in Events', raw'[i] < run[w].last \/ Key(i)' \in run[w].keys
                 PROVE  Entered(i)' \/ \E j \in Twins(i)' : j \in Pending(w)
      BY <1>2 DEF RunCovers, Pending
    <3>0. i # n
      BY <1>1, <2>2
    <3>1. i \in Events /\ (raw[i] < run[w].last \/ Key(i) \in run[w].keys)
      BY <1>1, <1>6, <3>0
    <3>2. Entered(i) \/ \E j \in Twins(i) : j \in Pending(w)
      BY <2>1, <3>1 DEF RunCovers
    <3> QED BY <1>6, <1>7, <3>1, <3>2
  <2> QED BY <1>2, <2>1, <2>3 DEF Settled, AllSettled
<1> QED BY <1>2, <1>8, <1>9 DEF Covered, Settled, AllSettled, AtWork

LEMMA BeginCovers ==
  ASSUME Types, Covered, NEW w \in Workers, Begin(w)
  PROVE  Covered'
<1>1. UNCHANGED <<now, raw, mark, entries, dropped>>
  BY DEF Begin
<1>2. CASE Batch = {}
  <2>1. run' = run
    BY <1>2 DEF Begin
  <2> QED BY <1>1, <2>1, SameFiles DEF Covered, RunCovers, Passed, Pending, AtWork
<1>3. CASE Batch # {}
  <2> DEFINE L == LastOf(Batch)
             K == KeysOf({i \in Batch : raw[i] = L})
  <2>1. /\ run'[w] = [pc |-> "writing", todo |-> Batch, batch |-> Batch, last |-> L,
                      keys |-> K, at |-> now, file |-> NoFile]
        /\ \A v \in Workers : v # w => run'[v] = run[v]
    BY <1>3 DEF Begin, Types, TypeOK
  <2>2. /\ Batch \subseteq Due /\ Batch \subseteq Events /\ L \in Nat /\ Settled(L)
        /\ \A i \in Due : raw[i] < L => i \in Batch
    BY <1>3, BatchIsPrefix
  <2>3. AllSettled(K)
    BY <2>2 DEF AllSettled, KeysOf, Key, Due
  <2>4. ASSUME NEW i \in Events, raw[i] < L \/ Key(i) \in K
        PROVE  Entered(i) \/ \E j \in Twins(i) : j \in Batch
    <3>1. CASE Key(i) \in K
      BY <2>2, <3>1 DEF KeysOf, Twins
    <3>2. CASE raw[i] < mark.ts \/ Key(i) \in mark.keys
      BY <3>2 DEF Covered, Passed
    <3>3. CASE raw[i] < L /\ ~(raw[i] < mark.ts) /\ Key(i) \notin mark.keys
      <4>1. raw[i] \in Nat /\ mark.ts \in Nat /\ now \in Nat
        BY EventsBounded DEF Types, TypeOK
      <4>2. raw[i] >= mark.ts
        BY <3>3, <4>1
      <4>3. raw[i] < now - InFlight
        BY <2>2, <3>3, <4>1, TimesAssumption DEF Settled
      <4>4. i \in Batch
        BY <2>2, <3>3, <4>2, <4>3 DEF Due
      <4> QED BY <4>4 DEF Twins
    <3> QED BY <2>4, <3>1, <3>2, <3>3
  <2>5. ASSUME NEW v \in Workers, AtWork(v)'
        PROVE  Settled(run[v].last)' /\ AllSettled(run[v].keys)' /\ RunCovers(v)'
    <3>1. CASE v = w
      <4>1. run'[v].last = L /\ run'[v].keys = K /\ Pending(v)' = Batch
        BY <2>1, <3>1 DEF Pending, NoFile
      <4> HIDE DEF L, K
      <4>2. Settled(run[v].last)' /\ AllSettled(run[v].keys)'
        BY <1>1, <2>2, <2>3, <4>1 DEF Settled, AllSettled
      <4>3. RunCovers(v)'
        BY <1>1, <2>4, <4>1, SameFiles DEF RunCovers
      <4> QED BY <4>2, <4>3
    <3>2. CASE v # w
      <4>1. run'[v] = run[v] /\ AtWork(v)
        BY <2>1, <2>5, <3>2 DEF AtWork
      <4> QED BY <1>1, <4>1, SameFiles DEF Covered, RunCovers, Pending, Settled, AllSettled
    <3> QED BY <3>1, <3>2
  <2> QED BY <1>1, <2>5, SameFiles DEF Covered, Passed, Settled, AllSettled
<1> QED BY <1>2, <1>3

LEMMA ReadCovers ==
  ASSUME Types, Covered, NEW w \in Workers, NEW S, NEW k \in Tasks, ReadTask(w, S, k)
  PROVE  Covered'
<1>1. UNCHANGED <<now, raw, mark, entries, dropped>> /\ run[w].pc = "writing"
  BY DEF ReadTask
<1>2. /\ \A v \in Workers : v # w => run'[v] = run[v]
      /\ run'[w].pc = "saving" /\ run'[w].last = run[w].last /\ run'[w].keys = run[w].keys
      /\ run'[w].todo = run[w].todo \ S
  BY ReadTypes
<1>0. run'[w].file.bucket = S /\ S \subseteq run[w].todo
  <2>1. run'[w].file = [task |-> k, bucket |-> S, text |-> entries[k]]
    BY ReadTypes
  <2> QED BY <2>1 DEF ReadTask
<1>3. Pending(w) \subseteq Pending(w)'
  BY <1>0, <1>1, <1>2 DEF Types, Proper, Pending
<1>4. ASSUME NEW v \in Workers, AtWork(v)'
      PROVE  Settled(run[v].last)' /\ AllSettled(run[v].keys)' /\ RunCovers(v)'
  <2>1. /\ AtWork(v) /\ run'[v].last = run[v].last /\ run'[v].keys = run[v].keys
        /\ Pending(v) \subseteq Pending(v)'
    BY <1>1, <1>2, <1>3, <1>4 DEF AtWork, Pending
  <2>2. Settled(run[v].last) /\ AllSettled(run[v].keys) /\ RunCovers(v)
    BY <2>1 DEF Covered
  <2>3. RunCovers(v)'
    BY <1>1, <2>1, <2>2, SameFiles DEF RunCovers
  <2> QED BY <1>1, <2>1, <2>2, <2>3 DEF Settled, AllSettled
<1> QED BY <1>1, <1>4, SameFiles DEF Covered, Passed, Settled, AllSettled

LEMMA WriteCovers ==
  ASSUME Types, Covered, NEW w \in Workers, WriteEntry(w)
  PROVE  Covered'
<1> DEFINE k == run[w].file.task
           text == NewText(run[w].file)
<1>1. /\ UNCHANGED <<now, raw, mark>> /\ run[w].pc = "saving"
      /\ entries' = [entries EXCEPT ![k] = text]
      /\ dropped' = dropped \cup {i \in 1..MaxEvents : entries[k][i] > 0 /\ text[i] = 0}
  BY DEF WriteEntry
<1>2. /\ Types'
      /\ \A v \in Workers : v # w => run'[v] = run[v]
      /\ run'[w].pc = "writing" /\ run'[w].last = run[w].last /\ run'[w].keys = run[w].keys
      /\ run'[w].file = NoFile /\ Pending(w)' = run[w].todo
  BY WriteTypes DEF Pending, NoFile
<1>3. Events' = Events /\ \A i \in Events : Key(i)' = Key(i) /\ Twins(i)' = Twins(i)
  BY <1>1 DEF Events, Key, Twins
<1>4. ASSUME NEW j \in Events, InEntry(j) \/ j \in dropped
      PROVE  InEntry(j)' \/ j \in dropped'
  <2>1. CASE j \in dropped
    BY <1>1, <2>1
  <2>2. CASE InEntry(j)
    <3>1. PICK x \in Tasks : entries[x][j] > 0
      BY <2>2 DEF InEntry
    <3>2. CASE x # k
      BY <1>1, <3>1, <3>2 DEF InEntry, Types, TypeOK
    <3>3. CASE x = k
      <4>1. j \in 1..MaxEvents /\ text[j] \in 0..2 /\ entries'[k] = text
        BY <1>1, <3>1, <3>3, EventsBounded, TextTyped DEF Types, TypeOK
      <4>2. CASE text[j] = 0
        BY <1>1, <3>1, <3>3, <4>1, <4>2
      <4>3. CASE text[j] # 0
        BY <3>1, <3>3, <4>1, <4>3 DEF InEntry
      <4> QED BY <4>2, <4>3
    <3> QED BY <3>2, <3>3
  <2> QED BY <1>4, <2>1, <2>2
<1>5. \A i \in Events : Entered(i) => Entered(i)'
  BY <1>1, <1>2, <1>3, <1>4, EnteredStays
<1>6. ASSUME NEW j \in run[w].file.bucket
      PROVE  InEntry(j)'
  <2>1. k \in Tasks /\ text[j] > 0
    BY <1>1, <1>6, TextTyped DEF Types, Proper
  <2>2. entries'[k] = text
    BY <1>1, <2>1 DEF Types, TypeOK
  <2> QED BY <2>1, <2>2 DEF InEntry
<1>7. ASSUME NEW v \in Workers, AtWork(v)'
      PROVE  Settled(run[v].last)' /\ AllSettled(run[v].keys)' /\ RunCovers(v)'
  <2>1. /\ AtWork(v) /\ run'[v].last = run[v].last /\ run'[v].keys = run[v].keys
        /\ Pending(v) \subseteq Pending(v)' \cup run[w].file.bucket
    BY <1>1, <1>2, <1>7 DEF AtWork, Pending
  <2>2. Settled(run[v].last) /\ AllSettled(run[v].keys) /\ RunCovers(v)
    BY <2>1 DEF Covered
  <2>3. RunCovers(v)'
    <3> SUFFICES ASSUME NEW i \in Events, raw[i] < run[v].last \/ Key(i) \in run[v].keys
                 PROVE  Entered(i)' \/ \E j \in Twins(i) : j \in Pending(v)'
      BY <1>1, <1>3, <2>1 DEF RunCovers
    <3>1. CASE Entered(i)
      BY <1>5, <3>1
    <3>2. CASE \E j \in Twins(i) : j \in Pending(v)
      <4>1. PICK j \in Twins(i) : j \in Pending(v)
        BY <3>2
      <4>2. CASE j \in run[w].file.bucket
        BY <1>3, <1>6, <4>1, <4>2 DEF Entered
      <4>3. CASE j \notin run[w].file.bucket
        BY <2>1, <4>1, <4>3
      <4> QED BY <4>2, <4>3
    <3> QED BY <2>2, <3>1, <3>2 DEF RunCovers
  <2> QED BY <1>1, <2>1, <2>2, <2>3 DEF Settled, AllSettled
<1>8. Passed'
  BY <1>1, <1>3, <1>5 DEF Covered, Passed
<1> QED BY <1>1, <1>7, <1>8 DEF Covered, Settled, AllSettled

LEMMA AdvanceCovers ==
  ASSUME Types, Covered, NEW w \in Workers, Advance(w)
  PROVE  Covered'
<1>1. /\ UNCHANGED <<now, raw, entries, dropped>> /\ AtWork(w)
      /\ mark'.ts = run[w].last /\ mark'.keys = run[w].keys
  BY DEF Advance, AtWork
<1>2. /\ \A v \in Workers : v # w => run'[v] = run[v]
      /\ run'[w].pc = "leaving"
  BY AdvanceTypes, LeavingTyped
<1>3. Settled(run[w].last) /\ AllSettled(run[w].keys) /\ RunCovers(w) /\ Pending(w) = {}
  BY <1>1 DEF Advance, Covered, Types, Proper, Pending
<1>4. Passed'
  BY <1>1, <1>3, SameFiles DEF Passed, RunCovers
<1>5. ASSUME NEW v \in Workers, AtWork(v)'
      PROVE  Settled(run[v].last)' /\ AllSettled(run[v].keys)' /\ RunCovers(v)'
  <2>1. run'[v] = run[v] /\ AtWork(v)
    BY <1>2, <1>5 DEF AtWork
  <2> QED BY <1>1, <2>1, SameFiles DEF Covered, RunCovers, Pending, Settled, AllSettled
<1> QED BY <1>1, <1>3, <1>4, <1>5 DEF Covered, Settled, AllSettled

LEMMA OthersCover ==
  ASSUME Types, Covered,
         (\E w \in Workers : Fail(w) \/ Release(w) \/ Crash(w)) \/ Tick \/ UNCHANGED vars
  PROVE  Covered'
<1>1. ASSUME NEW w \in Workers, Fail(w) \/ Release(w) \/ Crash(w)
      PROVE  Covered'
  <2>1. UNCHANGED <<now, raw, mark, entries, dropped>>
    BY <1>1 DEF Fail, Release, Crash
  <2>2. /\ \A v \in Workers : v # w => run'[v] = run[v]
        /\ ~AtWork(w)'
    <3>1. run'[w] = Leaving(w) \/ run'[w] = NoRun
      BY <1>1, EndTypes
    <3>2. run'[w].pc = "leaving" \/ run'[w].pc = "no"
      BY <3>1, LeavingTyped DEF NoRun
    <3> QED BY <1>1, <3>2, EndTypes DEF AtWork
  <2>3. ASSUME NEW v \in Workers, AtWork(v)'
        PROVE  Settled(run[v].last)' /\ AllSettled(run[v].keys)' /\ RunCovers(v)'
    <3>1. run'[v] = run[v] /\ AtWork(v)
      BY <2>2, <2>3 DEF AtWork
    <3> QED BY <2>1, <3>1, SameFiles DEF Covered, RunCovers, Pending, Settled, AllSettled
  <2> QED BY <2>1, <2>3, SameFiles DEF Covered, Passed, Settled, AllSettled
<1>2. CASE Tick
  <2>1. now \in Nat /\ now' = now + 1 /\ UNCHANGED <<raw, mark, entries, run, dropped>>
    BY <1>2 DEF Tick, Types, TypeOK
  <2>2. \A x \in Nat : Settled(x) => Settled(x)'
    BY <2>1, TimesAssumption DEF Settled
  <2>3. \A K \in SUBSET Keys : AllSettled(K) => AllSettled(K)'
    <3>1. \A x \in Keys : x[1] \in Nat
      BY DEF Keys
    <3> QED BY <2>1, <3>1, TimesAssumption DEF AllSettled
  <2>4. /\ Events' = Events /\ \A i \in Events : Key(i)' = Key(i)
        /\ \A i \in Events : (Entered(i)' <=> Entered(i)) /\ Twins(i)' = Twins(i)
    BY <2>1 DEF Events, Key, Twins, Entered, InEntry
  <2>5. Settled(mark.ts)' /\ AllSettled(mark.keys)'
    <3>1. mark.ts \in Nat /\ mark.keys \in SUBSET Keys
      BY DEF Types, TypeOK
    <3>2. Settled(mark.ts) /\ AllSettled(mark.keys)
      BY DEF Covered
    <3> QED BY <2>1, <2>2, <2>3, <3>1, <3>2 DEF Settled, AllSettled
  <2>6. ASSUME NEW v \in Workers, AtWork(v)
        PROVE  Settled(run[v].last)' /\ AllSettled(run[v].keys)' /\ RunCovers(v)'
    <3>1. Settled(run[v].last) /\ AllSettled(run[v].keys) /\ RunCovers(v)
      BY <2>6 DEF Covered
    <3>2. run[v].last \in Nat /\ run[v].keys \in SUBSET Keys
      BY RunTyped
    <3>3. RunCovers(v)'
      BY <2>1, <2>4, <3>1 DEF RunCovers, Pending
    <3> QED BY <2>1, <2>2, <2>3, <3>1, <3>2, <3>3 DEF Settled, AllSettled
  <2> QED BY <2>1, <2>4, <2>5, <2>6 DEF Covered, Passed, AtWork
<1>3. CASE UNCHANGED vars
  <2>1. UNCHANGED <<now, raw, mark, entries, run, dropped>>
    BY <1>3 DEF vars
  <2> QED BY <2>1, SameFiles
          DEF Covered, RunCovers, Passed, Pending, AtWork, Settled, AllSettled
<1> QED BY <1>1, <1>2, <1>3

LEMMA CoveredNext == Types /\ Covered /\ [Next]_vars => Covered'
<1> SUFFICES ASSUME Types, Covered, [Next]_vars PROVE Covered'
  OBVIOUS
<1>1. ASSUME NEW t \in 0..MaxTime, AppendEvent(t) PROVE Covered'
  BY <1>1, AppendCovers
<1>2. ASSUME NEW w \in Workers, Begin(w) \/ GoOn(w) \/ Fail(w) \/ Crash(w) PROVE Covered'
  BY <1>2, BeginCovers, ReadCovers, WriteCovers, AdvanceCovers, OthersCover DEF GoOn
<1> QED BY <1>1, <1>2, OthersCover DEF Next

-----------------------------------------------------------------------------
LockInv ==
  /\ now \in Nat
  /\ DOMAIN run = Workers
  /\ lock = NoRow \/ (lock.by \in Workers /\ lock.at \in Nat)
  /\ \A w \in Workers : run[w].at \in Nat /\ run[w].at <= now
  /\ HolderHasLock

\* As long as a run is younger than the window, the row is its own.
THEOREM YoungLock == Spec => []HolderHasLock
<1>1. Init => LockInv
  BY TimesAssumption DEF Init, LockInv, HolderHasLock, Running, NoRun
<1>2. LockInv /\ [Next]_vars => LockInv'
  <2> SUFFICES ASSUME LockInv, [Next]_vars PROVE LockInv'
    OBVIOUS
  <2> USE TimesAssumption, WorkersAssumption DEF LockInv, HolderHasLock, Running, NoRow, NoRun
  <2>1. ASSUME NEW t \in 0..MaxTime, AppendEvent(t) PROVE LockInv'
    BY <2>1 DEF AppendEvent
  <2>2. ASSUME NEW w \in Workers, Begin(w) PROVE LockInv'
    <3>1. \A v \in Workers : Running(v) => ~(now - run[v].at < Window)
      <4> SUFFICES ASSUME NEW v \in Workers, Running(v), now - run[v].at < Window PROVE FALSE
        OBVIOUS
      <4>1. lock = [by |-> v, at |-> run[v].at]
        OBVIOUS
      <4>2. now - lock.at >= Window
        BY <2>2, <4>1 DEF Begin, Free
      <4>3. run[v].at \in Nat
        OBVIOUS
      <4> QED BY <4>1, <4>2, <4>3
    <3>2. now' = now
      BY <2>2 DEF Begin
    <3>3. CASE Batch = {}
      BY <2>2, <3>1, <3>2, <3>3 DEF Begin
    <3>4. CASE Batch # {}
      <4>1. lock' = [by |-> w, at |-> now]
        BY <2>2, <3>4 DEF Begin
      <4>2. \A v \in Workers : v # w => run'[v] = run[v]
        BY <2>2, <3>4 DEF Begin
      <4>3. run'[w].at = now /\ DOMAIN run' = Workers
        BY <2>2, <3>4 DEF Begin
      <4> QED BY <3>1, <3>2, <4>1, <4>2, <4>3
    <3> QED BY <3>3, <3>4
  <2>3. ASSUME NEW w \in Workers,
               WriteEntry(w) \/ \E S \in SUBSET run[w].todo, k \in Tasks : ReadTask(w, S, k)
        PROVE  LockInv'
    <3>1. CASE WriteEntry(w)
      BY <3>1 DEF WriteEntry
    <3>2. CASE \E S \in SUBSET run[w].todo, k \in Tasks : ReadTask(w, S, k)
      BY <3>2 DEF ReadTask
    <3> QED BY <2>3, <3>1, <3>2
  <2>4. ASSUME NEW w \in Workers, Advance(w) \/ Fail(w) PROVE LockInv'
    <3>1. CASE Advance(w)
      BY <3>1 DEF Advance, Leaving
    <3>2. CASE Fail(w)
      BY <3>2 DEF Fail, Leaving, AtWork
    <3> QED BY <2>4, <3>1, <3>2
  <2>5. ASSUME NEW w \in Workers, Release(w) PROVE LockInv'
    BY <2>5 DEF Release, RowAfter
  <2>6. ASSUME NEW w \in Workers, Crash(w) PROVE LockInv'
    BY <2>6 DEF Crash
  <2>7. CASE Tick
    BY <2>7 DEF Tick
  <2>8. CASE UNCHANGED vars
    BY <2>8 DEF vars
  <2> QED BY <2>1, <2>2, <2>3, <2>4, <2>5, <2>6, <2>7, <2>8 DEF Next, GoOn
<1>3. LockInv => HolderHasLock
  BY DEF LockInv
<1> QED BY <1>1, <1>2, <1>3, PTL DEF Spec

-----------------------------------------------------------------------------
(* Repetitions.                                                             *)

\* Only events there are get into files, and into what is saved.
EntriesExist ==
  /\ \A i \in 1..MaxEvents, k \in Tasks : entries[k][i] > 0 => i \in Events
  /\ \A w \in Workers, i \in 1..MaxEvents :
       run[w].pc = "saving" /\ run[w].file.text[i] > 0 => i \in Events

\* While no run has lost its lock there is one run at most, ...
Alone == \A v, w \in Workers : Running(v) /\ Running(w) => v = w

\* ... its batch is what the mark does not cover yet and what it saves is the
\* file as it is with one more bucket, ...
Ahead(w) ==
  /\ run[w].batch # {} /\ Pending(w) \subseteq run[w].batch
  /\ run[w].todo \cap run[w].file.bucket = {}
  /\ \A i \in run[w].batch : mark.ts <= raw[i] /\ raw[i] <= run[w].last
  /\ run[w].pc = "saving" => run[w].file.text = entries[run[w].file.task]

\* ... and an event in an entry is not after the mark, or of a run that ended
\* early, or done by the run at work.
Accounted(i) ==
  \/ i \in torn \/ raw[i] <= mark.ts
  \/ \E w \in Workers : AtWork(w) /\ i \in run[w].batch \ Pending(w)

OneRun ==
  /\ Alone /\ dropped = {}
  /\ \A w \in Workers : AtWork(w) => Ahead(w)
  /\ \A i \in Events : InEntry(i) => Accounted(i)

RepeatInv == EntriesExist /\ (~overtaken => OneRun)

LEMMA RepeatInit == Init => RepeatInv
  BY TimesAssumption
     DEF Init, RepeatInv, EntriesExist, OneRun, Alone, Running, AtWork, InEntry, NoEntry, NoRun, Events

LEMMA AppendRepeats ==
  ASSUME Types, RepeatInv, NEW t \in Nat, AppendEvent(t)
  PROVE  RepeatInv'
<1>1. PICK n \in Nat :
        /\ Events' = Events \cup {n} /\ n \notin Events /\ n \in 1..MaxEvents
        /\ \A i \in Events : raw'[i] = raw[i]
  BY AppendTypes
<1>2. UNCHANGED <<mark, entries, run, torn, overtaken, dropped>>
  BY DEF AppendEvent
<1>3. EntriesExist'
  BY <1>1, <1>2 DEF RepeatInv, EntriesExist
<1>4. SUFFICES ASSUME ~overtaken PROVE OneRun'
  BY <1>2, <1>3 DEF RepeatInv
<1>5. Alone' /\ dropped' = {}
  BY <1>2, <1>4 DEF RepeatInv, OneRun, Alone, Running
<1>6. ASSUME NEW w \in Workers, AtWork(w)' PROVE Ahead(w)'
  <2>1. Ahead(w) /\ run[w].batch \subseteq Events
    BY <1>2, <1>4, <1>6, RunTyped DEF RepeatInv, OneRun, AtWork
  <2> QED BY <1>1, <1>2, <2>1 DEF Ahead, Pending
<1>7. ASSUME NEW i \in Events', InEntry(i)' PROVE Accounted(i)'
  <2>1. i \in Events /\ InEntry(i)
    BY <1>1, <1>2, <1>7 DEF RepeatInv, EntriesExist, InEntry
  <2>2. Accounted(i)
    BY <1>4, <2>1 DEF RepeatInv, OneRun
  <2> QED BY <1>1, <1>2, <2>1, <2>2 DEF Accounted, AtWork, Pending
<1> QED BY <1>5, <1>6, <1>7 DEF OneRun

LEMMA BeginRepeats ==
  ASSUME Types, RepeatInv, NEW w \in Workers, Begin(w)
  PROVE  RepeatInv'
<1>1. /\ UNCHANGED <<raw, mark, entries, torn, dropped>>
      /\ overtaken' = (overtaken \/ \E v \in Workers : Running(v))
      /\ \A v \in Workers : v # w => run'[v] = run[v]
      /\ run'[w].pc # "saving"
  BY DEF Begin, Running, Types, TypeOK
<1>2. EntriesExist'
  BY <1>1 DEF RepeatInv, EntriesExist, Events
<1>3. SUFFICES ASSUME ~overtaken, \A v \in Workers : ~Running(v) PROVE OneRun'
  BY <1>1, <1>2 DEF RepeatInv
<1>4. \A i \in Events : InEntry(i) => i \in torn \/ raw[i] <= mark.ts
  BY <1>3 DEF RepeatInv, OneRun, Accounted, Running, AtWork
<1>5. \A i \in Events : InEntry(i)' => Accounted(i)'
  BY <1>1, <1>4 DEF Accounted, InEntry
<1>6. \A v \in Workers : v # w => ~Running(v)' /\ ~AtWork(v)'
  BY <1>1, <1>3 DEF Running, AtWork
<1>7. Alone' /\ dropped' = {}
  BY <1>1, <1>3, <1>6 DEF Alone, RepeatInv, OneRun
<1>8. ASSUME AtWork(w)' PROVE Ahead(w)'
  <2>1. Batch # {}
    BY <1>3, <1>8 DEF Begin, AtWork, Running
  <2>2. /\ run'[w].batch = Batch /\ run'[w].todo = Batch /\ run'[w].last = LastOf(Batch)
        /\ run'[w].file.bucket = {}
    BY <2>1 DEF Begin, Types, TypeOK, NoFile
  <2>3. Batch \subseteq Due /\ Batch \subseteq Events
    BY <2>1, BatchIsPrefix
  <2>4. \A i \in Due : raw[i] < now /\ mark.ts <= raw[i]
    BY EventsBounded, TimesAssumption DEF Due, Types, TypeOK
  <2>5. \A i \in Batch : raw[i] <= LastOf(Batch)
    BY <2>1, <2>3, <2>4, LastExists
  <2> QED BY <1>1, <2>1, <2>2, <2>3, <2>4, <2>5 DEF Ahead, Pending
<1> QED BY <1>1, <1>5, <1>6, <1>7, <1>8 DEF OneRun, Events

LEMMA ReadRepeats ==
  ASSUME Types, RepeatInv, NEW w \in Workers, NEW S, NEW k \in Tasks, ReadTask(w, S, k)
  PROVE  RepeatInv'
<1>1. /\ UNCHANGED <<raw, mark, entries, torn, overtaken, dropped>>
      /\ run[w].pc = "writing" /\ S \subseteq run[w].todo
  BY DEF ReadTask
<1>2. /\ \A v \in Workers : v # w => run'[v] = run[v]
      /\ run'[w].pc = "saving" /\ run'[w].todo = run[w].todo \ S
      /\ run'[w].batch = run[w].batch /\ run'[w].last = run[w].last
  BY ReadTypes
<1>3. run'[w].file.bucket = S /\ run'[w].file.text = entries[k] /\ run'[w].file.task = k
  <2>1. run'[w].file = [task |-> k, bucket |-> S, text |-> entries[k]]
    BY ReadTypes
  <2> QED BY <2>1
<1>4. Pending(w)' = Pending(w) /\ run[w].file.bucket = {}
  BY <1>1, <1>2, <1>3 DEF Pending, Types, Proper
<1>5. EntriesExist'
  BY <1>1, <1>2, <1>3 DEF RepeatInv, EntriesExist, Events
<1>6. SUFFICES ASSUME ~overtaken PROVE OneRun'
  BY <1>1, <1>5 DEF RepeatInv
<1>7. Alone' /\ dropped' = {}
  BY <1>1, <1>2, <1>6 DEF RepeatInv, OneRun, Alone, Running
<1>8. ASSUME NEW v \in Workers, AtWork(v)' PROVE Ahead(v)'
  <2>1. Ahead(v)
    BY <1>1, <1>2, <1>6, <1>8 DEF RepeatInv, OneRun, AtWork
  <2>2. CASE v # w
    BY <1>1, <1>2, <2>1, <2>2 DEF Ahead, Pending
  <2>3. CASE v = w
    BY <1>1, <1>2, <1>3, <1>4, <2>1, <2>3 DEF Ahead
  <2> QED BY <2>2, <2>3
<1>9. ASSUME NEW i \in Events, InEntry(i)' PROVE Accounted(i)'
  <2>1. Accounted(i)
    BY <1>1, <1>6, <1>9 DEF RepeatInv, OneRun, InEntry
  <2>2. \A v \in Workers : AtWork(v) /\ i \in run[v].batch \ Pending(v) =>
          AtWork(v)' /\ i \in run'[v].batch \ Pending(v)'
    BY <1>2, <1>4 DEF AtWork, Pending
  <2> QED BY <1>1, <2>1, <2>2 DEF Accounted
<1> QED BY <1>1, <1>7, <1>8, <1>9 DEF OneRun, Events

\* A bucket's events were not in an entry, or only those of the mark's
\* millisecond, of a run that ended early, or of one that was overtaken.
LEMMA WriteRepeats ==
  ASSUME Types, RepeatInv, NEW w \in Workers, WriteEntry(w)
  PROVE  /\ RepeatInv'
         /\ \A i \in Events, k \in Tasks : InEntry(i) /\ entries'[k][i] > entries[k][i] =>
              raw[i] = mark.ts \/ i \in torn \/ overtaken
<1> DEFINE x == run[w].file.task
           text == NewText(run[w].file)
           S == run[w].file.bucket
<1>1. /\ UNCHANGED <<raw, mark, torn, overtaken>> /\ run[w].pc = "saving"
      /\ entries' = [entries EXCEPT ![x] = text]
      /\ dropped' = dropped \cup {i \in 1..MaxEvents : entries[x][i] > 0 /\ text[i] = 0}
  BY DEF WriteEntry
<1>2. /\ \A v \in Workers : v # w => run'[v] = run[v]
      /\ run'[w].pc = "writing" /\ run'[w].batch = run[w].batch /\ run'[w].last = run[w].last
      /\ run'[w].todo = run[w].todo /\ Pending(w)' = run[w].todo /\ run'[w].file.bucket = {}
  BY WriteTypes DEF Pending, NoFile
<1>3. /\ x \in Tasks /\ S \subseteq Events
      /\ text \in [1..MaxEvents -> 0..2] /\ entries[x] \in [1..MaxEvents -> 0..2]
      /\ entries'[x] = text /\ \A k \in Tasks : k # x => entries'[k] = entries[k]
  BY <1>1, TextTyped, RunTyped DEF Types, TypeOK, Proper
<1>4. /\ \A i \in 1..MaxEvents : text[i] >= run[w].file.text[i]
      /\ \A i \in (1..MaxEvents) \ S : text[i] = run[w].file.text[i]
  BY TextTyped
<1>5. EntriesExist'
  <2>1. \A i \in 1..MaxEvents : text[i] > 0 => i \in Events
    BY <1>1, <1>3, <1>4 DEF RepeatInv, EntriesExist
  <2> QED BY <1>1, <1>2, <1>3, <2>1 DEF RepeatInv, EntriesExist, Events
<1>6. ASSUME ~overtaken
      PROVE  /\ OneRun'
             /\ \A i \in Events, k \in Tasks : InEntry(i) /\ entries'[k][i] > entries[k][i] =>
                  raw[i] = mark.ts \/ i \in torn
  <2>1. /\ Alone /\ dropped = {} /\ AtWork(w) /\ Ahead(w)
        /\ \A v \in Workers : AtWork(v) => v = w
    BY <1>1, <1>6 DEF RepeatInv, OneRun, Alone, Running, AtWork
  <2>2. /\ run[w].file.text = entries[x] /\ run[w].todo \cap S = {} /\ S \subseteq run[w].batch
    BY <1>1, <2>1 DEF Ahead, Pending
  <2>3. /\ \A i \in 1..MaxEvents : text[i] >= entries[x][i]
        /\ \A i \in (1..MaxEvents) \ S : text[i] = entries[x][i]
    BY <1>4, <2>2
  <2>4. dropped' = {}
    <3>1. \A i \in 1..MaxEvents : entries[x][i] \in 0..2 /\ text[i] \in 0..2
      BY <1>3
    <3>2. \A i \in 1..MaxEvents : ~(entries[x][i] > 0 /\ text[i] = 0)
      BY <2>3, <3>1
    <3> QED BY <1>1, <2>1, <3>2
  <2>5. Alone'
    BY <1>1, <1>2, <2>1 DEF Alone, Running, AtWork
  <2>6. ASSUME NEW v \in Workers, AtWork(v)' PROVE Ahead(v)'
    <3>1. v = w
      BY <1>2, <2>1, <2>6 DEF AtWork
    <3> QED BY <1>1, <1>2, <2>1, <3>1 DEF Ahead, Pending
  <2>7. \A i \in Events : i \notin S /\ InEntry(i)' => InEntry(i)
    BY <1>3, <2>3, EventsBounded DEF InEntry
  <2>8. \A i \in Events : InEntry(i) =>
          i \in torn \/ raw[i] <= mark.ts \/ i \in run[w].batch \ Pending(w)
    BY <1>6, <2>1 DEF RepeatInv, OneRun, Accounted
  <2>9. ASSUME NEW i \in Events, InEntry(i)' PROVE Accounted(i)'
    <3>1. i \in S \/ i \in torn \/ raw[i] <= mark.ts \/ i \in run[w].batch \ Pending(w)
      BY <2>7, <2>8, <2>9
    <3>2. i \in S \/ i \in run[w].batch \ Pending(w) => i \in run'[w].batch \ Pending(w)'
      BY <1>2, <2>2 DEF Pending
    <3>3. AtWork(w)'
      BY <1>2 DEF AtWork
    <3> QED BY <1>1, <3>1, <3>2, <3>3 DEF Accounted
  <2>10. ASSUME NEW i \in Events, NEW k \in Tasks, InEntry(i), entries'[k][i] > entries[k][i]
         PROVE  raw[i] = mark.ts \/ i \in torn
    <3>1. entries[k][i] \in 0..2 /\ i \in 1..MaxEvents
      BY EventsBounded, EntryTyped
    <3>2. k = x
      BY <1>3, <2>10, <3>1
    <3>3. i \in S
      BY <1>3, <2>3, <2>10, <3>1, <3>2
    <3>4. i \in torn \/ raw[i] <= mark.ts
      BY <2>8, <2>10, <3>3 DEF Pending
    <3>5. mark.ts <= raw[i]
      BY <2>1, <2>2, <3>3 DEF Ahead
    <3>6. raw[i] \in Nat /\ mark.ts \in Nat
      BY EventsBounded DEF Types, TypeOK
    <3> QED BY <3>4, <3>5, <3>6
  <2> QED BY <1>1, <2>4, <2>5, <2>6, <2>9, <2>10 DEF OneRun, Events
<1> QED BY <1>1, <1>5, <1>6 DEF RepeatInv

LEMMA AdvanceRepeats ==
  ASSUME Types, RepeatInv, NEW w \in Workers, Advance(w)
  PROVE  RepeatInv'
<1>1. /\ UNCHANGED <<raw, entries, torn, overtaken, dropped>>
      /\ run[w].pc = "writing" /\ run[w].todo = {} /\ mark'.ts = run[w].last
  BY DEF Advance
<1>2. /\ \A v \in Workers : v # w => run'[v] = run[v]
      /\ run'[w].pc = "leaving"
  BY AdvanceTypes, LeavingTyped
<1>3. EntriesExist'
  BY <1>1, <1>2 DEF RepeatInv, EntriesExist, Events
<1>4. SUFFICES ASSUME ~overtaken PROVE OneRun'
  BY <1>1, <1>3 DEF RepeatInv
<1>5. Ahead(w) /\ dropped = {} /\ \A v \in Workers : Running(v) => v = w
  BY <1>1, <1>4 DEF RepeatInv, OneRun, Alone, Running, AtWork
<1>6. Alone' /\ \A v \in Workers : ~AtWork(v)'
  BY <1>1, <1>2, <1>5 DEF Alone, Running, AtWork
<1>7. mark.ts \in Nat /\ run[w].last \in Nat /\ run[w].batch \subseteq Events
  BY RunTyped DEF Types, TypeOK
<1>8. mark.ts <= run[w].last
  <2>1. PICK i \in run[w].batch : mark.ts <= raw[i] /\ raw[i] <= run[w].last
    BY <1>5 DEF Ahead
  <2>2. raw[i] \in Nat
    BY <1>7, EventsBounded
  <2> QED BY <1>7, <2>1, <2>2
<1>9. ASSUME NEW i \in Events, InEntry(i)' PROVE Accounted(i)'
  <2>1. raw[i] \in Nat
    BY EventsBounded
  <2>2. i \in torn \/ raw[i] <= mark.ts \/ i \in run[w].batch
    BY <1>1, <1>4, <1>5, <1>9 DEF RepeatInv, OneRun, Accounted, Running, AtWork, InEntry
  <2>3. i \in torn \/ raw[i] <= run[w].last
    BY <1>5, <1>7, <1>8, <2>1, <2>2 DEF Ahead
  <2> QED BY <1>1, <2>3 DEF Accounted
<1> QED BY <1>1, <1>5, <1>6, <1>9 DEF OneRun, Events

LEMMA OthersRepeat ==
  ASSUME Types, RepeatInv,
         (\E w \in Workers : Fail(w) \/ Release(w) \/ Crash(w)) \/ Tick \/ UNCHANGED vars
  PROVE  RepeatInv'
<1>1. ASSUME NEW w \in Workers, Fail(w) \/ Release(w) \/ Crash(w)
      PROVE  RepeatInv'
  <2>1. UNCHANGED <<raw, mark, entries, dropped, overtaken>> /\ Running(w)
    BY <1>1 DEF Fail, Release, Crash, Running, AtWork
  <2>2. /\ \A v \in Workers : v # w => run'[v] = run[v]
        /\ torn \subseteq torn' /\ (AtWork(w) => run[w].batch \subseteq torn')
        /\ run'[w] = Leaving(w) \/ run'[w] = NoRun
    BY <1>1, EndTypes
  <2>3. run'[w].pc = "leaving" \/ run'[w].pc = "no"
    BY <2>2, LeavingTyped DEF NoRun
  <2>4. EntriesExist'
    BY <2>1, <2>2, <2>3 DEF RepeatInv, EntriesExist, Events
  <2>5. SUFFICES ASSUME ~overtaken PROVE OneRun'
    BY <2>1, <2>4 DEF RepeatInv
  <2>6. dropped = {} /\ \A v \in Workers : Running(v) => v = w
    BY <2>1, <2>5 DEF RepeatInv, OneRun, Alone
  <2>7. Alone' /\ \A v \in Workers : ~AtWork(v)'
    BY <2>2, <2>3, <2>6 DEF Alone, Running, AtWork
  <2>8. ASSUME NEW i \in Events, InEntry(i)' PROVE Accounted(i)'
    <3>1. Accounted(i)
      BY <2>1, <2>5, <2>8 DEF RepeatInv, OneRun, InEntry
    <3>2. i \in torn' \/ raw[i] <= mark.ts
      BY <2>2, <2>6, <3>1 DEF Accounted, Running, AtWork
    <3> QED BY <2>1, <3>2 DEF Accounted
  <2> QED BY <2>1, <2>6, <2>7, <2>8 DEF OneRun, Events
<1>2. CASE Tick \/ UNCHANGED vars
  <2>1. UNCHANGED <<raw, mark, entries, run, torn, overtaken, dropped>>
    BY <1>2 DEF Tick, vars
  <2> QED BY <2>1 DEF RepeatInv, EntriesExist, OneRun, Alone, Running, AtWork, Ahead, Pending,
                      Accounted, InEntry, Events
<1> QED BY <1>1, <1>2

LEMMA RepeatNext == Types /\ RepeatInv /\ [Next]_vars => RepeatInv'
<1> SUFFICES ASSUME Types, RepeatInv, [Next]_vars PROVE RepeatInv'
  OBVIOUS
<1>1. ASSUME NEW t \in 0..MaxTime, AppendEvent(t) PROVE RepeatInv'
  BY <1>1, AppendRepeats
<1>2. ASSUME NEW w \in Workers, Begin(w) \/ GoOn(w) \/ Fail(w) \/ Crash(w) PROVE RepeatInv'
  BY <1>2, BeginRepeats, ReadRepeats, WriteRepeats, AdvanceRepeats, OthersRepeat DEF GoOn
<1> QED BY <1>1, <1>2, OthersRepeat DEF Next

\* What the mark counts as done has been entered, the event itself or one with
\* its key: no batch that is cut off, no events that share a millisecond, no run
\* that fails, and none that outlives its lock and moves the mark back has one
\* passed over.  An entry that was made is still there, unless a run has
\* outlived its lock: then two may rewrite a task's file at once.
THEOREM Coverage == Spec => []NothingSkipped
<1>1. Covered /\ RepeatInv => NothingSkipped
  BY DEF Covered, Passed, RepeatInv, OneRun, NothingSkipped
<1> QED BY <1>1, TypesInit, TypesNext, CoveredInit, CoveredNext, RepeatInit, RepeatNext, PTL
        DEF Spec

\* Whatever the batches, the events of one millisecond and the crashes: while
\* no run outlives its lock, an event is distilled again only at the mark's own
\* millisecond, or after a run that ended before it moved the mark.
THEOREM Repetition == Spec => OnlyBoundaryRepeats
<1>1. Types /\ RepeatInv /\ [Next]_vars =>
        [\A i \in Events, k \in Tasks : InEntry(i) /\ entries'[k][i] > entries[k][i] =>
           raw[i] = mark.ts \/ i \in torn \/ overtaken]_vars
  <2> SUFFICES ASSUME Types, RepeatInv, Next, NEW i \in Events, NEW k \in Tasks,
                      InEntry(i), entries'[k][i] > entries[k][i]
               PROVE  raw[i] = mark.ts \/ i \in torn \/ overtaken
    OBVIOUS
  <2>1. entries[k][i] \in 0..2
    BY EntryTyped
  <2>2. entries' # entries
    BY <2>1
  <2>3. PICK w \in Workers : WriteEntry(w)
    BY <2>2 DEF Next, GoOn, AppendEvent, Begin, ReadTask, Advance, Fail, Release, Crash, Tick
  <2> QED BY <2>3, WriteRepeats
<1> QED BY <1>1, TypesInit, TypesNext, RepeatInit, RepeatNext, PTL
        DEF Spec, OnlyBoundaryRepeats

=============================================================================
