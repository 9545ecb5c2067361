-------------------------------- MODULE Hands --------------------------------
(***************************************************************************)
(* Hands, the commands a project lets an agent run (mcp/src/hands): the    *)
(* registry of loaded projects, the approval tokens of ConfirmStore, and   *)
(* the life of a child process and its group in runProcess, up to the      *)
(* server's shutdown.  A call that needs approval is identified with its   *)
(* token: tokens are 32 random bytes.                                      *)
(***************************************************************************)
EXTENDS Integers, FiniteSets

CONSTANTS
  Projects,
  Calls,         \* invocations of tools, each made at most once
  ProjectOf,     \* [call -> its project]
  NeedsConfirm,  \* the calls of tools with confirm: true
  Talk,          \* [call -> how many bytes its process writes, at most]
  Cap,           \* maxOutputBytes
  Ttl,           \* ttlMs
  MaxTime,       \* bound on the clock
  MaxLoads,      \* bound on the number of registrations
  None

ASSUME HandsAssumption ==
  /\ ProjectOf \in [Calls -> Projects]
  /\ NeedsConfirm \subseteq Calls
  /\ Talk \in [Calls -> Nat]
  /\ Cap \in Nat /\ Ttl \in Nat /\ MaxTime \in Nat /\ MaxLoads \in Nat
  /\ None \notin Nat

VARIABLES
  now,      \* Date.now()
  server,   \* "up", "stopping" (handleShutdownSignal awaits) or "gone"
  loaded,   \* byProject: the projects whose tools can be called
  loads,    \* counts registrations, for the bound only
  pc,       \* [call -> where it is]
  pending,  \* ConfirmStore.map: [call -> expiresAt, or None]
  group,    \* [call -> the living processes of its group]
  timer,    \* [call -> "off", "armed" (timeout) or "term" (SIGKILL to come)]
  active,   \* _activeChildren
  got,      \* [call -> how many bytes 'data' handed over]
  output,   \* [call -> stdoutBuf]
  shown,    \* history: [call -> when its token was given out, or None]
  void,     \* history: the tokens that were out when their project was loaded anew
  runs,     \* history: [call -> how often it was executed]
  warned    \* history: the calls whose group was sent a SIGTERM

tokenVars == <<pending, shown, void>>
pipeVars == <<got, output>>
childVars == <<group, timer, active, runs, warned>>
vars == <<now, server, loaded, loads, pc, tokenVars, pipeVars, childVars>>

Buf == INSTANCE RingBuffer

Stage == {"new", "resolving", "asked", "running", "answered"}

TypeOK ==
  /\ now \in 0..MaxTime
  /\ server \in {"up", "stopping", "gone"}
  /\ loaded \subseteq Projects
  /\ loads \in 0..MaxLoads
  /\ pc \in [Calls -> Stage]
  /\ pending \in [Calls -> Nat \cup {None}]
  /\ group \in [Calls -> SUBSET {"leader", "worker"}]
  /\ timer \in [Calls -> {"off", "armed", "term"}]
  /\ active \subseteq Calls
  /\ \A c \in Calls : got[c] \in 0..Talk[c]
  /\ shown \in [Calls -> Nat \cup {None}]
  /\ void \subseteq Calls
  /\ runs \in [Calls -> Nat]
  /\ warned \subseteq Calls

Init ==
  /\ now = 0
  /\ server = "up"
  /\ loaded = {}
  /\ loads = 0
  /\ pc = [c \in Calls |-> "new"]
  /\ pending = [c \in Calls |-> None]
  /\ group = [c \in Calls |-> {}]
  /\ timer = [c \in Calls |-> "off"]
  /\ active = {}
  /\ got = [c \in Calls |-> 0]
  /\ output = [c \in Calls |-> Buf!Empty]
  /\ shown = [c \in Calls |-> None]
  /\ void = {}
  /\ runs = [c \in Calls |-> 0]
  /\ warned = {}

-----------------------------------------------------------------------------
(* Registering and asking *)

Of(P) == {c \in Calls : ProjectOf[c] \in P}

\* ConfirmStore.clearProject for each of P.
Cleared(P) == [c \in Calls |-> IF c \in Of(P) THEN None ELSE pending[c]]

\* Unregister every one of P, then register those of Q that have a config.
Load(P, Q) ==
  /\ server # "gone"
  /\ loads < MaxLoads
  /\ loads' = loads + 1
  /\ loaded' = (loaded \ P) \cup Q
  /\ pending' = Cleared(P)
  /\ void' = void \cup {c \in Of(P) : pending[c] # None}
  /\ UNCHANGED <<now, server, pc, shown, pipeVars, childVars>>

\* projects_register: found or not, the project's earlier tools are gone.
Register(p) == Load({p}, {p}) \/ Load({p}, {})

\* hands_reload: the projects listed in the database are loaded anew.
Reload(Q) == Load(loaded \cup Q, Q)

\* executeHand up to spawn, which may fail or give a child and its workers.
Execute(c) ==
  /\ runs' = [runs EXCEPT ![c] = @ + 1]
  /\ \/ /\ pc' = [pc EXCEPT ![c] = "answered"]
        /\ UNCHANGED <<group, timer, active>>
     \/ /\ pc' = [pc EXCEPT ![c] = "running"]
        /\ \E others \in SUBSET {"worker"} :
             group' = [group EXCEPT ![c] = {"leader"} \cup others]
        /\ timer' = [timer EXCEPT ![c] = "armed"]
        /\ active' = active \cup {c}
  /\ UNCHANGED warned

\* A call that needs approval awaits an import before it has a token.
Invoke(c) ==
  /\ server # "gone"
  /\ pc[c] = "new"
  /\ ProjectOf[c] \in loaded
  /\ \/ /\ c \in NeedsConfirm
        /\ pc' = [pc EXCEPT ![c] = "resolving"]
        /\ UNCHANGED childVars
     \/ /\ c \notin NeedsConfirm
        /\ Execute(c)
  /\ UNCHANGED <<now, server, loaded, loads, tokenVars, pipeVars>>

\* sweepExpired.
Swept == [c \in Calls |-> IF pending[c] \in 0..(now - 1) THEN None ELSE pending[c]]

Stash(c) ==
  /\ server # "gone"
  /\ pc[c] = "resolving"
  /\ pc' = [pc EXCEPT ![c] = "asked"]
  /\ pending' = [Swept EXCEPT ![c] = now + Ttl]
  /\ shown' = [shown EXCEPT ![c] = now]
  /\ UNCHANGED <<now, server, loaded, loads, void, pipeVars, childVars>>

\* Mutant: a token is good until the next sweep.
Unconsumed(c) == pending

\* map.delete, before the expiry is looked at.
Consumed(c) == [pending EXCEPT ![c] = None]

\* hands_confirm with the token of c, by whom and as often as it may be.
Confirm(c) ==
  /\ server # "gone"
  /\ pending[c] # None
  /\ pending' = Consumed(c)
  /\ IF pending[c] < now
     THEN UNCHANGED <<pc, childVars>>
     ELSE Execute(c)
  /\ UNCHANGED <<now, server, loaded, loads, shown, void, pipeVars>>

Tick ==
  /\ now < MaxTime
  /\ now' = now + 1
  /\ UNCHANGED <<server, loaded, loads, pc, tokenVars, pipeVars, childVars>>

-----------------------------------------------------------------------------
(* The child and its group *)

\* 'data': a process of the group wrote n bytes.  What comes after the answer
\* goes nowhere and is left out.
Read(c, n) ==
  /\ server # "gone"
  /\ pc[c] = "running"
  /\ got[c] + n <= Talk[c]
  /\ got' = [got EXCEPT ![c] = @ + n]
  /\ output' = [output EXCEPT ![c] = Buf!Push(@, <<got[c], got[c] + n>>)]
  /\ UNCHANGED <<now, server, loaded, loads, pc, tokenVars, childVars>>

\* A process ends by itself, or because of a SIGTERM it does not ignore.
Exit(c, who) ==
  /\ who \in group[c]
  /\ group' = [group EXCEPT ![c] = @ \ {who}]
  /\ UNCHANGED <<now, server, loaded, loads, pc, tokenVars, pipeVars, timer, active, runs, warned>>

\* Mutant: the answer also calls off the SIGKILL.
AllTimersOff(c) == "off"

\* clearTimeout(timer): the one that follows it stays.
TimerAfter(c) == IF timer[c] = "armed" THEN "off" ELSE timer[c]

\* 'exit': the leader has ended; 'close' comes later and finds it settled.
Finish(c) ==
  /\ server # "gone"
  /\ pc[c] = "running"
  /\ "leader" \notin group[c]
  /\ pc' = [pc EXCEPT ![c] = "answered"]
  /\ timer' = [timer EXCEPT ![c] = TimerAfter(c)]
  /\ active' = active \ {c}
  /\ UNCHANGED <<now, server, loaded, loads, tokenVars, pipeVars, group, runs, warned>>

\* Mutant: a child that is told to end is no longer kept track of.
Untracked(c) == active \ {c}

Tracked(c) == active

\* The timeout: SIGTERM to the group, whether 'exit' is on its way or not.
TimeUp(c) ==
  /\ server # "gone"
  /\ timer[c] = "armed"
  /\ timer' = [timer EXCEPT ![c] = "term"]
  /\ warned' = warned \cup {c}
  /\ active' = Tracked(c)
  /\ UNCHANGED <<now, server, loaded, loads, pc, tokenVars, pipeVars, group, runs>>

\* SIGKILL, 3 seconds after.
Kill(c) ==
  /\ server # "gone"
  /\ timer[c] = "term"
  /\ timer' = [timer EXCEPT ![c] = "off"]
  /\ group' = [group EXCEPT ![c] = {}]
  /\ UNCHANGED <<now, server, loaded, loads, pc, tokenVars, pipeVars, active, runs, warned>>

\* handleShutdownSignal begins with killAllActiveChildren, then awaits.
Shutdown ==
  /\ server = "up"
  /\ server' = "stopping"
  /\ warned' = warned \cup active
  /\ UNCHANGED <<now, loaded, loads, pc, tokenVars, pipeVars, group, timer, active, runs>>

\* process.exit: timers and handlers go with it.
Quit ==
  /\ server = "stopping"
  /\ server' = "gone"
  /\ UNCHANGED <<now, loaded, loads, pc, tokenVars, pipeVars, childVars>>

Next ==
  \/ \E p \in Projects : Register(p)
  \/ \E Q \in SUBSET Projects : Reload(Q)
  \/ \E c \in Calls :
       \/ Invoke(c) \/ Stash(c) \/ Confirm(c)
       \/ \E n \in 1..Talk[c] : Read(c, n)
       \/ \E who \in {"leader", "worker"} : Exit(c, who)
       \/ Finish(c) \/ TimeUp(c) \/ Kill(c)
  \/ Tick
  \/ Shutdown
  \/ Quit

Spec == Init /\ [][Next]_vars

\* The event loop runs its timers and callbacks; processes promise nothing.
FairSpec ==
  /\ Spec
  /\ \A c \in Calls : WF_vars(Finish(c)) /\ WF_vars(TimeUp(c)) /\ WF_vars(Kill(c))
-----------------------------------------------------------------------------
\* What a human approves is executed at most once, while the approval is fresh,
\* and by no token that was already given out when its project was loaded anew.
\* (A token given out just after that, for an invocation looked up before, is good:
\* the definition it stands for may be gone.)
ApprovedOnceInTime ==
  [][\A c \in NeedsConfirm : runs'[c] > runs[c] =>
       /\ runs[c] = 0
       /\ shown[c] # None /\ now <= shown[c] + Ttl
       /\ c \notin void]_vars

\* A shutdown finds every child that still lives: none is lost from the table
\* while its leader runs, timed out or not.
LivingAreTracked ==
  \A c \in Calls : "leader" \in group[c] => c \in active

\* However the output is cut into chunks, the first and the last bytes are kept,
\* and never more than maxOutputBytes.
EndsAreKept ==
  \A c \in Calls :
    /\ output[c] \in Buf!Buffer
    /\ Buf!Kept(output[c]) = Buf!Ends(got[c])
    /\ output[c].dropped = got[c] - Cardinality(Buf!Ends(got[c]))

\* Whatever its processes do, a call is answered, and a group that outlives its
\* timeout is gone in the end, leader or not, unless the server went first.
CallsEnd ==
  \A c \in Calls :
    /\ pc[c] = "running" ~> pc[c] = "answered" \/ server = "gone"
    /\ timer[c] = "term" ~> group[c] = {} \/ server = "gone"
=============================================================================
