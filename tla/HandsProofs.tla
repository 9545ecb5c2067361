----------------------------- MODULE HandsProofs -----------------------------
(***************************************************************************)
(* Proofs about Hands: what is approved runs once, in time, and as it was  *)
(* shown; no living child is lost from the table a shutdown goes through;  *)
(* the ring buffer keeps the ends of what a child wrote.                   *)
(***************************************************************************)
EXTENDS Hands, TLAPS, FiniteSetTheorems, WellFoundedInduction, SequenceTheorems

\* What a token in the map stands for: a call that was shown then, of tools
\* still loaded as they were, and not executed yet.
TokenIsFresh(c) ==
  /\ pc[c] = "asked"
  /\ shown[c] \in Nat /\ pending[c] = shown[c] + Ttl
  /\ c \notin void
  /\ runs[c] = 0

\* A call that has no token yet was never executed.
NotYetAsked(c) ==
  /\ pending[c] = None
  /\ c \notin void
  /\ runs[c] = 0

TokenInv ==
  /\ now \in Nat
  /\ DOMAIN pc = Calls /\ DOMAIN pending = Calls /\ DOMAIN shown = Calls
  /\ runs \in [Calls -> Nat]
  /\ \A c \in NeedsConfirm :
       /\ pending[c] # None => TokenIsFresh(c)
       /\ pc[c] \in {"new", "resolving"} => NotYetAsked(c)

LEMMA TokenInvInit == Init => TokenInv
  BY HandsAssumption DEF Init, TokenInv, NotYetAsked

LEMMA LoadKeepsTokens ==
  ASSUME NEW P, NEW Q, TokenInv, Load(P, Q)
  PROVE  TokenInv'
<1>1. ASSUME NEW c \in NeedsConfirm, pending'[c] # None
      PROVE  TokenIsFresh(c)'
  <2>1. c \in Calls BY HandsAssumption
  <2>2. c \notin Of(P) /\ pending'[c] = pending[c]
    BY <1>1, <2>1 DEF Load, Cleared
  <2> QED BY <1>1, <2>1, <2>2 DEF Load, TokenInv, TokenIsFresh, childVars
<1>2. ASSUME NEW c \in NeedsConfirm, pc'[c] \in {"new", "resolving"}
      PROVE  NotYetAsked(c)'
  <2>1. c \in Calls BY HandsAssumption
  <2>2. NotYetAsked(c) BY <1>2 DEF TokenInv, Load
  <2> QED BY <2>1, <2>2 DEF Load, Cleared, NotYetAsked, childVars
<1> QED BY <1>1, <1>2 DEF TokenInv, Load, Cleared, childVars

\* Executing touches one call only, and not the tokens.
LEMMA ExecuteOne ==
  ASSUME NEW c \in Calls, Execute(c), TokenInv
  PROVE  /\ DOMAIN pc' = Calls
         /\ runs' \in [Calls -> Nat]
         /\ pc'[c] \notin {"new", "resolving"}
         /\ \A d \in Calls : d # c => pc'[d] = pc[d] /\ runs'[d] = runs[d]
  BY DEF Execute, TokenInv

LEMMA InvokeKeepsTokens ==
  ASSUME NEW c \in Calls, TokenInv, Invoke(c)
  PROVE  TokenInv'
<1>1. CASE c \in NeedsConfirm
  BY <1>1, HandsAssumption DEF Invoke, TokenInv, TokenIsFresh, NotYetAsked, tokenVars, childVars
<1>2. CASE c \notin NeedsConfirm
  <2>1. Execute(c) BY <1>2 DEF Invoke
  <2>2. \A d \in NeedsConfirm : d \in Calls /\ d # c BY <1>2, HandsAssumption
  <2> QED BY <2>1, <2>2, ExecuteOne DEF Invoke, TokenInv, TokenIsFresh, NotYetAsked, tokenVars
<1> QED BY <1>1, <1>2

LEMMA StashKeepsTokens ==
  ASSUME NEW c \in Calls, TokenInv, Stash(c)
  PROVE  TokenInv'
<1> USE HandsAssumption
<1>1. ASSUME NEW d \in NeedsConfirm, pending'[d] # None
      PROVE  TokenIsFresh(d)'
  <2>1. CASE d = c
    <3>1. NotYetAsked(c) BY <2>1 DEF Stash, TokenInv
    <3> QED BY <2>1, <3>1 DEF Stash, TokenInv, TokenIsFresh, NotYetAsked, Swept, childVars
  <2>2. CASE d # c
    <3>1. pending'[d] = pending[d] BY <1>1, <2>2 DEF Stash, Swept
    <3> QED BY <1>1, <2>2, <3>1 DEF Stash, TokenInv, TokenIsFresh, childVars
  <2> QED BY <2>1, <2>2
<1>2. ASSUME NEW d \in NeedsConfirm, pc'[d] \in {"new", "resolving"}
      PROVE  NotYetAsked(d)'
  <2>1. d # c BY <1>2 DEF Stash, TokenInv
  <2> QED BY <1>2, <2>1 DEF Stash, Swept, TokenInv, NotYetAsked, childVars
<1> QED BY <1>1, <1>2 DEF Stash, Swept, TokenInv, childVars

LEMMA ConfirmKeepsTokens ==
  ASSUME NEW c \in Calls, TokenInv, Confirm(c)
  PROVE  TokenInv'
<1> USE HandsAssumption
<1>1. \A d \in Calls : pending'[d] = IF d = c THEN None ELSE pending[d]
  BY DEF Confirm, Consumed, TokenInv
<1>2. CASE pending[c] < now
  BY <1>1, <1>2 DEF Confirm, Consumed, TokenInv, TokenIsFresh, NotYetAsked, childVars
<1>3. CASE ~(pending[c] < now)
  <2>1. Execute(c) BY <1>3 DEF Confirm
  <2> QED BY <1>1, <2>1, ExecuteOne DEF Confirm, Consumed, TokenInv, TokenIsFresh, NotYetAsked
<1> QED BY <1>2, <1>3

\* The rest moves pc[c] away from the stages that have no token, or not at all.
LEMMA OthersKeepTokens ==
  ASSUME TokenInv,
         \/ \E c \in Calls :
              \/ \E n \in 1..Talk[c] : Read(c, n)
              \/ \E who \in {"leader", "worker"} : Exit(c, who)
              \/ Finish(c) \/ TimeUp(c) \/ Kill(c)
         \/ Tick \/ Shutdown \/ Quit \/ UNCHANGED vars
  PROVE  TokenInv'
<1> USE DEF TokenInv, TokenIsFresh, NotYetAsked, tokenVars, childVars
<1>1. CASE \E c \in Calls : Finish(c)
  BY <1>1, HandsAssumption DEF Finish
<1>2. CASE \E c \in Calls : \E n \in 1..Talk[c] : Read(c, n)
  BY <1>2 DEF Read
<1>3. CASE \E c \in Calls : \E who \in {"leader", "worker"} : Exit(c, who)
  BY <1>3 DEF Exit
<1>4. CASE \E c \in Calls : TimeUp(c) \/ Kill(c)
  BY <1>4 DEF TimeUp, Kill
<1>5. CASE Tick
  BY <1>5 DEF Tick
<1>6. CASE Shutdown \/ Quit \/ UNCHANGED vars
  BY <1>6 DEF Shutdown, Quit, vars
<1> QED BY <1>1, <1>2, <1>3, <1>4, <1>5, <1>6

LEMMA TokenInvNext == TokenInv /\ [Next]_vars => TokenInv'
<1> SUFFICES ASSUME TokenInv, [Next]_vars PROVE TokenInv'
  OBVIOUS
<1>1. ASSUME NEW p \in Projects, Register(p) PROVE TokenInv'
  BY <1>1, LoadKeepsTokens DEF Register
<1>2. ASSUME NEW Q \in SUBSET Projects, Reload(Q) PROVE TokenInv'
  BY <1>2, LoadKeepsTokens DEF Reload
<1>3. ASSUME NEW c \in Calls, Invoke(c) \/ Stash(c) \/ Confirm(c) PROVE TokenInv'
  BY <1>3, InvokeKeepsTokens, StashKeepsTokens, ConfirmKeepsTokens
<1> QED BY <1>1, <1>2, <1>3, OthersKeepTokens DEF Next

-----------------------------------------------------------------------------
\* A command that needs approval is executed at most once, within Ttl of its
\* being shown, and not by a token that was out when its project was loaded anew.
THEOREM Approval == Spec => ApprovedOnceInTime
<1> DEFINE Good(c) ==
      runs'[c] > runs[c] =>
        /\ runs[c] = 0
        /\ shown[c] # None /\ now <= shown[c] + Ttl
        /\ c \notin void
<1>1. TokenInv /\ [Next]_vars => \A c \in NeedsConfirm : Good(c)
  <2> SUFFICES ASSUME TokenInv, [Next]_vars, NEW c \in NeedsConfirm, runs'[c] > runs[c]
               PROVE  /\ runs[c] = 0
                      /\ shown[c] # None /\ now <= shown[c] + Ttl
                      /\ c \notin void
    OBVIOUS
  <2>1. c \in Calls BY HandsAssumption
  <2>2. runs'[c] # runs[c]
    <3>1. runs[c] \in Nat BY <2>1 DEF TokenInv
    <3> QED BY <3>1
  <2>3. Confirm(c) /\ ~(pending[c] < now)
    <3>1. CASE \E d \in Calls : Invoke(d) \/ Confirm(d)
      <4>1. PICK d \in Calls : Invoke(d) \/ Confirm(d) BY <3>1
      <4>2. d = c
        BY <2>1, <2>2, <4>1, ExecuteOne DEF Invoke, Confirm, childVars
      <4>3. ~Invoke(c) BY <2>2 DEF Invoke, childVars
      <4> QED BY <2>2, <4>1, <4>2, <4>3 DEF Confirm, childVars
    <3>2. CASE ~\E d \in Calls : Invoke(d) \/ Confirm(d)
      <4>1. runs' = runs
        BY <3>2 DEF Next, Register, Reload, Load, Stash, Read, Exit, Finish, TimeUp, Kill,
           Tick, Shutdown, Quit, vars, childVars
      <4> QED BY <2>2, <4>1
    <3> QED BY <3>1, <3>2
  <2>4. TokenIsFresh(c) BY <2>3 DEF Confirm, TokenInv
  <2>5. now \in Nat /\ Ttl \in Nat BY HandsAssumption DEF TokenInv
  <2>6. shown[c] # None BY <2>4, HandsAssumption DEF TokenIsFresh
  <2>7. now <= shown[c] + Ttl BY <2>3, <2>4, <2>5 DEF TokenIsFresh
  <2> QED BY <2>4, <2>6, <2>7 DEF TokenIsFresh
<1> QED BY <1>1, TokenInvInit, TokenInvNext, PTL DEF Spec, ApprovedOnceInTime

-----------------------------------------------------------------------------
\* A child whose leader lives has not been answered for.
ChildInv ==
  /\ DOMAIN pc = Calls /\ DOMAIN group = Calls
  /\ \A c \in Calls : "leader" \in group[c] => c \in active

\* A shutdown reaches every hand whose leader is alive.
THEOREM Tracking == Spec => []LivingAreTracked
<1>1. Init => ChildInv
  BY DEF Init, ChildInv
<1>2. ChildInv /\ [Next]_vars => ChildInv'
  <2> SUFFICES ASSUME ChildInv, [Next]_vars PROVE ChildInv'
    OBVIOUS
  <2> USE DEF ChildInv, childVars
  <2>1. ASSUME NEW c \in Calls, Execute(c) PROVE ChildInv'
    BY <2>1 DEF Execute
  <2>2. ASSUME NEW c \in Calls, Invoke(c) \/ Confirm(c) PROVE ChildInv'
    BY <2>1, <2>2 DEF Invoke, Confirm
  <2>3. ASSUME NEW c \in Calls, Finish(c) PROVE ChildInv'
    BY <2>3 DEF Finish
  <2>4. ASSUME NEW c \in Calls, NEW who \in {"leader", "worker"}, Exit(c, who) PROVE ChildInv'
    BY <2>4 DEF Exit
  <2>5. ASSUME NEW c \in Calls, TimeUp(c) \/ Kill(c) PROVE ChildInv'
    BY <2>5 DEF TimeUp, Kill, Tracked
  <2>6. ASSUME NEW c \in Calls, Stash(c) \/ \E n \in 1..Talk[c] : Read(c, n) PROVE ChildInv'
    BY <2>6 DEF Stash, Read
  <2>7. ASSUME NEW p \in Projects, Register(p) PROVE ChildInv'
    BY <2>7 DEF Register, Load
  <2>8. ASSUME NEW Q \in SUBSET Projects, Reload(Q) PROVE ChildInv'
    BY <2>8 DEF Reload, Load
  <2>9. CASE Tick \/ Shutdown \/ Quit \/ UNCHANGED vars
    BY <2>9 DEF Tick, Shutdown, Quit, vars
  <2> QED BY <2>2, <2>3, <2>4, <2>5, <2>6, <2>7, <2>8, <2>9 DEF Next
<1>3. ChildInv => LivingAreTracked
  BY DEF ChildInv, LivingAreTracked
<1> QED BY <1>1, <1>2, <1>3, PTL DEF Spec

-----------------------------------------------------------------------------
\* Every variable of Hands but the buffers stays well typed.
THEOREM WellTyped == Spec => []TypeOK
<1> USE HandsAssumption DEF TypeOK, Stage
<1>1. Init => TypeOK
  BY DEF Init
<1>2. TypeOK /\ [Next]_vars => TypeOK'
  <2> SUFFICES ASSUME TypeOK, [Next]_vars PROVE TypeOK'
    OBVIOUS
  <2> USE DEF tokenVars, pipeVars, childVars
  <2>1. ASSUME NEW P \in SUBSET Projects, NEW Q \in SUBSET Projects, Load(P, Q) PROVE TypeOK'
    BY <2>1 DEF Load, Cleared, Of
  <2>2. ASSUME NEW c \in Calls, Execute(c)
        PROVE  /\ pc' \in [Calls -> Stage]
               /\ group' \in [Calls -> SUBSET {"leader", "worker"}]
               /\ timer' \in [Calls -> {"off", "armed", "term"}]
               /\ active' \subseteq Calls /\ warned' \subseteq Calls
               /\ runs' \in [Calls -> Nat]
    <3>1. runs' \in [Calls -> Nat] /\ warned' = warned
      BY <2>2 DEF Execute
    <3>2. CASE pc' = [pc EXCEPT ![c] = "answered"] /\ UNCHANGED <<group, timer, active>>
      BY <3>1, <3>2
    <3>3. ASSUME NEW others \in SUBSET {"worker"},
                 pc' = [pc EXCEPT ![c] = "running"],
                 group' = [group EXCEPT ![c] = {"leader"} \cup others],
                 timer' = [timer EXCEPT ![c] = "armed"],
                 active' = active \cup {c}
          PROVE  /\ pc' \in [Calls -> Stage]
                 /\ group' \in [Calls -> SUBSET {"leader", "worker"}]
                 /\ timer' \in [Calls -> {"off", "armed", "term"}]
                 /\ active' \subseteq Calls
      <4>1. {"leader"} \cup others \in SUBSET {"leader", "worker"}
        OBVIOUS
      <4>2. group' \in [Calls -> SUBSET {"leader", "worker"}]
        BY <3>3, <4>1
      <4> QED BY <3>3, <4>2
    <3> QED BY <2>2, <3>1, <3>2, <3>3 DEF Execute
  <2>3. ASSUME NEW c \in Calls, Invoke(c) PROVE TypeOK'
    BY <2>2, <2>3 DEF Invoke
  <2>4. ASSUME NEW c \in Calls, Stash(c) PROVE TypeOK'
    BY <2>4 DEF Stash, Swept
  <2>5. ASSUME NEW c \in Calls, Confirm(c) PROVE TypeOK'
    BY <2>2, <2>5 DEF Confirm, Consumed
  <2>6. ASSUME NEW c \in Calls, NEW n \in 1..Talk[c], Read(c, n) PROVE TypeOK'
    BY <2>6 DEF Read
  <2>7. ASSUME NEW c \in Calls, NEW who \in {"leader", "worker"}, Exit(c, who) PROVE TypeOK'
    BY <2>7 DEF Exit
  <2>8. ASSUME NEW c \in Calls, Finish(c) \/ TimeUp(c) \/ Kill(c) PROVE TypeOK'
    BY <2>8 DEF Finish, TimerAfter, TimeUp, Tracked, Kill
  <2>9. CASE Tick \/ Shutdown \/ Quit \/ UNCHANGED vars
    BY <2>9 DEF Tick, Shutdown, Quit, vars
  <2>10. ASSUME NEW p \in Projects, Register(p) PROVE TypeOK'
    BY <2>1, <2>10 DEF Register
  <2>11. ASSUME NEW Q \in SUBSET Projects, Reload(Q) PROVE TypeOK'
    BY <2>1, <2>11 DEF Reload
  <2> QED BY <2>3, <2>4, <2>5, <2>6, <2>7, <2>8, <2>9, <2>10, <2>11 DEF Next
<1> QED BY <1>1, <1>2, PTL DEF Spec

-----------------------------------------------------------------------------
(* RingBuffer: whatever its chunks, a buffer keeps both ends of the output. *)

(* Induction over the natural numbers, for a set: a least number outside it *)
(* would have its predecessor inside.                                       *)
LEMMA NatSetInduction ==
  ASSUME NEW S, 0 \in S, \A n \in Nat : n \in S => n + 1 \in S
  PROVE  Nat \subseteq S
<1> DEFINE Less == {p \in Nat \X Nat : p[1] < p[2]}
           Rest == Nat \ S
<1>1. IsWellFoundedOn(Less, Nat)
  BY NatLessThanWellFounded DEF OpToRel
<1>2. SUFFICES ASSUME Rest # {} PROVE FALSE
  OBVIOUS
<1>3. Rest \subseteq Nat
  OBVIOUS
<1>4. PICK n \in Rest : \A y \in Rest : ~(<<y, n>> \in Less)
  <2> HIDE DEF Less, Rest
  <2> QED BY <1>1, <1>2, <1>3, WFMin
<1>5. n \in Nat /\ n # 0
  OBVIOUS
<1>6. n - 1 \in Nat /\ n - 1 < n /\ (n - 1) + 1 = n
  BY <1>5
<1>7. <<n - 1, n>> \in Less
  BY <1>5, <1>6
<1>8. n - 1 \in S
  BY <1>4, <1>6, <1>7
<1> QED BY <1>6, <1>8

(* The cap is split between the ends.                                       *)
LEMMA CapSplit ==
  /\ Buf!HeadCap \in Nat /\ Buf!TailCap \in Nat
  /\ Buf!HeadCap + Buf!TailCap = Cap
<1>1. Cap \div 2 \in Nat /\ Cap \div 2 <= Cap /\ Cap \in Nat
  BY HandsAssumption
<1> QED BY <1>1 DEF Buf!HeadCap, Buf!TailCap

(* The turns of the eviction loop are as its definition says: for every     *)
(* length there is a function that obeys it.                                *)
LEMMA EvictedUnfolds ==
  ASSUME NEW b, Len(b.tail) \in Nat
  PROVE  Buf!Evicted(b) =
           [n \in 0..Len(b.tail) |-> IF n = 0 THEN b ELSE Buf!Evict(Buf!Evicted(b)[n - 1])]
<1> DEFINE Solves(f, k) == f = [n \in 0..k |-> IF n = 0 THEN b ELSE Buf!Evict(f[n - 1])]
           Solvable == {k \in Nat : \E f : Solves(f, k)}
<1>1. 0 \in Solvable
  <2> DEFINE f == [n \in 0..0 |-> b]
  <2>1. Solves(f, 0)
    <3>1. \A n \in 0..0 : n = 0
      OBVIOUS
    <3> QED BY <3>1
  <2> HIDE DEF f, Solves
  <2> QED BY <2>1
<1>2. \A k \in Nat : k \in Solvable => k + 1 \in Solvable
  <2> SUFFICES ASSUME NEW k \in Nat, NEW f, Solves(f, k)
               PROVE  \E g : Solves(g, k + 1)
    OBVIOUS
  <2> DEFINE g == [n \in 0..(k + 1) |-> IF n = k + 1 THEN Buf!Evict(f[k]) ELSE f[n]]
  <2>1. \A n \in 0..k : g[n] = f[n]
    OBVIOUS
  <2>2. \A n \in 0..k : f[n] = IF n = 0 THEN b ELSE Buf!Evict(f[n - 1])
    OBVIOUS
  <2>3. ASSUME NEW n \in 0..(k + 1)
        PROVE  g[n] = IF n = 0 THEN b ELSE Buf!Evict(g[n - 1])
    <3>1. CASE n = 0
      BY <2>1, <2>2, <3>1
    <3>2. CASE n \in 1..k
      <4>1. n - 1 \in 0..k /\ n \in 0..k
        BY <3>2
      <4> QED BY <2>1, <2>2, <3>2, <4>1
    <3>3. CASE n = k + 1
      <4>1. n - 1 = k /\ k \in 0..k
        BY <3>3
      <4> QED BY <2>1, <3>3, <4>1
    <3> QED BY <3>1, <3>2, <3>3
  <2>4. g = [n \in 0..(k + 1) |-> g[n]]
    OBVIOUS
  <2> HIDE DEF g
  <2>5. Solves(g, k + 1)
    BY <2>3, <2>4
  <2> QED BY <2>5
<1>3. Nat \subseteq Solvable
  <2> HIDE DEF Solvable
  <2> QED BY <1>1, <1>2, NatSetInduction
<1>4. \E f : Solves(f, Len(b.tail))
  BY <1>3
<1>5. Buf!Evicted(b) = CHOOSE f : Solves(f, Len(b.tail))
  BY DEF Buf!Evicted
<1> HIDE DEF Solves
<1>6. Solves(Buf!Evicted(b), Len(b.tail))
  BY <1>4, <1>5
<1> QED BY <1>6 DEF Solves

Rec == [head : Nat, tail : Seq(Buf!Chunk), tailBytes : Nat, dropped : Nat]

\* A buffer with a tail, at work on n bytes: the head is full, the tail reaches
\* from what was dropped to the end, and was not cut below its share.
Loose(b, n) ==
  /\ b \in Rec /\ Buf!Stretch(b)
  /\ b.head = Buf!HeadCap
  /\ b.tail # <<>>
  /\ b.tail[Len(b.tail)][2] = n
  /\ b.tail[1][1] = Buf!HeadCap + b.dropped
  /\ b.dropped > 0 => b.tailBytes >= Buf!TailCap

(* One turn drops bytes from the front only, and shifts a chunk or ends.    *)
LEMMA EvictKeeps ==
  ASSUME NEW n \in Nat, NEW b, Loose(b, n)
  PROVE  /\ Loose(Buf!Evict(b), n)
         /\ b.tailBytes <= Buf!TailCap => Buf!Evict(b) = b
         /\ \/ Buf!Evict(b).tailBytes <= Buf!TailCap
            \/ Len(Buf!Evict(b).tail) = Len(b.tail) - 1
<1> DEFINE T == Buf!TailCap
           H == Buf!HeadCap
<1>1. T \in Nat /\ H \in Nat
  BY CapSplit
<1> HIDE DEF T, H
<1>2. PICK t : t = b.tail
  OBVIOUS
<1>3. PICK front : front = t[1]
  OBVIOUS
<1>4. /\ b \in Rec
      /\ b = [head |-> b.head, tail |-> t, tailBytes |-> b.tailBytes, dropped |-> b.dropped]
      /\ t \in Seq(Buf!Chunk) /\ t # <<>>
      /\ b.head \in Nat /\ b.tailBytes \in Nat /\ b.dropped \in Nat
      /\ b.head = H /\ t[Len(t)][2] = n /\ front[1] = H + b.dropped
      /\ b.dropped > 0 => b.tailBytes >= T
  BY <1>2, <1>3 DEF Loose, Rec, T, H
<1>5. b.tailBytes \in Nat /\ b.dropped \in Nat /\ front[1] = H + b.dropped
  BY <1>4
<1>6. /\ Len(t) \in Nat /\ Len(t) # 0
      /\ \A i \in 1..Len(t) : t[i] \in Buf!Chunk
      /\ \A i \in 1..(Len(t) - 1) : t[i][2] = t[i + 1][1]
      /\ b.tailBytes = t[Len(t)][2] - front[1]
  BY <1>2, <1>3, <1>4 DEF Loose, Buf!Stretch
<1>7. \A c \in Buf!Chunk : c[1] \in Nat /\ c[2] \in Nat /\ c[1] <= c[2] /\ c = <<c[1], c[2]>>
  BY DEF Buf!Chunk
<1>8. front \in Buf!Chunk /\ front[1] \in Nat /\ front[2] \in Nat /\ front[1] <= front[2]
  BY <1>3, <1>6, <1>7
<1> DEFINE over == b.tailBytes - T
           left(tail, k) == [head |-> H, tail |-> tail, tailBytes |-> b.tailBytes - k,
                             dropped |-> b.dropped + k]
<1>9. Buf!Evict(b) =
        IF over <= 0 \/ t = <<>> THEN b
        ELSE IF Len(t) = 1 /\ Buf!Size(front) > T
        THEN left(<<Buf!LastBytes(front)>>, Buf!Size(front) - T)
        ELSE IF Buf!Size(front) <= over THEN left(Tail(t), Buf!Size(front))
        ELSE left([t EXCEPT ![1] = <<front[1] + over, front[2]>>], over)
  BY <1>2, <1>3, <1>4 DEF Buf!Evict, T, H
<1>10. over \in Int
  BY <1>1, <1>4
<1>11. Buf!Size(front) = front[2] - front[1] /\ Buf!Size(front) \in Nat
  BY <1>8 DEF Buf!Size
<1>12. ASSUME NEW k \in Nat, NEW tail, tail \in Seq(Buf!Chunk), tail # <<>>,
              k <= b.tailBytes - T, b.tailBytes > T,
              tail[1][1] = front[1] + k, tail[Len(tail)][2] = n,
              \A i \in 1..(Len(tail) - 1) : tail[i][2] = tail[i + 1][1],
              Buf!Evict(b) = left(tail, k)
       PROVE  Loose(Buf!Evict(b), n)
  <2>1. PICK c : c = left(tail, k)
    OBVIOUS
  <2>2. /\ c = [head |-> H, tail |-> tail, tailBytes |-> b.tailBytes - k, dropped |-> b.dropped + k]
        /\ c.head = H /\ c.tail = tail /\ c.tailBytes = b.tailBytes - k
        /\ c.dropped = b.dropped + k
    BY <2>1
  <2>3. b.tailBytes - k \in Nat /\ b.dropped + k \in Nat /\ b.tailBytes - k >= T
    <3> HIDE DEF over, left
    <3>1. k \in Nat /\ k <= b.tailBytes - T
      BY <1>12
    <3> QED BY <1>1, <1>5, <3>1
  <2>4. c \in Rec
    BY <1>1, <1>12, <2>2, <2>3 DEF Rec
  <2>5. c.tailBytes = c.tail[Len(c.tail)][2] - c.tail[1][1]
    <3> HIDE DEF over, left
    <3>1. b.tailBytes = n - front[1]
      BY <1>4, <1>6
    <3>2. tail[Len(tail)][2] - tail[1][1] = n - (front[1] + k)
      BY <1>12
    <3>3. front[1] \in Nat
      BY <1>8
    <3>4. c.tailBytes = b.tailBytes - k /\ c.tail = tail
      BY <2>2
    <3> QED BY <3>1, <3>2, <3>3, <3>4
  <2>6. Buf!Stretch(c)
    BY <1>12, <2>2, <2>5 DEF Buf!Stretch
  <2>7. c.tail[1][1] = H + c.dropped
    BY <1>1, <1>5, <1>12, <2>2
  <2>8. Loose(c, n)
    BY <1>12, <2>2, <2>3, <2>4, <2>6, <2>7 DEF Loose, T, H
  <2> QED BY <1>12, <2>1, <2>8
<1> HIDE DEF left
<1>13. CASE over <= 0
  BY <1>1, <1>4, <1>9, <1>13 DEF T
<1>14. CASE over > 0 /\ Len(t) = 1 /\ Buf!Size(front) > T
  <2>1. Buf!Evict(b) = left(<<Buf!LastBytes(front)>>, Buf!Size(front) - T)
    BY <1>4, <1>9, <1>10, <1>14
  <2>2. b.tailBytes = Buf!Size(front) /\ front[2] = n
    BY <1>3, <1>4, <1>6, <1>11, <1>14
  <2>3. PICK last : last = <<front[2] - T, front[2]>>
    OBVIOUS
  <2>4. last \in Buf!Chunk /\ last[1] = front[1] + (Buf!Size(front) - T) /\ last[2] = n
    BY <1>1, <1>8, <1>11, <1>14, <2>2, <2>3 DEF Buf!Chunk
  <2>5. <<Buf!LastBytes(front)>> = <<last>>
    BY <2>3 DEF Buf!LastBytes, T
  <2>6. Loose(Buf!Evict(b), n)
    <3>1. /\ <<last>> \in Seq(Buf!Chunk) /\ <<last>> # <<>> /\ Len(<<last>>) = 1
          /\ <<last>>[1] = last
      BY <2>4
    <3>2. Buf!Size(front) - T \in Nat /\ Buf!Size(front) - T <= b.tailBytes - T /\ b.tailBytes > T
      BY <1>1, <1>11, <1>14, <2>2
    <3> HIDE DEF over
    <3>3. <<last>>[Len(<<last>>)][2] = n /\ <<last>>[1][1] = front[1] + (Buf!Size(front) - T)
      BY <2>4, <3>1
    <3>4. \A i \in 1..(Len(<<last>>) - 1) : <<last>>[i][2] = <<last>>[i + 1][1]
      BY <3>1
    <3>5. Buf!Evict(b) = left(<<last>>, Buf!Size(front) - T)
      BY <2>1, <2>5
    <3> QED BY <1>12, <3>1, <3>2, <3>3, <3>4, <3>5
  <2>7. Buf!Evict(b).tailBytes = T
    BY <1>1, <1>4, <1>11, <2>1, <2>2 DEF left
  <2> QED BY <1>1, <1>4, <1>14, <2>6, <2>7 DEF T
<1>15. CASE over > 0 /\ ~(Len(t) = 1 /\ Buf!Size(front) > T) /\ Buf!Size(front) <= over
  <2>1. Buf!Evict(b) = left(Tail(t), Buf!Size(front))
    BY <1>4, <1>9, <1>10, <1>15
  <2>2. Len(t) >= 2
    <3>1. ASSUME Len(t) = 1 PROVE FALSE
      <4>1. b.tailBytes = Buf!Size(front)
        BY <1>3, <1>6, <1>11, <3>1
      <4>2. ~(Buf!Size(front) > T)
        BY <1>15, <3>1
      <4>3. b.tailBytes <= b.tailBytes - T /\ b.tailBytes > T
        BY <1>1, <1>15, <1>5, <4>1
      <4> QED BY <1>1, <1>11, <4>1, <4>2, <4>3
    <3>2. PICK len \in Nat : len = Len(t) /\ len # 0
      BY <1>6
    <3>3. len # 1
      BY <3>1, <3>2
    <3>4. len >= 2
      BY <3>2, <3>3
    <3> QED BY <3>2, <3>4
  <2>3. /\ Tail(t) \in Seq(Buf!Chunk) /\ Tail(t) # <<>>
        /\ Len(Tail(t)) = Len(t) - 1
        /\ \A i \in 1..(Len(t) - 1) : Tail(t)[i] = t[i + 1]
    <3>1. t \in Seq(Buf!Chunk) /\ t # <<>> /\ Len(t) \in Nat
      BY <1>4, <1>6
    <3>2. /\ Tail(t) \in Seq(Buf!Chunk) /\ Len(Tail(t)) = Len(t) - 1
          /\ \A i \in 1..(Len(t) - 1) : Tail(t)[i] = t[i + 1]
      BY <3>1
    <3>3. PICK tail : tail = Tail(t)
      OBVIOUS
    <3>4. Len(tail) >= 1
      BY <2>2, <3>1, <3>2, <3>3
    <3>5. tail # <<>>
      <4> SUFFICES ASSUME tail = <<>> PROVE FALSE
        OBVIOUS
      <4>1. Len(tail) = 0
        OBVIOUS
      <4> QED BY <3>4, <4>1
    <3> QED BY <3>2, <3>3, <3>5
  <2>4. Tail(t)[1][1] = front[1] + Buf!Size(front)
    BY <1>3, <1>6, <1>8, <1>11, <2>2, <2>3
  <2>5. Tail(t)[Len(Tail(t))][2] = n
    BY <1>4, <1>6, <2>2, <2>3
  <2>6. \A i \in 1..(Len(Tail(t)) - 1) : Tail(t)[i][2] = Tail(t)[i + 1][1]
    <3> TAKE i \in 1..(Len(Tail(t)) - 1)
    <3>1. i \in 1..(Len(t) - 1) /\ i + 1 \in 1..(Len(t) - 1)
      BY <1>6, <2>2, <2>3
    <3> QED BY <1>6, <2>3, <3>1
  <2>7. Loose(Buf!Evict(b), n)
    <3>1. b.tailBytes > T /\ Buf!Size(front) <= b.tailBytes - T
      BY <1>1, <1>15, <1>5
    <3> HIDE DEF over
    <3> QED BY <1>11, <1>12, <2>1, <2>3, <2>4, <2>5, <2>6, <3>1
  <2>8. Buf!Evict(b).tail = Tail(t)
    BY <2>1 DEF left
  <2> QED BY <1>1, <1>2, <1>4, <1>15, <2>3, <2>7, <2>8 DEF T
<1>16. CASE over > 0 /\ Buf!Size(front) > over /\ ~(Len(t) = 1 /\ Buf!Size(front) > T)
  <2>1. PICK cut : cut = <<front[1] + over, front[2]>>
    OBVIOUS
  <2>2. PICK tail : tail = [t EXCEPT ![1] = cut]
    OBVIOUS
  <2>3. Buf!Evict(b) = left(tail, over)
    BY <1>4, <1>9, <1>10, <1>11, <1>16, <2>1, <2>2
  <2>4. cut \in Buf!Chunk /\ cut[1] = front[1] + over /\ cut[2] = front[2]
    BY <1>8, <1>10, <1>11, <1>16, <2>1 DEF Buf!Chunk
  <2>5. /\ tail \in Seq(Buf!Chunk) /\ tail # <<>> /\ Len(tail) = Len(t)
        /\ tail[1] = cut /\ \A i \in 2..Len(t) : tail[i] = t[i]
    BY <1>4, <1>6, <2>2, <2>4
  <2>6. tail[Len(tail)][2] = n
    <3>1. CASE Len(t) = 1
      BY <1>3, <1>4, <2>4, <2>5, <3>1
    <3>2. CASE Len(t) # 1
      <4>1. PICK len \in Nat : len = Len(t) /\ len # 0 /\ len # 1
        BY <1>6, <3>2
      <4>2. len \in 2..len
        BY <4>1
      <4> QED BY <1>4, <2>5, <4>1, <4>2
    <3> QED BY <3>1, <3>2
  <2>7. \A i \in 1..(Len(tail) - 1) : tail[i][2] = tail[i + 1][1]
    BY <1>3, <1>6, <2>4, <2>5
  <2>8. over \in Nat
    BY <1>10, <1>16
  <2>9. Loose(Buf!Evict(b), n)
    <3>1. b.tailBytes > T /\ over <= b.tailBytes - T
      BY <1>1, <1>16, <1>5
    <3>2. tail[1][1] = front[1] + over
      BY <2>4, <2>5
    <3> HIDE DEF over
    <3> QED BY <1>12, <2>3, <2>5, <2>6, <2>7, <2>8, <3>1, <3>2
  <2>10. Buf!Evict(b).tailBytes = T
    BY <1>1, <1>4, <2>3 DEF left
  <2> QED BY <1>1, <1>4, <1>16, <2>9, <2>10 DEF T
<1> QED BY <1>10, <1>11, <1>1, <1>13, <1>14, <1>15, <1>16

(* After as many turns as there were chunks the loop has ended: the tail    *)
(* fits its share.                                                          *)
LEMMA EvictedEnds ==
  ASSUME NEW n \in Nat, NEW b, Loose(b, n)
  PROVE  LET e == Buf!Evicted(b)[Len(b.tail)] IN
         Loose(e, n) /\ e.tailBytes <= Buf!TailCap
<1>1. PICK len \in Nat : len = Len(b.tail)
  BY DEF Loose, Rec
<1>2. PICK f : f = Buf!Evicted(b)
  OBVIOUS
<1>3. /\ f[0] = b
      /\ \A k \in 1..len : f[k] = Buf!Evict(f[k - 1])
  <2>1. f = [k \in 0..len |-> IF k = 0 THEN b ELSE Buf!Evict(f[k - 1])]
    BY <1>1, <1>2, EvictedUnfolds
  <2> QED BY <2>1
<1> DEFINE Ok(k) == /\ Loose(f[k], n)
                    /\ f[k].tailBytes <= Buf!TailCap \/ Len(f[k].tail) = len - k
           S == {k \in Nat : k <= len => Ok(k)}
<1>4. 0 \in S
  BY <1>1, <1>3
<1>5. \A k \in Nat : k \in S => k + 1 \in S
  <2> SUFFICES ASSUME NEW k \in Nat, k + 1 <= len, Ok(k)
               PROVE  Ok(k + 1)
    <3> HIDE DEF Ok
    <3>1. \A k \in Nat : k + 1 <= len => k <= len
      BY <1>1
    <3> QED BY <3>1
  <2>1. f[k + 1] = Buf!Evict(f[k])
    BY <1>3
  <2>2. /\ Loose(Buf!Evict(f[k]), n)
        /\ f[k].tailBytes <= Buf!TailCap => Buf!Evict(f[k]) = f[k]
        /\ \/ Buf!Evict(f[k]).tailBytes <= Buf!TailCap
           \/ Len(Buf!Evict(f[k]).tail) = Len(f[k].tail) - 1
    BY EvictKeeps
  <2>3. CASE f[k].tailBytes <= Buf!TailCap
    BY <2>1, <2>2, <2>3
  <2>4. CASE Len(f[k].tail) = len - k
    BY <2>1, <2>2, <2>4
  <2> QED BY <2>3, <2>4
<1>6. Ok(len)
  <2> HIDE DEF Ok
  <2>1. Nat \subseteq S
    <3> HIDE DEF S
    <3> QED BY <1>4, <1>5, NatSetInduction
  <2> QED BY <2>1
<1>7. Len(f[len].tail) # len - len
  <2>1. f[len].tail \in Seq(Buf!Chunk) /\ f[len].tail # <<>>
    BY <1>6 DEF Loose, Rec
  <2> QED BY <2>1
<1> QED BY <1>1, <1>2, <1>6, <1>7

LEMMA Wider ==
  ASSUME NEW a \in Nat, NEW b \in Nat, NEW c \in Nat, NEW d \in Nat, a <= b, c <= d,
         NEW x \in (b + 1)..c
  PROVE  x \in (a + 1)..d
<1>1. x \in Int /\ b + 1 <= x /\ x <= c
  OBVIOUS
<1> QED BY <1>1

(* Chunks that follow each other hold every byte from the first's start to  *)
(* the last's end.                                                          *)
LEMMA StretchCovers ==
  ASSUME NEW t \in Seq(Buf!Chunk), t # <<>>,
         \A i \in 1..(Len(t) - 1) : t[i][2] = t[i + 1][1]
  PROVE  /\ t[1][1] \in Nat /\ t[Len(t)][2] \in Nat /\ t[1][1] <= t[Len(t)][2]
         /\ UNION {(t[i][1] + 1)..t[i][2] : i \in DOMAIN t} = (t[1][1] + 1)..t[Len(t)][2]
<1>1. PICK len \in Nat : len = Len(t) /\ len # 0 /\ DOMAIN t = 1..len
  OBVIOUS
<1>2. \A i \in 1..len : t[i][1] \in Nat /\ t[i][2] \in Nat /\ t[i][1] <= t[i][2]
  BY <1>1 DEF Buf!Chunk
<1>3. \A i \in Nat : i + 1 <= len /\ i # 0 => t[i][2] = t[i + 1][1]
  BY <1>1
<1> DEFINE Low == {k \in Nat : k + 1 <= len => t[1][1] <= t[k + 1][1]}
           Up == {k \in Nat : k + 1 <= len => t[len - k][2] <= t[len][2]}
           Least == {k \in Nat : \A x \in Nat :
                       k + 1 <= len /\ t[1][1] < x /\ x <= t[k + 1][2]
                         => \E i \in 1..len : x \in (t[i][1] + 1)..t[i][2]}
<1>4. Nat \subseteq Low
  <2>1. 0 \in Low
    BY <1>1, <1>2
  <2>2. ASSUME NEW k \in Nat, k \in Low PROVE k + 1 \in Low
    <3> SUFFICES ASSUME (k + 1) + 1 <= len PROVE t[1][1] <= t[(k + 1) + 1][1]
      OBVIOUS
    <3>1. t[1][1] <= t[k + 1][1] /\ t[k + 1][1] <= t[k + 1][2]
      BY <1>2, <2>2
    <3>2. t[k + 1][2] = t[(k + 1) + 1][1]
      BY <1>3
    <3>3. 1 \in 1..len /\ k + 1 \in 1..len /\ (k + 1) + 1 \in 1..len
      BY <1>1
    <3> QED BY <1>2, <3>1, <3>2, <3>3
  <2> HIDE DEF Low
  <2> QED BY <2>1, <2>2, NatSetInduction
<1>5. Nat \subseteq Up
  <2>1. 0 \in Up
    <3>1. len - 0 = len /\ len \in 1..len
      BY <1>1
    <3> QED BY <1>2, <3>1
  <2>2. ASSUME NEW k \in Nat, k \in Up PROVE k + 1 \in Up
    <3> SUFFICES ASSUME (k + 1) + 1 <= len PROVE t[len - (k + 1)][2] <= t[len][2]
      OBVIOUS
    <3>1. PICK i : i = len - (k + 1)
      OBVIOUS
    <3>2. i \in Nat /\ i # 0 /\ i + 1 <= len /\ i + 1 = len - k
      BY <1>1, <3>1
    <3>3. t[i + 1][2] <= t[len][2]
      BY <2>2, <3>2
    <3>4. i \in 1..len /\ i + 1 \in 1..len /\ len \in 1..len
      BY <1>1, <3>2
    <3>5. t[i][2] = t[i + 1][1] /\ t[i + 1][1] <= t[i + 1][2]
      BY <1>2, <1>3, <3>2, <3>4
    <3> QED BY <1>2, <3>1, <3>3, <3>4, <3>5
  <2> HIDE DEF Up
  <2> QED BY <2>1, <2>2, NatSetInduction
<1>6. Nat \subseteq Least
  <2>1. 0 \in Least
    <3> SUFFICES ASSUME NEW x \in Nat, 0 + 1 <= len, t[1][1] < x, x <= t[0 + 1][2]
                 PROVE  \E i \in 1..len : x \in (t[i][1] + 1)..t[i][2]
      OBVIOUS
    <3>1. 1 \in 1..len /\ x \in (t[1][1] + 1)..t[1][2]
      BY <1>2
    <3> QED BY <3>1
  <2>2. ASSUME NEW k \in Nat, k \in Least PROVE k + 1 \in Least
    <3> SUFFICES ASSUME NEW x \in Nat, (k + 1) + 1 <= len, t[1][1] < x,
                        x <= t[(k + 1) + 1][2]
                 PROVE  \E i \in 1..len : x \in (t[i][1] + 1)..t[i][2]
      OBVIOUS
    <3>1. k + 1 \in 1..len /\ (k + 1) + 1 \in 1..len /\ t[k + 1][2] = t[(k + 1) + 1][1]
      BY <1>1, <1>3
    <3>2. CASE x <= t[k + 1][2]
      BY <2>2, <3>2
    <3>3. CASE ~(x <= t[k + 1][2])
      <4>1. x \in (t[(k + 1) + 1][1] + 1)..t[(k + 1) + 1][2]
        BY <1>2, <3>1, <3>3
      <4> QED BY <3>1, <4>1
    <3> QED BY <3>2, <3>3
  <2> HIDE DEF Least
  <2> QED BY <2>1, <2>2, NatSetInduction
<1>7. \A i \in 1..len : t[1][1] <= t[i][1] /\ t[i][2] <= t[len][2]
  <2> TAKE i \in 1..len
  <2>1. i - 1 \in Nat /\ (i - 1) + 1 = i /\ len - i \in Nat /\ len - (len - i) = i
    BY <1>1
  <2>2. i - 1 \in Low /\ len - i \in Up
    BY <1>4, <1>5, <2>1
  <2> QED BY <1>1, <2>1, <2>2
<1>8. \A x \in Nat : t[1][1] < x /\ x <= t[len][2] => \E i \in 1..len : x \in (t[i][1] + 1)..t[i][2]
  <2>1. len - 1 \in Nat /\ (len - 1) + 1 = len
    BY <1>1
  <2>2. len - 1 \in Least
    <3> HIDE DEF Least
    <3> QED BY <1>6, <2>1
  <2> QED BY <2>1, <2>2
<1> HIDE DEF Low, Up, Least
<1>9. 1 \in 1..len /\ len \in 1..len
  BY <1>1
<1>10. /\ t[1][1] \in Nat /\ t[1][2] \in Nat /\ t[1][1] <= t[1][2]
       /\ t[len][2] \in Nat /\ t[1][2] <= t[len][2]
  BY <1>2, <1>7, <1>9
<1>11. \A x : (\E i \in 1..len : x \in (t[i][1] + 1)..t[i][2]) <=> x \in (t[1][1] + 1)..t[len][2]
  <2> TAKE x
  <2>1. ASSUME NEW i \in 1..len, x \in (t[i][1] + 1)..t[i][2]
        PROVE  x \in (t[1][1] + 1)..t[len][2]
    <3>1. t[1][1] <= t[i][1] /\ t[i][2] <= t[len][2]
      BY <1>7
    <3>2. t[i][1] \in Nat /\ t[i][2] \in Nat
      BY <1>2
    <3>3. t[1][1] \in Nat /\ t[len][2] \in Nat
      BY <1>10
    <3>4. PICK a, b, c, d : a = t[1][1] /\ b = t[i][1] /\ c = t[i][2] /\ d = t[len][2]
      OBVIOUS
    <3>5. a \in Nat /\ b \in Nat /\ c \in Nat /\ d \in Nat /\ a <= b /\ c <= d
      BY <3>1, <3>2, <3>3, <3>4
    <3>6. x \in (b + 1)..c
      BY <2>1, <3>4
    <3>7. x \in (a + 1)..d
      BY <3>5, <3>6, Wider
    <3> QED BY <3>4, <3>7
  <2>2. ASSUME x \in (t[1][1] + 1)..t[len][2]
        PROVE  \E i \in 1..len : x \in (t[i][1] + 1)..t[i][2]
    <3>1. x \in Nat /\ t[1][1] < x /\ x <= t[len][2]
      BY <1>10, <2>2
    <3> QED BY <1>8, <3>1
  <2> QED BY <2>1, <2>2
<1>12. UNION {(t[i][1] + 1)..t[i][2] : i \in 1..len} = (t[1][1] + 1)..t[len][2]
  BY <1>11
<1> QED BY <1>1, <1>10, <1>12

\* A buffer that has seen n bytes.
Held(b, n) ==
  IF n <= Buf!HeadCap
  THEN b = [head |-> n, tail |-> <<>>, tailBytes |-> 0, dropped |-> 0]
  ELSE Loose(b, n) /\ b.tailBytes <= Buf!TailCap

(* A chunk of output, however long, is added to what is held.               *)
LEMMA PushKeeps ==
  ASSUME NEW n \in Nat, NEW k \in Nat, k # 0, NEW b, Held(b, n)
  PROVE  Held(Buf!Push(b, <<n, n + k>>), n + k)
<1> DEFINE H == Buf!HeadCap
<1>1. H \in Nat /\ Buf!TailCap \in Nat
  BY CapSplit
<1> HIDE DEF H
<1>2. PICK c : c = <<n, n + k>>
  OBVIOUS
<1>3. c[1] = n /\ c[2] = n + k /\ Buf!Size(c) = k
  BY <1>2 DEF Buf!Size
<1>4. b.head \in Nat /\ b.head <= H /\ (n < H => b.head = n) /\ (n >= H => b.head = H)
  BY <1>1 DEF Held, Loose, H
<1>5. PICK fit : fit = IF k <= H - b.head THEN k ELSE H - b.head
  OBVIOUS
<1>6. fit \in Nat /\ fit <= k
  BY <1>1, <1>4, <1>5
<1> DEFINE rest == <<n + fit, n + k>>
           full == [head |-> b.head + fit, tail |-> Append(b.tail, rest),
                    tailBytes |-> b.tailBytes + (k - fit), dropped |-> b.dropped]
<1>7. Buf!Push(b, c) = IF fit = k /\ b.head < H
                       THEN [b EXCEPT !.head = @ + fit]
                       ELSE Buf!Evicted(full)[Len(full.tail)]
  <2>1. Buf!Size(rest) = k - fit
    BY <1>6 DEF Buf!Size
  <2>2. <<c[1] + fit, c[2]>> = rest
    BY <1>3
  <2> HIDE DEF rest
  <2> QED BY <1>3, <1>5, <2>1, <2>2 DEF Buf!Push, H
<1>8. CASE fit = k /\ b.head < H
  <2>1. n < H /\ b.head = n /\ n + k <= H
    BY <1>1, <1>4, <1>5, <1>8
  <2>2. b = [head |-> n, tail |-> <<>>, tailBytes |-> 0, dropped |-> 0]
    BY <1>1, <2>1 DEF Held, H
  <2>3. [b EXCEPT !.head = @ + fit] =
          [head |-> n + k, tail |-> <<>>, tailBytes |-> 0, dropped |-> 0]
    BY <1>8, <2>2
  <2> QED BY <1>2, <1>7, <1>8, <2>1, <2>3 DEF Held, H
<1>9. CASE ~(fit = k /\ b.head < H)
  <2>1. n + k > H /\ b.head + fit = H /\ fit <= k
    BY <1>1, <1>4, <1>5, <1>6, <1>9
  <2>2. rest \in Buf!Chunk /\ rest[1] = n + fit /\ rest[2] = n + k
    BY <1>6 DEF Buf!Chunk
  <2>3. PICK r : r = rest
    OBVIOUS
  <2>4. full.head = H /\ full.tail = Append(b.tail, r)
        /\ full.tailBytes = b.tailBytes + (k - fit) /\ full.dropped = b.dropped
    BY <2>1, <2>3
  <2>5. full = [head |-> full.head, tail |-> full.tail, tailBytes |-> full.tailBytes,
                dropped |-> full.dropped]
    BY <2>3
  <2>6. PICK g : g = full
    OBVIOUS
  <2>7. /\ g.head = H /\ g.tail = Append(b.tail, r)
        /\ g.tailBytes = b.tailBytes + (k - fit) /\ g.dropped = b.dropped
        /\ g = [head |-> g.head, tail |-> g.tail, tailBytes |-> g.tailBytes,
                dropped |-> g.dropped]
    BY <2>4, <2>5, <2>6
  <2>8. r \in Buf!Chunk /\ r[1] = n + fit /\ r[2] = n + k
    BY <2>2, <2>3
  <2>9. Buf!Push(b, c) = Buf!Evicted(g)[Len(g.tail)]
    BY <1>7, <1>9, <2>6
  <2> HIDE DEF full, rest
  <2>10. Loose(g, n + k)
    <3>1. CASE n <= H
      <4>1. b = [head |-> n, tail |-> <<>>, tailBytes |-> 0, dropped |-> 0]
        BY <3>1 DEF Held, H
      <4>2. b.head = n /\ b.tail = <<>> /\ b.tailBytes = 0 /\ b.dropped = 0
        BY <4>1
      <4>3. /\ Append(b.tail, r) = <<r>> /\ <<r>> \in Seq(Buf!Chunk)
            /\ Len(<<r>>) = 1 /\ <<r>>[1] = r /\ <<r>> # <<>>
        BY <2>8, <4>2
      <4>4. n + fit = H
        BY <2>1, <4>2
      <4>5. g.tail = <<r>> /\ g.tailBytes = k - fit /\ g.dropped = 0
        BY <1>6, <2>7, <4>2, <4>3
      <4>6. k - fit \in Nat /\ k - fit = r[2] - r[1]
        BY <1>6, <2>8
      <4>7. g \in Rec
        <5>1. g = [head |-> H, tail |-> <<r>>, tailBytes |-> k - fit, dropped |-> 0]
          BY <2>7, <4>5
        <5>2. H \in Nat /\ <<r>> \in Seq(Buf!Chunk) /\ k - fit \in Nat
          BY <1>1, <4>3, <4>6
        <5> QED BY <5>1, <5>2 DEF Rec
      <4>8. Buf!Stretch(g)
        BY <4>3, <4>5, <4>6 DEF Buf!Stretch
      <4> QED BY <1>1, <2>7, <2>8, <4>3, <4>4, <4>5, <4>7, <4>8 DEF Loose, H
    <3>2. CASE ~(n <= H)
      <4>1. Loose(b, n)
        BY <3>2 DEF Held, H
      <4>2. fit = 0
        <5>1. b.head = H
          BY <4>1 DEF Loose, H
        <5> QED BY <1>1, <1>6, <2>1, <5>1
      <4>3. PICK t : t = b.tail
        OBVIOUS
      <4>4. t \in Seq(Buf!Chunk) /\ t # <<>> /\ b.tailBytes \in Nat /\ b.dropped \in Nat
        BY <4>1, <4>3 DEF Loose, Rec
      <4>5. PICK len \in Nat : len = Len(t) /\ len # 0
        BY <4>4
      <4>6. /\ \A i \in 1..(len - 1) : t[i][2] = t[i + 1][1]
            /\ b.tailBytes = t[len][2] - t[1][1]
            /\ t[len][2] = n /\ t[1][1] = H + b.dropped
            /\ b.dropped > 0 => b.tailBytes >= Buf!TailCap
        BY <4>1, <4>3, <4>4, <4>5 DEF Loose, Buf!Stretch, H
      <4>7. PICK s : s = Append(t, r)
        OBVIOUS
      <4>8. /\ s \in Seq(Buf!Chunk) /\ Len(s) = len + 1 /\ s # <<>>
            /\ s[len + 1] = r /\ \A i \in 1..len : s[i] = t[i]
        BY <2>8, <4>4, <4>5, <4>7
      <4>9. \A i \in 1..(Len(s) - 1) : s[i][2] = s[i + 1][1]
        <5> TAKE i \in 1..(Len(s) - 1)
        <5>1. CASE i = len
          <6>1. len \in 1..len /\ s[len] = t[len]
            BY <4>5, <4>8
          <6> QED BY <2>8, <4>2, <4>6, <4>8, <5>1, <6>1
        <5>2. CASE i # len
          <6>1. i \in 1..(len - 1) /\ i \in 1..len /\ i + 1 \in 1..len
            BY <4>5, <4>8, <5>2
          <6> QED BY <4>6, <4>8, <6>1
        <5> QED BY <5>1, <5>2
      <4>10. s[1] = t[1]
        <5>1. 1 \in 1..len
          BY <4>5
        <5> QED BY <4>8, <5>1
      <4>11. g.tail = s /\ g.tailBytes = b.tailBytes + k /\ g.dropped = b.dropped
        BY <2>7, <4>2, <4>3, <4>7
      <4>12. g \in Rec
        BY <1>1, <2>7, <4>4, <4>8, <4>11 DEF Rec
      <4>13. g.tailBytes = s[Len(s)][2] - s[1][1]
        BY <1>1, <2>8, <4>4, <4>6, <4>8, <4>10, <4>11, SMTT(20)
      <4>14. Buf!Stretch(g)
        BY <4>8, <4>9, <4>11, <4>13 DEF Buf!Stretch
      <4>15. g.dropped > 0 => g.tailBytes >= Buf!TailCap
        BY <1>1, <4>4, <4>6, <4>11, SMTT(20)
      <4> QED BY <2>7, <2>8, <4>6, <4>8, <4>10, <4>11, <4>12, <4>14, <4>15 DEF Loose, H
    <3> QED BY <3>1, <3>2
  <2>11. /\ Loose(Buf!Evicted(g)[Len(g.tail)], n + k)
         /\ Buf!Evicted(g)[Len(g.tail)].tailBytes <= Buf!TailCap
    BY <2>10, EvictedEnds
  <2> QED BY <1>1, <1>2, <2>1, <2>9, <2>11 DEF Held, H
<1> QED BY <1>8, <1>9

(* What is held are the ends of the output, and what is not was counted.    *)
LEMMA HeldEnds ==
  ASSUME NEW n \in Nat, NEW b, Held(b, n)
  PROVE  /\ b \in Buf!Buffer
         /\ Buf!Kept(b) = Buf!Ends(n)
         /\ b.dropped = n - Cardinality(Buf!Ends(n))
<1> DEFINE H == Buf!HeadCap
           T == Buf!TailCap
<1>1. H \in Nat /\ T \in Nat /\ Cap = H + T
  BY CapSplit
<1> HIDE DEF H, T
<1>2. \A m \in Nat : IsFiniteSet(1..m) /\ Cardinality(1..m) = m
  BY FS_Interval
<1>3. CASE n <= H
  <2>1. b = [head |-> n, tail |-> <<>>, tailBytes |-> 0, dropped |-> 0]
    BY <1>3 DEF Held, H
  <2>2. b.head = n /\ b.tail = <<>> /\ b.tailBytes = 0 /\ b.dropped = 0
    BY <2>1
  <2>3. b \in Buf!Fields
    BY <1>1, <1>3, <2>1 DEF Buf!Fields, H, T
  <2>4. Buf!Stretch(b)
    BY <2>2 DEF Buf!Stretch
  <2>5. Buf!Kept(b) = 1..n
    BY <2>2 DEF Buf!Kept
  <2>6. Buf!Ends(n) = 1..n
    BY <1>1, <1>3 DEF Buf!Ends
  <2> QED BY <1>2, <2>2, <2>3, <2>4, <2>5, <2>6 DEF Buf!Buffer
<1>4. CASE n > H
  <2>1. Loose(b, n) /\ b.tailBytes <= T
    BY <1>1, <1>4 DEF Held, H, T
  <2>2. PICK t : t = b.tail
    OBVIOUS
  <2>3. /\ b \in Rec /\ Buf!Stretch(b) /\ b.head = H
        /\ t \in Seq(Buf!Chunk) /\ t # <<>> /\ b.tailBytes \in Nat /\ b.dropped \in Nat
        /\ b.tailBytes = n - (H + b.dropped)
        /\ b.dropped > 0 => b.tailBytes >= T
        /\ t[1][1] = H + b.dropped /\ t[Len(t)][2] = n
        /\ \A i \in 1..(Len(t) - 1) : t[i][2] = t[i + 1][1]
    BY <2>1, <2>2 DEF Loose, Rec, Buf!Stretch, H, T
  <2>4. b \in Buf!Buffer
    <3>1. b.head \in 0..H /\ b.tailBytes \in 0..T
      BY <1>1, <2>1, <2>3
    <3>2. b \in Buf!Fields
      BY <2>2, <2>3, <3>1 DEF Rec, Buf!Fields, H, T
    <3> QED BY <2>3, <3>2 DEF Buf!Buffer
  <2>5. Buf!Kept(b) = 1..H \cup (H + b.dropped + 1)..n
    <3>1. UNION {(t[i][1] + 1)..t[i][2] : i \in DOMAIN t} = (t[1][1] + 1)..t[Len(t)][2]
      BY <2>3, StretchCovers
    <3> QED BY <2>2, <2>3, <3>1 DEF Buf!Kept
  <2>6. CASE n <= Cap
    <3>1. b.dropped = 0
      BY <1>1, <2>1, <2>3, <2>6
    <3>2. 1..H \cup (H + b.dropped + 1)..n = 1..n
      BY <1>1, <1>4, <3>1
    <3>3. Buf!Ends(n) = 1..n
      BY <2>6 DEF Buf!Ends
    <3> QED BY <1>2, <2>4, <2>5, <3>1, <3>2, <3>3
  <2>7. CASE ~(n <= Cap)
    <3>1. b.dropped = n - Cap
      BY <1>1, <2>1, <2>3, <2>7
    <3>2. H + b.dropped + 1 = n - T + 1
      BY <1>1, <3>1
    <3>3. Buf!Ends(n) = 1..H \cup (n - T + 1)..n
      BY <2>7 DEF Buf!Ends, H, T
    <3>4. PICK first \in Nat : first = n - T + 1 /\ H < first /\ first <= n + 1
      BY <1>1, <2>7
    <3>5. IsFiniteSet(first..n) /\ Cardinality(first..n) = T
      <4>1. IsFiniteSet(first..n) /\ Cardinality(first..n) = IF first > n THEN 0 ELSE n - first + 1
        <5>1. first \in Int /\ n \in Int
          BY <3>4
        <5> QED BY <5>1, FS_Interval, Zenon
      <4>2. (IF first > n THEN 0 ELSE n - first + 1) = T
        BY <1>1, <3>4
      <4> QED BY <4>1, <4>2
    <3>6. 1..H \cap first..n = {}
      BY <1>1, <3>4
    <3>7. Cardinality(1..H \cup first..n) = H + T - Cardinality(1..H \cap first..n)
      BY <1>1, <1>2, <3>5, FS_Union
    <3>8. Cardinality(1..H \cup first..n) = Cap
      <4>1. Cardinality(1..H \cap first..n) = 0
        BY <3>6, FS_EmptySet
      <4> QED BY <1>1, <3>7, <4>1
    <3> QED BY <1>1, <2>4, <2>5, <3>1, <3>2, <3>3, <3>4, <3>8
  <2> QED BY <2>6, <2>7
<1> QED BY <1>1, <1>3, <1>4

OutputInv ==
  /\ got \in [Calls -> Nat]
  /\ DOMAIN output = Calls
  /\ \A c \in Calls : Held(output[c], got[c])

(* However a process's output is cut into chunks, the buffer holds its      *)
(* first and last bytes, no more than Cap of them, and counts the rest.     *)
THEOREM EndsKept == Spec => []EndsAreKept
<1>1. Init => OutputInv
  <2> SUFFICES ASSUME Init PROVE OutputInv
    OBVIOUS
  <2>1. Held(Buf!Empty, 0)
    BY CapSplit DEF Held, Buf!Empty
  <2> QED BY <2>1 DEF Init, OutputInv
<1>2. OutputInv /\ [Next]_vars => OutputInv'
  <2> SUFFICES ASSUME OutputInv, [Next]_vars PROVE OutputInv'
    OBVIOUS
  <2>1. ASSUME NEW c \in Calls, NEW n \in 1..Talk[c], Read(c, n) PROVE OutputInv'
    <3>1. n \in Nat /\ n # 0
      BY HandsAssumption
    <3>2. /\ got' = [got EXCEPT ![c] = @ + n]
          /\ output' = [output EXCEPT ![c] = Buf!Push(@, <<got[c], got[c] + n>>)]
      BY <2>1 DEF Read
    <3>3. got[c] \in Nat /\ Held(output[c], got[c])
      BY DEF OutputInv
    <3>4. Held(Buf!Push(output[c], <<got[c], got[c] + n>>), got[c] + n)
      BY <3>1, <3>3, PushKeeps
    <3>5. got' \in [Calls -> Nat] /\ DOMAIN output' = Calls
      BY <3>1, <3>2, <3>3 DEF OutputInv
    <3>6. \A d \in Calls :
            /\ got'[d] = IF d = c THEN got[c] + n ELSE got[d]
            /\ output'[d] = IF d = c THEN Buf!Push(output[c], <<got[c], got[c] + n>>)
                            ELSE output[d]
      BY <3>2 DEF OutputInv
    <3> QED BY <3>4, <3>5, <3>6 DEF OutputInv
  <2>2. CASE UNCHANGED pipeVars
    BY <2>2 DEF OutputInv, pipeVars
  <2> QED
    BY <2>1, <2>2
    DEF Next, vars, Register, Reload, Load, Invoke, Stash, Confirm, Exit, Finish, TimeUp,
        Kill, Tick, Shutdown, Quit
<1>3. OutputInv => EndsAreKept
  BY HeldEnds DEF OutputInv, EndsAreKept
<1> QED BY <1>1, <1>2, <1>3, PTL DEF Spec

=============================================================================
