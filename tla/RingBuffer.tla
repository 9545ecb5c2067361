----------------------------- MODULE RingBuffer -----------------------------
(***************************************************************************)
(* What the executor of Hands keeps of a process's output: the first bytes *)
(* and the last ones (class RingBuffer, mcp/src/hands/executor.ts).  Bytes *)
(* are told apart by their place in the output: a chunk <<i, j>> is the    *)
(* bytes i+1 to j.                                                         *)
(***************************************************************************)
EXTENDS Integers, Sequences

CONSTANT Cap  \* maxOutputBytes

HeadCap == Cap \div 2
TailCap == Cap - HeadCap

Chunk == {c \in Nat \X Nat : c[1] <= c[2]}
Size(c) == c[2] - c[1]

\* headBytes, the chunks of the tail, tailBytes, and how many bytes were dropped.
Fields == [head : 0..HeadCap, tail : Seq(Chunk), tailBytes : 0..TailCap, dropped : Nat]
Empty == [head |-> 0, tail |-> <<>>, tailBytes |-> 0, dropped |-> 0]

\* Mutant: a chunk too large by itself loses its end.
FirstBytes(c) == <<c[1], c[1] + TailCap>>

\* A chunk too large by itself.
LastBytes(c) == <<c[2] - TailCap, c[2]>>

\* One turn of the loop that evicts from the tail's front while it overflows.
Evict(b) ==
  LET front == b.tail[1]
      over == b.tailBytes - TailCap
      left(tail, n) == [head |-> b.head, tail |-> tail,
                        tailBytes |-> b.tailBytes - n, dropped |-> b.dropped + n] IN
  IF over <= 0 \/ b.tail = <<>> THEN b
  ELSE IF Len(b.tail) = 1 /\ Size(front) > TailCap
  THEN left(<<LastBytes(front)>>, Size(front) - TailCap)
  ELSE IF Size(front) <= over THEN left(Tail(b.tail), Size(front))
  ELSE left([b.tail EXCEPT ![1] = <<front[1] + over, front[2]>>], over)

\* The loop: each turn shifts a chunk, or is the last.
Evicted(b) ==
  LET after[n \in 0..Len(b.tail)] == IF n = 0 THEN b ELSE Evict(after[n - 1])
  IN  after

\* The head takes what it still has room for; the tail gets the rest.
Push(b, c) ==
  LET fit == IF Size(c) <= HeadCap - b.head THEN Size(c) ELSE HeadCap - b.head
      rest == <<c[1] + fit, c[2]>>
      full == [head |-> b.head + fit, tail |-> Append(b.tail, rest),
               tailBytes |-> b.tailBytes + Size(rest), dropped |-> b.dropped]
  IN IF fit = Size(c) /\ b.head < HeadCap
     THEN [b EXCEPT !.head = @ + fit]
     ELSE Evicted(full)[Len(full.tail)]

-----------------------------------------------------------------------------
\* The tail is one stretch of the output, and tailBytes counts it: with the
\* head, never more than Cap bytes are held.
Stretch(b) ==
  LET t == b.tail IN
  /\ \A i \in 1..(Len(t) - 1) : t[i][2] = t[i + 1][1]
  /\ b.tailBytes = IF t = <<>> THEN 0 ELSE t[Len(t)][2] - t[1][1]

Buffer == {b \in Fields : Stretch(b)}

\* The places of the bytes that are kept.
Kept(b) ==
  1..b.head \cup UNION {(b.tail[i][1] + 1)..b.tail[i][2] : i \in DOMAIN b.tail}

\* What b must be after n bytes, however they were cut into chunks.
Ends(n) ==
  IF n <= Cap THEN 1..n ELSE 1..HeadCap \cup (n - TailCap + 1)..n
=============================================================================
