----------------------------- MODULE MCDistill -----------------------------
(***************************************************************************)
(* Instances of Distill: the engine of an MCP server, the scheduler of the *)
(* web app, and journal_distill, which an agent calls when it likes.       *)
(***************************************************************************)
EXTENDS Distill, TLC

CONSTANTS engine, scheduler, tool

\* The second event and the third are told apart by their time only.
TwoAlike == [i \in 1..MaxEvents |-> IF i = 3 THEN 2 ELSE i]

\* Of each event that the mark says is done there is an entry: not so.
EachInEntry ==
  \A i \in Events : raw[i] < mark.ts \/ Key(i) \in mark.keys => InEntry(i) \/ i \in dropped

\* Nobody's entry is written over: not so.
NothingDropped == dropped = {}
============================================================================
