------------------------------- MODULE MCSync -------------------------------
(* Two machines and the file one of them creates, g1; g2 and g3 are for the *)
(* copies keep-both makes.  m1 may run two loops on its one database.       *)
EXTENDS Sync, TLC

CONSTANTS m1, m2, g1, g2, g3

OneLoopEach == m1 :> m1 @@ m2 :> m2
TwoLoops == "mcp" :> m1 @@ "web" :> m1 @@ m2 :> m2

CreatedByM1 == g1 :> m1
CopyByM2 == g1 :> m1 @@ g2 :> m2

Rows12 == m1 :> 1 @@ m2 :> 2
Rows21 == m1 :> 2 @@ m2 :> 1
Rows22 == m1 :> 2 @@ m2 :> 2
Rows32 == m1 :> 3 @@ m2 :> 2
=============================================================================
