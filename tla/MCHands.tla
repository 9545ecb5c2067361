------------------------------ MODULE MCHands ------------------------------
(* Two projects; a tool that runs at once and talks, and one that is asked   *)
(* about first.                                                              *)
EXTENDS Hands, TLC

CONSTANTS p, q, build, deploy

ProjectOfCall == build :> p @@ deploy :> p
TalkOfCall == build :> 5 @@ deploy :> 0
============================================================================
