----------------------------- MODULE MCBootstrap -----------------------------
(* A file of a project whose gid comes after the file's, and one of none. *)
EXTENDS Bootstrap, TLC

FileInLaterProject == 1 :> 3 @@ 2 :> NoProject
=============================================================================
