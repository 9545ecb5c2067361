------------------------------ MODULE MCJournals ------------------------------
(* Two machines that may both write, three blocks between them. *)
EXTENDS Journals
=============================================================================
