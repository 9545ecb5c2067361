---------------------------- MODULE MCFileStore ----------------------------
(***************************************************************************)
(* Instances of FileStore: one process, as in the web app, with its        *)
(* watcher, two users and the sync loop.                                   *)
(***************************************************************************)
EXTENDS FileStore, TLC

CONSTANTS u1, u2

Symmetric == Permutations(Users) \cup Permutations(Paths)

OneProcess == [a \in {u1, u2, Loop} |-> "web"]

Everything ==
  {"create", "update", "delete", "move", "restore", "refresh", "edit", "remove",
   "pull", "pulldelete", "pullmove", "dberror", "ioerror", "crash"}
Writes == {"create", "update", "move"}
=============================================================================
