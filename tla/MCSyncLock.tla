---------------------------- MODULE MCSyncLock ----------------------------
(* Three calls of withSyncLock from processes sharing a database. *)
EXTENDS SyncLock

CONSTANTS w1, w2, w3
===========================================================================
