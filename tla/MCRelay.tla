------------------------------- MODULE MCRelay -------------------------------
(* Two machines that create, edit, tag and delete one file and retry freely. *)
EXTENDS Relay, TLC

CONSTANTS m1, m2, g1

Row(gid, kind) == [gid |-> gid, kind |-> kind]

\* m1 creates and tags the file, m2 edits and deletes it: the metadata family
\* beside the content family whose delete tombstones it.
TwoFamilies ==
  m1 :> <<Row(g1, "file.create"), Row(g1, "tag.set")>>
    @@ m2 :> <<Row(g1, "file.update"), Row(g1, "file.delete")>>
==============================================================================
