---------------------------- MODULE MCTransfers ----------------------------
(* One transfer on a tree of a directory, a link to it and room for one or   *)
(* two more nodes: the caps of the arena are met in the middle of a mirror,  *)
(* and a target with `..` finds room.                                        *)
EXTENDS Transfers

CONSTANTS usr, bin, tmp     \* the directory, the link to it, another name

MCPaths   == {<<tmp>>, <<tmp, usr>>}
MCTargets == {<<>>, <<usr>>, <<bin>>, <<tmp>>, <<Up>>, <<tmp, Up>>}
MCOffsets == {0, 1}
MCChunks  == {2}
=============================================================================
