-------------------------- MODULE MCSyncCoordinator --------------------------
(***************************************************************************)
(* Small instances of SyncCoordinator for TLC.  Entities and contents are  *)
(* interchangeable: every definition treats them alike.                    *)
(***************************************************************************)
EXTENDS SyncCoordinator, TLC

Symmetry == Permutations(Entity) \cup Permutations(Value)

\* Every entry point, and those that the generations track.
Everything == AllPaths
Tracked == {"commit", "usage", "automatic"}
UsageOnly == {"usage", "automatic"}
CommitsOnly == {"commit", "automatic"}
=============================================================================
