------------------------------ MODULE MCSpawn ------------------------------
(* Small instances of Spawn.                                               *)
EXTENDS Spawn
=============================================================================
