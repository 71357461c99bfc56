----------------------- MODULE MCPersistentSnapshots -----------------------
(* Small instances of PersistentSnapshots for TLC. *)
EXTENDS PersistentSnapshots
=============================================================================
