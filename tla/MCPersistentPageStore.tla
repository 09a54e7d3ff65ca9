----------------------- MODULE MCPersistentPageStore -----------------------
(* PersistentPageStore with two keys and two pages. *)
EXTENDS PersistentPageStore
=============================================================================
