------------------------- MODULE MCServerLifecycle --------------------------
(***************************************************************************)
(* Small instance of ServerLifecycle: two connections for one descriptor,  *)
(* so that accept4() fails, and one worker, the default of db_executor.    *)
(***************************************************************************)
EXTENDS ServerLifecycle

=============================================================================
