-------------------------------- MODULE MCServer --------------------------------
(* Sessions in two entries beside the main thread's; liveness takes no symmetry. *)
EXTENDS Server
=============================================================================
