--------------------------- MODULE MCServerPlugin ---------------------------
(* The server plugin with the constants of the .cfg files. *)
EXTENDS ServerPlugin
=============================================================================
