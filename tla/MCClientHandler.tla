--------------------------- MODULE MCClientHandler ---------------------------
(* Sessions of a few short transfers; the constants are in the .cfg files. *)
EXTENDS ClientHandler
===============================================================================
