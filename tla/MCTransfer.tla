------------------------------ MODULE MCTransfer ------------------------------
(* Short files; the constants are in the .cfg file.                        *)
EXTENDS Transfer
===============================================================================
