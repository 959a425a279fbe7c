------------------------------ MODULE MCControl ------------------------------
(* The control connection; the constants are in the .cfg files.            *)
EXTENDS Control
===============================================================================
