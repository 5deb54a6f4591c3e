------------------------------ MODULE MCLogger ------------------------------
(* A small instance of Logger for TLC: its constants are in Logger.cfg. *)
EXTENDS Logger
=============================================================================
