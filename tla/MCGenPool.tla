----------------------------- MODULE MCGenPool -----------------------------
(* A small pool for TLC: two processes, so that an old and a new call of a  *)
(* seed could run side by side, and three retry rounds.                     *)
EXTENDS GenPool
=============================================================================
