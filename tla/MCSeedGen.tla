----------------------------- MODULE MCSeedGen -----------------------------
(* Short seeds for TLC: with and without validation, with and without jumps. *)
EXTENDS SeedGen

MCOptions == [eliminate : BOOLEAN, jumps : BOOLEAN]
EliminateAndJump == {[eliminate |-> TRUE, jumps |-> TRUE]}
=============================================================================
