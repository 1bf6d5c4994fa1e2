---------------------------- MODULE MCValidator ----------------------------
(* Two instructions for TLC: the key of "addi" is one field, the key of      *)
(* "csrrw" depends on both and collides.                                     *)
EXTENDS Validator

MCDigest == [i \in Instrs |-> [e \in States |->
               IF i = "addi" THEN e["gpr"] ELSE (e["gpr"] + e["csr"]) % 2]]
=============================================================================
