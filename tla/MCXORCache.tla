----------------------------- MODULE MCXORCache -----------------------------
(* Small filters for TLC.  Bytes of two bits, so that a byte can be shared. *)
EXTENDS XORCache

\* k1 and k2 meet in byte 0 with different bits and lose each other's updates; k3 is
\* safe, shares one bit with each of them, and is a false positive once both are in.
MixedPos == [k \in {"k1", "k2", "k3"} |->
               CASE k = "k1" -> <<0, 4>>
                 [] k = "k2" -> <<1, 6>>
                 [] k = "k3" -> <<4, 6>>]

TwoKeyPos == [k \in {"k1", "k2"} |-> IF k = "k1" THEN <<0, 2>> ELSE <<1, 2>>]
=============================================================================
