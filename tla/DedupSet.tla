------------------------------ MODULE DedupSet ------------------------------
(***************************************************************************)
(* What a deduplicator promises (XORCache's class comment: a combination   *)
(* "judged unique is definitely unique"): every key is accepted at most    *)
(* once, keys restored from an earlier run are never accepted again.  A    *)
(* rejection may be a false positive, so it is a stuttering step here.     *)
(***************************************************************************)
EXTENDS Naturals

CONSTANTS Keys,      \* (opcode, xor value) combinations
          Restored   \* combinations registered by an earlier run

VARIABLES known,     \* combinations the deduplicator remembers
          accepts    \* how often each combination was answered "new"

dedupVars == <<known, accepts>>

DedupInit ==
  /\ known = Restored
  /\ accepts = [k \in Keys |-> 0]

Accept(k) ==
  /\ k \notin known
  /\ known' = known \cup {k}
  /\ accepts' = [accepts EXCEPT ![k] = @ + 1]

DedupNext == \E k \in Keys : Accept(k)

DedupSpec == DedupInit /\ [][DedupNext]_dedupVars
=============================================================================
