------------------------------ MODULE MCStage ------------------------------
(* What generates, filters and mutates the instructions of a seed: InstrGen, *)
(* Filters and Mutator.  They share the tables but no state, so TLC explores *)
(* them side by side instead of their product.  The filters' candidates are  *)
(* every instruction that rounds, those that write CSRs, a load, and one the *)
(* alignment filter takes for a store.                                       *)
EXTENDS InstrGen, Mutator, Filters
VARIABLE side

GenSide(A) == side = "generate" /\ A /\ UNCHANGED <<side, mvars, fvars>>
MutSide(A) == side = "mutate" /\ A /\ UNCHANGED <<side, gvars, fvars>>
FilterSide(A) == side = "filter" /\ A /\ UNCHANGED <<side, gvars, mvars>>

StageVars == <<side, gvars, mvars, fvars>>
StageInit ==
    /\ side \in {"generate", "mutate", "filter"}
    /\ GenInit /\ MutInit /\ FiltersInit /\ (side # "generate" => profile = "rv32")
StageSpec ==
    /\ StageInit
    /\ [][GenSide(GenNext) \/ MutSide(MutNext) \/ FilterSide(FiltersNext)]_StageVars
=============================================================================
