---------------------------- MODULE AtomicEngine ----------------------------
(***************************************************************************)
(* What the validator promises of Spike's state (SpikeSession's workflow:  *)
(* "If valid: confirm (keep state)", "If invalid: restore checkpoint"):    *)
(* an accepted instruction or sequence is one atomic step, a rejected one  *)
(* is no step at all, and an instruction is accepted only in a state in    *)
(* which its key has not been accepted before.                             *)
(***************************************************************************)
CONSTANTS Instrs,      \* candidate instructions
          States,      \* states of the engine
          KeyIn(_, _)  \* the deduplication key of an instruction in a state

VARIABLES state,       \* the state of the engine between operations
          confirmed,   \* the state the last accepted operation left
          accepted     \* keys of the accepted instructions

engineVars == <<state, confirmed, accepted>>

AtomicInit ==
  /\ state \in States
  /\ confirmed = state
  /\ accepted = {}

Accept(i) ==
  /\ KeyIn(i, state) \notin accepted
  /\ accepted' = accepted \cup {KeyIn(i, state)}
  /\ state' \in States
  /\ confirmed' = state'

AcceptSequence ==
  /\ state' \in States
  /\ confirmed' = state'
  /\ UNCHANGED accepted

AtomicNext == AcceptSequence \/ \E i \in Instrs : Accept(i)

AtomicSpec == AtomicInit /\ [][AtomicNext]_engineVars
=============================================================================
