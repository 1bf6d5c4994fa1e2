----------------------------- MODULE Validator -----------------------------
(***************************************************************************)
(* instruction_validator.py over spike_session.py: one candidate is        *)
(* deduplicated, filtered, executed in Spike under a checkpoint, filtered  *)
(* again with the states before and after, and confirmed or rolled back;   *)
(* jump and loop sequences run under a checkpoint of their own             *)
(* (execute_sequence_with_checkpoint).                                     *)
(*                                                                         *)
(* The engine is external: its state is a value per field, an execution    *)
(* may change any field, and restore_checkpoint() brings back the state of *)
(* the last set_checkpoint().  Faults are the calls that may raise.        *)
(***************************************************************************)
EXTENDS Naturals

CONSTANTS
  Instrs,   \* candidate instructions
  Fields,   \* registers, CSRs, privilege, ...: what filters read at a time (a pair that
            \* is fetched together, as privilege and virtualization, is one field)
  CSRs,     \* the fields get_all_csrs() returns
  Vals,     \* values of a field
  Digest,   \* Digest[i][e]: XOR of i's source values, hashed with its context, in state e
  Faults,   \* which calls may raise
  Unread,   \* "not fetched yet" in a lazy state
  NoState   \* "no checkpoint was ever set"

\* "set", "exec", "restore": the SpikeSession call raises.  "pre", "post": a filter
\* raises.  "log": _log_instruction raises.  "logexc": _log_exception raises.
AllFaults == {"set", "exec", "restore", "pre", "post", "log", "logexc"}
States == [Fields -> Vals]

ASSUME ValidatorAssumption ==
  /\ Faults \subseteq AllFaults
  /\ CSRs \subseteq Fields
  /\ Unread \notin Vals
  /\ NoState \notin States

VARIABLES
  pc,             \* where the validator is, "stopped" when an exception left it
  instr,          \* the candidate
  engine,         \* Spike's state
  checkpoint,     \* the state of the engine's last set_checkpoint(), or NoState
  checkpoint_set, \* SpikeSession's flag
  pre,            \* the lazy pre-execution state: fetched fields
  csrs,           \* its dictionary of all CSRs: "none", or fetched "early" (before the
                  \* execution) or "late" (after it)
  registered,     \* keys in the XOR cache
  entry,          \* history: engine when the current operation began
  early,          \* history: pre-fields fetched before the execution
  committed,      \* history: engine after the last confirmed operation
  accepted        \* history: keys of the accepted instructions

vars == <<pc, instr, engine, checkpoint, checkpoint_set, pre, csrs, registered,
          entry, early, committed, accepted>>

\* The (opcode, combined hash) combination check_and_add is asked about.  Any function
\* of the state will do, also one that maps different source values to one key.
KeyIn(i, e) == <<i, Digest[i][e]>>
Key == KeyIn(instr, entry)
Keys == {KeyIn(i, e) : i \in Instrs, e \in States}
NothingRead == [f \in Fields |-> Unread]

\* Between set_checkpoint() and the end of the operation.
Uncommitted == {"exec", "post", "log", "handler", "seqexec", "seqconfirm", "seqhandler"}

TypeOK ==
  /\ pc \in {"idle", "stopped", "pre", "checkpoint", "seqcheckpoint"} \cup Uncommitted
  /\ instr \in Instrs
  /\ engine \in States /\ entry \in States /\ committed \in States
  /\ checkpoint \in States \cup {NoState}
  /\ checkpoint_set \in BOOLEAN
  /\ pre \in [Fields -> Vals \cup {Unread}]
  /\ csrs \in {"none", "early", "late"}
  /\ registered \subseteq Keys
  /\ early \subseteq Fields
  /\ accepted \subseteq Keys

\* SpikeSession after initialize(): no checkpoint, the template's state.
Init ==
  /\ pc = "idle"
  /\ instr \in Instrs
  /\ engine \in States
  /\ checkpoint = NoState
  /\ checkpoint_set = FALSE
  /\ pre = NothingRead
  /\ csrs = "none"
  /\ registered = {}
  /\ entry = engine
  /\ early = {}
  /\ committed = engine
  /\ accepted = {}

-----------------------------------------------------------------------------
(* SpikeSession.                                                           *)
engineVars == <<engine, checkpoint, checkpoint_set>>
lazyVars == <<pre, csrs>>
historyVars == <<entry, early, committed, accepted>>

Return == pc' = "idle" /\ pre' = NothingRead /\ csrs' = "none" /\ early' = {}

\* set_checkpoint() that succeeds.
SetCheckpoint ==
  checkpoint' = engine /\ checkpoint_set' = TRUE /\ UNCHANGED engine

\* restore_checkpoint_and_reset() that succeeds.
Restore ==
  /\ checkpoint # NoState
  /\ engine' = checkpoint
  /\ checkpoint_set' = FALSE
  /\ UNCHANGED checkpoint

\* It raises: the flag stays as it is.  Without any checkpoint it always raises.
RestoreRaises == "restore" \in Faults \/ checkpoint = NoState

\* Mutant of Confirm: the flag is left set.
ConfirmKeepsFlag ==
  checkpoint_set' = checkpoint_set /\ committed' = engine
  /\ UNCHANGED <<engine, checkpoint>>

\* confirm_instruction(): the state is kept.
Confirm ==
  checkpoint_set' = FALSE /\ committed' = engine /\ UNCHANGED <<engine, checkpoint>>
-----------------------------------------------------------------------------
(* validate_instruction.                                                   *)

\* Mutant of NewKey: the answer is used, the key is not added.
NewKeyNotAdded(i) ==
  /\ pc = "idle"
  /\ KeyIn(i, engine) \notin registered
  /\ pc' = "pre" /\ instr' = i /\ entry' = engine
  /\ UNCHANGED <<engineVars, lazyVars, registered, early, committed, accepted>>

\* The candidate is encoded and parsed, and check_and_add answers "new".  The other
\* ways out so far (no encoding; "may exist", which may be a false positive) return
\* False and change nothing.
NewKey(i) ==
  /\ pc = "idle"
  /\ KeyIn(i, engine) \notin registered
  /\ registered' = registered \cup {KeyIn(i, engine)}
  /\ pc' = "pre" /\ instr' = i /\ entry' = engine
  /\ UNCHANGED <<engineVars, lazyVars, early, committed, accepted>>

\* Mutant of ReadPre: the value is fetched anew each time.
ReadPreAnew(f) ==
  /\ pc \in {"pre", "post"}
  /\ pre' = [pre EXCEPT ![f] = engine[f]]
  /\ early' = IF pc = "pre" THEN early \cup {f} ELSE early
  /\ UNCHANGED <<pc, instr, engineVars, csrs, registered, entry, committed, accepted>>

\* A filter, of either phase, reads a field of s_pre: the first access asks Spike.
ReadPre(f) ==
  /\ pc \in {"pre", "post"}
  /\ pre[f] = Unread
  /\ pre' = [pre EXCEPT ![f] = engine[f]]
  /\ early' = IF pc = "pre" THEN early \cup {f} ELSE early
  /\ UNCHANGED <<pc, instr, engineVars, csrs, registered, entry, committed, accepted>>

\* A filter asks s_pre for the dictionary of all CSRs: the first access fetches them all,
\* and they replace what single reads have fetched of them.
ReadCsrs ==
  /\ pc \in {"pre", "post"}
  /\ csrs = "none"
  /\ csrs' = IF pc = "pre" THEN "early" ELSE "late"
  /\ pre' = [f \in Fields |-> IF f \in CSRs THEN engine[f] ELSE pre[f]]
  /\ early' = IF pc = "pre" THEN early \cup CSRs ELSE early
  /\ UNCHANGED <<pc, instr, engineVars, registered, entry, committed, accepted>>

\* The legacy filter or a pre-execution filter rejects; the key stays registered.
\* An IndexError of a filter, which the main loop catches, ends the same way.
PreReject ==
  /\ pc = "pre"
  /\ Return
  /\ UNCHANGED <<instr, engineVars, registered, entry, committed, accepted>>

\* A pre-execution filter raises: outside the try block, so the seed ends.
PreRaises ==
  /\ pc = "pre" /\ "pre" \in Faults
  /\ pc' = "stopped"
  /\ UNCHANGED <<instr, engineVars, lazyVars, registered, historyVars>>

PreAccept ==
  /\ pc = "pre"
  /\ pc' = "checkpoint"
  /\ UNCHANGED <<instr, engineVars, lazyVars, registered, historyVars>>

\* "if not checkpoint_set: set_checkpoint()".
TakeCheckpoint ==
  /\ pc = "checkpoint"
  /\ IF checkpoint_set THEN UNCHANGED engineVars ELSE SetCheckpoint
  /\ pc' = "exec"
  /\ UNCHANGED <<instr, lazyVars, registered, historyVars>>

CheckpointFails ==
  /\ pc \in {"checkpoint", "seqcheckpoint"} /\ "set" \in Faults
  /\ pc = "checkpoint" => ~checkpoint_set
  /\ pc' = IF pc = "checkpoint" THEN "handler" ELSE "seqhandler"
  /\ UNCHANGED <<instr, engineVars, lazyVars, registered, historyVars>>

\* execute_sequence() returns.
Execute ==
  /\ pc \in {"exec", "seqexec"}
  /\ engine' \in States
  /\ pc' = IF pc = "exec" THEN "post" ELSE "seqconfirm"
  /\ UNCHANGED <<instr, checkpoint, checkpoint_set, lazyVars, registered, historyVars>>

\* execute_sequence() raises after it has changed some of the state.
ExecuteFails ==
  /\ pc \in {"exec", "seqexec"} /\ "exec" \in Faults
  /\ engine' \in States
  /\ pc' = IF pc = "exec" THEN "handler" ELSE "seqhandler"
  /\ UNCHANGED <<instr, checkpoint, checkpoint_set, lazyVars, registered, historyVars>>

\* Mutant of PostReject: the result is dropped without a rollback.
PostRejectKeeps ==
  /\ pc = "post"
  /\ checkpoint_set' = FALSE /\ Return
  /\ UNCHANGED <<instr, engine, checkpoint, registered, entry, committed, accepted>>

\* A post-execution filter rejects: roll back.
PostReject ==
  /\ pc = "post"
  /\ Restore
  /\ Return
  /\ UNCHANGED <<instr, registered, entry, committed, accepted>>

PostAccept ==
  /\ pc = "post"
  /\ pc' = "log"
  /\ UNCHANGED <<instr, engineVars, lazyVars, registered, historyVars>>

\* The rollback, a post-execution filter or the logging raises.
PostRaises ==
  /\ \/ pc = "post" /\ ("post" \in Faults \/ RestoreRaises)
     \/ pc = "log" /\ "log" \in Faults
  /\ pc' = "handler"
  /\ UNCHANGED <<instr, engineVars, lazyVars, registered, historyVars>>

\* Logged, confirmed, (True, actual_bytes).
AcceptInstr ==
  /\ pc = "log"
  /\ Confirm
  /\ accepted' = accepted \cup {Key}
  /\ Return
  /\ UNCHANGED <<instr, registered, entry>>

\* except Exception: roll back, or swallow the exception of the rollback.
HandlerRestores ==
  /\ pc \in {"handler", "seqhandler"}
  /\ Restore
  /\ Return
  /\ UNCHANGED <<instr, registered, entry, committed, accepted>>

HandlerGivesUp ==
  /\ pc \in {"handler", "seqhandler"} /\ RestoreRaises
  /\ Return
  /\ UNCHANGED <<instr, engineVars, registered, entry, committed, accepted>>

\* _log_exception, called before the rollback, raises: no rollback.
HandlerRaises ==
  /\ pc = "handler" /\ "logexc" \in Faults
  /\ pc' = "stopped"
  /\ UNCHANGED <<instr, engineVars, lazyVars, registered, historyVars>>
-----------------------------------------------------------------------------
(* execute_sequence_with_checkpoint, with Execute and the handler above.   *)
SeqBegin ==
  /\ pc = "idle"
  /\ pc' = "seqcheckpoint" /\ entry' = engine
  /\ UNCHANGED <<instr, engineVars, lazyVars, registered, early, committed, accepted>>

SeqCheckpoint ==
  /\ pc = "seqcheckpoint"
  /\ SetCheckpoint
  /\ pc' = "seqexec"
  /\ UNCHANGED <<instr, lazyVars, registered, historyVars>>

SeqConfirm ==
  /\ pc = "seqconfirm"
  /\ Confirm
  /\ Return
  /\ UNCHANGED <<instr, registered, entry, accepted>>

Next ==
  \/ \E i \in Instrs : NewKey(i)
  \/ \E f \in Fields : ReadPre(f)
  \/ ReadCsrs
  \/ PreReject \/ PreRaises \/ PreAccept
  \/ TakeCheckpoint \/ CheckpointFails
  \/ Execute \/ ExecuteFails
  \/ PostReject \/ PostAccept \/ PostRaises \/ AcceptInstr
  \/ HandlerRestores \/ HandlerGivesUp \/ HandlerRaises
  \/ SeqBegin \/ SeqCheckpoint \/ SeqConfirm

Spec == Init /\ [][Next]_vars
-----------------------------------------------------------------------------
\* Whatever was rejected, raised or swallowed since, between two operations Spike is
\* in the state the last accepted instruction or sequence left, and the next operation
\* sets a fresh checkpoint (rollback of validate_instruction and of the sequences).
RollbackExact == pc = "idle" => engine = committed /\ ~checkpoint_set

\* A source-value and context combination is accepted at most once, whatever fails
\* (check_and_add registers before the filters run).
OncePerKey == [][AcceptInstr => Key \notin accepted]_vars

\* A pre-state field a pre-execution filter looked at is not overwritten by what the
\* execution leaves: post-execution filters compare with the old value.  The one way to
\* lose it is the dictionary of all CSRs first asked for after the execution, which
\* overwrites every CSR read before (get_csr and csrs of _LazyPreState).
EarlyReadsStable ==
  pc \in {"post", "log"} =>
    \A f \in early : pre[f] = entry[f] \/ (f \in CSRs /\ csrs = "late")

\* As context.py describes s_pre: every pre-state field a post-execution filter sees
\* is the field's value before the execution.
PreStateIsPre ==
  pc = "post" => \A f \in Fields : pre[f] # Unread => pre[f] = entry[f]

\* The session as its clients may think of it: atomic accepted instructions, atomic
\* sequences, nothing else (an operation that leaves by an exception did not happen:
\* the session is dropped with it).
Atomic == INSTANCE AtomicEngine WITH
            state <- IF pc \in Uncommitted \cup {"stopped"} THEN entry ELSE engine,
            confirmed <- committed
AtomicSpec == Atomic!AtomicSpec
-----------------------------------------------------------------------------
(* The inductive invariant behind RollbackExact, for sessions whose        *)
(* set_checkpoint and restore_checkpoint do not raise.                     *)
RollbackInv ==
  /\ pc # "stopped" =>
       IF pc \in Uncommitted
         THEN checkpoint_set /\ checkpoint = entry /\ entry = committed
         ELSE ~checkpoint_set /\ engine = committed
  /\ pc \in {"pre", "checkpoint", "seqcheckpoint"} => entry = engine

\* A key is registered before it can be accepted, and not accepted while it is open.
KeyInv ==
  /\ accepted \subseteq registered
  /\ pc \in {"pre", "checkpoint", "exec", "post", "log", "handler"} =>
       Key \in registered \ accepted
=============================================================================
