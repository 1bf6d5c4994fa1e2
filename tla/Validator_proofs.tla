-------------------------- MODULE Validator_proofs --------------------------
(***************************************************************************)
(* Proofs about Validator for every set of instructions, fields and values.*)
(* The rollback theorems assume that set_checkpoint and restore_checkpoint *)
(* do not raise; every other call may.                                     *)
(***************************************************************************)
EXTENDS Validator, TLAPS

NoRollbackFaults == "set" \notin Faults /\ "restore" \notin Faults

\* The key of an instruction in a state is one of the keys.
LEMMA KeyInKeys ==
  ASSUME NEW i \in Instrs, NEW e \in States
  PROVE  KeyIn(i, e) \in Keys
BY DEF Keys

\* Every variable keeps its type, whichever calls raise (validate_instruction,
\* execute_sequence_with_checkpoint).
THEOREM TypeInvariant == Spec => []TypeOK
<1>1. Init => TypeOK
  BY DEF Init, TypeOK, NothingRead
<1>2. TypeOK /\ [Next]_vars => TypeOK'
  <2> SUFFICES ASSUME TypeOK, [Next]_vars PROVE TypeOK'
    OBVIOUS
  <2> USE DEF TypeOK, Uncommitted, engineVars, historyVars, lazyVars
  <2>1. CASE UNCHANGED vars
    BY <2>1 DEF vars
  <2>2. ASSUME NEW i \in Instrs, NewKey(i) PROVE TypeOK'
    BY <2>2, KeyInKeys DEF NewKey
  <2>3. ASSUME NEW f \in Fields, ReadPre(f) PROVE TypeOK'
    <3>1. engine[f] \in Vals
      BY DEF States
    <3>2. early' \subseteq Fields
      BY <2>3 DEF ReadPre
    <3> QED BY <2>3, <3>1, <3>2 DEF ReadPre
  <2>13. CASE ReadCsrs
    BY <2>13, ValidatorAssumption DEF ReadCsrs, States
  <2>4. CASE PreReject
    BY <2>4 DEF PreReject, Return, NothingRead
  <2>5. CASE PreRaises \/ PreAccept \/ PostAccept \/ PostRaises \/ HandlerRaises
    BY <2>5 DEF PreRaises, PreAccept, PostAccept, PostRaises, HandlerRaises
  <2>6. CASE TakeCheckpoint \/ CheckpointFails \/ SeqCheckpoint
    BY <2>6 DEF TakeCheckpoint, CheckpointFails, SeqCheckpoint, SetCheckpoint
  <2>7. CASE Execute \/ ExecuteFails
    BY <2>7 DEF Execute, ExecuteFails
  <2>8. CASE PostReject \/ HandlerRestores
    BY <2>8 DEF PostReject, HandlerRestores, Restore, Return, NothingRead
  <2>9. CASE HandlerGivesUp
    BY <2>9 DEF HandlerGivesUp, Return, NothingRead
  <2>10. CASE AcceptInstr
    <3>1. Key \in Keys
      BY KeyInKeys DEF Key
    <3> QED BY <2>10, <3>1 DEF AcceptInstr, Confirm, Return, NothingRead
  <2>11. CASE SeqBegin
    BY <2>11 DEF SeqBegin
  <2>12. CASE SeqConfirm
    BY <2>12 DEF SeqConfirm, Confirm, Return, NothingRead
  <2> QED BY <2>1, <2>2, <2>3, <2>4, <2>5, <2>6, <2>7, <2>8, <2>9, <2>10, <2>11, <2>12,
          <2>13 DEF Next
<1> QED BY <1>1, <1>2, PTL DEF Spec
-----------------------------------------------------------------------------
\* One step keeps the rollback invariant: the checkpoint in force is always the one
\* the open operation has set itself.
LEMMA RollbackStep ==
  ASSUME NoRollbackFaults, TypeOK, RollbackInv, [Next]_vars
  PROVE  RollbackInv'
<1> USE DEF RollbackInv, Uncommitted, NoRollbackFaults, engineVars, historyVars, lazyVars
<1>1. CASE UNCHANGED vars
  BY <1>1 DEF vars
<1>2. ASSUME NEW i \in Instrs, NewKey(i) PROVE RollbackInv'
  BY <1>2 DEF NewKey
<1>3. CASE ReadCsrs \/ \E f \in Fields : ReadPre(f)
  BY <1>3 DEF ReadCsrs, ReadPre
<1>4. CASE PreReject
  BY <1>4 DEF PreReject, Return
<1>5. CASE PreRaises \/ PreAccept \/ PostAccept \/ HandlerRaises
  BY <1>5 DEF PreRaises, PreAccept, PostAccept, HandlerRaises
<1>6. CASE TakeCheckpoint \/ CheckpointFails \/ SeqCheckpoint
  BY <1>6 DEF TakeCheckpoint, CheckpointFails, SeqCheckpoint, SetCheckpoint
<1>7. CASE Execute \/ ExecuteFails \/ PostRaises
  BY <1>7 DEF Execute, ExecuteFails, PostRaises
<1>8. CASE PostReject \/ HandlerRestores
  BY <1>8 DEF PostReject, HandlerRestores, Restore, Return
<1>9. CASE HandlerGivesUp
  \* A rollback that raises is excluded: there is a checkpoint, entry.
  <2>1. checkpoint \in States
    BY <1>9 DEF HandlerGivesUp, TypeOK
  <2> QED BY <1>9, <2>1, ValidatorAssumption DEF HandlerGivesUp, RestoreRaises
<1>10. CASE AcceptInstr \/ SeqConfirm
  BY <1>10 DEF AcceptInstr, SeqConfirm, Confirm, Return
<1>11. CASE SeqBegin
  BY <1>11 DEF SeqBegin
<1> QED BY <1>1, <1>2, <1>3, <1>4, <1>5, <1>6, <1>7, <1>8, <1>9, <1>10, <1>11 DEF Next

\* The rollback invariant holds in every state of a session whose checkpoint calls do
\* not raise (set_checkpoint, restore_checkpoint_and_reset, confirm_instruction).
THEOREM RollbackInvariant ==
  ASSUME NoRollbackFaults
  PROVE  Spec => []RollbackInv
<1>1. Init => RollbackInv
  BY DEF Init, RollbackInv, Uncommitted
<1>2. TypeOK /\ RollbackInv /\ [Next]_vars => RollbackInv'
  BY RollbackStep
<1> QED BY <1>1, <1>2, TypeInvariant, PTL DEF Spec

\* Between two operations Spike is in the state the last accepted one left, with no
\* checkpoint pending (the rollbacks of validate_instruction and of sequences).
THEOREM RollbackIsExact ==
  ASSUME NoRollbackFaults
  PROVE  Spec => []RollbackExact
<1>1. RollbackInv => RollbackExact
  BY DEF RollbackInv, RollbackExact, Uncommitted
<1> QED BY <1>1, RollbackInvariant, PTL
-----------------------------------------------------------------------------
\* One step keeps the key invariant: NewKey registers a key no accepted one equals,
\* and only AcceptInstr adds to the accepted ones, at the end of the operation.
LEMMA KeyStep ==
  ASSUME TypeOK, KeyInv, [Next]_vars
  PROVE  KeyInv'
<1> USE DEF KeyInv, Key, engineVars, historyVars, lazyVars
<1>1. CASE UNCHANGED vars
  BY <1>1 DEF vars
<1>2. ASSUME NEW i \in Instrs, NewKey(i) PROVE KeyInv'
  BY <1>2 DEF NewKey
<1>3. CASE ReadCsrs \/ \E f \in Fields : ReadPre(f)
  BY <1>3 DEF ReadCsrs, ReadPre
<1>4. CASE PreReject \/ HandlerGivesUp
  BY <1>4 DEF PreReject, HandlerGivesUp, Return
<1>5. CASE PreRaises \/ PreAccept \/ PostAccept \/ PostRaises \/ HandlerRaises
  BY <1>5 DEF PreRaises, PreAccept, PostAccept, PostRaises, HandlerRaises
<1>6. CASE TakeCheckpoint \/ CheckpointFails \/ SeqCheckpoint
  BY <1>6 DEF TakeCheckpoint, CheckpointFails, SeqCheckpoint
<1>7. CASE Execute \/ ExecuteFails
  BY <1>7 DEF Execute, ExecuteFails
<1>8. CASE PostReject \/ HandlerRestores
  BY <1>8 DEF PostReject, HandlerRestores, Return
<1>9. CASE AcceptInstr
  BY <1>9 DEF AcceptInstr, Return
<1>10. CASE SeqBegin \/ SeqConfirm
  BY <1>10 DEF SeqBegin, SeqConfirm, Return
<1> QED BY <1>1, <1>2, <1>3, <1>4, <1>5, <1>6, <1>7, <1>8, <1>9, <1>10 DEF Next

\* What is open is registered and not accepted, whichever calls raise (check_and_add).
THEOREM KeyInvariant == Spec => []KeyInv
<1>1. Init => KeyInv
  BY DEF Init, KeyInv
<1>2. TypeOK /\ KeyInv /\ [Next]_vars => KeyInv'
  BY KeyStep
<1> QED BY <1>1, <1>2, TypeInvariant, PTL DEF Spec

\* No combination of instruction, source values and context is accepted twice,
\* whichever calls raise.
THEOREM AcceptedOncePerKey == Spec => OncePerKey
<1>1. KeyInv /\ [Next]_vars => [AcceptInstr => Key \notin accepted]_vars
  BY DEF KeyInv, AcceptInstr
<1> QED BY <1>1, KeyInvariant, PTL DEF Spec, OncePerKey
-----------------------------------------------------------------------------
\* Until the execution a read fetches the value of entry; afterwards only fields that
\* no early filter looked at are still unread, and only the dictionary of all CSRs, if
\* it was not asked for before, replaces what was read.
Kept(f) == pre[f] = entry[f] \/ (f \in CSRs /\ csrs = "late")
EarlyInv ==
  /\ pc \in {"pre", "checkpoint"} => entry = engine
  /\ pc = "idle" => early = {}
  /\ pc \in {"idle", "pre", "checkpoint", "exec"} => csrs # "late"
  /\ pc \in {"pre", "checkpoint", "exec", "post", "log"} => \A f \in early : Kept(f)

\* One step keeps it, whichever calls raise.
LEMMA EarlyStep ==
  ASSUME TypeOK, EarlyInv, [Next]_vars
  PROVE  EarlyInv'
<1> USE DEF EarlyInv, Kept, engineVars, historyVars, lazyVars
<1>1. CASE UNCHANGED vars
  BY <1>1 DEF vars
<1>2. ASSUME NEW i \in Instrs, NewKey(i) PROVE EarlyInv'
  BY <1>2 DEF NewKey
<1>3. ASSUME NEW f \in Fields, ReadPre(f) PROVE EarlyInv'
  <2>1. /\ pc' = pc /\ engine' = engine /\ entry' = entry /\ csrs' = csrs
        /\ pre[f] = Unread /\ pre' = [pre EXCEPT ![f] = engine[f]]
        /\ early' = IF pc = "pre" THEN early \cup {f} ELSE early
    BY <1>3 DEF ReadPre
  <2>2. ASSUME pc = "pre" PROVE \A g \in early' : Kept(g)'
    BY <2>1, <2>2 DEF TypeOK
  <2>3. ASSUME pc = "post" PROVE \A g \in early' : Kept(g)'
    <3>1. \A g \in early : g # f \/ (f \in CSRs /\ csrs = "late")
      BY <2>1, <2>3, ValidatorAssumption DEF TypeOK, States
    <3> QED BY <2>1, <2>3, <3>1 DEF TypeOK
  <2> QED BY <1>3, <2>1, <2>2, <2>3 DEF ReadPre
<1>9. CASE ReadCsrs
  <2>1. /\ pc' = pc /\ engine' = engine /\ entry' = entry /\ csrs = "none"
        /\ csrs' = IF pc = "pre" THEN "early" ELSE "late"
        /\ pre' = [f \in Fields |-> IF f \in CSRs THEN engine[f] ELSE pre[f]]
        /\ early' = IF pc = "pre" THEN early \cup CSRs ELSE early
    BY <1>9 DEF ReadCsrs
  <2>2. ASSUME pc = "pre" PROVE \A g \in early' : Kept(g)'
    BY <2>1, <2>2, ValidatorAssumption DEF TypeOK
  <2>3. ASSUME pc = "post" PROVE \A g \in early' : Kept(g)'
    BY <2>1, <2>3 DEF TypeOK
  <2> QED BY <1>9, <2>1, <2>2, <2>3 DEF ReadCsrs
<1>4. CASE PreReject \/ HandlerGivesUp \/ PostReject \/ HandlerRestores \/ AcceptInstr \/ SeqConfirm
  BY <1>4 DEF PreReject, HandlerGivesUp, PostReject, HandlerRestores, AcceptInstr, SeqConfirm, Return
<1>5. CASE PreRaises \/ PreAccept \/ PostAccept \/ PostRaises \/ HandlerRaises
  BY <1>5 DEF PreRaises, PreAccept, PostAccept, PostRaises, HandlerRaises
<1>6. CASE TakeCheckpoint \/ CheckpointFails \/ SeqCheckpoint
  BY <1>6 DEF TakeCheckpoint, CheckpointFails, SeqCheckpoint
<1>7. CASE Execute \/ ExecuteFails
  BY <1>7 DEF Execute, ExecuteFails
<1>8. CASE SeqBegin
  BY <1>8 DEF SeqBegin
<1> QED BY <1>1, <1>2, <1>3, <1>4, <1>5, <1>6, <1>7, <1>8, <1>9 DEF Next

\* What a pre-execution filter has seen of the state before is what the post-execution
\* filters see of it, whichever calls raise, but for the CSRs once one of them asks for
\* the dictionary of all (_LazyPreState).
THEOREM EarlyReadsAreStable == Spec => []EarlyReadsStable
<1>1. Init => EarlyInv
  BY DEF Init, EarlyInv
<1>2. TypeOK /\ EarlyInv /\ [Next]_vars => EarlyInv'
  BY EarlyStep
<1>3. EarlyInv => EarlyReadsStable
  BY DEF EarlyInv, Kept, EarlyReadsStable
<1> QED BY <1>1, <1>2, <1>3, TypeInvariant, PTL DEF Spec
-----------------------------------------------------------------------------
AtomicState == IF pc \in Uncommitted \cup {"stopped"} THEN entry ELSE engine

\* Each step of the validator is an accepted instruction, an accepted sequence or
\* nothing at all to a client of the session.
LEMMA AtomicStep ==
  ASSUME NoRollbackFaults, TypeOK, TypeOK', RollbackInv, RollbackInv', KeyInv,
         [Next]_vars
  PROVE  [Atomic!AtomicNext]_(Atomic!engineVars)
<1> DEFINE Same == AtomicState' = AtomicState /\ committed' = committed /\ accepted' = accepted
<1> SUFFICES ASSUME ~Same PROVE Atomic!AtomicNext
  BY DEF Atomic!engineVars, AtomicState
<1> USE DEF RollbackInv, AtomicState, Uncommitted, NoRollbackFaults, engineVars,
            historyVars, lazyVars
<1>1. CASE UNCHANGED vars
  BY <1>1 DEF vars
<1>2. ASSUME NEW i \in Instrs, NewKey(i) PROVE FALSE
  BY <1>2 DEF NewKey
<1>3. CASE ReadCsrs \/ \E f \in Fields : ReadPre(f)
  BY <1>3 DEF ReadCsrs, ReadPre
<1>4. CASE PreReject
  BY <1>4 DEF PreReject, Return
<1>5. CASE PreRaises \/ PreAccept \/ PostAccept \/ PostRaises
  BY <1>5 DEF PreRaises, PreAccept, PostAccept, PostRaises
<1>6. CASE TakeCheckpoint \/ CheckpointFails \/ SeqCheckpoint
  BY <1>6 DEF TakeCheckpoint, CheckpointFails, SeqCheckpoint, SetCheckpoint
<1>7. CASE Execute \/ ExecuteFails
  BY <1>7 DEF Execute, ExecuteFails
<1>8. CASE PostReject \/ HandlerRestores
  BY <1>8 DEF PostReject, HandlerRestores, Restore, Return
<1>9. CASE HandlerGivesUp
  BY <1>9, ValidatorAssumption DEF HandlerGivesUp, RestoreRaises, TypeOK
<1>10. CASE HandlerRaises
  BY <1>10 DEF HandlerRaises
<1>11. CASE SeqBegin
  BY <1>11 DEF SeqBegin
<1>12. CASE AcceptInstr
  <2>1. AtomicState = entry /\ AtomicState' = engine /\ engine \in States
    BY <1>12 DEF AcceptInstr, Confirm, Return, TypeOK
  <2>2. Key \notin accepted /\ accepted' = accepted \cup {Key} /\ committed' = engine
    BY <1>12 DEF AcceptInstr, Confirm, KeyInv
  <2>3. instr \in Instrs
    BY DEF TypeOK
  <2>4. Atomic!Accept(instr)
    BY <2>1, <2>2 DEF Atomic!Accept, Key
  <2> QED BY <2>3, <2>4 DEF Atomic!AtomicNext
<1>13. CASE SeqConfirm
  <2>1. AtomicState' = engine /\ engine \in States /\ accepted' = accepted
        /\ committed' = engine
    BY <1>13 DEF SeqConfirm, Confirm, Return, TypeOK
  <2>2. Atomic!AcceptSequence
    BY <2>1 DEF Atomic!AcceptSequence
  <2> QED BY <2>2 DEF Atomic!AtomicNext
<1> QED BY <1>1, <1>2, <1>3, <1>4, <1>5, <1>6, <1>7, <1>8, <1>9, <1>10, <1>11, <1>12, <1>13
        DEF Next

\* To its clients the session is one of atomic accepted instructions and sequences,
\* whatever is rejected or raises in between (validate_instruction over SpikeSession).
THEOREM ValidatorImplementsAtomic ==
  ASSUME NoRollbackFaults
  PROVE  Spec => AtomicSpec
<1>1. Init => Atomic!AtomicInit
  BY DEF Init, Atomic!AtomicInit, Uncommitted
<1>2. TypeOK /\ TypeOK' /\ RollbackInv /\ RollbackInv' /\ KeyInv /\ [Next]_vars
        => [Atomic!AtomicNext]_(Atomic!engineVars)
  BY AtomicStep
<1> QED BY <1>1, <1>2, TypeInvariant, RollbackInvariant, KeyInvariant, PTL
        DEF Spec, AtomicSpec, Atomic!AtomicSpec
=============================================================================
