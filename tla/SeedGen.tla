------------------------------ MODULE SeedGen ------------------------------
(***************************************************************************)
(* generate_instrs.py, generate_instructions: one seed.  The main loop     *)
(* draws an extension and an instruction until enough instructions are     *)
(* generated, the NOP template's bytes are used up, or too many draws were *)
(* fruitless; then the file is padded with NOPs to the template's layout.  *)
(*                                                                         *)
(* A line is its bytes after assembly: a pseudo-instruction takes up to    *)
(* MaxExpand instructions.  Which candidates the validator accepts is free *)
(* here (Validator has the details).                                       *)
(***************************************************************************)
EXTENDS Naturals

CONSTANTS
  InstrNumber,  \* instr_number
  Redundancy,   \* NOP_REDUNDANCY (16 in the code)
  RetryFactor,  \* MAX_TOTAL_INSTR_RETRY per instruction (100 in the code)
  MaxMutate,    \* MAX_MUTATE_TIME (10 in the code)
  MaxExpand,    \* machine instructions one line expands to at most
  MiddleLens,   \* lengths of jump middles and loop bodies (0 .. 8 in the code)
  Exts,         \* kinds of extensions the profile allows, see ExtKinds
  Options,      \* the settings of eliminate_enable and jump_enable considered
  Faults        \* what may fail, see AllFaults

\* "plain": ordinary instructions.  "c": RV_C and RV64_C.  "cx": RV_C_D, RV32_C, ...,
\* whose names all start with "c." too.  "ill": illegal encodings.
ExtKinds == {"plain", "c", "cx", "ill"}

\* "compile", "run": compiling or executing a sequence.  "index": generating an
\* instruction raises IndexError.  "raise": any other exception.
AllFaults == {"compile", "run", "index", "raise"}

ASSUME SeedGenAssumption ==
  /\ InstrNumber \in Nat \ {0} /\ Redundancy \in Nat
  /\ RetryFactor \in Nat \ {0} /\ MaxMutate \in Nat \ {0} /\ MaxExpand \in Nat \ {0}
  /\ MiddleLens \subseteq Nat
  /\ Exts \subseteq ExtKinds
  /\ Options \subseteq [eliminate : BOOLEAN, jumps : BOOLEAN]
  /\ Faults \subseteq AllFaults

VARIABLES
  eliminate, \* eliminate_enable: candidates are validated in Spike, never changed
  jumps,     \* jump_enable, never changed
  pc,        \* "start", "loop", "validate", "pad", "write", "written", "skipped", "dead"
  logical,   \* logical_instr_index
  actual,    \* actual_bytes
  retry,     \* total_instr_retry
  odd,       \* c_instr_consecutive_number % 2 # 0
  attempts,  \* mutate_time
  items,     \* history: instructions appended ("la" counts as one)
  bytes,     \* history: bytes the appended lines assemble to
  ran,       \* history: of these, executed and kept in Spike
  loops,     \* history: backward loops generated
  skipped,   \* history: jumps dropped in the last slot
  estimated  \* history: some sequence's bytes were estimated, not compiled

options == <<eliminate, jumps>>
counters == <<logical, actual, retry>>
history == <<items, bytes, ran, loops, skipped, estimated>>
vars == <<options, pc, counters, odd, attempts, history>>

MaxBytes == (InstrNumber + Redundancy) * 4
MaxRetry == InstrNumber * RetryFactor
\* Bytes n lines may assemble to.
BytesOf(n) == {4 * k : k \in n .. n * MaxExpand}

TypeOK ==
  /\ [eliminate |-> eliminate, jumps |-> jumps] \in Options
  /\ pc \in {"start", "loop", "validate", "pad", "write", "written", "skipped", "dead"}
  /\ logical \in Nat /\ actual \in Nat
  /\ retry \in 0 .. MaxRetry
  /\ odd \in BOOLEAN
  /\ attempts \in 0 .. MaxMutate
  /\ items \in Nat /\ bytes \in Nat /\ ran \in Nat
  /\ loops \in Nat /\ skipped \in Nat /\ estimated \in BOOLEAN

Init ==
  /\ \E o \in Options : eliminate = o.eliminate /\ jumps = o.jumps
  /\ pc = "start"
  /\ logical = 0 /\ actual = 0 /\ retry = 0
  /\ odd = FALSE
  /\ attempts = 0
  /\ items = 0 /\ bytes = 0 /\ ran = 0 /\ loops = 0 /\ skipped = 0
  /\ estimated = FALSE

-----------------------------------------------------------------------------
Start ==
  /\ pc = "start"
  /\ pc' = "loop"
  /\ UNCHANGED <<options, counters, odd, attempts, history>>

\* The NOP template, Spike or the cache cannot be set up: return 0, 0 without a file.
SetupFails ==
  /\ pc = "start" /\ eliminate
  /\ pc' = "skipped"
  /\ UNCHANGED <<options, counters, odd, attempts, history>>

\* Mutant of LoopGuard: the bytes are not looked at.
LoopGuardNoBytes == logical < InstrNumber /\ retry < MaxRetry

\* The condition of the main loop.
LoopGuard == logical < InstrNumber /\ actual < MaxBytes /\ retry < MaxRetry

\* An iteration whose extension is kind: an odd count of RV_C draws forces RV_C.
Draw(kind) ==
  /\ pc = "loop" /\ LoopGuard
  /\ kind \in Exts \/ (kind = "c" /\ odd)
  /\ odd => kind = "c"

\* All names of these extensions start with "c." and are filtered out: continue.
DrawCompressed(kind) ==
  /\ Draw(kind)
  /\ kind \in {"c", "cx"}
  /\ odd' = IF kind = "c" THEN ~odd ELSE odd
  /\ UNCHANGED <<options, pc, counters, attempts, history>>

\* Mutant of EmitIllegal: its four bytes are not counted.
EmitIllegalUncounted ==
  /\ Draw("ill")
  /\ logical' = logical + 1
  /\ items' = items + 1 /\ bytes' = bytes + 4
  /\ UNCHANGED <<options, pc, actual, retry, odd, attempts, ran, loops,
                 skipped, estimated>>

\* An illegal instruction is appended without being executed or filtered.
EmitIllegal ==
  /\ Draw("ill")
  /\ logical' = logical + 1 /\ actual' = actual + 4
  /\ items' = items + 1 /\ bytes' = bytes + 4
  /\ UNCHANGED <<options, pc, retry, odd, attempts, ran, loops, skipped, estimated>>

\* A jump is drawn while jumps are disabled.
JumpDisabled ==
  /\ Draw("plain") /\ ~jumps
  /\ retry' = retry + 1
  /\ UNCHANGED <<options, pc, logical, actual, odd, attempts, history>>

\* Mutant of SkipLastJump: the position is not looked at.
SkipAnyJump ==
  /\ Draw("plain") /\ jumps
  /\ logical' = logical + 1 /\ skipped' = skipped + 1
  /\ UNCHANGED <<options, pc, actual, retry, odd, attempts, items, bytes, ran,
                 loops, estimated>>

\* "The last instruction cannot be a jump instruction": the slot is counted.
SkipLastJump ==
  /\ Draw("plain") /\ jumps
  /\ logical = InstrNumber - 1
  /\ logical' = logical + 1 /\ skipped' = skipped + 1
  /\ UNCHANGED <<options, pc, actual, retry, odd, attempts, items, bytes, ran,
                 loops, estimated>>

\* A jump sequence of fixed + m lines and length bytes is compiled and executed under
\* a checkpoint, whose result is not looked at, and appended.  If it does not compile
\* (there is no session without duplicate elimination) its bytes are estimated.
AppendSequence(length, estimate, counted, lines) ==
  /\ Draw("plain") /\ jumps
  /\ logical # InstrNumber - 1
  /\ \E compiled, kept \in BOOLEAN :
       /\ compiled => eliminate
       /\ ~compiled => ~eliminate \/ "compile" \in Faults
       /\ kept => compiled
       /\ ~kept => ~compiled \/ "run" \in Faults
       /\ actual' = actual + (IF compiled THEN length ELSE estimate)
       /\ ran' = ran + (IF kept THEN length ELSE 0)
       /\ estimated' = (estimated \/ ~compiled)
  /\ logical' = logical + counted
  /\ items' = items + lines /\ bytes' = bytes + length
  /\ UNCHANGED <<options, pc, retry, odd, attempts, skipped>>

\* li, body, addi, bne; counted as one line more.
BackwardLoop(m) ==
  /\ \E b \in BytesOf(m) : AppendSequence(12 + b, (m + 4) * 4, m + 4, m + 3)
  /\ loops' = loops + 1

\* The jump and its middle.
ForwardJump(m) ==
  /\ \E b \in BytesOf(m) : AppendSequence(4 + b, (m + 1) * 4, m + 1, m + 1)
  /\ UNCHANGED loops

\* la (auipc and addi), the jump and its middle.
IndirectJump(m) ==
  /\ \E b \in BytesOf(m) : AppendSequence(12 + b, (m + 3) * 4, m + 2, m + 2)
  /\ UNCHANGED loops

\* An ordinary instruction is drawn: validate candidates for it.
BeginValidation ==
  /\ Draw("plain") /\ eliminate
  /\ pc' = "validate" /\ attempts' = 0
  /\ UNCHANGED <<options, counters, odd, items, bytes, ran, loops, skipped,
                 estimated>>

CandidateAccepted ==
  /\ pc = "validate" /\ attempts < MaxMutate
  /\ \E b \in BytesOf(1) :
       /\ actual' = actual + b /\ bytes' = bytes + b /\ ran' = ran + b
  /\ logical' = logical + 1 /\ items' = items + 1
  /\ pc' = "loop"
  /\ UNCHANGED <<options, retry, odd, attempts, loops, skipped, estimated>>

CandidateRejected ==
  /\ pc = "validate" /\ attempts < MaxMutate
  /\ attempts' = attempts + 1
  /\ UNCHANGED <<options, pc, counters, odd, items, bytes, ran, loops,
                 skipped, estimated>>

\* Mutant of GiveUpInstr: the retry is not counted.
GiveUpUncounted ==
  /\ pc = "validate" /\ attempts = MaxMutate
  /\ pc' = "loop"
  /\ UNCHANGED <<options, counters, odd, attempts, history>>

\* "Don't skip slot - re-select a different instruction type instead."
GiveUpInstr ==
  /\ pc = "validate" /\ attempts = MaxMutate
  /\ retry' = retry + 1
  /\ pc' = "loop"
  /\ UNCHANGED <<options, logical, actual, odd, attempts, items, bytes, ran,
                 loops, skipped, estimated>>

\* Non-eliminate mode: each line is assumed to be four bytes.
EmitUnvalidated ==
  /\ Draw("plain") /\ ~eliminate
  /\ \E b \in BytesOf(1) : bytes' = bytes + b
  /\ logical' = logical + 1 /\ actual' = actual + 4
  /\ items' = items + 1
  /\ UNCHANGED <<options, pc, retry, odd, attempts, ran, loops, skipped, estimated>>

\* except IndexError: a nop takes the slot.
EmitNop ==
  /\ "index" \in Faults
  /\ Draw("plain") \/ pc = "validate"
  /\ pc' = "loop"
  /\ logical' = logical + 1 /\ actual' = actual + 4
  /\ items' = items + 1 /\ bytes' = bytes + 4
  /\ UNCHANGED <<options, retry, odd, attempts, ran, loops, skipped, estimated>>

\* Any other exception leaves generate_instructions: no file.
SeedRaises ==
  /\ pc \in {"loop", "validate"} /\ "raise" \in Faults
  /\ pc' = "dead"
  /\ UNCHANGED <<options, counters, odd, attempts, history>>

LeaveLoop ==
  /\ pc = "loop" /\ ~LoopGuard
  /\ pc' = "pad"
  /\ UNCHANGED <<options, counters, odd, attempts, history>>

\* NOPs for the bytes left, rounded up to whole NOPs.
NopCount == IF actual < MaxBytes THEN (MaxBytes - actual + 3) \div 4 ELSE 0

Pad ==
  /\ pc = "pad"
  /\ bytes' = bytes + 4 * NopCount
  /\ pc' = "write"
  /\ UNCHANGED <<options, counters, odd, attempts, items, ran, loops, skipped,
                 estimated>>

WriteFile ==
  /\ pc = "write"
  /\ pc' = "written"
  /\ UNCHANGED <<options, counters, odd, attempts, history>>

Sequence == \E m \in MiddleLens : BackwardLoop(m) \/ ForwardJump(m) \/ IndirectJump(m)

\* An iteration that is not wasted on a compressed extension.
Progress ==
  \/ EmitIllegal \/ JumpDisabled \/ SkipLastJump \/ Sequence
  \/ BeginValidation \/ EmitUnvalidated

Next ==
  \/ Progress
  \/ Start \/ SetupFails
  \/ \E kind \in ExtKinds : DrawCompressed(kind)
  \/ CandidateAccepted \/ CandidateRejected \/ GiveUpInstr
  \/ EmitNop \/ SeedRaises
  \/ LeaveLoop \/ Pad \/ WriteFile

Spec == Init /\ [][Next]_vars

\* The seed's process is not preempted for ever, and random draws do not avoid the
\* useful extensions for ever.
FairSpec == Spec /\ WF_vars(Next) /\ SF_vars(Progress)
-----------------------------------------------------------------------------
\* While candidates are validated and every sequence compiled so far, actual_bytes is
\* what the appended lines assemble to, on every branch of the loop (the padding is
\* computed from it).
BytesTracked ==
  eliminate /\ ~estimated /\ pc \in {"loop", "validate", "pad"} => actual = bytes

\* The file covers the NOP template's main region, and exceeds it by less than the
\* longest sequence (the guard looks at actual_bytes before a sequence is appended).
OvershootBounded ==
  eliminate /\ ~estimated /\ pc = "written" =>
    /\ bytes >= MaxBytes
    /\ \E m \in MiddleLens : bytes < MaxBytes + 12 + 4 * m * MaxExpand

\* The index runs ahead of the instructions by one per loop and one for a jump drawn
\* in the last slot, so a file is short of the requested number by no more than that
\* unless the bytes or the retries ran out.
SlotsAccounted ==
  /\ logical = items + loops + skipped /\ skipped <= 1
  /\ pc = "written" /\ actual < MaxBytes /\ retry < MaxRetry =>
       items + loops + 1 >= InstrNumber

\* A seed ends, however many candidates the filters and the cache refuse.
Terminates == <>(pc \in {"written", "skipped", "dead"})

\* As the comments at the jumps put it: the .S file is what spike_engine executed.
EmittedWasExecuted == pc = "pad" => ran = bytes
=============================================================================
