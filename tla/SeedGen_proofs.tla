--------------------------- MODULE SeedGen_proofs ---------------------------
(***************************************************************************)
(* Proofs about SeedGen: the code's counters against what was appended,    *)
(* for every length of seed, every size of sequence and every failure.     *)
(***************************************************************************)
EXTENDS Integers, SeedGen, TLAPS

\* The bounds are numbers.
LEMMA BoundsTyped == MaxBytes \in Nat /\ MaxRetry \in Nat /\ InstrNumber \in Nat
<1>1. \A a, b \in Nat : a * b \in Nat
  OBVIOUS
<1> QED BY <1>1, SeedGenAssumption DEF MaxBytes, MaxRetry

\* Lines assemble to a number of bytes.
LEMMA BytesOfTyped ==
  ASSUME NEW n \in Nat, NEW b \in BytesOf(n)
  PROVE  b \in Nat
<1>1. n * MaxExpand \in Nat
  BY SeedGenAssumption
<1> QED BY <1>1 DEF BytesOf

\* A candidate is only tried while the loop's guard holds.
Guarded == pc = "validate" => LoopGuard

TypeInv == TypeOK /\ Guarded

\* A jump sequence keeps the types.
LEMMA AppendTyped ==
  ASSUME TypeOK, NEW length \in Nat, NEW estimate \in Nat, NEW counted \in Nat,
         NEW lines \in Nat, AppendSequence(length, estimate, counted, lines)
  PROVE  /\ logical' \in Nat /\ actual' \in Nat /\ items' \in Nat /\ bytes' \in Nat
         /\ ran' \in Nat /\ estimated' \in BOOLEAN
         /\ pc = "loop" /\ UNCHANGED <<options, pc, retry, odd, attempts, skipped>>
  BY DEF AppendSequence, TypeOK, Draw

LEMMA SequenceTyped ==
  ASSUME TypeOK, Sequence
  PROVE  TypeOK' /\ pc' = "loop"
<1>1. PICK m \in MiddleLens : BackwardLoop(m) \/ ForwardJump(m) \/ IndirectJump(m)
  BY DEF Sequence
<1>2. m \in Nat
  BY SeedGenAssumption
<1>3. CASE BackwardLoop(m)
  <2>1. PICK b \in BytesOf(m) : AppendSequence(12 + b, (m + 4) * 4, m + 4, m + 3)
    BY <1>3 DEF BackwardLoop
  <2>2. 12 + b \in Nat /\ (m + 4) * 4 \in Nat /\ m + 4 \in Nat /\ m + 3 \in Nat
    BY <1>2, BytesOfTyped
  <2>3. loops' = loops + 1
    BY <1>3 DEF BackwardLoop
  <2> QED BY <2>1, <2>2, <2>3, AppendTyped DEF TypeOK, options
<1>4. CASE ForwardJump(m)
  <2>1. PICK b \in BytesOf(m) : AppendSequence(4 + b, (m + 1) * 4, m + 1, m + 1)
    BY <1>4 DEF ForwardJump
  <2>2. 4 + b \in Nat /\ (m + 1) * 4 \in Nat /\ m + 1 \in Nat
    BY <1>2, BytesOfTyped
  <2>3. loops' = loops
    BY <1>4 DEF ForwardJump
  <2> QED BY <2>1, <2>2, <2>3, AppendTyped DEF TypeOK, options
<1>5. CASE IndirectJump(m)
  <2>1. PICK b \in BytesOf(m) : AppendSequence(12 + b, (m + 3) * 4, m + 2, m + 2)
    BY <1>5 DEF IndirectJump
  <2>2. 12 + b \in Nat /\ (m + 3) * 4 \in Nat /\ m + 2 \in Nat
    BY <1>2, BytesOfTyped
  <2>3. loops' = loops
    BY <1>5 DEF IndirectJump
  <2> QED BY <2>1, <2>2, <2>3, AppendTyped DEF TypeOK, options
<1> QED BY <1>1, <1>3, <1>4, <1>5

\* Every step of the loop, the padding and the writing keeps the types and the guard.
LEMMA TypeStep ==
  ASSUME TypeInv, [Next]_vars
  PROVE  TypeInv'
<1> USE DEF TypeInv, Guarded, options, counters, history
<1>0. MaxBytes \in Nat /\ MaxRetry \in Nat /\ InstrNumber \in Nat /\ MaxMutate \in Nat \ {0}
  BY BoundsTyped, SeedGenAssumption
<1>1. CASE UNCHANGED vars
  BY <1>1 DEF vars, TypeOK, LoopGuard
<1>2. CASE EmitIllegal
  BY <1>2 DEF EmitIllegal, Draw, TypeOK
<1>3. CASE JumpDisabled
  BY <1>0, <1>3 DEF JumpDisabled, Draw, LoopGuard, TypeOK
<1>4. CASE SkipLastJump
  BY <1>4 DEF SkipLastJump, Draw, TypeOK
<1>5. CASE Sequence
  BY <1>5, SequenceTyped
<1>6. CASE BeginValidation
  BY <1>0, <1>6 DEF BeginValidation, Draw, LoopGuard, TypeOK
<1>7. CASE EmitUnvalidated
  <2>1. PICK b \in BytesOf(1) : bytes' = bytes + b
    BY <1>7 DEF EmitUnvalidated
  <2> QED BY <1>7, <2>1, BytesOfTyped DEF EmitUnvalidated, Draw, TypeOK
<1>8. CASE Start \/ SetupFails \/ LeaveLoop \/ WriteFile \/ SeedRaises
  BY <1>8 DEF Start, SetupFails, LeaveLoop, WriteFile, SeedRaises, TypeOK
<1>9. ASSUME NEW kind \in ExtKinds, DrawCompressed(kind) PROVE TypeInv'
  BY <1>9 DEF DrawCompressed, Draw, TypeOK
<1>10. CASE CandidateAccepted
  <2>1. PICK b \in BytesOf(1) : actual' = actual + b /\ bytes' = bytes + b /\ ran' = ran + b
    BY <1>10 DEF CandidateAccepted
  <2> QED BY <1>10, <2>1, BytesOfTyped DEF CandidateAccepted, TypeOK
<1>11. CASE CandidateRejected
  BY <1>0, <1>11 DEF CandidateRejected, TypeOK, LoopGuard
<1>12. CASE GiveUpInstr
  BY <1>0, <1>12 DEF GiveUpInstr, TypeOK, LoopGuard
<1>13. CASE EmitNop
  BY <1>13 DEF EmitNop, TypeOK
<1>14. CASE Pad
  <2>1. actual < MaxBytes => (MaxBytes - actual + 3) \div 4 \in Nat
    BY <1>0 DEF TypeOK
  <2>2. NopCount \in Nat
    BY <2>1 DEF NopCount
  <2> QED BY <1>14, <2>2 DEF Pad, TypeOK
<1> QED BY <1>1, <1>2, <1>3, <1>4, <1>5, <1>6, <1>7, <1>8, <1>9, <1>10, <1>11, <1>12,
           <1>13, <1>14 DEF Next, Progress

LEMMA TypeInit == Init => TypeInv
<1> SUFFICES ASSUME Init PROVE TypeInv
  OBVIOUS
<1>1. PICK o \in Options : eliminate = o.eliminate /\ jumps = o.jumps
  BY DEF Init
<1>2. [eliminate |-> eliminate, jumps |-> jumps] = o
  BY <1>1, SeedGenAssumption
<1>3. MaxRetry \in Nat /\ MaxMutate \in Nat
  BY SeedGenAssumption, BoundsTyped
<1>4. /\ pc = "start" /\ logical = 0 /\ actual = 0 /\ retry = 0 /\ odd = FALSE
      /\ attempts = 0 /\ items = 0 /\ bytes = 0 /\ ran = 0 /\ loops = 0 /\ skipped = 0
      /\ estimated = FALSE
  BY DEF Init
<1>5. [eliminate |-> eliminate, jumps |-> jumps] \in Options
  BY <1>2
<1>6. 0 \in 0 .. MaxRetry /\ 0 \in 0 .. MaxMutate
  BY <1>3
<1>7. TypeOK
  BY <1>4, <1>5, <1>6 DEF TypeOK
<1> QED BY <1>4, <1>7 DEF TypeInv, Guarded

\* The counters stay in their ranges: no more than MAX_MUTATE_TIME candidates, no more
\* than the allowed retries.
THEOREM TypeInvariant == Spec => []TypeOK
<1>1. Init => TypeInv
  BY TypeInit
<1>2. TypeInv /\ [Next]_vars => TypeInv'
  BY TypeStep
<1>3. TypeInv => TypeOK
  BY DEF TypeInv
<1> QED BY <1>1, <1>2, <1>3, PTL DEF Spec
-----------------------------------------------------------------------------
\* What is behind SlotsAccounted: the equation itself, that a jump is dropped in the
\* last slot only, and that the loop is left because its guard is false.
SlotsInv ==
  /\ logical = items + loops + skipped
  /\ skipped <= 1
  /\ skipped = 1 => logical >= InstrNumber
  /\ pc \in {"pad", "write", "written"} => ~LoopGuard

\* A jump sequence is counted as its lines, and one more if it is a backward loop.
LEMMA SequenceSlots ==
  ASSUME TypeInv, SlotsInv, Sequence
  PROVE  SlotsInv'
<1>1. PICK m \in MiddleLens : BackwardLoop(m) \/ ForwardJump(m) \/ IndirectJump(m)
  BY DEF Sequence
<1>2. m \in Nat
  BY SeedGenAssumption
<1>3. \/ loops' = loops + 1 /\ logical' = logical + (m + 4) /\ items' = items + (m + 3)
      \/ loops' = loops /\ logical' = logical + (m + 1) /\ items' = items + (m + 1)
      \/ loops' = loops /\ logical' = logical + (m + 2) /\ items' = items + (m + 2)
  BY <1>1 DEF BackwardLoop, ForwardJump, IndirectJump, AppendSequence
<1>4. skipped' = skipped /\ pc' = pc /\ pc = "loop"
  BY <1>1 DEF BackwardLoop, ForwardJump, IndirectJump, AppendSequence, Draw
<1> QED BY <1>2, <1>3, <1>4, BoundsTyped DEF SlotsInv, TypeInv, TypeOK

LEMMA SlotsStep ==
  ASSUME TypeInv, SlotsInv, [Next]_vars
  PROVE  SlotsInv'
<1> USE DEF SlotsInv, options, counters, history
<1>0. TypeOK /\ Guarded /\ InstrNumber \in Nat
  BY BoundsTyped DEF TypeInv
<1>1. CASE UNCHANGED vars
  BY <1>1 DEF vars, LoopGuard
<1>2. CASE Sequence
  BY <1>2, SequenceSlots
<1>3. CASE EmitIllegal \/ EmitUnvalidated
  BY <1>0, <1>3 DEF EmitIllegal, EmitUnvalidated, Draw, TypeOK
<1>4. CASE SkipLastJump
  BY <1>0, <1>4 DEF SkipLastJump, Draw, LoopGuard, TypeOK
<1>5. CASE JumpDisabled \/ BeginValidation
  BY <1>5 DEF JumpDisabled, BeginValidation, Draw
<1>6. CASE Start \/ SetupFails \/ SeedRaises \/ CandidateRejected \/ GiveUpInstr
  BY <1>6 DEF Start, SetupFails, SeedRaises, CandidateRejected, GiveUpInstr
<1>7. ASSUME NEW kind \in ExtKinds, DrawCompressed(kind) PROVE SlotsInv'
  BY <1>7 DEF DrawCompressed, Draw
<1>8. CASE CandidateAccepted \/ EmitNop
  BY <1>0, <1>8 DEF CandidateAccepted, EmitNop, Draw, TypeOK
<1>9. CASE LeaveLoop \/ Pad \/ WriteFile
  BY <1>9 DEF LeaveLoop, Pad, WriteFile, LoopGuard
<1> QED BY <1>1, <1>2, <1>3, <1>4, <1>5, <1>6, <1>7, <1>8, <1>9 DEF Next, Progress

\* The instruction index runs ahead of the appended instructions by one per backward
\* loop and at most one for a dropped jump, and a seed that is short of the requested
\* number by more used up its bytes or its retries.
THEOREM SlotsInvariant == Spec => []SlotsAccounted
<1>1. Init => TypeInv /\ SlotsInv
  <2>1. Init => SlotsInv
    BY BoundsTyped DEF Init, SlotsInv
  <2> QED BY <2>1, TypeInit
<1>2. TypeInv /\ SlotsInv /\ [Next]_vars => TypeInv' /\ SlotsInv'
  BY TypeStep, SlotsStep
<1>3. TypeInv /\ SlotsInv => SlotsAccounted
  BY BoundsTyped DEF TypeInv, TypeOK, SlotsInv, SlotsAccounted, LoopGuard
<1> QED BY <1>1, <1>2, <1>3, PTL DEF Spec

-----------------------------------------------------------------------------
\* BytesTracked holds from the start and until the padding.
BytesInv ==
  eliminate /\ ~estimated /\ pc \in {"start", "loop", "validate", "pad"} => actual = bytes

\* A jump sequence that compiled adds its length to both sides.
LEMMA SequenceBytes ==
  ASSUME TypeInv, BytesInv, Sequence
  PROVE  BytesInv'
<1>1. PICK m \in MiddleLens : BackwardLoop(m) \/ ForwardJump(m) \/ IndirectJump(m)
  BY DEF Sequence
<1>2. ASSUME NEW length \in Nat, NEW estimate, NEW counted, NEW lines,
             AppendSequence(length, estimate, counted, lines)
      PROVE  BytesInv'
  BY <1>2 DEF AppendSequence, BytesInv, options, Draw
<1>3. m \in Nat /\ \A b \in BytesOf(m) : b \in Nat
  BY SeedGenAssumption, BytesOfTyped
<1>4. \E b \in BytesOf(m) :
        \/ AppendSequence(12 + b, (m + 4) * 4, m + 4, m + 3)
        \/ AppendSequence(4 + b, (m + 1) * 4, m + 1, m + 1)
        \/ AppendSequence(12 + b, (m + 3) * 4, m + 2, m + 2)
  BY <1>1 DEF BackwardLoop, ForwardJump, IndirectJump
<1>5. \A b \in BytesOf(m) : 12 + b \in Nat /\ 4 + b \in Nat
  BY <1>3
<1> QED BY <1>2, <1>4, <1>5

LEMMA BytesStep ==
  ASSUME TypeInv, BytesInv, [Next]_vars
  PROVE  BytesInv'
<1> USE DEF BytesInv, options, counters, history
<1>1. CASE UNCHANGED vars
  BY <1>1 DEF vars
<1>2. CASE Sequence
  BY <1>2, SequenceBytes
<1>3. CASE EmitIllegal
  <2>1. pc = "loop" /\ UNCHANGED <<eliminate, estimated>>
    BY <1>3 DEF EmitIllegal, Draw
  <2>2. actual' = actual + 4 /\ bytes' = bytes + 4
    BY <1>3 DEF EmitIllegal
  <2> QED BY <2>1, <2>2
<1>4. CASE SkipLastJump \/ JumpDisabled \/ BeginValidation
  BY <1>4 DEF SkipLastJump, JumpDisabled, BeginValidation, Draw
<1>5. CASE Start \/ SetupFails \/ SeedRaises \/ CandidateRejected \/ GiveUpInstr
  BY <1>5 DEF Start, SetupFails, SeedRaises, CandidateRejected, GiveUpInstr
<1>6. ASSUME NEW kind \in ExtKinds, DrawCompressed(kind) PROVE BytesInv'
  BY <1>6 DEF DrawCompressed, Draw
<1>7. CASE CandidateAccepted
  BY <1>7 DEF CandidateAccepted
<1>8. CASE LeaveLoop \/ Pad \/ WriteFile
  BY <1>8 DEF LeaveLoop, Pad, WriteFile
<1>9. CASE EmitUnvalidated
  BY <1>9 DEF EmitUnvalidated
<1>10. CASE EmitNop
  <2>1. pc \in {"loop", "validate"} /\ UNCHANGED <<eliminate, estimated>>
    BY <1>10 DEF EmitNop, Draw
  <2>2. actual' = actual + 4 /\ bytes' = bytes + 4
    BY <1>10 DEF EmitNop
  <2> QED BY <2>1, <2>2
<1> QED BY <1>1, <1>2, <1>3, <1>4, <1>5, <1>6, <1>7, <1>8, <1>9, <1>10 DEF Next, Progress

\* While sequences compile, actual_bytes is what the appended lines assemble to.
THEOREM BytesInvariant == Spec => []BytesTracked
<1>1. Init => TypeInv /\ BytesInv
  <2>1. Init => BytesInv
    BY DEF Init, BytesInv
  <2> QED BY <2>1, TypeInit
<1>2. TypeInv /\ BytesInv /\ [Next]_vars => TypeInv' /\ BytesInv'
  BY TypeStep, BytesStep
<1>3. BytesInv => BytesTracked
  BY DEF BytesInv, BytesTracked
<1> QED BY <1>1, <1>2, <1>3, PTL DEF Spec
-----------------------------------------------------------------------------
\* Bodies of at least one line are among those drawn.
SomeBody == \E m \in MiddleLens : m # 0

\* Less than the longest sequence beyond the main region.
InBound(x) == \E m \in MiddleLens : x < MaxBytes + 12 + 4 * m * MaxExpand

\* Behind OvershootBounded: the bytes never are beyond the bound, and the padding
\* fills the region up.
OvershootInv ==
  eliminate /\ ~estimated =>
    /\ InBound(bytes)
    /\ pc \in {"write", "written"} => bytes >= MaxBytes

\* What n lines assemble to has a bound.
LEMMA BytesOfBounded ==
  ASSUME NEW n \in Nat, NEW b \in BytesOf(n)
  PROVE  b \in Nat /\ b <= 4 * n * MaxExpand
<1>1. n * MaxExpand \in Nat /\ 4 * n * MaxExpand = 4 * (n * MaxExpand)
  BY SeedGenAssumption
<1>2. PICK k \in n .. n * MaxExpand : b = 4 * k
  BY DEF BytesOf
<1> QED BY <1>1, <1>2

\* A few bytes beyond the region are in bound.
LEMMA NearInBound ==
  ASSUME SomeBody, NEW x \in Nat, x < MaxBytes + 12
  PROVE  InBound(x)
<1>1. PICK m \in MiddleLens : m # 0
  BY DEF SomeBody
<1>2. m \in Nat /\ MaxExpand \in Nat /\ MaxBytes \in Nat
  BY SeedGenAssumption, BoundsTyped
<1>3. 4 * m * MaxExpand \in Nat
  BY <1>2
<1> QED BY <1>1, <1>2, <1>3 DEF InBound

\* So is one line beyond it.
LEMMA LineInBound ==
  ASSUME SomeBody, NEW x \in Nat, x < MaxBytes, NEW b \in BytesOf(1)
  PROVE  InBound(x + b)
<1>1. PICK m \in MiddleLens : m # 0
  BY DEF SomeBody
<1>2. m \in Nat /\ MaxExpand \in Nat \ {0} /\ MaxBytes \in Nat
  BY SeedGenAssumption, BoundsTyped
<1>3. b \in Nat /\ b <= 4 * MaxExpand
  BY <1>2, BytesOfBounded
<1>4. PICK n \in Nat : m = n + 1
  <2>1. m - 1 \in Nat /\ m = (m - 1) + 1
    BY <1>1, <1>2
  <2> QED BY <2>1
<1>5. n * MaxExpand \in Nat
  BY <1>2, <1>4
<1>6. 4 * m * MaxExpand = 4 * (n * MaxExpand) + 4 * MaxExpand
  BY <1>2, <1>4
<1>7. x + b < MaxBytes + 12 + 4 * m * MaxExpand
  BY <1>2, <1>3, <1>5, <1>6
<1> QED BY <1>7 DEF InBound

\* And a sequence that was begun in the region.
LEMMA SequenceOvershoot ==
  ASSUME TypeInv, BytesInv, OvershootInv, Sequence
  PROVE  OvershootInv'
<1>1. PICK m \in MiddleLens : BackwardLoop(m) \/ ForwardJump(m) \/ IndirectJump(m)
  BY DEF Sequence
<1>2. m \in Nat /\ MaxBytes \in Nat /\ MaxExpand \in Nat
  BY SeedGenAssumption, BoundsTyped
<1>3. PICK b \in BytesOf(m) : bytes' = bytes + (12 + b) \/ bytes' = bytes + (4 + b)
  BY <1>1 DEF BackwardLoop, ForwardJump, IndirectJump, AppendSequence
<1>4. pc = "loop" /\ pc' = pc /\ eliminate' = eliminate /\ (estimated => estimated')
      /\ actual < MaxBytes
  BY <1>1 DEF BackwardLoop, ForwardJump, IndirectJump, AppendSequence, Draw, LoopGuard, options
<1>5. eliminate /\ ~estimated => bytes < MaxBytes
  BY <1>4 DEF BytesInv
<1>6. b \in Nat /\ b <= 4 * m * MaxExpand
  BY <1>2, BytesOfBounded
<1>7. ASSUME eliminate, ~estimated PROVE bytes' < MaxBytes + 12 + 4 * m * MaxExpand
  <2>1. 4 * m * MaxExpand \in Nat /\ bytes \in Nat
    BY <1>2 DEF TypeInv, TypeOK
  <2> QED BY <1>2, <1>3, <1>5, <1>6, <1>7, <2>1
<1>8. MaxBytes' = MaxBytes
  BY DEF MaxBytes
<1> QED BY <1>4, <1>7 DEF OvershootInv, InBound, MaxBytes

LEMMA OvershootStep ==
  ASSUME SomeBody, TypeInv, BytesInv, OvershootInv, [Next]_vars
  PROVE  OvershootInv'
<1> USE DEF options, counters, history
<1>0. MaxBytes \in Nat /\ bytes \in Nat /\ actual \in Nat /\ TypeInv'
  BY BoundsTyped, TypeStep DEF TypeInv, TypeOK
<1>1. ASSUME UNCHANGED <<eliminate, estimated, bytes>>, pc' \in {"write", "written"} => pc' = pc \/ pc = "write"
      PROVE  OvershootInv'
  BY <1>1 DEF OvershootInv, InBound, MaxBytes
<1>2. ASSUME UNCHANGED <<eliminate, estimated>>, pc' = "loop", InBound(bytes') \/ ~eliminate \/ estimated
      PROVE  OvershootInv'
  BY <1>2 DEF OvershootInv, InBound, MaxBytes
<1>3. eliminate /\ ~estimated /\ pc \in {"loop", "validate"} => actual = bytes
  BY DEF BytesInv
<1>4. CASE UNCHANGED vars
  BY <1>1, <1>4 DEF vars
<1>5. CASE Sequence
  BY <1>5, SequenceOvershoot
<1>6. CASE EmitIllegal \/ EmitNop
  <2>1. actual < MaxBytes /\ pc \in {"loop", "validate"}
    BY <1>6 DEF EmitIllegal, EmitNop, Draw, LoopGuard, TypeInv, Guarded
  <2>2. bytes' = bytes + 4 /\ pc' = "loop" /\ UNCHANGED <<eliminate, estimated>>
    BY <1>6 DEF EmitIllegal, EmitNop, Draw
  <2>3. eliminate /\ ~estimated => bytes + 4 \in Nat /\ bytes + 4 < MaxBytes + 12
    BY <1>0, <1>3, <2>1
  <2> QED BY <1>2, <2>2, <2>3, NearInBound
<1>7. CASE CandidateAccepted
  <2>1. actual < MaxBytes /\ pc = "validate"
    BY <1>7 DEF CandidateAccepted, LoopGuard, TypeInv, Guarded
  <2>2. PICK b \in BytesOf(1) : bytes' = bytes + b
    BY <1>7 DEF CandidateAccepted
  <2>3. pc' = "loop" /\ UNCHANGED <<eliminate, estimated>>
    BY <1>7 DEF CandidateAccepted
  <2>4. eliminate /\ ~estimated => InBound(bytes + b)
    BY <1>0, <1>3, <2>1, LineInBound
  <2> QED BY <1>2, <2>2, <2>3, <2>4
<1>8. CASE EmitUnvalidated
  BY <1>2, <1>8 DEF EmitUnvalidated, Draw
<1>9. CASE Pad
  <2>1. eliminate /\ ~estimated => actual = bytes
    BY <1>9 DEF BytesInv, Pad
  <2>2. CASE actual < MaxBytes /\ eliminate /\ ~estimated
    <3>1. bytes' = bytes + 4 * ((MaxBytes - actual + 3) \div 4)
      BY <1>9, <2>2 DEF Pad, NopCount
    <3>2. bytes' \in Nat /\ bytes' >= MaxBytes /\ bytes' < MaxBytes + 12
      BY <1>0, <2>1, <2>2, <3>1
    <3>3. InBound(bytes')
      BY <3>2, NearInBound
    <3> QED BY <1>9, <3>2, <3>3 DEF OvershootInv, InBound, MaxBytes, Pad
  <2>3. CASE ~(actual < MaxBytes) /\ eliminate /\ ~estimated
    <3>1. bytes' = bytes /\ bytes >= MaxBytes
      BY <1>0, <1>9, <2>1, <2>3 DEF Pad, NopCount
    <3> QED BY <2>3, <3>1 DEF OvershootInv, InBound, MaxBytes
  <2>4. CASE ~eliminate \/ estimated
    BY <1>9, <2>4 DEF Pad, OvershootInv
  <2> QED BY <2>2, <2>3, <2>4
<1>10. CASE WriteFile \/ LeaveLoop
  BY <1>1, <1>10 DEF WriteFile, LeaveLoop
<1>11. CASE SkipLastJump \/ JumpDisabled \/ BeginValidation \/ CandidateRejected \/ GiveUpInstr
  BY <1>1, <1>11 DEF SkipLastJump, JumpDisabled, BeginValidation, CandidateRejected, GiveUpInstr, Draw
<1>12. CASE Start \/ SetupFails \/ SeedRaises
  BY <1>1, <1>12 DEF Start, SetupFails, SeedRaises
<1>13. ASSUME NEW kind \in ExtKinds, DrawCompressed(kind) PROVE OvershootInv'
  BY <1>1, <1>13 DEF DrawCompressed, Draw
<1> QED BY <1>4, <1>5, <1>6, <1>7, <1>8, <1>9, <1>10, <1>11, <1>12, <1>13 DEF Next, Progress

\* A seed whose sequences all compiled fills the main region of the NOP template and
\* exceeds it by less than its longest sequence, although the bound is only looked at
\* before a sequence is appended.
THEOREM OvershootInvariant ==
  ASSUME SomeBody
  PROVE  Spec => []OvershootBounded
<1>1. Init => TypeInv /\ BytesInv /\ OvershootInv
  <2>1. Init => BytesInv
    BY DEF Init, BytesInv
  <2>2. 0 \in Nat /\ 0 < MaxBytes + 12
    BY BoundsTyped
  <2>3. Init => OvershootInv
    BY <2>2, NearInBound DEF Init, OvershootInv
  <2> QED BY <2>1, <2>3, TypeInit
<1>2. TypeInv /\ BytesInv /\ OvershootInv /\ [Next]_vars => TypeInv' /\ BytesInv' /\ OvershootInv'
  BY TypeStep, BytesStep, OvershootStep
<1>3. OvershootInv => OvershootBounded
  BY DEF OvershootInv, OvershootBounded, InBound
<1> QED BY <1>1, <1>2, <1>3, PTL DEF Spec
-----------------------------------------------------------------------------
\* Why a seed ends.  A turn of the loop takes a slot or a retry, and validation at
\* most MAX_MUTATE_TIME candidates; what is left of all of them is a number.
Turns(slots, retries, l, r) == (IF l < slots THEN slots - l ELSE 0) + (retries - r)
TurnsLeft == Turns(InstrNumber, MaxRetry, logical, retry)
TurnSteps == MaxMutate + 2
StepsLeft ==
  CASE pc = "start" -> TurnsLeft * TurnSteps + 4
    [] pc = "loop" -> TurnsLeft * TurnSteps + 3
    [] pc = "validate" -> (TurnsLeft - 1) * TurnSteps + 4 + (MaxMutate - attempts)
    [] pc = "pad" -> 2
    [] pc = "write" -> 1
    [] pc \in {"written", "skipped", "dead"} -> 0

\* Every step brings the end of the seed nearer, but for the draws of an extension
\* with compressed instructions only, which use nothing up (generate_instructions).
WorkShrinks ==
  [][\/ StepsLeft' < StepsLeft
     \/ (\E kind \in ExtKinds : DrawCompressed(kind)) /\ StepsLeft' = StepsLeft]_vars

StepsCounted == StepsLeft \in Nat

LEMMA TurnsTyped ==
  ASSUME TypeOK
  PROVE  TurnsLeft \in Nat /\ TurnSteps \in Nat \ {0}
<1>1. InstrNumber \in Nat /\ MaxRetry \in Nat /\ MaxMutate \in Nat
  BY BoundsTyped, SeedGenAssumption
<1> QED BY <1>1 DEF TypeOK, Turns, TurnsLeft, TurnSteps

LEMMA TurnsNext ==
  TurnsLeft' = Turns(InstrNumber, MaxRetry, logical', retry')
  BY DEF TurnsLeft, MaxRetry

LEMMA TurnsFall ==
  ASSUME NEW n \in Nat, NEW m \in Nat, NEW l \in Nat, NEW r \in 0 .. m
  PROVE  /\ Turns(n, m, l, r) \in Nat
         /\ l < n => \A k \in Nat : k > l => Turns(n, m, k, r) < Turns(n, m, l, r)
         /\ \A q \in 0 .. m : q > r => Turns(n, m, l, q) < Turns(n, m, l, r)
  BY DEF Turns

\* One turn less is TurnSteps steps less.
LEMMA OneTurn ==
  \A a, b, k \in Nat : a < b => (b - 1) * k = b * k - k /\ a * k <= b * k - k
<1> SUFFICES ASSUME NEW a \in Nat, NEW b \in Nat, NEW k \in Nat, a < b
             PROVE  (b - 1) * k = b * k - k /\ a * k <= b * k - k
  OBVIOUS
<1>1. (b - 1) * k = b * k - k
  OBVIOUS
<1>2. a <= b - 1 /\ a \in Nat /\ b - 1 \in Nat
  OBVIOUS
<1>3. \A x, y \in Nat : x <= y => x * k <= y * k
  OBVIOUS
<1>4. a * k <= (b - 1) * k
  BY <1>2, <1>3
<1> QED BY <1>1, <1>4

LEMMA StepsTyped ==
  ASSUME TypeInv
  PROVE  StepsCounted
<1>1. TurnsLeft \in Nat /\ TurnSteps \in Nat
  BY TurnsTyped DEF TypeInv
<1>2. \A a, b \in Nat : a * b \in Nat
  OBVIOUS
<1>3. TurnsLeft * TurnSteps \in Nat
  BY <1>1, <1>2
<1>4. ASSUME pc = "validate"
      PROVE  (TurnsLeft - 1) * TurnSteps \in Nat /\ MaxMutate - attempts \in Nat
  <2>1. TurnsLeft - 1 \in Nat
    BY <1>4, BoundsTyped DEF TypeInv, TypeOK, Guarded, LoopGuard, TurnsLeft, Turns
  <2>2. MaxMutate - attempts \in Nat
    BY SeedGenAssumption DEF TypeInv, TypeOK
  <2> QED BY <1>1, <1>2, <2>1, <2>2
<1>5. pc \in {"start", "loop", "validate", "pad", "write", "written", "skipped", "dead"}
  BY DEF TypeInv, TypeOK
<1>6. CASE pc = "start"
  BY <1>3, <1>6 DEF StepsCounted, StepsLeft
<1>7. CASE pc = "loop"
  BY <1>3, <1>7 DEF StepsCounted, StepsLeft
<1>8. CASE pc = "validate"
  BY <1>4, <1>8 DEF StepsCounted, StepsLeft
<1>9. CASE pc \in {"pad", "write", "written", "skipped", "dead"}
  BY <1>9 DEF StepsCounted, StepsLeft
<1> QED BY <1>5, <1>6, <1>7, <1>8, <1>9

\* A turn that ends in the loop again took a slot or a retry.
LEMMA TurnTaken ==
  ASSUME TypeInv, TypeInv', pc \in {"loop", "validate"}, pc' = "loop",
         TurnsLeft' < TurnsLeft
  PROVE  StepsLeft' < StepsLeft
<1> DEFINE t == TurnsLeft
           u == TurnsLeft'
           k == TurnSteps
           a == attempts
<1>1. t \in Nat /\ k \in Nat \ {0}
  BY TurnsTyped DEF TypeInv
<1>2. u \in Nat
  <2>1. logical' \in Nat /\ retry' \in 0 .. MaxRetry /\ InstrNumber \in Nat /\ MaxRetry \in Nat
    BY BoundsTyped DEF TypeInv, TypeOK
  <2> QED BY <2>1, TurnsNext, TurnsFall
<1>3. u < t /\ k = MaxMutate + 2 /\ MaxMutate \in Nat /\ a \in 0 .. MaxMutate
  BY SeedGenAssumption DEF TurnSteps, TypeInv, TypeOK
<1>4. StepsLeft' = u * k + 3
  BY DEF StepsLeft, TurnSteps
<1>5. pc = "loop" => StepsLeft = t * k + 3
  BY DEF StepsLeft
<1>6. pc = "validate" => StepsLeft = (t - 1) * k + 4 + (MaxMutate - a)
  BY DEF StepsLeft
<1> HIDE DEF t, u, k, a
<1>7. (t - 1) * k = t * k - k /\ u * k <= t * k - k /\ t * k \in Int /\ u * k \in Int
  BY <1>1, <1>2, <1>3, OneTurn
<1> QED BY <1>1, <1>3, <1>4, <1>5, <1>6, <1>7

\* A slot or a retry is one turn.
SlotOrRetry ==
  \/ logical' > logical /\ retry' = retry
  \/ logical' = logical /\ retry' > retry

LEMMA SlotTaken ==
  ASSUME TypeInv, TypeInv', LoopGuard, SlotOrRetry
  PROVE  TurnsLeft' < TurnsLeft
<1>1. InstrNumber \in Nat /\ MaxRetry \in Nat
  BY BoundsTyped
<1>2. logical < InstrNumber /\ retry < MaxRetry
  BY DEF LoopGuard
<1>3. logical \in Nat /\ retry \in Nat /\ logical' \in Nat /\ retry' \in 0 .. MaxRetry
  BY <1>1 DEF TypeInv, TypeOK
<1>4. retry \in 0 .. MaxRetry
  BY DEF TypeInv, TypeOK
<1>5. CASE logical' > logical /\ retry' = retry
  <2>1. Turns(InstrNumber, MaxRetry, logical', retry) < Turns(InstrNumber, MaxRetry, logical, retry)
    BY <1>1, <1>2, <1>3, <1>4, <1>5, TurnsFall
  <2> QED BY <1>5, <2>1, TurnsNext DEF TurnsLeft
<1>6. CASE logical' = logical /\ retry' > retry
  <2>1. Turns(InstrNumber, MaxRetry, logical, retry') < Turns(InstrNumber, MaxRetry, logical, retry)
    BY <1>1, <1>3, <1>4, <1>6, TurnsFall
  <2> QED BY <1>6, <2>1, TurnsNext DEF TurnsLeft
<1> QED BY <1>5, <1>6 DEF SlotOrRetry

LEMMA SequenceTakes ==
  ASSUME TypeInv, Sequence
  PROVE  pc = "loop" /\ pc' = "loop" /\ LoopGuard /\ SlotOrRetry
<1>1. PICK m \in MiddleLens : BackwardLoop(m) \/ ForwardJump(m) \/ IndirectJump(m)
  BY DEF Sequence
<1>2. m \in Nat /\ logical \in Nat
  BY SeedGenAssumption DEF TypeInv, TypeOK
<1>3. PICK n \in Nat : /\ n > 0
                       /\ \E length, estimate, lines : AppendSequence(length, estimate, n, lines)
  <2>1. m + 4 \in Nat /\ m + 1 \in Nat /\ m + 2 \in Nat /\ m + 4 > 0 /\ m + 1 > 0 /\ m + 2 > 0
    BY <1>2
  <2>2. CASE BackwardLoop(m)
    BY <2>1, <2>2 DEF BackwardLoop
  <2>3. CASE ForwardJump(m)
    BY <2>1, <2>3 DEF ForwardJump
  <2>4. CASE IndirectJump(m)
    BY <2>1, <2>4 DEF IndirectJump
  <2> QED BY <1>1, <2>2, <2>3, <2>4
<1> QED BY <1>2, <1>3 DEF AppendSequence, Draw, SlotOrRetry

LEMMA StepShrinks ==
  ASSUME TypeInv, TypeInv', Next
  PROVE  \/ StepsLeft' < StepsLeft
         \/ (\E kind \in ExtKinds : DrawCompressed(kind)) /\ StepsLeft' = StepsLeft
<1> USE DEF options, counters
<1>0. StepsLeft \in Nat /\ TurnsLeft \in Nat /\ TurnSteps = MaxMutate + 2 /\ MaxMutate \in Nat
  BY StepsTyped, TurnsTyped, SeedGenAssumption DEF StepsCounted, TypeInv, TurnSteps
<1>1. CASE EmitIllegal \/ JumpDisabled \/ SkipLastJump \/ EmitUnvalidated
  <2>1. pc = "loop" /\ pc' = "loop" /\ LoopGuard
    BY <1>1 DEF EmitIllegal, JumpDisabled, SkipLastJump, EmitUnvalidated, Draw
  <2>2. /\ logical \in Nat /\ retry \in Nat
        /\ \/ logical' = logical + 1 /\ retry' = retry
           \/ logical' = logical /\ retry' = retry + 1
    BY <1>1, BoundsTyped
       DEF EmitIllegal, JumpDisabled, SkipLastJump, EmitUnvalidated, TypeInv, TypeOK
  <2>3. SlotOrRetry
    BY <2>2 DEF SlotOrRetry
  <2> QED BY <2>1, <2>3, SlotTaken, TurnTaken
<1>2. CASE Sequence
  <2>1. pc = "loop" /\ pc' = "loop" /\ LoopGuard /\ SlotOrRetry
    BY <1>2, SequenceTakes
  <2> QED BY <2>1, SlotTaken, TurnTaken
<1>3. CASE BeginValidation
  <2>1. /\ pc = "loop" /\ LoopGuard /\ pc' = "validate" /\ attempts' = 0
        /\ UNCHANGED <<logical, retry>>
    BY <1>3 DEF BeginValidation, Draw
  <2>2. TurnsLeft' = TurnsLeft
    BY <2>1 DEF TurnsLeft, Turns
  <2>3. StepsLeft = TurnsLeft * TurnSteps + 3
    BY <2>1 DEF StepsLeft
  <2>4. StepsLeft' = (TurnsLeft - 1) * TurnSteps + 4 + MaxMutate
    BY <1>0, <2>1, <2>2 DEF StepsLeft, TurnSteps
  <2>5. TurnsLeft > 0
    BY <2>1, BoundsTyped DEF LoopGuard, TurnsLeft, Turns, TypeInv, TypeOK
  <2>6. \A t, k \in Nat : (t - 1) * k = t * k - k /\ t * k \in Nat
    OBVIOUS
  <2>7. TurnSteps \in Nat
    BY <1>0
  <2>8. /\ (TurnsLeft - 1) * TurnSteps = TurnsLeft * TurnSteps - TurnSteps
        /\ TurnsLeft * TurnSteps \in Nat
    BY <1>0, <2>6, <2>7
  <2> QED BY <1>0, <2>3, <2>4, <2>8
<1>4. CASE CandidateAccepted \/ GiveUpInstr
  <2>1. pc = "validate" /\ pc' = "loop" /\ LoopGuard
    BY <1>4 DEF CandidateAccepted, GiveUpInstr, TypeInv, Guarded
  <2>2. /\ logical \in Nat /\ retry \in Nat
        /\ \/ logical' = logical + 1 /\ retry' = retry
           \/ logical' = logical /\ retry' = retry + 1
    BY <1>4, BoundsTyped DEF CandidateAccepted, GiveUpInstr, TypeInv, TypeOK
  <2>3. SlotOrRetry
    BY <2>2 DEF SlotOrRetry
  <2> QED BY <2>1, <2>3, SlotTaken, TurnTaken
<1>5. CASE CandidateRejected
  <2>1. /\ pc = "validate" /\ pc' = "validate" /\ attempts' = attempts + 1
        /\ UNCHANGED <<logical, retry>>
    BY <1>5 DEF CandidateRejected
  <2>2. TurnsLeft' = TurnsLeft
    BY <2>1 DEF TurnsLeft, Turns
  <2>3. StepsLeft = (TurnsLeft - 1) * TurnSteps + 4 + (MaxMutate - attempts)
    BY <2>1 DEF StepsLeft
  <2>4. StepsLeft' = (TurnsLeft - 1) * TurnSteps + 4 + (MaxMutate - (attempts + 1))
    BY <2>1, <2>2 DEF StepsLeft, TurnSteps
  <2>5. (TurnsLeft - 1) * TurnSteps \in Int /\ attempts \in Int
    <3>1. \A a, b \in Int : a * b \in Int
      OBVIOUS
    <3> QED BY <1>0, <3>1 DEF TypeInv, TypeOK
  <2> QED BY <1>0, <2>3, <2>4, <2>5
<1>6. CASE EmitNop
  <2>1. pc \in {"loop", "validate"} /\ pc' = "loop" /\ LoopGuard
    BY <1>6 DEF EmitNop, Draw, TypeInv, Guarded
  <2>2. logical \in Nat /\ logical' = logical + 1 /\ retry' = retry
    BY <1>6 DEF EmitNop, TypeInv, TypeOK
  <2>3. SlotOrRetry
    BY <2>2 DEF SlotOrRetry
  <2> QED BY <2>1, <2>3, SlotTaken, TurnTaken
<1>7. CASE Start
  <2>1. pc = "start" /\ pc' = "loop" /\ UNCHANGED <<logical, retry>>
    BY <1>7 DEF Start
  <2>2. StepsLeft' = TurnsLeft * TurnSteps + 3 /\ StepsLeft = TurnsLeft * TurnSteps + 4
    BY <2>1 DEF StepsLeft, TurnsLeft, Turns, TurnSteps
  <2>3. \A x \in Int : x + 3 < x + 4
    OBVIOUS
  <2>4. TurnsLeft * TurnSteps \in Int
    <3>1. \A a, b \in Int : a * b \in Int
      OBVIOUS
    <3> QED BY <1>0, <3>1
  <2> QED BY <2>2, <2>3, <2>4
<1>8. CASE SetupFails \/ SeedRaises \/ LeaveLoop
  <2>1. /\ pc \in {"start", "loop", "validate"} /\ StepsLeft' \in {0, 2}
        /\ pc' \in {"skipped", "dead", "pad"}
    BY <1>8 DEF SetupFails, SeedRaises, LeaveLoop, StepsLeft
  <2>2. StepsLeft >= 3
    <3>1. \A a, b \in Nat : a * b \in Nat
      OBVIOUS
    <3>2. TurnsLeft * TurnSteps \in Nat
      BY <1>0, <3>1
    <3>3. CASE pc \in {"start", "loop"}
      BY <3>2, <3>3 DEF StepsLeft
    <3>4. CASE pc = "validate"
      <4>1. TurnsLeft - 1 \in Nat /\ MaxMutate - attempts \in Nat
        BY <1>0, <3>4, BoundsTyped
           DEF TypeInv, TypeOK, Guarded, LoopGuard, TurnsLeft, Turns
      <4>2. (TurnsLeft - 1) * TurnSteps \in Nat
        BY <1>0, <3>1, <4>1
      <4> QED BY <3>4, <4>1, <4>2 DEF StepsLeft
    <3> QED BY <2>1, <3>3, <3>4
  <2> QED BY <1>0, <2>1, <2>2
<1>9. CASE Pad \/ WriteFile
  BY <1>9 DEF Pad, WriteFile, StepsLeft
<1>10. ASSUME NEW kind \in ExtKinds, DrawCompressed(kind) PROVE StepsLeft' = StepsLeft
  BY <1>10 DEF DrawCompressed, Draw, StepsLeft, TurnsLeft, Turns, TurnSteps
<1> QED BY <1>1, <1>2, <1>3, <1>4, <1>5, <1>6, <1>7, <1>8, <1>9, <1>10 DEF Next, Progress

\* A seed ends: at most (instr_number + MAX_TOTAL_INSTR_RETRY) * (MAX_MUTATE_TIME + 2) + 4
\* steps are not draws of compressed extensions, whatever is refused and whatever fails.
THEOREM WorkIsBounded ==
  /\ Init => StepsLeft = (InstrNumber + MaxRetry) * (MaxMutate + 2) + 4
  /\ Spec => []StepsCounted /\ WorkShrinks
<1>1. ASSUME Init PROVE StepsLeft = (InstrNumber + MaxRetry) * (MaxMutate + 2) + 4
  <2>1. pc = "start" /\ TurnsLeft = InstrNumber + MaxRetry
    BY <1>1, BoundsTyped, SeedGenAssumption DEF Init, TurnsLeft, Turns
  <2> QED BY <2>1 DEF StepsLeft, TurnSteps
<1>2. Init => TypeInv
  BY TypeInit
<1>3. TypeInv /\ [Next]_vars => TypeInv'
  BY TypeStep
<1>4. TypeInv => StepsCounted
  BY StepsTyped
<1>5. TypeInv /\ TypeInv' /\ [Next]_vars =>
        [\/ StepsLeft' < StepsLeft
         \/ (\E kind \in ExtKinds : DrawCompressed(kind)) /\ StepsLeft' = StepsLeft]_vars
  BY StepShrinks
<1>6. Spec => []StepsCounted /\ WorkShrinks
  BY <1>2, <1>3, <1>4, <1>5, PTL DEF Spec, WorkShrinks
<1> QED BY <1>1, <1>6
=============================================================================
