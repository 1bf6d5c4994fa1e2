---------------------------- MODULE Stage_proofs ----------------------------
(* Proofs about the instruction stage: InstrGen, Mutator and Filters, and    *)
(* the tables and bit fields they share.  TLC explores them on samples of    *)
(* registers, instructions and bodies; the theorems hold for all of them.    *)
(*                                                                           *)
(* Induction over the natural numbers is on sets, by the least-element       *)
(* principle of WellFoundedInduction.                                        *)
EXTENDS InstrGen, Mutator, Filters, WellFoundedInduction, SequenceTheorems, FiniteSetTheorems, TLAPS

-----------------------------------------------------------------------------
(* Induction.                                                                *)

LEMMA LeastNatural ==
    ASSUME NEW T \in SUBSET Nat, T # {}
    PROVE  \E n \in T : \A m \in T : n <= m
  <1>1. IsWellFoundedOn(OpToRel(<, Nat), Nat)
    BY NatLessThanWellFounded
  <1>2. PICK n \in T : \A m \in T : <<m, n>> \notin OpToRel(<, Nat)
    BY <1>1, WFMin
  <1>3. \A m \in T : m \in Nat /\ n \in Nat /\ ~(m < n)
    BY <1>2 DEF OpToRel
  <1>4. \A m \in T : n <= m
    BY <1>3
  <1> QED BY <1>2, <1>4

LEMMA Induction ==
    ASSUME NEW T, 0 \in T, \A n \in Nat : n \in T => n + 1 \in T
    PROVE  \A n \in Nat : n \in T
  <1> SUFFICES ASSUME Nat \ T # {} PROVE FALSE
    OBVIOUS
  <1>1. PICK n \in Nat \ T : \A m \in Nat \ T : n <= m
    BY LeastNatural
  <1>2. n # 0 /\ n - 1 \in Nat
    BY <1>1
  <1>3. n - 1 \in T
    BY <1>1, <1>2
  <1> QED BY <1>1, <1>2, <1>3

-----------------------------------------------------------------------------
(* The fields of an immediate (ImmFields).                                   *)

\* An I-type immediate (loads, addi, jalr): the low twelve bits hold it.
THEOREM IExact ==
    ASSUME NEW v \in -2048..2047
    PROVE  IValue(LowBits(v, 4096)) = v
  BY SMT DEF IValue, LowBits, Signed

\* The offset of a store, cut into imm[11:5] and imm[4:0].
THEOREM SExact ==
    ASSUME NEW v \in -2048..2047
    PROVE  SValue(Imm12Hi(v), Imm12Lo(v)) = v
  BY SMT DEF SValue, Imm12Hi, Imm12Lo, Signed

\* The offset of a branch, of which the lowest bit is not kept.
THEOREM BExact ==
    ASSUME NEW v \in Int, -4096 <= v, v <= 4095, v % 2 = 0
    PROVE  BValue(BImm12Hi(v), BImm12Lo(v)) = v
  <1> DEFINE a == Bit(v, 4096)
             b == (v \div 32) % 64
             c == Bit(v, 2048)
             d == (v \div 2) % 16
  <1>1. a \in 0..1 /\ b \in 0..63 /\ c \in 0..1 /\ d \in 0..15
    BY SMT DEF Bit
  <1>2. a * 4096 + c * 2048 + b * 32 + d * 2 = IF v >= 0 THEN v ELSE v + 8192
    BY SMT DEF Bit
  <1>3. BImm12Hi(v) = a * 64 + b /\ BImm12Lo(v) = d * 2 + c
    BY SMT DEF BImm12Hi, BImm12Lo
  <1> HIDE DEF a, b, c, d
  <1>4. /\ BImm12Hi(v) \div 64 = a /\ BImm12Hi(v) % 64 = b
        /\ BImm12Lo(v) \div 2 = d /\ BImm12Lo(v) % 2 = c
    BY <1>1, <1>3, SMT
  <1>5. BValue(BImm12Hi(v), BImm12Lo(v)) = Signed(a * 4096 + c * 2048 + b * 32 + d * 2, 4096)
    BY <1>4, SMT DEF BValue
  <1>6. QED
    BY <1>2, <1>5, SMT DEF Signed

\* The offset of a jal, whose bits are packed in four pieces.
THEOREM JExact ==
    ASSUME NEW v \in Int, -1048576 <= v, v < 1048576, v % 2 = 0
    PROVE  JValue(JImm20(v)) = v
  <1> DEFINE a == Bit(v, 1048576)
             b == (v \div 2) % 1024
             c == Bit(v, 2048)
             d == (v \div 4096) % 256
  <1>1. a \in 0..1 /\ b \in 0..1023 /\ c \in 0..1 /\ d \in 0..255
    BY SMT DEF Bit
  <1>2. a * 1048576 + d * 4096 + c * 2048 + b * 2 = IF v >= 0 THEN v ELSE v + 2097152
    <2>1. b * 2 = v % 2048
      BY SMT
    <2>2. c * 2048 + (v % 2048) = v % 4096
      BY SMT DEF Bit
    <2>3. d * 4096 + (v % 4096) = v % 1048576
      BY SMT
    <2>4. a = IF v >= 0 THEN 0 ELSE 1
      BY SMT DEF Bit
    <2>5. v % 1048576 = IF v >= 0 THEN v ELSE v + 1048576
      BY SMT
    <2>6. v % 2048 \in 0..2047 /\ v % 4096 \in 0..4095
      BY SMT
    <2> HIDE DEF a, b, c, d
    <2>7. QED
      BY <1>1, <2>1, <2>2, <2>3, <2>4, <2>5, <2>6, SMT
  <1>3. JImm20(v) = a * 524288 + b * 512 + c * 256 + d
    BY SMT DEF JImm20
  <1> HIDE DEF a, b, c, d
  <1>4. JImm20(v) \div 524288 = a
    BY <1>1, <1>3, SMT
  <1>5. (JImm20(v) \div 512) % 1024 = b
    <2>1. JImm20(v) \div 512 = a * 1024 + b
      BY <1>1, <1>3, SMT
    <2>2. QED
      BY <1>1, <2>1, SMT
  <1>6. (JImm20(v) \div 256) % 2 = c
    <2>1. JImm20(v) \div 256 = a * 2048 + b * 2 + c
      BY <1>1, <1>3, SMT
    <2>2. QED
      BY <1>1, <2>1, SMT
  <1>7. JImm20(v) % 256 = d
    BY <1>1, <1>3, SMT
  <1>8. JValue(JImm20(v)) = Signed(a * 1048576 + d * 4096 + c * 2048 + b * 2, 1048576)
    BY <1>4, <1>5, <1>6, <1>7, SMT DEF JValue
  <1>9. QED
    BY <1>2, <1>8, SMT DEF Signed

\* auipc and addi load the address they were computed from: the carry of a negative
\* low part is in the high part (compile_indirect_jump, "sign adjustment").
THEOREM SplitExact ==
    ASSUME NEW t \in Nat, t < 2147481600
    PROVE  /\ Hi20(t) * 4096 + Lo12(t) = t
           /\ Hi20(t) \in Nat /\ Hi20(t) < 524288
           /\ Lo12(t) \in Int /\ -2048 <= Lo12(t) /\ Lo12(t) <= 2047
  <1> DEFINE q == t \div 4096
             r == t % 4096
  <1>1. t = q * 4096 + r /\ r \in 0..4095 /\ q \in Nat /\ q < 524288
    BY SMT
  <1>2. r >= 2048 => q + 1 < 524288
    BY <1>1, SMT
  <1>3. q % 1048576 = q /\ (r >= 2048 => (q + 1) % 1048576 = q + 1)
    BY <1>1, <1>2, SMT
  <1>4. /\ Hi20(t) = IF r >= 2048 THEN (q + 1) % 1048576 ELSE q % 1048576
        /\ Lo12(t) = IF r >= 2048 THEN r - 4096 ELSE r
    BY SMT DEF Hi20, Lo12
  <1> HIDE DEF q, r
  <1>5. CASE r >= 2048
    <2>1. Hi20(t) = q + 1 /\ Lo12(t) = r - 4096
      BY <1>3, <1>4, <1>5, SMT
    <2>2. r - 4096 \in Int /\ -2048 <= r - 4096 /\ r - 4096 <= 2047
      BY <1>1, <1>5, SMT
    <2>3. Hi20(t) * 4096 + Lo12(t) = t
      BY <1>1, <2>1, SMT
    <2>4. Hi20(t) \in Nat /\ Hi20(t) < 524288
      BY <1>1, <1>2, <1>5, <2>1, SMT
    <2>5. QED
      BY <2>1, <2>2, <2>3, <2>4
  <1>6. CASE r < 2048
    <2>1. ~(r >= 2048)
      BY <1>1, <1>6, SMT
    <2>2. Hi20(t) = q /\ Lo12(t) = r
      BY <1>3, <1>4, <2>1, SMT
    <2>3. r \in Int /\ -2048 <= r /\ r <= 2047
      BY <1>1, <1>6, SMT
    <2>4. Hi20(t) * 4096 + Lo12(t) = t
      BY <1>1, <2>2, SMT
    <2>5. Hi20(t) \in Nat /\ Hi20(t) < 524288
      BY <1>1, <2>2, SMT
    <2>6. Lo12(t) \in Int /\ -2048 <= Lo12(t) /\ Lo12(t) <= 2047
      BY <2>2, <2>3, SMT
    <2>7. QED
      BY <2>4, <2>5, <2>6, SMT
  <1>7. QED
    BY <1>1, <1>5, <1>6, SMT
-----------------------------------------------------------------------------
(* The sizes of the lines of a sequence (JumpCompile).                       *)

LEMMA FunctionIsSequence ==
    ASSUME NEW N \in Nat, NEW S, NEW s \in [1..N -> S]
    PROVE  s \in Seq(S) /\ Len(s) = N
  <1>1. s \in Seq(S)
    BY SeqDef
  <1> QED BY <1>1, LenProperties

\* The recursion of Sums is a function: one exists for every number of lines.
LEMMA SumsEquation ==
    ASSUME NEW N \in Nat, NEW s \in [1..N -> Nat]
    PROVE  Sums(s) = [n \in 0..N |-> IF n = 0 THEN 0 ELSE Sums(s)[n - 1] + s[n]]
  <1> DEFINE Defined(g, n) == g = [k \in 0..n |-> IF k = 0 THEN 0 ELSE g[k - 1] + s[k]]
             T == {n \in Nat : n <= N => \E g : Defined(g, n)}
  <1>1. 0 \in T
    <2>1. Defined([k \in 0..0 |-> 0], 0)
      OBVIOUS
    <2> QED BY <2>1
  <1>2. ASSUME NEW n \in Nat, n \in T PROVE n + 1 \in T
    <2> SUFFICES ASSUME n + 1 <= N PROVE \E g : Defined(g, n + 1)
      OBVIOUS
    <2>1. PICK g : Defined(g, n)
      BY <1>2
    <2> DEFINE h == [k \in 0..(n + 1) |-> IF k = n + 1 THEN g[n] + s[n + 1] ELSE g[k]]
    <2>2. ASSUME NEW k \in 0..(n + 1) PROVE h[k] = IF k = 0 THEN 0 ELSE h[k - 1] + s[k]
      BY <2>1
    <2>3. Defined(h, n + 1)
      BY <2>2
    <2> QED BY <2>3
  <1> HIDE DEF T, Defined
  <1>3. \A n \in Nat : n \in T
    BY <1>1, <1>2, Induction
  <1>4. \E g : Defined(g, N)
    BY <1>3 DEF T
  <1>5. Len(s) = N
    BY FunctionIsSequence
  <1> QED BY <1>4, <1>5 DEF Sums, Defined

LEMMA EightLines == \A n \in 0..8 : \A t \in 0..(32 * n) : t \in 0..256
  BY SMT

\* The sums grow, by a whole number of words of at most eight per line.
LEMMA SumsFacts ==
    ASSUME NEW N \in 0..8, NEW s \in [1..N -> {4 * w : w \in 1..8}]
    PROVE  /\ Sums(s)[0] = 0
           /\ \A n \in 1..N : Sums(s)[n] = Sums(s)[n - 1] + s[n]
           /\ \A n \in 0..N : Sums(s)[n] \in 0..Total(s)
           /\ Total(s) \in 0..256 /\ Total(s) % 4 = 0
  <1>1. N \in Nat /\ s \in [1..N -> Nat] /\ Len(s) = N
    BY FunctionIsSequence
  <1>2. Sums(s)[0] = 0 /\ \A n \in 1..N : Sums(s)[n] = Sums(s)[n - 1] + s[n]
    <2>1. Sums(s) = [n \in 0..N |-> IF n = 0 THEN 0 ELSE Sums(s)[n - 1] + s[n]]
      BY <1>1, SumsEquation
    <2>2. \A n \in 0..N : Sums(s)[n] = IF n = 0 THEN 0 ELSE Sums(s)[n - 1] + s[n]
      BY <2>1
    <2>3. 0 \in 0..N /\ \A n \in 1..N : n \in 0..N /\ n # 0
      BY <1>1
    <2> QED BY <2>2, <2>3
  <1> DEFINE T == {n \in Nat : n <= N => /\ Sums(s)[n] \in 0..(32 * n) /\ Sums(s)[n] % 4 = 0
                                         /\ \A k \in 0..n : Sums(s)[k] \in 0..Sums(s)[n]}
  <1>3. 0 \in T
    BY <1>2
  <1>4. ASSUME NEW n \in Nat, n \in T PROVE n + 1 \in T
    <2> SUFFICES ASSUME n + 1 <= N
                 PROVE /\ Sums(s)[n + 1] \in 0..(32 * (n + 1)) /\ Sums(s)[n + 1] % 4 = 0
                       /\ \A k \in 0..(n + 1) : Sums(s)[k] \in 0..Sums(s)[n + 1]
      OBVIOUS
    <2>1. PICK w \in 1..8 : s[n + 1] = 4 * w
      OBVIOUS
    <2>2. Sums(s)[n + 1] = Sums(s)[n] + 4 * w
      BY <1>2, <2>1
    <2>3. Sums(s)[n] \in 0..(32 * n) /\ Sums(s)[n] % 4 = 0
      BY <1>4
    <2>4. Sums(s)[n + 1] \in 0..(32 * (n + 1)) /\ Sums(s)[n + 1] % 4 = 0
      BY <2>2, <2>3
    <2>5. ASSUME NEW k \in 0..(n + 1) PROVE Sums(s)[k] \in 0..Sums(s)[n + 1]
      <3>1. CASE k = n + 1
        BY <2>4, <3>1
      <3>2. CASE k # n + 1
        <4>1. Sums(s)[k] \in 0..Sums(s)[n]
          BY <1>4, <3>2
        <4> QED BY <2>2, <2>3, <4>1
      <3> QED BY <3>1, <3>2
    <2> QED BY <2>4, <2>5
  <1> HIDE DEF T
  <1>5. \A n \in Nat : n \in T
    BY <1>3, <1>4, Induction
  <1>6. /\ Total(s) \in 0..(32 * N) /\ Total(s) % 4 = 0
        /\ \A k \in 0..N : Sums(s)[k] \in 0..Total(s)
    BY <1>1, <1>5 DEF T, Total
  <1>7. Total(s) \in 0..256
    BY <1>6, EightLines
  <1> QED BY <1>2, <1>6, <1>7

-----------------------------------------------------------------------------
(* The slots of a seed (InstrGen).                                           *)

\* What a line of a body may be.
Entries(p) == UNION {{BodyEntry(c[1], l) : l \in NewInstr(c[1], c[2], c[3])} : c \in BodyRows[p]}

\* Which parts of a slot are filled in, phase by phase.
Shape ==
    /\ phase \in {"setup", "choose", "body", "compile", "run", "end", "failed"}
    /\ phase \in {"setup", "choose", "failed"} => kind = "none" /\ body = <<>>
    /\ phase \in {"body", "compile", "run"} =>
          /\ profile \in DrawProfiles /\ kind \in {"forward", "indirect", "loop"}
          /\ kind = "loop" => guarded = "s11" /\ iterations \in 1..MaxIterations
    /\ phase \in {"setup", "choose", "failed", "body", "compile"} => pc = 0 /\ rounds = 0
    /\ body \in Seq(Entries(profile)) /\ Len(body) <= MaxBody
    /\ kind = "loop" => \A i \in DOMAIN body : body[i].dest # "s11"
    /\ phase = "run" => sizes \in [1..Len(body) -> {4 * w : w \in 1..8}]

\* Where the run of a sequence can be: a jump that was taken is at its label, and what
\* is left of a loop's rounds is in its register.
Control ==
    /\ landed => phase = "run" /\ pc = LabelAt
    /\ phase = "run" /\ kind = "loop" =>
          \/ pc = 0 /\ rounds = 0
          \/ /\ pc \in HeadSize..BodyEnd /\ counter \in Nat \ {0} /\ rounds \in Nat
             /\ counter + rounds = iterations
          \/ pc = SequenceEnd /\ rounds = iterations

LEMMA GenStarts == GenInit => Shape /\ Control
  BY EmptySeq, InstrGenAssumption DEF GenInit, Shape, Control

\* A line that passes the check keeps the register of a loop.
LEMMA BodyLineShape == Shape /\ BodyLine => Shape'
  <1> SUFFICES ASSUME Shape, BodyLine PROVE Shape'
    OBVIOUS
  <1> USE DEF BodyLine
  <1>1. PICK entry : entry \in Entries(profile) /\ KeepsGuarded(entry) /\ body' = Append(body, entry)
    BY DEF Entries
  <1>2. body \in Seq(Entries(profile)) /\ Len(body) \in Nat /\ Len(body) < MaxBody
    BY LenProperties DEF Shape
  <1>3. body' \in Seq(Entries(profile)) /\ Len(body') = Len(body) + 1
    BY <1>1, <1>2
  <1>4. Len(body') <= MaxBody
    BY <1>2, <1>3, InstrGenAssumption
  <1>5. \A i \in DOMAIN body' : body'[i] = entry \/ (i \in DOMAIN body /\ body'[i] = body[i])
    BY <1>1, <1>2
  <1>6. kind = "loop" => \A i \in DOMAIN body' : body'[i].dest # "s11"
    BY <1>1, <1>5 DEF Shape, KeepsGuarded
  <1> QED BY <1>3, <1>4, <1>6 DEF Shape, slot, run

LEMMA CompileShape == Shape /\ Compile => Shape'
  <1> SUFFICES ASSUME Shape, Compile PROVE Shape'
    OBVIOUS
  <1>1. body \in Seq(Entries(profile)) /\ DOMAIN body = 1..Len(body)
    BY LenProperties DEF Shape
  <1>2. sizes' \in [1..Len(body) -> {4 * n : n \in 1..MaxWords}]
    BY <1>1 DEF Compile
  <1>3. {4 * n : n \in 1..MaxWords} \subseteq {4 * w : w \in 1..8}
    BY InstrGenAssumption
  <1>4. sizes' \in [1..Len(body) -> {4 * w : w \in 1..8}]
    BY <1>2, <1>3
  <1> QED BY <1>4 DEF Shape, Compile, slot, run

LEMMA ShapeStep == Shape /\ [GenNext]_gvars => Shape'
  <1> SUFFICES ASSUME Shape, [GenNext]_gvars PROVE Shape'
    OBVIOUS
  <1>1. CASE Setup \/ Skipped \/ UNCHANGED gvars
    BY <1>1 DEF Setup, Skipped, gvars, slot, run, Shape
  <1>2. CASE Plain
    BY <1>2 DEF Plain, Choosing, run, Shape
  <1>3. CASE ForwardJump
    BY <1>3 DEF ForwardJump, Choosing, run, Shape
  <1>4. CASE IndirectJump
    BY <1>4 DEF IndirectJump, Choosing, run, Shape
  <1>5. CASE Loop
    <2>1. body' = <<>> /\ body' = body
      BY <1>5 DEF Loop, Choosing, Shape
    <2>2. \A i \in DOMAIN body' : body'[i].dest # "s11"
      BY <2>1
    <2> QED BY <1>5, <2>2 DEF Loop, Choosing, run, Shape
  <1>6. CASE BodyLine
    BY <1>6, BodyLineShape
  <1>7. CASE Compile
    BY <1>7, CompileShape
  <1>8. CASE BodyDone \/ CompileFails
    BY <1>8 DEF BodyDone, CompileFails, slot, run, Shape
  <1>9. CASE Prologue \/ TakeForward \/ NotTaken \/ TakeIndirect \/ RunBody \/ Decrement
    BY <1>9 DEF Prologue, TakeForward, NotTaken, TakeIndirect, RunBody, Decrement, InRun, slot, Shape
  <1>10. CASE RunEnds
    BY <1>10 DEF RunEnds, slot, Shape
  <1>11. CASE NextSlot
    BY <1>11, EmptySeq, InstrGenAssumption DEF NextSlot, Shape
  <1> QED BY <1>1, <1>2, <1>3, <1>4, <1>5, <1>6, <1>7, <1>8, <1>9, <1>10, <1>11 DEF GenNext

\* The bytes of a sequence that is run.
LEMMA RunSizes ==
    ASSUME Shape, phase = "run"
    PROVE  /\ Sums(sizes)[0] = 0
           /\ DOMAIN body = 1..Len(body)
           /\ \A n \in 1..Len(body) : sizes[n] \in Nat /\ Sums(sizes)[n] = Sums(sizes)[n - 1] + sizes[n]
           /\ \A n \in 0..Len(body) : Sums(sizes)[n] \in 0..Total(sizes)
           /\ Total(sizes) \in 0..256 /\ Total(sizes) % 4 = 0
           /\ HeadSize \in {4, 12} /\ (kind # "indirect" => HeadSize = 4)
  <1>1. Len(body) \in 0..8 /\ DOMAIN body = 1..Len(body)
    <2>1. body \in Seq(Entries(profile)) /\ Len(body) <= MaxBody
      BY DEF Shape
    <2>2. Len(body) \in Nat /\ DOMAIN body = 1..Len(body)
      BY <2>1, LenProperties
    <2>3. MaxBody \in 0..8
      BY InstrGenAssumption
    <2>4. Len(body) \in Nat /\ Len(body) <= MaxBody
      BY <2>1, <2>2
    <2>5. \A m \in 0..8, n \in Nat : n <= m => n \in 0..8
      OBVIOUS
    <2>6. Len(body) \in 0..8
      BY <2>3, <2>4, <2>5, Zenon
    <2> QED BY <2>2, <2>6, Zenon
  <1>2. sizes \in [1..Len(body) -> {4 * w : w \in 1..8}]
    BY DEF Shape
  <1>3. \A n \in 1..Len(body) : sizes[n] \in Nat
    BY <1>2
  <1>4. HeadSize \in {4, 12} /\ (kind # "indirect" => HeadSize = 4)
    BY DEF HeadSize
  <1> QED BY <1>1, <1>2, <1>3, <1>4, SumsFacts

LEMMA RunTotal ==
    ASSUME Shape, phase = "run"
    PROVE  /\ Total(sizes) \in 0..256 /\ Total(sizes) % 4 = 0
           /\ HeadSize \in {4, 12} /\ (kind # "indirect" => HeadSize = 4)
  BY RunSizes, Zenon

\* A line of the body ends where the next starts, or where the body ends.
LEMMA LinesStayInside ==
    ASSUME Shape, phase = "run", NEW i \in DOMAIN body
    PROVE  /\ Start(i) \in HeadSize..BodyEnd
           /\ Start(i) + sizes[i] \in HeadSize..BodyEnd
  <1>1. i \in 1..Len(body) /\ i - 1 \in 0..Len(body) /\ i \in 0..Len(body)
    BY RunSizes, LenProperties DEF Shape
  <1>2. Sums(sizes)[i - 1] \in 0..Total(sizes) /\ Sums(sizes)[i] \in 0..Total(sizes)
        /\ Sums(sizes)[i] = Sums(sizes)[i - 1] + sizes[i] /\ sizes[i] \in Nat
    BY <1>1, RunSizes
  <1>3. HeadSize \in Nat /\ Total(sizes) \in Nat
    BY RunTotal
  <1> QED BY <1>2, <1>3 DEF Start, BodyEnd

\* The three jumps, wherever their fields send them.
LEMMA ForwardLands ==
    ASSUME Shape, phase = "run", kind = "forward", NEW op
    PROVE  Taken(op, 0, ForwardOffset(op, 4, sizes)) = BodyEnd
  <1> DEFINE v == 4 + Total(sizes)
  <1>1. v \in 4..260 /\ v % 2 = 0 /\ BodyEnd = v
    BY RunTotal DEF BodyEnd
  <1>2. ForwardOffset(op, 4, sizes) = v
    BY RunTotal DEF ForwardOffset, AssumedJumpSize
  <1> HIDE DEF v
  <1>3. JValue(JImm20(v)) = v
    BY <1>1, JExact, SMT
  <1>4. BValue(BImm12Hi(v), BImm12Lo(v)) = v
    BY <1>1, BExact, SMT
  <1> QED BY <1>1, <1>2, <1>3, <1>4 DEF Taken

LEMMA SplitShort ==
    ASSUME NEW t \in 0..1000
    PROVE  0 + Hi20(t) * 4096 + Lo12(t) = t
  <1>1. t \in Nat /\ t < 2147481600
    BY SMT
  <1>2. Hi20(t) * 4096 + Lo12(t) = t /\ Hi20(t) \in Nat /\ Lo12(t) \in Int
    BY <1>1, SplitExact, SMT
  <1> QED BY <1>2, SMT

LEMMA IndirectLands ==
    ASSUME Shape, phase = "run", kind = "indirect"
    PROVE  LoadedAddress(0, IndirectOffset(4, sizes)) = BodyEnd
  <1> DEFINE v == 12 + Total(sizes)
  <1>1. v \in 0..1000 /\ BodyEnd = v
    BY RunTotal, SMT DEF BodyEnd, HeadSize
  <1>2. IndirectOffset(4, sizes) = v
    BY RunTotal DEF IndirectOffset
  <1> HIDE DEF v
  <1>3. 0 + Hi20(v) * 4096 + Lo12(v) = v
    BY <1>1, SplitShort
  <1> QED BY <1>1, <1>2, <1>3 DEF LoadedAddress

LEMMA LoopLands ==
    ASSUME Shape, phase = "run", kind = "loop"
    PROVE  Taken("bne", BodyEnd + 4, BackwardOffset(sizes, 4)) = HeadSize
  <1> DEFINE v == -(Total(sizes) + 4)
  <1>1. v \in Int /\ -4096 <= v /\ v <= 4095 /\ v % 2 = 0
    BY RunTotal, SMT
  <1>2. BackwardOffset(sizes, 4) = v
    BY DEF BackwardOffset
  <1> HIDE DEF v
  <1>3. BValue(BImm12Hi(v), BImm12Lo(v)) = v
    BY <1>1, BExact, SMT
  <1>4. BodyEnd = -v /\ HeadSize = 4
    BY RunTotal, SMT DEF BodyEnd, v
  <1> QED BY <1>1, <1>2, <1>3, <1>4, SMT DEF Taken

\* What stays as it is while a sequence runs.
LEMMA InRunKeeps ==
    ASSUME InRun
    PROVE  phase = "run" /\ phase' = "run" /\ UNCHANGED <<kind, line, guarded, iterations, sizes, body>>
  BY DEF InRun, slot

LEMMA PlacesKeep ==
    ASSUME UNCHANGED <<kind, sizes>>
    PROVE  UNCHANGED <<HeadSize, BodyEnd, SequenceEnd, LabelAt>>
  BY DEF HeadSize, BodyEnd, SequenceEnd, LabelAt

LEMMA RunStep ==
    ASSUME Shape, Control,
           Prologue \/ TakeForward \/ NotTaken \/ TakeIndirect \/ RunBody \/ Decrement
    PROVE  Control'
  <1>0. /\ phase = "run" /\ phase' = "run" /\ UNCHANGED <<kind, line, iterations, sizes, body>>
        /\ UNCHANGED <<HeadSize, BodyEnd, SequenceEnd, LabelAt>>
    <2>1. InRun
      BY DEF Prologue, TakeForward, NotTaken, TakeIndirect, RunBody, Decrement
    <2> QED BY <2>1, InRunKeeps, PlacesKeep
  <1> DEFINE total == Total(sizes)
  <1>1. /\ total \in Nat /\ HeadSize \in {4, 12} /\ BodyEnd = HeadSize + total
        /\ kind = "loop" => HeadSize = 4 /\ SequenceEnd = BodyEnd + 8 /\ LabelAt = HeadSize
        /\ kind # "loop" => LabelAt = BodyEnd
    BY <1>0, RunTotal DEF BodyEnd, SequenceEnd, LabelAt
  <1> HIDE DEF total
  <1>2. kind = "loop" => iterations \in Nat \ {0}
    BY <1>0, InstrGenAssumption DEF Shape
  <1>3. pc = 0 => ~landed
    BY <1>0, <1>1 DEF Control
  <1>4. CASE Prologue
    <2>1. pc = 0 /\ kind = "loop" /\ pc' = HeadSize /\ counter' = iterations
          /\ UNCHANGED <<landed, rounds>>
      BY <1>4 DEF Prologue
    <2>2. rounds = 0
      BY <1>0, <1>1, <2>1 DEF Control
    <2> QED BY <1>0, <1>1, <1>2, <1>3, <2>1, <2>2 DEF Control
  <1>5. CASE TakeForward
    BY <1>0, <1>1, <1>5, ForwardLands DEF TakeForward, Control
  <1>6. CASE NotTaken
    BY <1>0, <1>3, <1>6 DEF NotTaken, Control
  <1>7. CASE TakeIndirect
    BY <1>0, <1>1, <1>7, IndirectLands DEF TakeIndirect, Control
  <1>8. CASE RunBody
    <2>1. PICK i \in DOMAIN body :
             /\ pc = Start(i) /\ pc' = pc + sizes[i]
             /\ counter' \in (IF kind = "loop" /\ body[i].dest = "s11"
                              THEN 0..MaxIterations ELSE {counter})
      BY <1>8 DEF RunBody
    <2>2. pc \in HeadSize..BodyEnd /\ pc' \in HeadSize..BodyEnd
      BY <1>0, <2>1, LinesStayInside
    <2>3. kind = "loop" => counter' = counter
      BY <2>1 DEF Shape
    <2>4. landed' = FALSE /\ rounds' = rounds
      BY <1>8 DEF RunBody
    <2>5. kind = "loop" => /\ counter \in Nat \ {0} /\ rounds \in Nat
                           /\ counter + rounds = iterations
      BY <1>0, <1>1, <2>2 DEF Control
    <2> QED BY <1>0, <2>2, <2>3, <2>4, <2>5 DEF Control
  <1>9. CASE Decrement
    <2>1. /\ kind = "loop" /\ pc = BodyEnd
          /\ counter' = counter - 1 /\ rounds' = rounds + 1 /\ landed' = (counter' # 0)
          /\ pc' = IF counter' # 0 THEN Taken("bne", BodyEnd + 4, BackwardOffset(sizes, 4))
                   ELSE BodyEnd + 8
      BY <1>9 DEF Decrement
    <2>2. counter \in Nat \ {0} /\ rounds \in Nat /\ counter + rounds = iterations
      BY <1>0, <1>1, <2>1 DEF Control
    <2>3. pc' = IF counter' # 0 THEN HeadSize ELSE BodyEnd + 8
      BY <1>0, <2>1, LoopLands
    <2>4. CASE counter' = 0
      <3>1. pc' = SequenceEnd /\ ~landed' /\ rounds' = iterations
        <4>1. ~landed'
          BY <2>1, <2>4, Zenon
        <4>2. pc' = SequenceEnd
          BY <1>1, <2>1, <2>3, <2>4
        <4>3. counter - 1 = 0 /\ rounds' = rounds + 1
          BY <2>1, <2>4, Zenon
        <4>4. rounds' = iterations
          BY <2>2, <4>3
        <4> QED BY <4>1, <4>2, <4>4
      <3>2. pc' # 0 /\ kind' = "loop" /\ SequenceEnd' = SequenceEnd /\ iterations' = iterations
        BY <1>0, <1>1, <2>1, <3>1
      <3> QED BY <1>0, <3>1, <3>2, Zenon DEF Control
    <2>5. CASE counter' # 0
      BY <1>0, <1>1, <2>1, <2>2, <2>3, <2>5 DEF Control
    <2> QED BY <2>4, <2>5
  <1> QED BY <1>4, <1>5, <1>6, <1>7, <1>8, <1>9

LEMMA ControlStep == Shape /\ Control /\ [GenNext]_gvars => Control'
  <1> SUFFICES ASSUME Shape, Control, [GenNext]_gvars PROVE Control'
    OBVIOUS
  <1>1. CASE Prologue \/ TakeForward \/ NotTaken \/ TakeIndirect \/ RunBody \/ Decrement
    BY <1>1, RunStep
  <1>2. CASE UNCHANGED gvars \/ Skipped
    <2>1. UNCHANGED <<phase, kind, sizes, landed, pc, counter, rounds, iterations>>
      BY <1>2 DEF Skipped, gvars, slot, run
    <2> QED BY <2>1, PlacesKeep DEF Control
  <1>3. CASE Setup \/ Plain \/ ForwardJump \/ IndirectJump \/ Loop \/ BodyLine \/ BodyDone \/ CompileFails
    <2>1. phase # "run" /\ phase' # "run" /\ landed' = landed
      BY <1>3 DEF Setup, Plain, ForwardJump, IndirectJump, Loop, BodyLine, BodyDone, CompileFails,
         Choosing, run
    <2> QED BY <2>1 DEF Control
  <1>4. CASE Compile
    <2>1. phase # "run" /\ UNCHANGED <<landed, pc, rounds>> /\ pc = 0 /\ rounds = 0
      BY <1>4 DEF Compile, run, Shape
    <2> QED BY <2>1 DEF Control
  <1>5. CASE RunEnds \/ NextSlot
    BY <1>5 DEF RunEnds, NextSlot, Control
  <1> QED BY <1>1, <1>2, <1>3, <1>4, <1>5 DEF GenNext

LEMMA ShapeInvariant == GenSpec => [](Shape /\ Control)
  <1>1. Shape /\ Control /\ [GenNext]_gvars => (Shape /\ Control)'
    BY ShapeStep, ControlStep
  <1> QED BY GenStarts, <1>1, PTL DEF GenSpec

\* A jump that is taken lands where its label stands, whatever is between and whatever
\* the compiler made of it (hybrid_encoder.py compile_*).
THEOREM JumpsLand == GenSpec => []JumpLands
  <1>1. Shape /\ Control => JumpLands
    BY DEF Control, JumpLands
  <1> QED BY <1>1, ShapeInvariant, PTL

\* A loop runs as often as its `li' says: the body leaves s11 alone, and the branch goes
\* back to its first line.
THEOREM LoopsRunTheirIterations == GenSpec => []LoopRunsItsIterations
  <1>1. Shape /\ Control => LoopRunsItsIterations
    <2> SUFFICES ASSUME Shape, Control, phase = "run", kind = "loop", pc = SequenceEnd
                 PROVE  rounds = iterations
      BY DEF LoopRunsItsIterations
    <2>1. Total(sizes) \in Nat /\ HeadSize = 4
      BY RunTotal
    <2>2. pc # 0 /\ pc \notin HeadSize..BodyEnd
      BY <2>1 DEF SequenceEnd, BodyEnd
    <2> QED BY <2>2 DEF Control
  <1> QED BY <1>1, ShapeInvariant, PTL

-----------------------------------------------------------------------------
(* What the rows of the tables have in common (InstrTables).                 *)

\* What a body must not hold, and the names of it in the tables.
Barred == MEMORY_MODIFYING_CATEGORIES \cup {"JUMP", "BRANCH"}
SquashedOps == UNION {s.ops : s \in SetC}
WritersI == {"jal", "jalr", "beq", "bne", "blt", "bge", "bltu", "bgeu", "sb", "sh", "sw"}
AtomicsW ==
    {"lr.w", "sc.w", "amoswap.w", "amoadd.w", "amoxor.w", "amoand.w", "amoor.w", "amomin.w",
     "amomax.w", "amominu.w", "amomaxu.w"}
AtomicsD ==
    {"lr.d", "sc.d", "amoswap.d", "amoadd.d", "amoxor.d", "amoand.d", "amoor.d", "amomin.d",
     "amomax.d", "amominu.d", "amomaxu.d"}
BarredNames == WritersI \cup AtomicsW \cup AtomicsD \cup {"sd", "fsw", "fsd"}
AccessOps ==
    {"lb", "lbu", "sb", "lh", "lhu", "sh", "lw", "lwu", "sw", "flw", "fsw", "ld", "sd", "fld",
     "fsd"}

WriterRow(r) ==
    \/ r.ops \subseteq SquashedOps \/ r.ops \subseteq WritersI
    \/ r.ops \subseteq AtomicsW \/ r.ops \subseteq AtomicsD
    \/ r.ops \subseteq {"sd"} \/ r.ops \subseteq {"fsw"} \/ r.ops \subseteq {"fsd"}
AccessRow(r) ==
    \/ r.ops \subseteq SquashedOps
    \/ /\ r.ops \subseteq AccessOps
       /\ Len(r.text) = 3 /\ r.text[2] = "IMM_12" /\ r.text[3] = "T6"
RowFact(r) ==
    /\ r.cat \in Barred => WriterRow(r)
    /\ r.cat \in MemoryCategories => AccessRow(r)
    /\ r.cat = "BRANCH" => "LABEL" \in ToSet(r.text)
Quiet(R) == \A r \in R : r.cat \notin Barred \cup MemoryCategories
KnownRows == UNION {INSTRUCTION_FORMATS[e] : e \in DOMAIN INSTRUCTION_FORMATS}

LEMMA AddressRow ==
    \A ops, cat, text : /\ Address(ops, cat, text).ops = ops
                        /\ Address(ops, cat, text).cat = cat
                        /\ Address(ops, cat, text).text = text
  BY DEF Address, Row

LEMMA AtomicRows ==
    /\ \A r \in ReservedW \cup AmoW :
          r.ops \subseteq AtomicsW /\ r.cat \in {"AMO", "AMO_LOAD", "AMO_STORE"}
    /\ \A r \in ReservedD \cup AmoD :
          r.ops \subseteq AtomicsD /\ r.cat \in {"AMO", "AMO_LOAD", "AMO_STORE"}
  <1>1. \A r \in ReservedW \cup AmoW :
           r.ops \subseteq AtomicsW /\ r.cat \in {"AMO", "AMO_LOAD", "AMO_STORE"}
    BY AddressRow DEF ReservedW, AmoW, AtomicsW
  <1>2. \A r \in ReservedD \cup AmoD :
           r.ops \subseteq AtomicsD /\ r.cat \in {"AMO", "AMO_LOAD", "AMO_STORE"}
    BY AddressRow DEF ReservedD, AmoD, AtomicsD
  <1> QED BY <1>1, <1>2

LEMMA SquashedRows ==
    /\ \A r \in RvC_Memory \cup Rv64C \cup Rv32CF \cup RvCD \cup Rv32C :
          r.ops \subseteq SquashedOps /\ r.cat # "BRANCH"
    /\ \A r \in RvC_Transfers :
          r.ops \subseteq SquashedOps /\ (r.cat = "BRANCH" => "LABEL" \in ToSet(r.text))
  <1>1. \A r \in RvC_Memory : r.ops \subseteq SquashedOps /\ r.cat # "BRANCH"
    BY DEF RvC_Memory, SquashedOps, SetC, Fields, Row, Offset
  <1>2. \A r \in Rv64C : r.ops \subseteq SquashedOps /\ r.cat # "BRANCH"
    BY DEF Rv64C, SquashedOps, SetC, Fields, Row, Offset, Arith
  <1>3. \A r \in Rv32CF \cup RvCD \cup Rv32C : r.ops \subseteq SquashedOps /\ r.cat # "BRANCH"
    BY DEF Rv32CF, RvCD, Rv32C, SquashedOps, SetC, Fields, Row, Offset
  <1>4. \A r \in RvC_Transfers : r.ops \subseteq SquashedOps
    BY DEF RvC_Transfers, SquashedOps, SetC, Fields, Row
  <1>5. \A r \in RvC_Transfers : r.cat = "BRANCH" => "LABEL" \in ToSet(r.text)
    BY DEF RvC_Transfers, Row, ToSet
  <1> QED BY <1>1, <1>2, <1>3, <1>4, <1>5

LEMMA QuietRows ==
    /\ Quiet(RvI_Upper \cup RvI_Alu \cup RvI_System \cup RvC_Alu)
    /\ Quiet(FZfinxArith \cup FZfinxRest \cup Rv64F \cup Rv64D \cup RvD_Arith)
    /\ Quiet(Zifencei \cup ZicsrFlags \cup ZicsrAccess \cup Zbs)
    /\ Quiet(Rv32B_Binary \cup Rv32B_Mixed \cup Rv32B_Rest \cup Rocc \cup Ill)
    /\ Quiet(RvM \cup Rv32Zpn \cup Rv64M \cup Zbkb \cup Zbkb64 \cup Zbkc \cup Zbkx)
    /\ Quiet(Zk64 \cup Zk)
  <1> USE DEF Quiet, Row, Arith, MemoryCategories, Barred, MEMORY_MODIFYING_CATEGORIES
  <1>1. Quiet(RvI_Upper \cup RvI_Alu \cup RvI_System \cup RvC_Alu)
    BY DEF RvI_Upper, RvI_Alu, RvI_System, RvC_Alu
  <1>2. Quiet(FZfinxArith \cup FZfinxRest \cup Rv64F \cup Rv64D \cup RvD_Arith)
    BY DEF FZfinxArith, FZfinxRest, Rv64F, Rv64D, RvD_Arith
  <1>3. Quiet(Zifencei \cup ZicsrFlags \cup ZicsrAccess \cup Zbs)
    BY DEF Zifencei, ZicsrFlags, ZicsrAccess, Zbs
  <1>4. Quiet(Rv32B_Binary \cup Rv32B_Mixed \cup Rv32B_Rest \cup Rocc \cup Ill)
    BY DEF Rv32B_Binary, Rv32B_Mixed, Rv32B_Rest, Rocc, Ill
  <1>5. Quiet(RvM \cup Rv32Zpn \cup Rv64M \cup Zbkb \cup Zbkb64 \cup Zbkc \cup Zbkx)
    BY DEF RvM, Rv32Zpn, Rv64M, Zbkb, Zbkb64, Zbkc, Zbkx, Binary
  <1>6. Quiet(Zk64 \cup Zk)
    BY DEF Zk64, Zk, Binary, Unary
  <1> HIDE DEF Quiet
  <1> QED BY <1>1, <1>2, <1>3, <1>4, <1>5, <1>6

LEMMA AllRows == \A r \in KnownRows : RowFact(r)
  <1>1. \A r \in RvC_Memory \cup RvC_Transfers \cup Rv64C \cup Rv32CF \cup RvCD \cup Rv32C : RowFact(r)
    BY SquashedRows DEF RowFact, WriterRow, AccessRow
  <1>2. \A r \in ReservedW \cup AmoW \cup ReservedD \cup AmoD : RowFact(r)
    BY AtomicRows DEF RowFact, WriterRow, MemoryCategories
  <1>3. \A r \in RvI_Transfers \cup RvI_Memory \cup Rv64I \cup RvF \cup RvD_Rest : RowFact(r)
    <2> USE DEF RowFact, WriterRow, AccessRow, Row, Offset, MemoryCategories, Barred,
            MEMORY_MODIFYING_CATEGORIES, AccessOps, WritersI, Arith
    <2>1. \A r \in RvI_Transfers : RowFact(r)
      BY DEF RvI_Transfers, ToSet
    <2>2. \A r \in RvI_Memory : RowFact(r)
      BY DEF RvI_Memory
    <2>3. \A r \in Rv64I : RowFact(r)
      BY DEF Rv64I
    <2>4. \A r \in RvF : RowFact(r)
      BY DEF RvF
    <2>5. \A r \in RvD_Rest : RowFact(r)
      BY DEF RvD_Rest
    <2> HIDE DEF RowFact
    <2> QED BY <2>1, <2>2, <2>3, <2>4, <2>5
  <1>4. ASSUME NEW R, Quiet(R) PROVE \A r \in R : RowFact(r)
    BY <1>4 DEF Quiet, RowFact, Barred
  <1> HIDE DEF RowFact
  <1>5. \A r \in RvI_Upper \cup RvI_Alu \cup RvI_System \cup RvC_Alu : RowFact(r)
    BY <1>4, QuietRows
  <1>6. \A r \in FZfinxArith \cup FZfinxRest \cup Rv64F \cup Rv64D \cup RvD_Arith : RowFact(r)
    BY <1>4, QuietRows
  <1>7. \A r \in Zifencei \cup ZicsrFlags \cup ZicsrAccess \cup Zbs : RowFact(r)
    BY <1>4, QuietRows
  <1>8. \A r \in Rv32B_Binary \cup Rv32B_Mixed \cup Rv32B_Rest \cup Rocc \cup Ill : RowFact(r)
    BY <1>4, QuietRows
  <1>9. \A r \in RvM \cup Rv32Zpn \cup Rv64M \cup Zbkb \cup Zbkb64 \cup Zbkc \cup Zbkx : RowFact(r)
    BY <1>4, QuietRows
  <1>10. \A r \in Zk64 \cup Zk : RowFact(r)
    BY <1>4, QuietRows
  <1> SUFFICES ASSUME NEW e \in DOMAIN INSTRUCTION_FORMATS, NEW r \in INSTRUCTION_FORMATS[e]
               PROVE  RowFact(r)
    BY DEF KnownRows
  <1> QED
    BY <1>1, <1>2, <1>3, <1>5, <1>6, <1>7, <1>8, <1>9, <1>10 DEF INSTRUCTION_FORMATS

\* The set an instruction that a body must not hold is found in.
HomeSet(op, set) ==
    /\ op \in WritersI => set = "RV_I"
    /\ op = "sd" => set = "RV64_I"
    /\ op = "fsw" => set = "RV_F"
    /\ op = "fsd" => set = "RV_D"
    /\ op \in AtomicsW => set = "RV_A"
    /\ op \in AtomicsD => set = "RV64_A"
AtHome(S) == \A s \in S : \A op \in s.ops : HomeSet(op, s.set)

LEMMA AllSets == AtHome(INSTRUCTION_SETS)
  <1> USE DEF AtHome, HomeSet, Fields, WritersI, AtomicsW, AtomicsD
  <1>1. AtHome(SetI)
    BY SMTT(30) DEF SetI
  <1>2. AtHome(Set64I)
    BY SMTT(30) DEF Set64I
  <1>3. AtHome(Set64Zk)
    BY SMTT(30) DEF Set64Zk
  <1>4. AtHome(Set64A)
    BY SMTT(30) DEF Set64A
  <1>5. AtHome(SetA)
    BY SMTT(30) DEF SetA
  <1>6. AtHome(SetZbkb)
    BY SMTT(30) DEF SetZbkb
  <1>7. AtHome(SetZbs)
    BY SMTT(30) DEF SetZbs
  <1>8. AtHome(Set32B)
    BY SMTT(30) DEF Set32B
  <1>9. AtHome(SetZbkc)
    BY SMTT(30) DEF SetZbkc
  <1>10. AtHome(SetZbpbo)
    BY SMTT(30) DEF SetZbpbo
  <1>11. AtHome(SetZicsr)
    BY SMTT(30) DEF SetZicsr
  <1>12. AtHome(SetM)
    BY SMTT(30) DEF SetM
  <1>13. AtHome(Set64M)
    BY SMTT(30) DEF Set64M
  <1>14. AtHome(SetD)
    BY SMTT(30) DEF SetD
  <1>15. AtHome(SetF)
    BY SMTT(30) DEF SetF
  <1>16. AtHome(Set64D)
    BY SMTT(30) DEF Set64D
  <1>17. AtHome(Set64F)
    BY SMTT(30) DEF Set64F
  <1>18. AtHome(SetZifencei)
    BY SMTT(30) DEF SetZifencei
  <1>19. AtHome(Set32Zpn)
    BY SMTT(30) DEF Set32Zpn
  <1>20. AtHome(Set64Zbkb)
    BY SMTT(30) DEF Set64Zbkb
  <1>21. AtHome(SetZk)
    BY SMTT(30) DEF SetZk
  <1>22. AtHome(SetZbkx)
    BY SMTT(30) DEF SetZbkx
  <1>23. AtHome(SetC)
    BY SMTT(30) DEF SetC
  <1> HIDE DEF HomeSet
  <1> QED
    BY <1>1, <1>2, <1>3, <1>4, <1>5, <1>6, <1>7, <1>8, <1>9, <1>10, <1>11, <1>12, <1>13,
       <1>14, <1>15, <1>16, <1>17, <1>18, <1>19, <1>20, <1>21, <1>22, <1>23 DEF
       INSTRUCTION_SETS

\* The formats of an extension hold these, in barred rows only.
BarredIn(ext, ops) ==
    /\ \A op \in ops : \E r \in INSTRUCTION_FORMATS[ext] : op \in r.ops
    /\ \A r \in INSTRUCTION_FORMATS[ext] : r.cat \notin Barred => r.ops \cap ops = {}

LEMMA BarredRows ==
    /\ BarredIn("RV_I", WritersI) /\ BarredIn("RV64_I", {"sd"}) /\ BarredIn("RV_F", {"fsw"})
    /\ BarredIn("RV_D", {"fsd"}) /\ BarredIn("RV_A", AtomicsW) /\ BarredIn("RV64_A", AtomicsD)
  <1> USE DEF BarredIn
  <1>1. BarredIn("RV_I", WritersI)
    <2> DEFINE Rest == RvI_Upper \cup RvI_Alu \cup RvI_System
    <2>1. INSTRUCTION_FORMATS["RV_I"] = RvI_Transfers \cup RvI_Memory \cup Rest
      BY DEF INSTRUCTION_FORMATS
    <2>2. \A op \in WritersI : \E r \in RvI_Transfers \cup RvI_Memory : op \in r.ops
      BY DEF WritersI, RvI_Transfers, RvI_Memory, Row, Offset
    <2>3. \A r \in RvI_Transfers \cup RvI_Memory : r.cat \in Barred \/ r.ops \cap WritersI = {}
      BY DEF WritersI, RvI_Transfers, RvI_Memory, Row, Offset, Barred, MEMORY_MODIFYING_CATEGORIES
    <2>4. \A r \in Rest : r.ops \cap WritersI = {}
      BY DEF WritersI, RvI_Upper, RvI_Alu, RvI_System, Row, Arith
    <2> HIDE DEF Rest
    <2> QED BY <2>1, <2>2, <2>3, <2>4
  <1>2. BarredIn("RV64_I", {"sd"})
    <2>1. INSTRUCTION_FORMATS["RV64_I"] = Rv64I
      BY DEF INSTRUCTION_FORMATS
    <2>2. \E r \in Rv64I : "sd" \in r.ops
      <3>1. Offset({"sd"}, "STORE", <<"RS2", "IMM_12", "T6">>) \in Rv64I
        BY Zenon DEF Rv64I
      <3> QED BY <3>1 DEF Offset, Row
    <2>3. \A r \in Rv64I : r.cat \in Barred \/ "sd" \notin r.ops
      BY DEF Rv64I, Row, Offset, Barred, MEMORY_MODIFYING_CATEGORIES
    <2> QED BY <2>1, <2>2, <2>3
  <1>3. BarredIn("RV_F", {"fsw"})
    <2>1. INSTRUCTION_FORMATS["RV_F"] = RvF
      BY DEF INSTRUCTION_FORMATS
    <2>2. \E r \in RvF : "fsw" \in r.ops
      <3>1. Offset({"fsw"}, "FLOAT_STORE", <<"FRS2", "IMM_12", "T6">>) \in RvF
        BY Zenon DEF RvF
      <3> QED BY <3>1 DEF Offset, Row
    <2>3. \A r \in RvF : r.cat \in Barred \/ "fsw" \notin r.ops
      BY DEF RvF, Row, Offset, Barred, MEMORY_MODIFYING_CATEGORIES
    <2> QED BY <2>1, <2>2, <2>3
  <1>4. BarredIn("RV_D", {"fsd"})
    <2>1. INSTRUCTION_FORMATS["RV_D"] = (RvD_Arith \cup RvD_Rest)
      BY DEF INSTRUCTION_FORMATS
    <2>2. \E r \in (RvD_Arith \cup RvD_Rest) : "fsd" \in r.ops
      <3>1. Offset({"fsd"}, "FLOAT_STORE", <<"FRS2", "IMM_12", "T6">>) \in (RvD_Arith \cup RvD_Rest)
        BY Zenon DEF RvD_Arith, RvD_Rest
      <3> QED BY <3>1 DEF Offset, Row
    <2>3. \A r \in (RvD_Arith \cup RvD_Rest) : r.cat \in Barred \/ "fsd" \notin r.ops
      BY DEF RvD_Arith, RvD_Rest, Row, Offset, Barred, MEMORY_MODIFYING_CATEGORIES
    <2> QED BY <2>1, <2>2, <2>3
  <1>5. BarredIn("RV_A", AtomicsW)
    <2>1. INSTRUCTION_FORMATS["RV_A"] = ReservedW \cup AmoW
      BY DEF INSTRUCTION_FORMATS
    <2>2. \A op \in AtomicsW : \E r \in ReservedW \cup AmoW : op \in r.ops
      BY AddressRow DEF AtomicsW, ReservedW, AmoW
    <2> QED BY <2>1, <2>2, AtomicRows DEF Barred, MEMORY_MODIFYING_CATEGORIES
  <1>6. BarredIn("RV64_A", AtomicsD)
    <2>1. INSTRUCTION_FORMATS["RV64_A"] = ReservedD \cup AmoD
      BY DEF INSTRUCTION_FORMATS
    <2>2. \A op \in AtomicsD : \E r \in ReservedD \cup AmoD : op \in r.ops
      BY AddressRow DEF AtomicsD, ReservedD, AmoD
    <2> QED BY <2>1, <2>2, AtomicRows DEF Barred, MEMORY_MODIFYING_CATEGORIES
  <1> QED BY <1>1, <1>2, <1>3, <1>4, <1>5, <1>6

LEMMA BarredFound ==
    ASSUME NEW op \in BarredNames
    PROVE  \E s \in INSTRUCTION_SETS : op \in s.ops
  <1>1. \A o \in WritersI : \E s \in SetI : o \in s.ops
    BY DEF WritersI, SetI, Fields
  <1>2. \E s \in Set64I : "sd" \in s.ops
    <2>1. Fields("RV64_I", SType, {"sd"}) \in Set64I
      BY Zenon DEF Set64I
    <2> QED BY <2>1 DEF Fields
  <1>3. \E s \in SetF : "fsw" \in s.ops
    <2>1. Fields("RV_F", SType, {"fsw"}) \in SetF
      BY Zenon DEF SetF
    <2> QED BY <2>1 DEF Fields
  <1>4. \E s \in SetD : "fsd" \in s.ops
    <2>1. Fields("RV_D", SType, {"fsd"}) \in SetD
      BY Zenon DEF SetD
    <2> QED BY <2>1 DEF Fields
  <1>5. \A o \in AtomicsW : \E s \in SetA : o \in s.ops
    BY DEF AtomicsW, SetA, Fields
  <1>6. \A o \in AtomicsD : \E s \in Set64A : o \in s.ops
    BY DEF AtomicsD, Set64A, Fields
  <1> QED BY <1>1, <1>2, <1>3, <1>4, <1>5, <1>6 DEF BarredNames, INSTRUCTION_SETS

LEMMA BarredLookup ==
    ASSUME NEW op \in BarredNames
    PROVE  CategoryLookup(op, "") \in Barred
  <1> DEFINE home == SetOf(op).set
  <1>1. SetOf(op) \in INSTRUCTION_SETS /\ op \in SetOf(op).ops /\ InSets(op, "")
    BY BarredFound DEF SetOf, InSets
  <1>2. HomeSet(op, home)
    BY <1>1, AllSets DEF AtHome
  <1> HIDE DEF home
  <1>3. \E ops : op \in ops /\ BarredIn(home, ops) /\ home \in DOMAIN INSTRUCTION_FORMATS
    BY <1>2, BarredRows DEF BarredNames, HomeSet, INSTRUCTION_FORMATS
  <1>4. FoundRows(op, "") # {} /\ \A r \in FoundRows(op, "") : r.cat \in Barred
    <2>1. FoundRows(op, "") = {r \in INSTRUCTION_FORMATS[home] : op \in r.ops}
      BY <1>1, <1>3 DEF FoundRows, home
    <2> QED BY <1>3, <2>1 DEF BarredIn
  <1> QED BY <1>4 DEF CategoryLookup

\* A row that is barred, and passes the filter, is of an annotated atomic.
LEMMA BarredSlipIn ==
    ASSUME NEW r \in KnownRows, r.cat \in Barred, NEW op \in r.ops, NEW note, Allowed(op, note)
    PROVE  note # ""
  <1>1. WriterRow(r)
    BY AllRows DEF RowFact
  <1>2. op \notin SquashedOps
    <2>1. op \in AllOps
      BY DEF AllOps, KnownRows, Range
    <2> QED BY <2>1 DEF Allowed, Compressed, SquashedOps
  <1>3. op \in BarredNames
    BY <1>1, <1>2 DEF WriterRow, BarredNames
  <1> QED BY <1>3, BarredLookup DEF Allowed, Barred

-----------------------------------------------------------------------------
(* The extensions of a profile and the lines drawn from them (Profiles,      *)
(* InstrDraw).                                                               *)

LEMMA ProfileNames ==
    ASSUME NEW p \in DOMAIN ALLOWED_EXT_PROFILES
    PROVE  ALLOWED_EXT_PROFILES[p] \in Seq(DOMAIN INSTRUCTION_FORMATS)
  <1> DEFINE X == DOMAIN INSTRUCTION_FORMATS
  <1>1. Cva6 \in Seq(X) /\ Cascade \in Seq(X)
    BY DEF Cva6, Cascade, INSTRUCTION_FORMATS
  <1>2. /\ Rv32 \in Seq(X) /\ Base \in Seq(X) /\ NutShell \in Seq(X)
        /\ NutShell32 \in Seq(X) /\ Rocket32 \in Seq(X)
    BY DEF Rv32, Base, NutShell, NutShell32, Rocket32, INSTRUCTION_FORMATS
  <1>3. /\ Floats \in Seq(X) /\ Compact \in Seq(X) /\ <<"RV_A", "RV64_A">> \in Seq(X)
        /\ <<"rv_zbs", "RV_ZBKB", "RV64_ZBKB", "RV_ZBKC">> \in Seq(X)
        /\ <<"ILL", "RV_F_ZFINX">> \in Seq(X)
    BY DEF Floats, Compact, INSTRUCTION_FORMATS
  <1>4. Len(NutShell) = 8 /\ Len(Cva6) = 24
    BY DEF NutShell, Cva6
  <1> HIDE DEF X
  <1>5. IntegerPart \in Seq(X)
    <2>1. \A i \in 1..8 : NutShell[i] \in X
      BY <1>2, <1>4, ElementOfSeq
    <2> QED BY <2>1, SubSeqProperties DEF IntegerPart
  <1>6. General \in Seq(X)
    <2>1. SubSeq(Cva6, 1, 9) \in Seq(X) /\ SubSeq(Cva6, 11, 24) \in Seq(X)
      <3>1. \A i \in 1..24 : Cva6[i] \in X
        BY <1>1, <1>4, ElementOfSeq
      <3> QED BY <3>1, SubSeqProperties
    <2> QED BY <2>1, <1>3, ConcatProperties DEF General
  <1>7. Boom \in Seq(X)
    BY <1>3, <1>5, ConcatProperties DEF Boom
  <1>8. XiangShan \in Seq(X) /\ Rocket \in Seq(X)
    BY <1>3, <1>5, <1>7, ConcatProperties DEF XiangShan, Rocket
  <1> QED BY <1>1, <1>2, <1>6, <1>7, <1>8 DEF ALLOWED_EXT_PROFILES, X

LEMMA DrawnRows ==
    ASSUME NEW p \in DOMAIN ALLOWED_EXT_PROFILES
    PROVE  ExtensionsOf(p) \subseteq DOMAIN INSTRUCTION_FORMATS
  BY ProfileNames DEF ExtensionsOf, Drawable

LEMMA NamedRow ==
    ASSUME NEW rows, NEW c \in Named(rows)
    PROVE  c[1] \in rows /\ c[2] \in c[1].ops
  BY DEF Named

LEMMA ProfileRows ==
    ASSUME NEW p \in DOMAIN ALLOWED_EXT_PROFILES
    PROVE  Rows(ExtensionsOf(p)) \subseteq KnownRows
  BY DrawnRows DEF Rows, KnownRows

\* The recursion of Drawn is a function: one exists for every number of operands.
LEMMA DrawnEquation ==
    ASSUME NEW r, NEW op, Len(r.text) \in Nat
    PROVE  Drawn(r, op) =
             [n \in 0..Len(r.text) |-> IF n = 0 THEN {<<>>}
                             ELSE {Append(p[1], p[2]) : p \in Drawn(r, op)[n - 1] \X Draw(r, op, r.text[n])}]
  <1> DEFINE Next1(D, k) == {Append(p[1], p[2]) : p \in D \X Draw(r, op, r.text[k])}
             Defined(g, n) == g = [k \in 0..n |-> IF k = 0 THEN {<<>>} ELSE Next1(g[k - 1], k)]
             T == {n \in Nat : \E g : Defined(g, n)}
  <1> HIDE DEF Next1
  <1>1. 0 \in T
    <2>1. Defined([k \in 0..0 |-> {<<>>}], 0)
      <3>1. \A k \in 0..0 : k = 0
        OBVIOUS
      <3>2. 0 \in 0..0
        OBVIOUS
      <3> QED BY <3>1, <3>2, Zenon
    <2> QED BY <2>1
  <1>2. ASSUME NEW n \in Nat, n \in T PROVE n + 1 \in T
    <2>1. PICK g : Defined(g, n)
      BY <1>2, Zenon
    <2> DEFINE h == [k \in 0..(n + 1) |-> IF k = n + 1 THEN Next1(g[n], n + 1) ELSE g[k]]
    <2>2. ASSUME NEW k \in 0..(n + 1)
          PROVE  h[k] = IF k = 0 THEN {<<>>} ELSE Next1(h[k - 1], k)
      <3>1. h[k] = IF k = n + 1 THEN Next1(g[n], n + 1) ELSE g[k]
        BY Zenon
      <3>2. CASE k = n + 1
        <4>1. n \in 0..(n + 1) /\ n # n + 1 /\ n + 1 # 0 /\ (n + 1) - 1 = n
          OBVIOUS
        <4>2. h[n] = g[n]
          BY <4>1, Zenon
        <4> QED BY <3>1, <3>2, <4>1, <4>2, Zenon
      <3>3. CASE k # n + 1 /\ k # 0
        <4>1. k \in 0..n /\ k - 1 \in 0..(n + 1) /\ k - 1 # n + 1
          BY <3>3
        <4>2. h[k - 1] = g[k - 1]
          BY <4>1, Zenon
        <4>3. g[k] = Next1(g[k - 1], k)
          BY <2>1, <3>3, <4>1, Zenon
        <4> QED BY <3>1, <3>3, <4>2, <4>3, Zenon
      <3>4. CASE k # n + 1 /\ k = 0
        <4>1. k \in 0..n
          BY <3>4
        <4> QED BY <2>1, <3>1, <3>4, <4>1, Zenon
      <3> QED BY <3>2, <3>3, <3>4, Zenon
    <2> HIDE DEF h
    <2>3. Defined(h, n + 1)
      BY <2>2, Zenon DEF h
    <2>4. n + 1 \in Nat
      OBVIOUS
    <2> QED BY <2>3, <2>4, Zenon
  <1> HIDE DEF T, Defined
  <1>3. \A n \in Nat : n \in T
    BY <1>1, <1>2, Induction
  <1>4. \E g : Defined(g, Len(r.text))
    BY <1>3 DEF T
  <1> QED BY <1>4, Zenon DEF Drawn, Defined, Next1

LEMMA AppendThree ==
    ASSUME NEW a, NEW b, NEW c,
           NEW args, args = Append(Append(Append(<<>>, a), b), c)
    PROVE  Len(args) = 3 /\ DOMAIN args = 1..3 /\ args[2] = b /\ args[3] = c
  <1> DEFINE S == {a, b, c}
             s1 == Append(<<>>, a)
             s2 == Append(s1, b)
  <1>1. a \in S /\ b \in S /\ c \in S
    OBVIOUS
  <1> HIDE DEF S
  <1>2. s1 \in Seq(S) /\ Len(s1) = 1
    BY <1>1, EmptySeq, AppendProperties
  <1> HIDE DEF s1
  <1>3. s2 \in Seq(S) /\ Len(s2) = 2 /\ s2[2] = b
    <2>1. s2 \in Seq(S) /\ Len(s2) = Len(s1) + 1 /\ s2[Len(s1) + 1] = b
      BY <1>1, <1>2, AppendProperties, Zenon
    <2> HIDE DEF s2
    <2> QED BY <1>2, <2>1
  <1>4. args = Append(s2, c)
    BY Zenon DEF s1
  <1> HIDE DEF s2
  <1>5. args \in Seq(S) /\ Len(args) = 3 /\ args[3] = c /\ args[2] = s2[2]
    BY <1>1, <1>3, <1>4, AppendProperties
  <1>6. DOMAIN args = 1..3
    BY <1>5, LenProperties
  <1> QED BY <1>3, <1>5, <1>6

\* The operands of a load or a store.
LEMMA AccessDrawn ==
    ASSUME NEW r, NEW op, r.cat \in MemoryCategories,
           Len(r.text) = 3, r.text[2] = "IMM_12", r.text[3] = "T6",
           NEW args \in Drawn(r, op)[3]
    PROVE  /\ DOMAIN args = 1..3 /\ args[3] = <<"x", "t6">>
           /\ \E n \in SafeOffsets(op) : args[2] = Num(n)
  <1> DEFINE D == Drawn(r, op)
             V(n) == Draw(r, op, r.text[n])
  <1>1. D[0] = {<<>>} /\ \A n \in 1..3 : D[n] = {Append(p[1], p[2]) : p \in D[n - 1] \X V(n)}
    <2>1. D = [n \in 0..3 |-> IF n = 0 THEN {<<>>}
                               ELSE {Append(p[1], p[2]) : p \in D[n - 1] \X V(n)}]
      <3>1. Len(r.text) \in Nat
        OBVIOUS
      <3>2. D = [n \in 0..Len(r.text) |->
                   IF n = 0 THEN {<<>>}
                   ELSE {Append(p[1], p[2]) : p \in D[n - 1] \X Draw(r, op, r.text[n])}]
        BY <3>1, DrawnEquation
      <3> QED BY <3>2, Zenon
    <2>2. 0 \in 0..3 /\ \A n \in 1..3 : n \in 0..3 /\ n # 0
      OBVIOUS
    <2> HIDE DEF D, V
    <2> QED BY <2>1, <2>2, Zenon
  <1> HIDE DEF D, V
  <1>2. /\ D[3] = {Append(p[1], p[2]) : p \in D[2] \X V(3)}
        /\ D[2] = {Append(p[1], p[2]) : p \in D[1] \X V(2)}
        /\ D[1] = {Append(p[1], p[2]) : p \in D[0] \X V(1)}
    BY <1>1
  <1>3. PICK p3 \in D[2] \X V(3) : args = Append(p3[1], p3[2])
    BY <1>2 DEF D
  <1>4. PICK p2 \in D[1] \X V(2) : p3[1] = Append(p2[1], p2[2])
    BY <1>2, <1>3
  <1>5. PICK p1 \in D[0] \X V(1) : p2[1] = Append(p1[1], p1[2])
    BY <1>2, <1>4
  <1>6. p1[1] = <<>>
    BY <1>1
  <1>7. DOMAIN args = 1..3 /\ args[2] = p2[2] /\ args[3] = p3[2]
    BY <1>3, <1>4, <1>5, <1>6, AppendThree
  <1>8. p3[2] = <<"x", "t6">>
    BY <1>3 DEF V, Draw
  <1>9. p2[2] \in {Num(n) : n \in SafeOffsets(op)}
    BY <1>4 DEF V, Draw, MemoryCategories
  <1> QED BY <1>7, <1>8, <1>9

\* An offset keeps to twelve bits once it is cleared below the width.
LEMMA ClearedOffset ==
    ASSUME NEW op, NEW n \in SafeOffsets(op)
    PROVE  /\ AccessWidth(op) \in {1, 2, 4, 8} /\ n % AccessWidth(op) = 0
           /\ -2048 <= n /\ n + AccessWidth(op) - 1 <= 2047 /\ n \in Int
  <1> DEFINE w == AccessWidth(op)
             O == {-2048, -2047, -1, 0, 5, 2039, 2041, 2044, 2046, 2047}
  <1>1. w \in {1, 2, 4, 8}
    BY DEF AccessWidth
  <1>2. PICK o \in O : n = (o \div w) * w /\ o <= 2047 - w + 1
    BY SMTT(30) DEF SafeOffsets
  <1>3. o \in Int /\ -2048 <= o
    OBVIOUS
  <1> HIDE DEF w, O
  <1>4. /\ o \in Int /\ n = (o \div w) * w
        /\ -2048 <= o /\ o <= 2047 - w + 1
    BY <1>2, <1>3
  <1>5. CASE w = 1
    BY <1>4, <1>5 DEF w
  <1>6. CASE w = 2
    BY <1>4, <1>6 DEF w
  <1>7. CASE w = 4
    BY <1>4, <1>7 DEF w
  <1>8. CASE w = 8
    BY <1>4, <1>8 DEF w
  <1> QED BY <1>1, <1>5, <1>6, <1>7, <1>8

LEMMA SafeOffset ==
    ASSUME NEW op \in AccessOps, NEW n \in SafeOffsets(op)
    PROVE  LET at0 == 4096 + n
               width == WidthOf(op)
           IN  at0 % width = 0 /\ 2048 <= at0 /\ at0 + width - 1 <= 6143
  <1>1. WidthOf(op) = AccessWidth(op)
    BY DEF WidthOf, AccessWidth, AccessOps
  <1> DEFINE w == AccessWidth(op)
  <1>2. w \in {1, 2, 4, 8}
    BY ClearedOffset
  <1>3. n % w = 0 /\ -2048 <= n /\ n + w - 1 <= 2047 /\ n \in Int
    BY ClearedOffset
  <1> HIDE DEF w
  <1>4. (4096 + n) % w = 0
    <2>1. CASE w = 1
      BY <1>3, <2>1
    <2>2. CASE w = 2
      BY <1>3, <2>2
    <2>3. CASE w = 4
      BY <1>3, <2>3
    <2>4. CASE w = 8
      BY <1>3, <2>4
    <2> QED BY <1>2, <2>1, <2>2, <2>3, <2>4
  <1> QED BY <1>1, <1>2, <1>3, <1>4 DEF w

\* A line of a row for loads and stores keeps to the region.
LEMMA AccessLine ==
    ASSUME NEW r \in KnownRows, r.cat \in MemoryCategories, NEW op \in r.ops \ Compressed,
           NEW note, NEW l \in NewInstr(r, op, note)
    PROVE  LET at0 == 4096 + l.args[2][2]
               width == WidthOf(l.op)
           IN  /\ l.args[3] = <<"x", "t6">> /\ at0 % width = 0
               /\ 2048 <= at0 /\ at0 + width - 1 <= 6143
  <1>1. op \in AccessOps /\ Len(r.text) = 3 /\ r.text[2] = "IMM_12" /\ r.text[3] = "T6"
    <2>1. AccessRow(r)
      BY AllRows DEF RowFact
    <2>2. op \in AllOps
      BY DEF AllOps, KnownRows, Range
    <2> QED BY <2>1, <2>2 DEF AccessRow, Compressed, SquashedOps
  <1>2. PICK args \in Drawn(r, op)[3] : l = Line(op, note, r.form, CvaPatch(args))
    BY <1>1 DEF NewInstr, Mnemonic, AccessOps
  <1>3. /\ DOMAIN args = 1..3 /\ args[3] = <<"x", "t6">>
        /\ \E n \in SafeOffsets(op) : args[2] = Num(n)
    BY <1>1, <1>2, AccessDrawn
  <1>4. PICK n \in SafeOffsets(op) : args[2] = Num(n)
    BY <1>3, Zenon
  <1>5. CvaPatch(args)[2] = args[2] /\ CvaPatch(args)[3] = args[3]
    BY <1>3 DEF CvaPatch
  <1>6. l.op = op /\ l.args[3] = <<"x", "t6">> /\ l.args[2][2] = n
    <2>1. l.op = op /\ l.args = CvaPatch(args)
      BY <1>2 DEF Line
    <2>2. Num(n)[2] = n
      BY DEF Num
    <2> QED BY <1>3, <1>4, <1>5, <2>1, <2>2
  <1> QED BY <1>1, <1>6, SafeOffset

LEMMA TransferRows == \A r \in RvI_Transfers : r.cat \in {"JUMP", "BRANCH"}
  BY DEF RvI_Transfers, Row, Offset

LEMMA JumpRow ==
    /\ \E r \in RvI_Transfers : "jalr" \in r.ops
    /\ \E r \in RvI_Transfers : "bne" \in r.ops
  BY DEF RvI_Transfers, Row, Offset

LEMMA NopRow == NoRow.cat = Arith
  <1>1. Row({"nop"}, Arith, <<>>) \in RvI_Upper /\ Row({"nop"}, Arith, <<>>).text = <<>>
    BY DEF RvI_Upper, Row
  <1>2. \A r \in RvI_Upper : r.cat = Arith
    BY DEF RvI_Upper, Row
  <1> QED BY <1>1, <1>2 DEF NoRow

LEMMA AccessStep == AccessInRegion /\ [GenNext]_gvars => AccessInRegion'
  <1> SUFFICES ASSUME AccessInRegion, [GenNext]_gvars PROVE AccessInRegion'
    OBVIOUS
  <1>1. CASE Plain
    <2>1. PICK c \in Named(Rows(ExtensionsOf(profile))) :
             c[2] \notin Compressed /\ row' = c[1] /\ line' \in NewInstr(c[1], c[2], c[3])
      BY <1>1 DEF Plain
    <2>2. c[1] \in KnownRows /\ c[2] \in c[1].ops \ Compressed
      BY <1>1, <2>1, NamedRow, ProfileRows, InstrGenAssumption DEF Plain, Choosing
    <2> QED BY <2>1, <2>2, AccessLine DEF AccessInRegion
  <1>2. CASE ForwardJump \/ IndirectJump \/ Loop
    <2>1. row' \in RvI_Transfers
      <3>1. CASE ForwardJump
        BY <3>1, NamedRow DEF ForwardJump
      <3>2. CASE IndirectJump
        <4>1. row' = CHOOSE r \in RvI_Transfers : "jalr" \in r.ops
          BY <3>2 DEF IndirectJump
        <4> QED BY <4>1, JumpRow, Zenon
      <3>3. CASE Loop
        <4>1. row' = CHOOSE r \in RvI_Transfers : "bne" \in r.ops
          BY <3>3 DEF Loop
        <4> QED BY <4>1, JumpRow, Zenon
      <3> QED BY <1>2, <3>1, <3>2, <3>3
    <2> QED BY <2>1, TransferRows DEF AccessInRegion, MemoryCategories
  <1>3. CASE NextSlot
    BY <1>3, NopRow DEF NextSlot, AccessInRegion, MemoryCategories, Arith
  <1>4. CASE UNCHANGED <<row, line>>
    BY <1>4 DEF AccessInRegion
  <1>5. CASE Setup \/ Skipped \/ BodyLine \/ BodyDone \/ Compile \/ CompileFails \/ RunEnds \/ UNCHANGED gvars
    BY <1>4, <1>5 DEF Setup, Skipped, BodyLine, BodyDone, Compile, CompileFails, RunEnds, gvars, slot
  <1>6. CASE Prologue \/ TakeForward \/ NotTaken \/ TakeIndirect \/ RunBody \/ Decrement
    BY <1>4, <1>6 DEF Prologue, TakeForward, NotTaken, TakeIndirect, RunBody, Decrement, InRun, slot
  <1> QED BY <1>1, <1>2, <1>3, <1>5, <1>6 DEF GenNext

\* A drawn load or store is aligned and stays in the memory region
\* (memory_manager.py get_safe_offset_for_t6).
THEOREM AccessesStayInRegion == GenSpec => []AccessInRegion
  <1>1. GenInit => AccessInRegion
    BY NopRow DEF GenInit, AccessInRegion, MemoryCategories, Arith
  <1> QED BY <1>1, AccessStep, PTL DEF GenSpec

-----------------------------------------------------------------------------
(* The words of the fast encoder (Encoder): every field is filled from the   *)
(* operand that names it.                                                    *)
FilledFrom(l, fields, operands) ==
    /\ Len(operands) = Len(fields) /\ DOMAIN Encode(l) = ToSet(fields)
    /\ \A i \in DOMAIN fields :
          /\ Fits(fields[i], operands[i])
          /\ Encode(l)[fields[i]] = FieldValue(fields[i], operands[i])

\* The word of an accepted line, field by field: each field is filled from the operand
\* in its own place.
LEMMA WordOf ==
    ASSUME NEW l, NEW fields, fields = SetOf(l.op).fields, IsInjective(fields),
           DOMAIN fields = 1..Len(fields), Len(fields) \in Nat,
           NEW operands, operands = Matched(fields, Preprocessed(l, fields)),
           Encode(l) # Refused
    PROVE  FilledFrom(l, fields, operands)
  <1>1. /\ Len(operands) = Len(fields) /\ \A i \in DOMAIN fields : Fits(fields[i], operands[i])
        /\ Encode(l) = [f \in ToSet(fields) |->
                          LET i == SelectInSeq(fields, LAMBDA g : g = f)
                          IN  FieldValue(f, operands[i])]
    BY Zenon DEF Encode
  <1>2. ASSUME NEW i \in DOMAIN fields
        PROVE  SelectInSeq(fields, LAMBDA g : g = fields[i]) = i
    <2> DEFINE I == {k \in 1..Len(fields) : fields[k] = fields[i]}
    <2>1. I = {i} /\ i \in Nat
      BY DEF IsInjective
    <2>2. SelectInSeq(fields, LAMBDA g : g = fields[i]) = IF I # {} THEN Min(I) ELSE 0
      BY DEF SelectInSeq
    <2> HIDE DEF I
    <2>3. Min({i}) = i
      BY <2>1 DEF Min
    <2> QED BY <2>1, <2>2, <2>3
  <1>3. ASSUME NEW i \in DOMAIN fields
        PROVE  Encode(l)[fields[i]] = FieldValue(fields[i], operands[i])
    <2>1. fields[i] \in ToSet(fields)
      BY DEF ToSet
    <2> QED BY <1>1, <1>2, <2>1, Zenon
  <1> QED BY <1>1, <1>3, Zenon DEF FilledFrom

\* A drawn line has one operand per variable of its row, in the variable's range.
LEMMA DrawnOperands ==
    ASSUME NEW r, NEW op, Len(r.text) \in Nat, NEW args \in Drawn(r, op)[Len(r.text)]
    PROVE  /\ DOMAIN args = 1..Len(r.text) /\ Len(args) = Len(r.text)
           /\ args \in Seq(UNION {Draw(r, op, r.text[i]) : i \in 1..Len(r.text)})
           /\ \A i \in 1..Len(r.text) : args[i] \in Draw(r, op, r.text[i])
  <1> DEFINE N == Len(r.text)
             D == Drawn(r, op)
             V(i) == Draw(r, op, r.text[i])
             U == UNION {V(i) : i \in 1..N}
             Fine(n) == \A a \in D[n] : /\ a \in Seq(U) /\ Len(a) = n
                                        /\ \A i \in 1..n : a[i] \in V(i)
             T == {n \in Nat : n <= N => Fine(n)}
  <1>1. D = [n \in 0..N |-> IF n = 0 THEN {<<>>} ELSE {Append(p[1], p[2]) : p \in D[n - 1] \X V(n)}]
    BY DrawnEquation
  <1>2. \A i \in 1..N : V(i) \subseteq U
    OBVIOUS
  <1> HIDE DEF D, V, U
  <1>3. 0 \in T
    <2>1. D[0] = {<<>>}
      BY <1>1
    <2>2. <<>> \in Seq(U) /\ Len(<<>>) = 0
      BY EmptySeq
    <2>3. Fine(0)
      BY <2>1, <2>2
    <2> QED BY <2>3
  <1>4. ASSUME NEW n \in Nat, n \in T PROVE n + 1 \in T
    <2>1. ASSUME n + 1 <= N, NEW a \in D[n + 1]
          PROVE  /\ a \in Seq(U) /\ Len(a) = n + 1
                 /\ \A i \in 1..(n + 1) : a[i] \in V(i)
      <3>1. Fine(n) /\ n + 1 \in 1..N /\ n + 1 \in 0..N /\ n + 1 # 0 /\ (n + 1) - 1 = n
        BY <1>4, <2>1
      <3>2. D[n + 1] = {Append(p[1], p[2]) : p \in D[n] \X V(n + 1)}
        BY <1>1, <3>1, Zenon
      <3>3. PICK p \in D[n] \X V(n + 1) : a = Append(p[1], p[2])
        BY <2>1, <3>2
      <3>4. /\ p[1] \in Seq(U) /\ Len(p[1]) = n /\ (\A i \in 1..n : p[1][i] \in V(i))
            /\ p[2] \in V(n + 1) /\ p[2] \in U
        BY <1>2, <3>1, <3>3
      <3>5. a \in Seq(U) /\ Len(a) = n + 1 /\ a[n + 1] = p[2] /\ \A i \in 1..n : a[i] = p[1][i]
        BY <3>3, <3>4, AppendProperties
      <3>6. \A i \in 1..(n + 1) : i = n + 1 \/ i \in 1..n
        OBVIOUS
      <3> QED BY <3>4, <3>5, <3>6
    <2> HIDE DEF Fine
    <2>2. n + 1 <= N => Fine(n + 1)
      BY <2>1 DEF Fine
    <2> QED BY <2>2
  <1> HIDE DEF T
  <1>5. N \in T
    BY <1>3, <1>4, Induction
  <1>6. args \in Seq(U) /\ Len(args) = N /\ \A i \in 1..N : args[i] \in V(i)
    BY <1>5 DEF T, D
  <1>7. DOMAIN args = 1..N
    BY <1>6, LenProperties
  <1> QED BY <1>6, <1>7 DEF U, V

\* Only a CSR instruction is patched.
LEMMA Unpatched ==
    ASSUME NEW args, \A i \in DOMAIN args : args[i][1] # "c"
    PROVE  CvaPatch(args) = args
  <1>1. \A c : <<"c", c>>[1] = "c"
    OBVIOUS
  <1> QED BY <1>1, Zenon DEF CvaPatch, ToSet

\* The places of a row that name the register of a field.
At(r, field) == {j \in DOMAIN r.text : r.text[j] \in Plays(field)}

LEMMA RegisterField ==
    ASSUME NEW r, NEW l, NEW field \in Registers, NEW k, At(r, field) = {k},
           Fits(field, l.args[k])
    PROVE  FieldValue(field, l.args[k]) = Written(r, l, field)
  <1> DEFINE a == l.args[k]
  <1>1. a[1] \in {"x", "f"}
    BY DEF Fits
  <1>2. (CHOOSE i \in {k} : TRUE) = k
    OBVIOUS
  <1>3. Written(r, l, field) = NumberIn(IF a[1] = "x" THEN XPR_NAMES ELSE FPR_NAMES, a[2])
    BY <1>2 DEF Written, At
  <1> QED BY <1>1, <1>3 DEF FieldValue

LEMMA ZeroField ==
    ASSUME NEW r, NEW l, NEW field, At(r, field) = {}
    PROVE  FieldValue(field, Reg0) = Written(r, l, field)
  <1>1. Written(r, l, field) = 0
    BY DEF Written, At
  <1>2. XPR_NAMES[1] = "zero" /\ DOMAIN XPR_NAMES = 1..32
    BY DEF XPR_NAMES
  <1>3. \A i \in 2..32 : XPR_NAMES[i] # "zero"
    BY DEF XPR_NAMES
  <1>4. (CHOOSE i \in DOMAIN XPR_NAMES : XPR_NAMES[i] = "zero") = 1
    BY <1>2, <1>3
  <1>5. FieldValue(field, Reg0) = NumberIn(XPR_NAMES, "zero")
    BY DEF FieldValue, Reg0
  <1> QED BY <1>1, <1>4, <1>5 DEF NumberIn

-----------------------------------------------------------------------------
(* How the rows and the sets pair up (InstrTables): the names by which an    *)
(* operand that is no register is read, and the fields of their words.       *)
Adders == {"addi", "slti", "sltiu", "xori", "ori", "andi", "addiw"}
Shifts64 == {"slli", "srli", "srai", "rori"}
Shifts32 == {"slliw", "srliw", "sraiw", "roriw"}
CsrNames == {"csrrw", "csrrs", "csrrc", "csrrwi", "csrrsi", "csrrci"}
Reservers == {"lr.w", "lr.d"}
Atomics == AtomicsW \cup AtomicsD
Round2 ==
    {"fcvt.w.s", "fcvt.wu.s", "fcvt.w.d", "fcvt.wu.d", "fcvt.l.s", "fcvt.lu.s", "fcvt.l.d",
     "fcvt.lu.d", "fcvt.s.w", "fcvt.s.wu", "fcvt.s.l", "fcvt.s.lu", "fcvt.d.l", "fcvt.d.lu",
     "fsqrt.s", "fsqrt.d", "fcvt.s.d"}
Spelled2 == {"fcvt.d.w", "fcvt.d.wu", "fcvt.d.s"}
Round3 ==
    {"fadd.s", "fsub.s", "fmul.s", "fdiv.s", "fadd.d", "fsub.d", "fmul.d", "fdiv.d"}
Round4 ==
    {"fmadd.s", "fmsub.s", "fnmadd.s", "fnmsub.s", "fmadd.d", "fmsub.d", "fnmadd.d", "fnmsub.d"}
Rounders == Round2 \cup Spelled2 \cup Round3 \cup Round4
FenceFields == <<"fm", "pred", "succ", "rs1", "rd">>
Tight == <<"rd", "rs1", "aq", "rl">>

\* The field lists that name neither an ordering nor a rounding mode.
UnorderedFields ==
    {<<>>, <<"rd">>, R2, R3, <<"rd", "rs1", "rs2", "rs3">>, IType, SType, BType, FenceFields,
     <<"imm12", "rs1", "rd">>, <<"rd", "imm20">>, <<"rd", "jimm20">>, <<"rd", "imm40">>,
     <<"rd", "rs1", "shamtd">>, <<"rd", "rs1", "shamtw">>, <<"rd", "rs1", "rnum">>,
     <<"rd", "rs1", "csr">>, <<"rd", "csr", "zimm">>}

NumberFields(op, fields) ==
    /\ op \in Adders \cup (AccessOps \ Stores) => fields = IType
    /\ op \in Stores => fields = SType
    /\ op \in {"lui", "auipc"} => fields = <<"rd", "imm20">>
    /\ op \in Shifts64 => fields = <<"rd", "rs1", "shamtd">>
    /\ op \in Shifts32 => fields = <<"rd", "rs1", "shamtw">>
    /\ op = "aes64ks1i" => fields = <<"rd", "rs1", "rnum">>
    /\ op = "li" => fields = <<"rd", "imm40">>
OtherFields(op, fields) ==
    /\ op = "fence" => fields = FenceFields
    /\ op \in Atomics => fields = (IF op \in Reservers THEN Tight ELSE Ordered)
    /\ op \in Round2 \cup Spelled2 => fields = RM2
    /\ op \in Round3 => fields = RM3
    /\ op \in Round4 => fields = RM4
    /\ op \notin Atomics \cup Rounders => fields \in UnorderedFields
Paired(S) == \A s \in S : \A op \in s.ops : NumberFields(op, s.fields) /\ OtherFields(op, s.fields)

LEMMA AllPaired == Paired(INSTRUCTION_SETS)
  <1> USE DEF Fields, Adders, Shifts64, Shifts32, AccessOps, Stores, Reservers, Atomics, AtomicsW,
          AtomicsD, Round2, Spelled2, Round3, Round4, Rounders, UnorderedFields, FenceFields
  <1> USE DEF Paired, NumberFields, OtherFields, Tight
  <1>1. Paired(SetI)
    BY SMTT(30) DEF SetI
  <1>2. Paired(Set64I)
    BY SMTT(30) DEF Set64I
  <1>3. Paired(Set64Zk)
    BY SMTT(30) DEF Set64Zk
  <1>4. Paired(Set64A)
    BY SMTT(30) DEF Set64A
  <1>5. Paired(SetA)
    BY SMTT(30) DEF SetA
  <1>6. Paired(SetZbkb)
    BY SMTT(30) DEF SetZbkb
  <1>7. Paired(SetZbs)
    BY SMTT(30) DEF SetZbs
  <1>8. Paired(Set32B)
    BY SMTT(30) DEF Set32B
  <1>9. Paired(SetZbkc)
    BY SMTT(30) DEF SetZbkc
  <1>10. Paired(SetZbpbo)
    BY SMTT(30) DEF SetZbpbo
  <1>11. Paired(SetZicsr)
    BY SMTT(30) DEF SetZicsr
  <1>12. Paired(SetM)
    BY SMTT(30) DEF SetM
  <1>13. Paired(Set64M)
    BY SMTT(30) DEF Set64M
  <1>14. Paired(SetD)
    BY SMTT(30) DEF SetD
  <1>15. Paired(SetF)
    BY SMTT(30) DEF SetF
  <1>16. Paired(Set64D)
    BY SMTT(30) DEF Set64D
  <1>17. Paired(Set64F)
    BY SMTT(30) DEF Set64F
  <1>18. Paired(SetZifencei)
    BY SMTT(30) DEF SetZifencei
  <1>19. Paired(Set32Zpn)
    BY SMTT(30) DEF Set32Zpn
  <1>20. Paired(Set64Zbkb)
    BY SMTT(30) DEF Set64Zbkb
  <1>21. Paired(SetZk)
    BY SMTT(30) DEF SetZk
  <1>22. Paired(SetZbkx)
    BY SMTT(30) DEF SetZbkx
  <1>23. Paired(SetC)
    BY SMTT(30) DEF SetC
  <1> HIDE DEF NumberFields, OtherFields
  <1> QED
    BY <1>1, <1>2, <1>3, <1>4, <1>5, <1>6, <1>7, <1>8, <1>9, <1>10, <1>11, <1>12, <1>13,
       <1>14, <1>15, <1>16, <1>17, <1>18, <1>19, <1>20, <1>21, <1>22, <1>23 DEF
       INSTRUCTION_SETS

LEMMA FieldsFound ==
    ASSUME NEW op, InSets(op, "")
    PROVE  NumberFields(op, SetOf(op).fields) /\ OtherFields(op, SetOf(op).fields)
  <1>1. SetOf(op) \in INSTRUCTION_SETS /\ op \in SetOf(op).ops
    BY DEF InSets, SetOf
  <1> QED BY <1>1, AllPaired DEF Paired

RegisterTexts ==
    {<<>>, <<"RD">>, <<"RD", "RS1">>, <<"RD", "FRS1">>, <<"FRD", "RS1">>,
     <<"RD", "RS1", "RS2">>, <<"RD", "FRS1", "FRS2">>, <<"FRD", "FRS1", "FRS2">>,
     <<"RD", "RS1", "RS2", "RS3">>}
DynTexts(n) ==
    CASE n = 3 -> {<<"RD", "FRS1", "DYN">>, <<"FRD", "RS1", "DYN">>, <<"FRD", "FRS1", "DYN">>}
      [] n = 4 -> {<<"FRD", "FRS1", "FRS2", "DYN">>}
      [] n = 5 -> {<<"FRD", "FRS1", "FRS2", "FRS3", "DYN">>}

RegisterRow(r) ==
    /\ r.form = "list" /\ r.text \in RegisterTexts
    /\ r.ops \cap (Atomics \cup Rounders \cup {"fence"}) = {}
FenceRow(r) == r.form = "list" /\ r.text = <<>> /\ r.ops \subseteq {"fence"}
SpelledRow(r) ==
    /\ r.form = "list" /\ r.text \in {<<"FRD", "RS1">>, <<"FRD", "FRS1">>}
    /\ r.ops \subseteq Spelled2
DynRow(r) ==
    /\ r.form = "list"
    /\ \/ r.text \in DynTexts(3) /\ r.ops \subseteq Round2
       \/ r.text \in DynTexts(4) /\ r.ops \subseteq Round3
       \/ r.text \in DynTexts(5) /\ r.ops \subseteq Round4
NumberRow(r) ==
    /\ r.form = "list"
    /\ \/ /\ r.text \in {<<"RD", "RS1", "IMM">>, <<"RD", "RS1", "IMM_12">>}
          /\ r.ops \subseteq Adders
       \/ r.text = <<"RD", "RS1", "UIMM_6">> /\ r.ops \subseteq Shifts64
       \/ r.text = <<"RD", "RS1", "UIMM_5">> /\ r.ops \subseteq Shifts32
       \/ r.text = <<"RD", "RS1", "IMM_4_104">> /\ r.ops \subseteq {"aes64ks1i"}
       \/ r.text = <<"RD", "UIMM_20">> /\ r.ops \subseteq {"lui", "auipc"}
       \/ r.text = <<"RD", "IMM_40">> /\ r.ops \subseteq {"li"}
CsrRow(r) ==
    /\ r.form = "list" /\ r.text \in {<<"RD", "CSR", "RS1">>, <<"RD", "CSR", "UIMM_5">>}
    /\ r.ops \subseteq CsrNames
LoadRow(r) ==
    /\ r.form = "offset" /\ r.text \in {<<"RD", "IMM_12", "T6">>, <<"FRD", "IMM_12", "T6">>}
    /\ r.ops \subseteq AccessOps \ Stores
StoreRow(r) ==
    /\ r.form = "offset" /\ r.text \in {<<"RS2", "IMM_12", "T6">>, <<"FRS2", "IMM_12", "T6">>}
    /\ r.ops \subseteq Stores
AtomicRow(r) ==
    /\ r.form = "address"
    /\ \/ r.text = <<"RD", "T6">> /\ r.ops \subseteq Reservers
       \/ r.text = <<"RD", "RS2", "T6">> /\ r.ops \subseteq Atomics \ Reservers

\* The rows of a table that a slot takes its plain instructions from.
PlainRow(r) ==
    \/ RegisterRow(r) \/ FenceRow(r) \/ SpelledRow(r) \/ DynRow(r) \/ NumberRow(r) \/ CsrRow(r)
    \/ ((LoadRow(r) \/ StoreRow(r)) /\ r.cat \in MemoryCategories) \/ AtomicRow(r)
PlainTable(R) == \A r \in R : PlainRow(r)

LEMMA AllPlain ==
    \A r \in KnownRows :
        PlainRow(r) \/ r.ops \subseteq SquashedOps \/ r \in RvI_Transfers
  <1> USE DEF PlainTable, PlainRow, Row, Offset, Arith, RegisterRow, RegisterTexts, Atomics,
          AtomicsW, AtomicsD, Rounders, Round2, Spelled2, Round3, Round4
  <1>1. PlainTable(Zifencei \cup ZicsrFlags \cup Zbs)
    BY DEF Zifencei, ZicsrFlags, Zbs
  <1>2. PlainTable(ZicsrAccess)
    BY DEF ZicsrAccess, CsrRow, CsrNames
  <1>3. PlainTable(Rv32B_Binary \cup Rv32B_Mixed \cup Rv32B_Rest)
    BY DEF Rv32B_Binary, Rv32B_Mixed, Rv32B_Rest
  <1>4. PlainTable(RvI_Upper)
    BY DEF RvI_Upper, NumberRow
  <1>5. PlainTable(RvI_Memory)
    BY DEF RvI_Memory, LoadRow, StoreRow, AccessOps, Stores, MemoryCategories
  <1>6. PlainTable(RvI_Alu)
    BY DEF RvI_Alu, NumberRow, Adders
  <1>7. PlainTable(RvI_System)
    BY DEF RvI_System, NumberRow, FenceRow
  <1>8. PlainTable(Rv64I)
    <2> SUFFICES ASSUME NEW r \in Rv64I PROVE PlainRow(r)
      OBVIOUS
    <2>1. CASE r.form = "offset"
      BY <2>1 DEF Rv64I, LoadRow, StoreRow, AccessOps, Stores, MemoryCategories
    <2>2. CASE r.form # "offset" /\ r.text[3] = "RS2"
      BY <2>2 DEF Rv64I
    <2>3. CASE r.form # "offset" /\ r.text[3] # "RS2"
      BY <2>3 DEF Rv64I, NumberRow, Adders, Shifts64, Shifts32
    <2> QED BY <2>1, <2>2, <2>3
  <1>9. PlainTable(FZfinxArith \cup FZfinxRest)
    BY DEF FZfinxArith, FZfinxRest, DynRow, DynTexts
  <1>10. PlainTable(RvF)
    BY DEF RvF, LoadRow, StoreRow, AccessOps, Stores, MemoryCategories
  <1>11. PlainTable(RvD_Arith \cup RvD_Rest)
    <2>1. PlainTable(RvD_Arith)
      BY DEF RvD_Arith, DynRow, DynTexts
    <2>2. ASSUME NEW r \in RvD_Rest PROVE PlainRow(r)
      <3>1. CASE r.form = "offset"
        BY <3>1 DEF RvD_Rest, LoadRow, StoreRow, AccessOps, Stores, MemoryCategories
      <3>2. CASE r.form # "offset" /\ Len(r.text) = 2
        BY <3>2 DEF RvD_Rest, SpelledRow
      <3>3. CASE r.form # "offset" /\ Len(r.text) # 2
        BY <3>3 DEF RvD_Rest, DynRow, DynTexts
      <3> QED BY <3>1, <3>2, <3>3
    <2> QED BY <2>1, <2>2
  <1>12. PlainTable(Rv64F \cup Rv64D)
    BY DEF Rv64F, Rv64D, DynRow, DynTexts
  <1>13. PlainTable(ReservedW \cup AmoW \cup ReservedD \cup AmoD)
    <2>1. \A ops, cat, text : Address(ops, cat, text).form = "address"
      BY DEF Address
    <2>2. PlainTable(ReservedW \cup ReservedD)
      <3>1. \A r \in ReservedW \cup ReservedD : AtomicRow(r)
        BY <2>1, AddressRow DEF ReservedW, ReservedD, AtomicRow, Reservers
      <3> QED BY <3>1
    <2>3. PlainTable(AmoW \cup AmoD)
      <3>1. \A r \in AmoW \cup AmoD : AtomicRow(r)
        BY <2>1, AddressRow DEF AmoW, AmoD, AtomicRow, Reservers
      <3> QED BY <3>1
    <2> HIDE DEF PlainRow
    <2> QED BY <2>2, <2>3
  <1>14. PlainTable(RvM \cup Rv32Zpn \cup Rv64M \cup Zbkb \cup Zbkc \cup Zbkx)
    <2>1. PlainTable(RvM \cup Rv32Zpn \cup Rv64M)
      BY DEF RvM, Rv32Zpn, Rv64M, Binary
    <2>2. PlainTable(Zbkb \cup Zbkc \cup Zbkx)
      BY DEF Zbkb, Zbkc, Zbkx, Binary
    <2> HIDE DEF PlainRow
    <2> QED BY <2>1, <2>2
  <1>15. PlainTable(Zbkb64)
    BY DEF Zbkb64, Binary, NumberRow, Shifts64, Shifts32
  <1>16. PlainTable(Zk64 \cup Zk \cup Rocc \cup Ill)
    BY DEF Zk64, Zk, Rocc, Ill, Binary, Unary, NumberRow
  <1>17. \A r \in RvC_Memory \cup RvC_Transfers \cup RvC_Alu \cup Rv64C \cup Rv32CF \cup RvCD
                 \cup Rv32C : r.ops \subseteq SquashedOps
    <2>1. \A r \in RvC_Alu : r.ops \subseteq SquashedOps
      BY DEF RvC_Alu, SquashedOps, SetC, Fields
    <2> QED BY <2>1, SquashedRows
  <1> HIDE DEF PlainRow
  <1> SUFFICES ASSUME NEW e \in DOMAIN INSTRUCTION_FORMATS, NEW r \in INSTRUCTION_FORMATS[e]
               PROVE  PlainRow(r) \/ r.ops \subseteq SquashedOps \/ r \in RvI_Transfers
    BY DEF KnownRows
  <1> QED
    BY <1>1, <1>2, <1>3, <1>4, <1>5, <1>6, <1>7, <1>8, <1>9, <1>10, <1>11, <1>12, <1>13, <1>14,
       <1>15, <1>16, <1>17 DEF INSTRUCTION_FORMATS

\* Every register of the word is the one the text names.
RegistersSaid(r, l) ==
    \A f \in Registers \cap DOMAIN Encode(l) : Encode(l)[f] = Written(r, l, f)

LEMMA RegistersSay ==
    ASSUME NEW r, NEW l, NEW fields, NEW operands, FilledFrom(l, fields, operands),
           \A i \in DOMAIN fields : fields[i] \in Registers =>
               \/ \E k : At(r, fields[i]) = {k} /\ operands[i] = l.args[k]
               \/ At(r, fields[i]) = {} /\ operands[i] = Reg0
    PROVE  RegistersSaid(r, l)
  <1> SUFFICES ASSUME NEW f \in Registers \cap DOMAIN Encode(l)
               PROVE  Encode(l)[f] = Written(r, l, f)
    BY DEF RegistersSaid
  <1>1. PICK i \in DOMAIN fields : fields[i] = f
    BY DEF FilledFrom, ToSet
  <1>2. Fits(f, operands[i]) /\ Encode(l)[f] = FieldValue(f, operands[i])
    BY <1>1 DEF FilledFrom
  <1>3. CASE \E k : At(r, f) = {k} /\ operands[i] = l.args[k]
    BY <1>2, <1>3, RegisterField
  <1>4. CASE At(r, f) = {} /\ operands[i] = Reg0
    BY <1>2, <1>4, ZeroField
  <1> QED BY <1>1, <1>3, <1>4

LEMMA RegisterDraw ==
    ASSUME NEW r, NEW op, NEW var, NEW a \in Draw(r, op, var)
    PROVE  /\ var \in {"RD", "RS1", "RS2", "RS3", "T6"} => a[1] = "x"
           /\ var \in {"FRD", "FRS1", "FRS2", "FRS3"} => a[1] = "f"
           /\ var = "DYN" => a = <<"w", "dyn">>
           /\ var = "CSR" => a[1] = "c"
           /\ var # "CSR" => a[1] # "c"
  <1>1. CASE var \in {"RD", "RS1", "RS2", "RS3"}
    <2>1. Draw(r, op, var) = Integer(IntRegs)
      BY <1>1 DEF Draw
    <2>2. \E x : a = <<"x", x>>
      BY <2>1 DEF Integer
    <2> QED BY <1>1, <2>2
  <1>2. CASE var \in {"FRD", "FRS1", "FRS2", "FRS3"}
    <2>1. Draw(r, op, var) = {<<"f", f>> : f \in FloatRegs}
      BY <1>2 DEF Draw
    <2>2. \E f : a = <<"f", f>>
      BY <2>1
    <2> QED BY <1>2, <2>2
  <1>3. CASE var \in {"T6", "SP"}
    <2>1. \E x : a = <<"x", x>>
      BY <1>3 DEF Draw
    <2> QED BY <1>3, <2>1
  <1>4. CASE var = "CSR"
    <2>1. Draw(r, op, var) = {<<"c", c>> : c \in Csrs}
      BY <1>4 DEF Draw
    <2>2. \E c : a = <<"c", c>>
      BY <2>1
    <2> QED BY <1>4, <2>2
  <1>5. CASE var \in {"LABEL", "DYN"}
    <2>1. a = <<"w", IF var = "DYN" THEN "dyn" ELSE "{LABEL}">>
      BY <1>5 DEF Draw
    <2> QED BY <1>5, <2>1
  <1>6. CASE var \in {"RD_N0", "RD_RS1_N0", "C_RS2_N0", "RD_SP", "RD_P", "RD_RS1_P", "RS1_P",
                      "RS2_P"}
    <2>1. \E regs : Draw(r, op, var) = Integer(regs)
      BY <1>6 DEF Draw
    <2>2. \E x : a = <<"x", x>>
      BY <2>1 DEF Integer
    <2> QED BY <1>6, <2>2
  <1>7. CASE var \notin {"RD", "RS1", "RS2", "RS3", "FRD", "FRS1", "FRS2", "FRS3", "T6", "SP",
                         "CSR", "LABEL", "DYN", "RD_N0", "RD_RS1_N0", "C_RS2_N0", "RD_SP",
                         "RD_P", "RD_RS1_P", "RS1_P", "RS2_P"}
    <2>1. \E n : a = Num(n)
      BY <1>7 DEF Draw
    <2> QED BY <1>7, <2>1 DEF Num
  <1> QED BY <1>1, <1>2, <1>3, <1>4, <1>5, <1>6, <1>7

\* A line drawn from a row: its operands, before and without the patch for CSRs.
LineOf(r, op, l, args) ==
    /\ l.op = op /\ l.form = r.form /\ l.args = CvaPatch(args)
    /\ DOMAIN args = 1..Len(r.text) /\ Len(args) = Len(r.text) /\ (\E U : args \in Seq(U))
    /\ \A i \in 1..Len(r.text) : args[i] \in Draw(r, op, r.text[i])

LEMMA LineDrawn ==
    ASSUME NEW r, NEW op, op # "clmulr", NEW note, Len(r.text) \in Nat,
           NEW l \in NewInstr(r, op, note)
    PROVE  \E args : LineOf(r, op, l, args)
  <1>1. PICK args \in Drawn(r, op)[Len(r.text)] : l = Line(op, note, r.form, CvaPatch(args))
    BY DEF NewInstr, Mnemonic
  <1>2. l.op = op /\ l.form = r.form /\ l.args = CvaPatch(args)
    BY <1>1 DEF Line
  <1> QED BY <1>2, DrawnOperands, Zenon DEF LineOf

\* The key with another mnemonic: as if that had been drawn.
LEMMA LineRenamed ==
    ASSUME NEW r, NEW note, Len(r.text) \in Nat, NEW l \in NewInstr(r, "clmulr", note),
           \A i \in 1..Len(r.text) :
              r.text[i] \in {"RD", "RS1", "RS2", "RS3", "FRD", "FRS1", "FRS2"}
    PROVE  \E args : LineOf(r, "clmulh", l, args)
  <1>1. PICK args \in Drawn(r, "clmulr")[Len(r.text)] :
           l = Line("clmulh", note, r.form, CvaPatch(args))
    BY DEF NewInstr, Mnemonic
  <1>2. l.op = "clmulh" /\ l.form = r.form /\ l.args = CvaPatch(args)
    BY <1>1 DEF Line
  <1>3. /\ DOMAIN args = 1..Len(r.text) /\ Len(args) = Len(r.text) /\ (\E U : args \in Seq(U))
        /\ \A i \in 1..Len(r.text) : args[i] \in Draw(r, "clmulr", r.text[i])
    BY DrawnOperands, Zenon
  <1>4. \A var \in {"RD", "RS1", "RS2", "RS3", "FRD", "FRS1", "FRS2"} :
           Draw(r, "clmulr", var) = Draw(r, "clmulh", var)
    BY DEF Draw
  <1>5. \A i \in 1..Len(r.text) : args[i] \in Draw(r, "clmulh", r.text[i])
    BY <1>3, <1>4
  <1> QED BY <1>2, <1>3, <1>5, Zenon DEF LineOf

LEMMA LineUnpatched ==
    ASSUME NEW r, NEW op, NEW l, NEW args, LineOf(r, op, l, args),
           \A i \in 1..Len(r.text) : r.text[i] # "CSR"
    PROVE  l.args = args
  <1>1. \A i \in DOMAIN args : args[i][1] # "c"
    BY RegisterDraw DEF LineOf
  <1> QED BY <1>1, Unpatched DEF LineOf

LEMMA UnorderedLists ==
    ASSUME NEW fields \in UnorderedFields
    PROVE  /\ DOMAIN fields = 1..Len(fields) /\ Len(fields) \in Nat /\ IsInjective(fields)
           /\ "aq" \notin ToSet(fields) /\ "rm" \notin ToSet(fields)
  <1>1. DOMAIN fields = 1..Len(fields) /\ Len(fields) \in Nat
    BY DEF UnorderedFields, R2, R3, IType, SType, BType, FenceFields
  <1>2. IsInjective(fields)
    BY DEF UnorderedFields, R2, R3, IType, SType, BType, FenceFields, IsInjective
  <1>3. "aq" \notin ToSet(fields) /\ "rm" \notin ToSet(fields)
    BY DEF UnorderedFields, R2, R3, IType, SType, BType, FenceFields, ToSet
  <1> QED BY <1>1, <1>2, <1>3

\* The fields a word of registers only has.
LEMMA RegisterFields ==
    ASSUME NEW fields \in UnorderedFields, \A i \in DOMAIN fields : fields[i] \in Registers
    PROVE  fields \in {<<>>, <<"rd">>, R2, R3, <<"rd", "rs1", "rs2", "rs3">>}
  BY DEF UnorderedFields, Registers, R2, R3, IType, SType, BType, FenceFields

LEMMA RegisterPlaces ==
    ASSUME NEW r, r.text \in RegisterTexts,
           NEW fields \in {<<>>, <<"rd">>, R2, R3, <<"rd", "rs1", "rs2", "rs3">>},
           Len(fields) = Len(r.text), NEW i \in DOMAIN fields
    PROVE  At(r, fields[i]) = {i}
  BY DEF At, Plays, RegisterTexts, R2, R3

Exact(r, l) == Encode(l) = Refused \/ Faithful(r, l, Encode(l))

\* What is left to show of a word without ordering and rounding mode.
LEMMA RegistersOnly ==
    ASSUME NEW r, NEW l, RegistersSaid(r, l), "aq" \notin DOMAIN Encode(l),
           "rm" \notin DOMAIN Encode(l), \A i \in DOMAIN l.args : l.args[i][1] # "i"
    PROVE  Exact(r, l)
  <1>1. WrittenNumbers(l) = {}
    BY DEF WrittenNumbers
  <1> QED BY <1>1 DEF Exact, Faithful, RegistersSaid

LEMMA RegisterLine ==
    ASSUME NEW r, RegisterRow(r), NEW op, op \notin Atomics \cup Rounders \cup {"fence"},
           NEW l, NEW args, LineOf(r, op, l, args)
    PROVE  Exact(r, l)
  <1> SUFFICES ASSUME Encode(l) # Refused PROVE Exact(r, l)
    BY DEF Exact
  <1> DEFINE fields == SetOf(l.op).fields
             operands == Matched(fields, Preprocessed(l, fields))
  <1>1. l.op = op /\ l.form = "list" /\ InSets(op, "")
    BY Zenon DEF LineOf, RegisterRow, Encode
  <1>2. op \notin Atomics \cup Rounders /\ op # "fence"
    OBVIOUS
  <1>3. fields \in UnorderedFields
    BY <1>1, <1>2, FieldsFound DEF OtherFields
  <1>4. /\ Len(r.text) \in 0..4
        /\ \A i \in 1..Len(r.text) :
              r.text[i] \in {"RD", "RS1", "RS2", "RS3", "FRD", "FRS1", "FRS2"}
    <2>1. Len(r.text) \in 0..4
      BY DEF RegisterRow, RegisterTexts
    <2>2. \A i \in 1..Len(r.text) :
             r.text[i] \in {"RD", "RS1", "RS2", "RS3", "FRD", "FRS1", "FRS2"}
      BY DEF RegisterRow, RegisterTexts
    <2> QED BY <2>1, <2>2
  <1>5. l.args = args
    BY <1>4, LineUnpatched
  <1>6. \A i \in DOMAIN args : args[i][1] \in {"x", "f"}
    BY <1>4, RegisterDraw DEF LineOf
  <1>7. operands = Matched(fields, args)
    <2>1. Preprocessed(l, fields) = args
      BY <1>1, <1>2, <1>3, <1>5, UnorderedLists DEF Preprocessed, ParsedOperands
    <2> QED BY <2>1, Zenon
  <1>8. FilledFrom(l, fields, operands)
    BY <1>3, UnorderedLists, WordOf
  <1> HIDE DEF fields, operands
  <1>9. ~IsSplit(fields)
    <2> SUFFICES ASSUME IsSplit(fields) PROVE FALSE
      OBVIOUS
    <2>1. /\ Len(fields) = 4 /\ 1 \in DOMAIN fields /\ fields[1] \notin Registers
      BY DEF IsSplit, SType, BType, Registers
    <2>2. operands[1][1] = "i"
      BY <1>8, <2>1 DEF FilledFrom, Fits
    <2>3. operands[1] = args[1] \/ operands[1] = args[3]
      BY <1>7 DEF Matched
    <2>4. 1 \in DOMAIN args /\ 3 \in DOMAIN args
      <3>1. CASE Len(args) = 3
        BY <3>1 DEF LineOf
      <3>2. CASE Len(args) # 3
        <4>1. operands = args
          BY <1>7, <3>2 DEF Matched
        <4>2. Len(args) = 4
          BY <1>8, <2>1, <4>1 DEF FilledFrom
        <4> QED BY <4>2 DEF LineOf
      <3> QED BY <3>1, <3>2
    <2> QED BY <1>6, <2>2, <2>3, <2>4
  <1>10. operands = args
    BY <1>7, <1>9 DEF Matched
  <1>11. /\ Len(fields) = Len(r.text) /\ DOMAIN fields = DOMAIN args
         /\ \A i \in DOMAIN fields : fields[i] \in Registers
    <2>1. Len(fields) = Len(r.text) /\ DOMAIN fields = DOMAIN args
      BY <1>3, <1>8, <1>10, UnorderedLists DEF FilledFrom, LineOf
    <2> QED BY <1>6, <1>8, <1>10, <2>1 DEF FilledFrom, Fits
  <1>12. \A i \in DOMAIN fields : At(r, fields[i]) = {i}
    <2>1. r.text \in RegisterTexts
      BY DEF RegisterRow
    <2> QED BY <1>3, <1>11, <2>1, RegisterFields, RegisterPlaces
  <1>13. RegistersSaid(r, l)
    BY <1>5, <1>8, <1>10, <1>12, RegistersSay
  <1>14. "aq" \notin DOMAIN Encode(l) /\ "rm" \notin DOMAIN Encode(l)
    BY <1>3, <1>8, UnorderedLists DEF FilledFrom
  <1> QED BY <1>5, <1>6, <1>13, <1>14, RegistersOnly

LEMMA FenceLine ==
    ASSUME NEW r, FenceRow(r), NEW op \in r.ops, NEW l, NEW args, LineOf(r, op, l, args)
    PROVE  Exact(r, l)
  <1> SUFFICES ASSUME Encode(l) # Refused PROVE Exact(r, l)
    BY DEF Exact
  <1> DEFINE fields == SetOf(l.op).fields
             operands == Matched(fields, Preprocessed(l, fields))
  <1>1. l.op = "fence" /\ InSets("fence", "") /\ r.text = <<>>
    BY Zenon DEF LineOf, FenceRow, Encode
  <1>2. fields = FenceFields /\ fields \in UnorderedFields
    BY <1>1, FieldsFound DEF OtherFields, UnorderedFields
  <1>3. l.args = args /\ DOMAIN args = {}
    <2>1. Len(<<>>) = 0
      OBVIOUS
    <2>2. 1..0 = {}
      OBVIOUS
    <2>3. 1..Len(r.text) = {}
      BY <1>1, <2>1, <2>2, Zenon
    <2> QED BY <2>3, LineUnpatched DEF LineOf
  <1>4. FilledFrom(l, fields, operands)
    BY <1>2, UnorderedLists, WordOf
  <1>5. operands = FenceOperands
    <2>1. Preprocessed(l, fields) = FenceOperands
      BY <1>1, <1>2, UnorderedLists, Zenon DEF Preprocessed
    <2>2. Len(FenceOperands) = 5
      BY DEF FenceOperands
    <2> QED BY <2>1, <2>2 DEF Matched
  <1> HIDE DEF fields, operands
  <1>6. \A i \in DOMAIN fields : fields[i] \in Registers => operands[i] = Reg0
    BY <1>2, <1>5 DEF FenceFields, FenceOperands, Registers
  <1>7. \A f : At(r, f) = {}
    <2>1. DOMAIN <<>> = {}
      OBVIOUS
    <2> QED BY <1>1, <2>1 DEF At
  <1>8. RegistersSaid(r, l)
    BY <1>4, <1>6, <1>7, RegistersSay
  <1>9. "aq" \notin DOMAIN Encode(l) /\ "rm" \notin DOMAIN Encode(l)
    BY <1>2, <1>4, UnorderedLists DEF FilledFrom
  <1> QED BY <1>3, <1>8, <1>9, RegistersOnly

\* The fast encoder never takes a CSR: its name is neither a register nor a number.
LEMMA CsrLine ==
    ASSUME NEW r, CsrRow(r), NEW op \in r.ops, NEW l, NEW args, LineOf(r, op, l, args)
    PROVE  Exact(r, l)
  <1> SUFFICES ASSUME Encode(l) # Refused PROVE FALSE
    BY DEF Exact
  <1> DEFINE fields == SetOf(l.op).fields
             operands == Matched(fields, Preprocessed(l, fields))
  <1>1. l.op = op /\ l.form = "list" /\ InSets(op, "") /\ op \in CsrNames
    BY Zenon DEF LineOf, CsrRow, Encode
  <1>2. op \notin Atomics \cup Rounders /\ op # "fence"
    BY <1>1 DEF CsrNames, Atomics, AtomicsW, AtomicsD, Rounders, Round2, Spelled2, Round3, Round4
  <1>3. fields \in UnorderedFields
    BY <1>1, <1>2, FieldsFound DEF OtherFields
  <1>4. Len(r.text) = 3 /\ r.text[2] = "CSR"
    BY DEF CsrRow
  <1>5. DOMAIN l.args = 1..3 /\ Len(l.args) = 3 /\ l.args[2][1] = "c"
    <2>1. args[2][1] = "c"
      BY <1>4, RegisterDraw DEF LineOf
    <2>2. CvaPatch(args)[2] = args[2] /\ DOMAIN CvaPatch(args) = 1..3
      BY <1>4 DEF CvaPatch, LineOf
    <2>3. Len(CvaPatch(args)) = 3
      <3>1. CvaPatch(args) = args \/ CvaPatch(args) = [args EXCEPT ![1] = Reg0]
        BY DEF CvaPatch
      <3>2. DOMAIN args = 1..3 /\ Len(args) = 3
        BY <1>4 DEF LineOf
      <3>3. PICK U : args \in Seq(U)
        BY DEF LineOf
      <3>4. args \in [1..3 -> U]
        BY <3>2, <3>3, LenProperties
      <3>5. [args EXCEPT ![1] = Reg0] \in [1..3 -> U \cup {Reg0}]
        BY <3>4
      <3>6. Len([args EXCEPT ![1] = Reg0]) = 3
        BY <3>5, FunctionIsSequence
      <3> QED BY <3>1, <3>2, <3>6
    <2> QED BY <2>1, <2>2, <2>3 DEF LineOf
  <1>6. operands = Matched(fields, l.args)
    <2>1. Preprocessed(l, fields) = l.args
      BY <1>1, <1>2, <1>3, UnorderedLists DEF Preprocessed, ParsedOperands
    <2> QED BY <2>1, Zenon
  <1>7. FilledFrom(l, fields, operands)
    BY <1>3, UnorderedLists, WordOf
  <1> HIDE DEF fields, operands
  <1>8. DOMAIN fields = 1..Len(fields) /\ Len(fields) \in Nat
    BY <1>3, UnorderedLists
  <1>9. \A i \in DOMAIN fields : operands[i][1] # "c"
    BY <1>7 DEF FilledFrom, Fits
  <1>10. CASE IsSplit(fields)
    <2>1. Len(fields) = 4 /\ operands[3] = l.args[2]
      BY <1>5, <1>6, <1>10 DEF Matched, IsSplit, SType, BType
    <2> QED BY <1>5, <1>8, <1>9, <2>1
  <1>11. CASE ~IsSplit(fields)
    <2>1. operands = l.args /\ Len(fields) = 3
      BY <1>5, <1>6, <1>7, <1>11 DEF Matched, FilledFrom
    <2> QED BY <1>5, <1>8, <1>9, <2>1
  <1> QED BY <1>10, <1>11

\* The immediates that can be drawn, and what of one a field of the word keeps.
ImmVars == {"IMM", "IMM_12", "UIMM_5", "UIMM_6", "UIMM_20", "IMM_4_104"}
Between(n, a, b) == n \in Int /\ a <= n /\ n <= b
InRange(var, n) ==
    \/ var \in {"IMM", "IMM_12"} /\ Between(n, -2048, 2047)
    \/ var = "UIMM_5" /\ Between(n, 0, 31)
    \/ var = "UIMM_6" /\ Between(n, 0, 63)
    \/ var = "UIMM_20" /\ Between(n, 0, 1048575)
    \/ var = "IMM_4_104" /\ Between(n, 0, 15)

LEMMA ImmBounds ==
    ASSUME NEW var, var \notin {"IMM_40", "IMM_4_104"}, NEW sign \in BOOLEAN,
           NEW length \in Nat, ImmOf(var) = ImmKind(sign, FALSE, length, 1),
           2^(length - 1) \in Int, 2^length \in Int, NEW n \in GenImm(var)
    PROVE  Between(n, IF sign THEN -2^(length - 1) ELSE 0,
                      IF sign THEN 2^(length - 1) - 1 ELSE 2^length - 1)
  <1> DEFINE k == ImmKind(sign, FALSE, length, 1)
             low0 == IF k.sign THEN -2^(k.length - 1) ELSE 0
             high0 == IF k.sign THEN 2^(k.length - 1) - 1 ELSE 2^k.length - 1
  <1>1. k.sign = sign /\ k.length = length /\ k.multiple = 1
    BY DEF ImmKind
  <1>2. GenImm(var) = {v \in {low0, low0 + 1, -k.multiple, -1, 0, 1, k.multiple, high0 - 1,
                              (high0 \div k.multiple) * k.multiple, high0} :
                          /\ low0 <= v /\ v <= high0 /\ v % k.multiple = 0
                          /\ k.nonzero => v # 0}
    BY Zenon DEF GenImm
  <1>3. low0 = (IF sign THEN -2^(length - 1) ELSE 0)
        /\ high0 = (IF sign THEN 2^(length - 1) - 1 ELSE 2^length - 1)
    BY <1>1, Zenon
  <1> HIDE DEF k, low0, high0
  <1>4. low0 \in Int /\ high0 \in Int
    BY <1>3
  <1>5. n \in Int /\ low0 <= n /\ n <= high0
    BY <1>1, <1>2, <1>4
  <1> QED BY <1>3, <1>5, Zenon DEF Between

LEMMA ImmRanges ==
    ASSUME NEW var \in ImmVars, NEW n \in GenImm(var)
    PROVE  InRange(var, n)
  <1>1. CASE var \in {"IMM", "IMM_12"}
    <2>1. ImmOf(var) = ImmKind(TRUE, FALSE, 12, 1)
      BY <1>1 DEF ImmOf
    <2>2. 2^(12 - 1) = 2048 /\ 2^12 \in Int
      OBVIOUS
    <2>3. 2^(12 - 1) \in Int /\ 2^12 \in Int /\ 12 \in Nat
      BY <2>2, SMT
    <2>4. Between(n, IF TRUE THEN -2^(12 - 1) ELSE 0, IF TRUE THEN 2^(12 - 1) - 1 ELSE 2^12 - 1)
      BY <1>1, <2>1, <2>3, ImmBounds, Zenon
    <2>5. Between(n, -2048, 2047)
      BY <2>2, <2>4, SMT DEF Between
    <2> QED BY <1>1, <2>5, SMT DEF InRange, Between
  <1>2. CASE var = "UIMM_5"
    <2>1. ImmOf(var) = ImmKind(FALSE, FALSE, 5, 1)
      BY <1>2 DEF ImmOf
    <2>2. 2^5 = 32 /\ 2^(5 - 1) \in Int
      OBVIOUS
    <2>3. 2^(5 - 1) \in Int /\ 2^5 \in Int /\ 5 \in Nat
      BY <2>2, SMT
    <2>4. Between(n, IF FALSE THEN -2^(5 - 1) ELSE 0, IF FALSE THEN 2^(5 - 1) - 1 ELSE 2^5 - 1)
      BY <1>2, <2>1, <2>3, ImmBounds, Zenon
    <2>5. Between(n, 0, 31)
      BY <2>2, <2>4, SMT DEF Between
    <2> QED BY <1>2, <2>5, SMT DEF InRange, Between
  <1>3. CASE var = "UIMM_6"
    <2>1. ImmOf(var) = ImmKind(FALSE, FALSE, 6, 1)
      BY <1>3 DEF ImmOf
    <2>2. 2^6 = 64 /\ 2^(6 - 1) \in Int
      OBVIOUS
    <2>3. 2^(6 - 1) \in Int /\ 2^6 \in Int /\ 6 \in Nat
      BY <2>2, SMT
    <2>4. Between(n, IF FALSE THEN -2^(6 - 1) ELSE 0, IF FALSE THEN 2^(6 - 1) - 1 ELSE 2^6 - 1)
      BY <1>3, <2>1, <2>3, ImmBounds, Zenon
    <2>5. Between(n, 0, 63)
      BY <2>2, <2>4, SMT DEF Between
    <2> QED BY <1>3, <2>5, SMT DEF InRange, Between
  <1>4. CASE var = "UIMM_20"
    <2>1. ImmOf(var) = ImmKind(FALSE, FALSE, 20, 1)
      BY <1>4 DEF ImmOf
    <2>2. 2^20 = 1048576 /\ 2^(20 - 1) \in Int
      BY SMT
    <2>3. 2^(20 - 1) \in Int /\ 2^20 \in Int /\ 20 \in Nat
      BY <2>2, SMT
    <2>4. Between(n, IF FALSE THEN -2^(20 - 1) ELSE 0, IF FALSE THEN 2^(20 - 1) - 1 ELSE 2^20 - 1)
      BY <1>4, <2>1, <2>3, ImmBounds, Zenon
    <2>5. Between(n, 0, 1048575)
      BY <2>2, <2>4, SMT DEF Between
    <2> QED BY <1>4, <2>5, SMT DEF InRange, Between
  <1>5. CASE var = "IMM_4_104"
    <2>1. Between(n, 0, 15)
      BY <1>5 DEF GenImm, Between
    <2> QED BY <1>5, <2>1, SMT DEF InRange, Between
  <1> QED BY <1>1, <1>2, <1>3, <1>4, <1>5 DEF ImmVars

LEMMA ImmDraw ==
    ASSUME NEW r, NEW op,
           NEW var \in ImmVars,
           NEW a \in Draw(r, op, var)
    PROVE  \E n : InRange(var, n) /\ a = Num(n)
  <1>1. CASE var = "IMM_12" /\ r.cat \in MemoryCategories
    <2>1. Draw(r, op, var) = {Num(n) : n \in SafeOffsets(op)}
      BY <1>1 DEF Draw, ImmVars
    <2>2. PICK n \in SafeOffsets(op) : a = Num(n)
      BY <2>1
    <2>3. Between(n, -2048, 2047)
      BY <2>2, ClearedOffset, SMT DEF Between
    <2> QED BY <1>1, <2>2, <2>3, SMT DEF InRange, Between
  <1>2. CASE ~(var = "IMM_12" /\ r.cat \in MemoryCategories)
    <2>1. Draw(r, op, var) = {Num(n) : n \in GenImm(var)}
      BY <1>2 DEF Draw, ImmVars
    <2>2. PICK n \in GenImm(var) : a = Num(n)
      BY <2>1
    <2> QED BY <2>2, ImmRanges
  <1> QED BY <1>1, <1>2

\* A number the word has in its only immediate field.
KeptBy(word, n) ==
    \/ {"imm12hi", "imm12lo"} \subseteq DOMAIN word
       /\ SValue(word["imm12hi"], word["imm12lo"]) = n
    \/ "imm12" \in DOMAIN word /\ IValue(word["imm12"]) = n
    \/ \E f \in {"imm20", "shamtd", "shamtw", "rnum", "zimm"} \cap DOMAIN word : word[f] = n

LEMMA FieldKeeps ==
    ASSUME NEW word, NEW n, NEW f \in DOMAIN word, word[f] = FieldValue(f, Num(n)),
           \/ f = "imm12" /\ Between(n, -2048, 2047)
           \/ f = "shamtd" /\ Between(n, 0, 63)
           \/ f = "shamtw" /\ Between(n, 0, 31)
           \/ f = "rnum" /\ Between(n, 0, 15)
    PROVE  KeptBy(word, n)
  <1>1. word[f] = LowBits(n, FieldSize[f])
    BY DEF FieldValue, Num, ImmediateValue
  <1>2. CASE f = "imm12"
    <2>1. FieldSize[f] = 4096
      BY <1>2 DEF FieldSize
    <2>2. IValue(LowBits(n, 4096)) = n
      <3>1. Between(n, -2048, 2047)
        BY <1>2
      <3> QED BY <3>1, SMT DEF IValue, LowBits, Signed, Between
    <2>3. word["imm12"] = LowBits(n, 4096)
      BY <1>1, <1>2, <2>1
    <2> QED BY <1>2, <2>2, <2>3 DEF KeptBy
  <1>3. CASE f = "shamtd"
    <2>1. FieldSize[f] = 64
      BY <1>3 DEF FieldSize
    <2> QED BY <1>1, <1>3, <2>1 DEF KeptBy, LowBits, Between
  <1>4. CASE f = "shamtw"
    <2>1. FieldSize[f] = 32
      BY <1>4 DEF FieldSize
    <2> QED BY <1>1, <1>4, <2>1 DEF KeptBy, LowBits, Between
  <1>5. CASE f = "rnum"
    <2>1. FieldSize[f] = 16
      BY <1>5 DEF FieldSize
    <2> QED BY <1>1, <1>5, <2>1 DEF KeptBy, LowBits, Between
  <1> QED BY <1>2, <1>3, <1>4, <1>5

LEMMA UpperKeeps ==
    ASSUME NEW word, NEW n, InRange("UIMM_20", n), "imm20" \in DOMAIN word,
           word["imm20"] = FieldValue("imm20", Num(n))
    PROVE  KeptBy(word, n)
  <1>1. word["imm20"] = LowBits(n, FieldSize["imm20"])
    BY DEF FieldValue, Num, ImmediateValue
  <1>2. LowBits(n, FieldSize["imm20"]) = n
    BY SMT DEF FieldSize, LowBits, InRange, Between
  <1> QED BY <1>1, <1>2 DEF KeptBy

\* What is left to show of a word with a number.
LEMMA NumberSaid ==
    ASSUME NEW r, NEW l, RegistersSaid(r, l), "aq" \notin DOMAIN Encode(l),
           "rm" \notin DOMAIN Encode(l),
           \A i \in DOMAIN l.args : l.args[i][1] = "i" => KeptBy(Encode(l), l.args[i][2])
    PROVE  Exact(r, l)
  <1>1. \A n \in WrittenNumbers(l) : KeptBy(Encode(l), n)
    BY DEF WrittenNumbers
  <1> QED BY <1>1, Zenon DEF Exact, Faithful, RegistersSaid, KeptBy

\* The immediate field that is wide enough for what is drawn.
WideEnough(var, field) ==
    \/ var \in {"IMM", "IMM_12"} /\ field = "imm12"
    \/ var = "UIMM_6" /\ field = "shamtd"
    \/ var = "UIMM_5" /\ field = "shamtw"
    \/ var = "IMM_4_104" /\ field = "rnum"

LEMMA WideKeeps ==
    ASSUME NEW var, NEW f, WideEnough(var, f), NEW n, InRange(var, n), NEW word, f \in DOMAIN word,
           word[f] = FieldValue(f, Num(n))
    PROVE  KeptBy(word, n)
  <1>1. \/ f = "imm12" /\ Between(n, -2048, 2047)
        \/ f = "shamtd" /\ Between(n, 0, 63)
        \/ f = "shamtw" /\ Between(n, 0, 31)
        \/ f = "rnum" /\ Between(n, 0, 15)
    BY SMT DEF WideEnough, InRange
  <1> QED BY <1>1, FieldKeeps

\* A line of the list form is read operand by operand.
LEMMA ListFilled ==
    ASSUME NEW r, r.form = "list", NEW op, op # "fence", NEW l, NEW args, LineOf(r, op, l, args),
           \A i \in 1..Len(r.text) : r.text[i] # "CSR",
           NEW fields \in UnorderedFields, ~IsSplit(fields), fields = SetOf(op).fields,
           Encode(l) # Refused
    PROVE  l.args = args /\ FilledFrom(l, fields, args)
  <1>1. l.op = op /\ l.form = "list" /\ l.args = args
    BY LineUnpatched DEF LineOf
  <1>2. Preprocessed(l, fields) = args
    BY <1>1, UnorderedLists DEF Preprocessed, ParsedOperands
  <1>3. Matched(fields, Preprocessed(l, fields)) = args
    BY <1>2 DEF Matched
  <1>4. fields = SetOf(l.op).fields
    BY <1>1
  <1> QED BY <1>1, <1>3, <1>4, UnorderedLists, WordOf

LEMMA ThirdNumber ==
    ASSUME NEW r, r.form = "list", NEW op, op # "fence", NEW l, NEW args, LineOf(r, op, l, args),
           NEW var \in ImmVars, NEW f, WideEnough(var, f), r.text = <<"RD", "RS1", var>>,
           SetOf(op).fields = <<"rd", "rs1", f>>
    PROVE  Exact(r, l)
  <1> SUFFICES ASSUME Encode(l) # Refused PROVE Exact(r, l)
    BY DEF Exact
  <1> DEFINE fields == <<"rd", "rs1", f>>
  <1>1. f \in {"imm12", "shamtd", "shamtw", "rnum"}
    BY DEF WideEnough
  <1>2. fields \in UnorderedFields
    BY <1>1 DEF UnorderedFields, IType
  <1>3. ~IsSplit(fields)
    BY DEF IsSplit, SType, BType
  <1>4. /\ Len(r.text) = 3 /\ DOMAIN r.text = 1..3 /\ r.text[1] = "RD"
        /\ r.text[2] = "RS1" /\ r.text[3] = var
    OBVIOUS
  <1>5. \A i \in 1..3 : r.text[i] # "CSR"
    BY <1>4 DEF ImmVars
  <1>6. l.args = args /\ FilledFrom(l, fields, args)
    BY <1>2, <1>3, <1>4, <1>5, ListFilled
  <1>7. RegistersSaid(r, l)
    <2>1. At(r, "rd") = {1} /\ At(r, "rs1") = {2}
      BY <1>4 DEF At, Plays, ImmVars
    <2>2. \A i \in DOMAIN fields : fields[i] \in Registers => At(r, fields[i]) = {i}
      BY <1>1, <2>1 DEF Registers
    <2> HIDE DEF fields
    <2> QED BY <1>6, <2>2, RegistersSay
  <1>8. PICK n : InRange(var, n) /\ args[3] = Num(n)
    BY <1>4, ImmDraw DEF LineOf
  <1>9. KeptBy(Encode(l), n)
    <2>1. f \in DOMAIN Encode(l) /\ Encode(l)[f] = FieldValue(f, Num(n))
      BY <1>6, <1>8 DEF FilledFrom, ToSet
    <2> QED BY <1>8, <2>1, WideKeeps
  <1>10. \A i \in DOMAIN l.args : l.args[i][1] = "i" => KeptBy(Encode(l), l.args[i][2])
    <2>1. DOMAIN args = 1..3 /\ args[1][1] = "x" /\ args[2][1] = "x"
      BY <1>4, RegisterDraw DEF LineOf
    <2>2. Num(n)[2] = n
      BY DEF Num
    <2>3. \A i \in 1..3 : i = 1 \/ i = 2 \/ i = 3
      OBVIOUS
    <2> QED BY <1>6, <1>8, <1>9, <2>1, <2>2, <2>3
  <1>11. "aq" \notin DOMAIN Encode(l) /\ "rm" \notin DOMAIN Encode(l)
    BY <1>2, <1>6, UnorderedLists DEF FilledFrom
  <1> QED BY <1>7, <1>10, <1>11, NumberSaid

LEMMA UpperLine ==
    ASSUME NEW r, r.form = "list", NEW op, op # "fence", NEW l, NEW args, LineOf(r, op, l, args),
           r.text = <<"RD", "UIMM_20">>, SetOf(op).fields = <<"rd", "imm20">>
    PROVE  Exact(r, l)
  <1> SUFFICES ASSUME Encode(l) # Refused PROVE Exact(r, l)
    BY DEF Exact
  <1> DEFINE fields == <<"rd", "imm20">>
  <1>1. fields \in UnorderedFields
    BY DEF UnorderedFields
  <1>2. ~IsSplit(fields)
    BY DEF IsSplit, SType, BType
  <1>3. Len(r.text) = 2 /\ DOMAIN r.text = 1..2 /\ r.text[1] = "RD" /\ r.text[2] = "UIMM_20"
    OBVIOUS
  <1>4. \A i \in 1..2 : r.text[i] # "CSR"
    BY <1>3
  <1>5. l.args = args /\ FilledFrom(l, fields, args)
    BY <1>1, <1>2, <1>3, <1>4, ListFilled
  <1>6. RegistersSaid(r, l)
    <2>1. At(r, "rd") = {1}
      BY <1>3 DEF At, Plays
    <2>2. \A i \in DOMAIN fields : fields[i] \in Registers => At(r, fields[i]) = {i}
      BY <2>1 DEF Registers
    <2> HIDE DEF fields
    <2> QED BY <1>5, <2>2, RegistersSay
  <1>7. PICK n : InRange("UIMM_20", n) /\ args[2] = Num(n)
    BY <1>3, ImmDraw DEF LineOf, ImmVars
  <1>8. KeptBy(Encode(l), n)
    <2>1. "imm20" \in DOMAIN Encode(l) /\ Encode(l)["imm20"] = FieldValue("imm20", Num(n))
      BY <1>5, <1>7 DEF FilledFrom, ToSet
    <2> QED BY <1>7, <2>1, UpperKeeps
  <1>9. \A i \in DOMAIN l.args : l.args[i][1] = "i" => KeptBy(Encode(l), l.args[i][2])
    <2>1. DOMAIN args = 1..2 /\ args[1][1] = "x"
      BY <1>3, RegisterDraw DEF LineOf
    <2>2. Num(n)[2] = n
      BY DEF Num
    <2>3. \A i \in 1..2 : i = 1 \/ i = 2
      OBVIOUS
    <2> QED BY <1>5, <1>7, <1>8, <2>1, <2>2, <2>3
  <1>10. "aq" \notin DOMAIN Encode(l) /\ "rm" \notin DOMAIN Encode(l)
    BY <1>1, <1>5, UnorderedLists DEF FilledFrom
  <1> QED BY <1>6, <1>9, <1>10, NumberSaid

\* `li' has no field the fast encoder knows.
LEMMA LongImmediate ==
    ASSUME NEW r, r.form = "list", NEW op, op # "fence", NEW l, NEW args, LineOf(r, op, l, args),
           r.text = <<"RD", "IMM_40">>, SetOf(op).fields = <<"rd", "imm40">>
    PROVE  Exact(r, l)
  <1> SUFFICES ASSUME Encode(l) # Refused PROVE FALSE
    BY DEF Exact
  <1> DEFINE fields == <<"rd", "imm40">>
  <1>1. fields \in UnorderedFields
    BY DEF UnorderedFields
  <1>2. ~IsSplit(fields)
    BY DEF IsSplit, SType, BType
  <1>3. \A i \in 1..Len(r.text) : r.text[i] # "CSR"
    OBVIOUS
  <1>4. FilledFrom(l, fields, args)
    BY <1>1, <1>2, <1>3, ListFilled
  <1>5. Fits("imm40", args[2])
    BY <1>4 DEF FilledFrom
  <1> QED BY <1>5 DEF Fits, Registers

LEMMA NumberLine ==
    ASSUME NEW r, NumberRow(r), NEW op \in r.ops, NEW l, NEW args, LineOf(r, op, l, args)
    PROVE  Exact(r, l)
  <1> SUFFICES ASSUME Encode(l) # Refused PROVE Exact(r, l)
    BY DEF Exact
  <1>1. r.form = "list" /\ l.op = op /\ InSets(op, "")
    BY Zenon DEF LineOf, NumberRow, Encode
  <1>2. op # "fence" /\ NumberFields(op, SetOf(op).fields)
    BY <1>1, FieldsFound DEF NumberRow, Adders, Shifts64, Shifts32
  <1>3. CASE /\ r.text \in {<<"RD", "RS1", "IMM">>, <<"RD", "RS1", "IMM_12">>}
             /\ r.ops \subseteq Adders
    BY <1>1, <1>2, <1>3, ThirdNumber DEF NumberFields, ImmVars, WideEnough, IType
  <1>4. CASE r.text = <<"RD", "RS1", "UIMM_6">> /\ r.ops \subseteq Shifts64
    BY <1>1, <1>2, <1>4, ThirdNumber DEF NumberFields, ImmVars, WideEnough
  <1>5. CASE r.text = <<"RD", "RS1", "UIMM_5">> /\ r.ops \subseteq Shifts32
    BY <1>1, <1>2, <1>5, ThirdNumber DEF NumberFields, ImmVars, WideEnough
  <1>6. CASE r.text = <<"RD", "RS1", "IMM_4_104">> /\ r.ops \subseteq {"aes64ks1i"}
    BY <1>1, <1>2, <1>6, ThirdNumber DEF NumberFields, ImmVars, WideEnough
  <1>7. CASE r.text = <<"RD", "UIMM_20">> /\ r.ops \subseteq {"lui", "auipc"}
    BY <1>1, <1>2, <1>7, UpperLine DEF NumberFields
  <1>8. CASE r.text = <<"RD", "IMM_40">> /\ r.ops \subseteq {"li"}
    BY <1>1, <1>2, <1>8, LongImmediate DEF NumberFields
  <1> QED BY <1>3, <1>4, <1>5, <1>6, <1>7, <1>8 DEF NumberRow

\* The operands of a load or store.
OffsetLine(op, l, args) ==
    /\ l.op = op /\ l.form = "offset" /\ l.args = args /\ DOMAIN args = 1..3
    /\ InSets(op, "") /\ args[1][1] \in {"x", "f"} /\ args[3][1] = "x"
    /\ \E n : InRange("IMM_12", n) /\ args[2] = Num(n)

LEMMA OffsetDrawn ==
    ASSUME NEW r, LoadRow(r) \/ StoreRow(r), r.cat \in MemoryCategories, NEW op \in r.ops, NEW l,
           NEW args, LineOf(r, op, l, args), Encode(l) # Refused
    PROVE  OffsetLine(op, l, args)
  <1>1. l.op = op /\ l.form = "offset" /\ InSets(op, "")
    BY Zenon DEF LineOf, LoadRow, StoreRow, Encode
  <1>2. /\ Len(r.text) = 3 /\ r.text[1] \in {"RD", "FRD", "RS2", "FRS2"}
        /\ r.text[2] = "IMM_12" /\ r.text[3] = "T6"
    BY DEF LoadRow, StoreRow
  <1>3. \A i \in 1..3 : r.text[i] # "CSR"
    BY <1>2
  <1>4. l.args = args
    BY <1>2, <1>3, LineUnpatched
  <1>5. /\ DOMAIN args = 1..3 /\ args[1] \in Draw(r, op, r.text[1])
        /\ args[2] \in Draw(r, op, "IMM_12") /\ args[3] \in Draw(r, op, "T6")
    BY <1>2 DEF LineOf
  <1>6. args[1][1] \in {"x", "f"} /\ args[3][1] = "x"
    BY <1>2, <1>5, RegisterDraw
  <1>7. PICK n : InRange("IMM_12", n) /\ args[2] = Num(n)
    BY <1>5, ImmDraw DEF ImmVars
  <1> QED BY <1>1, <1>4, <1>5, <1>6, <1>7, Zenon DEF OffsetLine

LEMMA LoadLine ==
    ASSUME NEW r, LoadRow(r), r.cat \in MemoryCategories, NEW op \in r.ops, NEW l, NEW args,
           LineOf(r, op, l, args)
    PROVE  Exact(r, l)
  <1> SUFFICES ASSUME Encode(l) # Refused PROVE Exact(r, l)
    BY DEF Exact
  <1>0. OffsetLine(op, l, args)
    BY OffsetDrawn
  <1> DEFINE operands == <<args[1], args[3], args[2]>>
  <1>1. /\ l.op = op /\ l.form = "offset" /\ l.args = args /\ DOMAIN args = 1..3
        /\ InSets(op, "") /\ args[1][1] \in {"x", "f"} /\ args[3][1] = "x"
    BY <1>0 DEF OffsetLine
  <1>2. PICK n : InRange("IMM_12", n) /\ args[2] = Num(n)
    BY <1>0 DEF OffsetLine
  <1>3. op \in AccessOps \ Stores /\ op # "fence"
    BY DEF LoadRow, AccessOps
  <1>4. SetOf(op).fields = IType /\ IType \in UnorderedFields
    BY <1>1, <1>3, FieldsFound DEF NumberFields, UnorderedFields
  <1>5. FilledFrom(l, IType, operands)
    <2>1. ParsedOperands(l) = operands
      BY <1>1, <1>3 DEF ParsedOperands
    <2>2. Preprocessed(l, IType) = operands
      BY <1>1, <1>3, <1>4, <2>1, UnorderedLists DEF Preprocessed
    <2>3. ~IsSplit(IType)
      BY DEF IsSplit, IType, SType, BType
    <2>4. operands = Matched(IType, Preprocessed(l, IType))
      BY <2>2, <2>3 DEF Matched
    <2> QED BY <1>1, <1>4, <2>4, UnorderedLists, WordOf
  <1>6. /\ IType[1] = "rd" /\ IType[2] = "rs1" /\ IType[3] = "imm12" /\ DOMAIN IType = 1..3
        /\ operands[1] = args[1] /\ operands[2] = args[3] /\ operands[3] = args[2]
    BY DEF IType
  <1>7. RegistersSaid(r, l)
    <2>1. At(r, "rd") = {1} /\ At(r, "rs1") = {3}
      BY DEF At, Plays, LoadRow
    <2>2. \A i \in DOMAIN IType : IType[i] \in Registers => i = 1 \/ i = 2
      BY <1>6 DEF Registers
    <2> HIDE DEF operands
    <2>3. \A i \in DOMAIN IType : IType[i] \in Registers =>
             \E k : At(r, IType[i]) = {k} /\ operands[i] = l.args[k]
      BY <1>1, <1>6, <2>1, <2>2
    <2> QED BY <1>5, <2>3, RegistersSay
  <1>8. KeptBy(Encode(l), n)
    <2>1. "imm12" \in DOMAIN Encode(l) /\ Encode(l)["imm12"] = FieldValue("imm12", Num(n))
      BY <1>2, <1>5, <1>6 DEF FilledFrom, ToSet
    <2> QED BY <1>2, <2>1, WideKeeps DEF WideEnough
  <1>9. \A i \in DOMAIN l.args : l.args[i][1] = "i" => KeptBy(Encode(l), l.args[i][2])
    <2>1. Num(n)[2] = n
      BY DEF Num
    <2>2. \A i \in 1..3 : i = 1 \/ i = 2 \/ i = 3
      OBVIOUS
    <2>3. args[1][1] # "i" /\ args[3][1] # "i" /\ args[2][2] = n
      BY <1>1, <1>2, <2>1
    <2> QED BY <1>1, <1>8, <2>2, <2>3
  <1>10. "aq" \notin DOMAIN Encode(l) /\ "rm" \notin DOMAIN Encode(l)
    BY <1>4, <1>5, UnorderedLists DEF FilledFrom
  <1> QED BY <1>7, <1>9, <1>10, NumberSaid

\* A store hands its offset to both halves.
LEMMA StoreLine ==
    ASSUME NEW r, StoreRow(r), r.cat \in MemoryCategories, NEW op \in r.ops, NEW l, NEW args,
           LineOf(r, op, l, args)
    PROVE  Exact(r, l)
  <1> SUFFICES ASSUME Encode(l) # Refused PROVE Exact(r, l)
    BY DEF Exact
  <1>0. OffsetLine(op, l, args)
    BY OffsetDrawn
  <1> DEFINE operands == <<args[2], args[3], args[1], args[2]>>
  <1>1. /\ l.op = op /\ l.form = "offset" /\ l.args = args /\ DOMAIN args = 1..3
        /\ InSets(op, "") /\ args[1][1] \in {"x", "f"} /\ args[3][1] = "x"
    BY <1>0 DEF OffsetLine
  <1>2. PICK n : InRange("IMM_12", n) /\ args[2] = Num(n)
    BY <1>0 DEF OffsetLine
  <1>3. op \in Stores /\ op # "fence"
    BY DEF StoreRow, Stores
  <1>4. SetOf(op).fields = SType /\ SType \in UnorderedFields
    BY <1>1, <1>3, FieldsFound DEF NumberFields, UnorderedFields
  <1>5. FilledFrom(l, SType, operands)
    <2>1. ParsedOperands(l) = <<args[3], args[1], args[2]>>
      BY <1>1, <1>3 DEF ParsedOperands
    <2>2. Preprocessed(l, SType) = <<args[3], args[1], args[2]>>
      BY <1>1, <1>3, <1>4, <2>1, UnorderedLists DEF Preprocessed
    <2>3. IsSplit(SType)
      BY DEF IsSplit
    <2>4. operands = Matched(SType, Preprocessed(l, SType))
      BY <2>2, <2>3 DEF Matched
    <2> QED BY <1>1, <1>4, <2>4, UnorderedLists, WordOf
  <1>6. /\ SType[1] = "imm12hi" /\ SType[2] = "rs1" /\ SType[3] = "rs2" /\ SType[4] = "imm12lo"
        /\ DOMAIN SType = 1..4 /\ operands[1] = args[2] /\ operands[2] = args[3]
        /\ operands[3] = args[1] /\ operands[4] = args[2]
    BY DEF SType
  <1>7. RegistersSaid(r, l)
    <2>1. At(r, "rs1") = {3} /\ At(r, "rs2") = {1}
      BY DEF At, Plays, StoreRow
    <2>2. \A i \in DOMAIN SType : SType[i] \in Registers => i = 2 \/ i = 3
      BY <1>6 DEF Registers
    <2> HIDE DEF operands
    <2>3. \A i \in DOMAIN SType : SType[i] \in Registers =>
             \E k : At(r, SType[i]) = {k} /\ operands[i] = l.args[k]
      BY <1>1, <1>6, <2>1, <2>2
    <2> QED BY <1>5, <2>3, RegistersSay
  <1>8. KeptBy(Encode(l), n)
    <2>1. /\ {"imm12hi", "imm12lo"} \subseteq DOMAIN Encode(l)
          /\ Encode(l)["imm12hi"] = FieldValue("imm12hi", Num(n))
          /\ Encode(l)["imm12lo"] = FieldValue("imm12lo", Num(n))
      <3> HIDE DEF operands
      <3>1. 1 \in 1..4 /\ 4 \in 1..4
        OBVIOUS
      <3> QED BY <1>2, <1>5, <1>6, <3>1 DEF FilledFrom, ToSet
    <2>2. /\ FieldValue("imm12hi", Num(n)) = Imm12Hi(n)
          /\ FieldValue("imm12lo", Num(n)) = Imm12Lo(n)
      BY DEF FieldValue, Num, ImmediateValue
    <2>3. SValue(Imm12Hi(n), Imm12Lo(n)) = n
      BY <1>2, SMT DEF SValue, Imm12Hi, Imm12Lo, Signed, InRange, Between
    <2> QED BY <2>1, <2>2, <2>3, Zenon DEF KeptBy
  <1>9. \A i \in DOMAIN l.args : l.args[i][1] = "i" => KeptBy(Encode(l), l.args[i][2])
    <2>1. Num(n)[2] = n
      BY DEF Num
    <2>2. \A i \in 1..3 : i = 1 \/ i = 2 \/ i = 3
      OBVIOUS
    <2>3. args[1][1] # "i" /\ args[3][1] # "i" /\ args[2][2] = n
      BY <1>1, <1>2, <2>1
    <2> QED BY <1>1, <1>8, <2>2, <2>3
  <1>10. "aq" \notin DOMAIN Encode(l) /\ "rm" \notin DOMAIN Encode(l)
    BY <1>4, <1>5, UnorderedLists DEF FilledFrom
  <1> QED BY <1>7, <1>9, <1>10, NumberSaid

\* The field lists with a rounding mode: registers, then `rm'.
RoundedFields == {RM2, RM3, RM4}

LEMMA RoundedLists ==
    ASSUME NEW fields \in RoundedFields
    PROVE  /\ DOMAIN fields = 1..Len(fields) /\ Len(fields) \in 3..5 /\ IsInjective(fields)
           /\ "aq" \notin ToSet(fields) /\ "rm" \in ToSet(fields) /\ fields[Len(fields)] = "rm"
           /\ \A i \in 1..(Len(fields) - 1) : fields[i] \in Registers
           /\ ~IsSplit(fields)
  <1>1. DOMAIN fields = 1..Len(fields) /\ Len(fields) \in 3..5
    BY DEF RoundedFields, RM2, RM3, RM4
  <1>2. IsInjective(fields)
    BY DEF RoundedFields, RM2, RM3, RM4, IsInjective
  <1>3. "aq" \notin ToSet(fields)
    BY DEF RoundedFields, RM2, RM3, RM4, ToSet
  <1>4. /\ fields[Len(fields)] = "rm"
        /\ \A i \in 1..(Len(fields) - 1) : fields[i] \in Registers
    <2>1. CASE fields = RM2
      <3>1. Len(fields) = 3 /\ fields[1] = "rd" /\ fields[2] = "rs1" /\ fields[3] = "rm"
        BY <2>1 DEF RM2
      <3>2. \A i \in 1..(3 - 1) : i = 1 \/ i = 2
        OBVIOUS
      <3> QED BY <3>1, <3>2 DEF Registers
    <2>2. CASE fields = RM3
      <3>1. /\ Len(fields) = 4 /\ fields[1] = "rd" /\ fields[2] = "rs1" /\ fields[3] = "rs2"
            /\ fields[4] = "rm"
        BY <2>2 DEF RM3
      <3>2. \A i \in 1..(4 - 1) : i = 1 \/ i = 2 \/ i = 3
        OBVIOUS
      <3> QED BY <3>1, <3>2 DEF Registers
    <2>3. CASE fields = RM4
      <3>1. /\ Len(fields) = 5 /\ fields[1] = "rd" /\ fields[2] = "rs1" /\ fields[3] = "rs2"
            /\ fields[4] = "rs3" /\ fields[5] = "rm"
        BY <2>3 DEF RM4
      <3>2. \A i \in 1..(5 - 1) : i = 1 \/ i = 2 \/ i = 3 \/ i = 4
        OBVIOUS
      <3> QED BY <3>1, <3>2 DEF Registers
    <2> QED BY <2>1, <2>2, <2>3 DEF RoundedFields
  <1>5. "rm" \in ToSet(fields)
    BY <1>1, <1>4 DEF ToSet
  <1>6. ~IsSplit(fields)
    BY DEF RoundedFields, RM2, RM3, RM4, IsSplit, SType, BType
  <1> QED BY <1>1, <1>2, <1>3, <1>4, <1>5, <1>6

\* The operands of a line that spells "dyn", or leaves the mode to a conversion.
Spells(fields, args) == Len(args) = Len(fields) /\ args[Len(fields)] = <<"w", "dyn">>
LeavesOut(op, fields, args) == op \in RneConversions /\ Len(args) = Len(fields) - 1

Mode(op, fields, args, mode) ==
    \/ Spells(fields, args) /\ mode = 7
    \/ LeavesOut(op, fields, args) /\ mode = 0
RoundedTo(mode, fields, args, operands) ==
    /\ Len(operands) = Len(fields) /\ operands[Len(fields)] = Num(mode)
    /\ \A i \in 1..(Len(fields) - 1) : operands[i] = args[i]

LEMMA RoundedOperands ==
    ASSUME NEW op, NEW fields \in RoundedFields, NEW U, NEW args \in Seq(U), NEW mode,
           Mode(op, fields, args, mode), NEW operands,
           operands = RoundingOperands(op, fields, args)
    PROVE  RoundedTo(mode, fields, args, operands)
  <1> DEFINE n == Len(fields)
             I == {i \in DOMAIN fields : fields[i] # "rm"}
             J == {i \in 1..n : fields[i] = "rm"}
             named == /\ Len(args) > Cardinality(I) /\ args[Len(args)][1] = "w"
                      /\ args[Len(args)][2] \in DOMAIN ROUNDING_MODES
             given == IF named
                      THEN Append(Front(args), Num(ROUNDING_MODES[args[Len(args)][2]])) ELSE args
             default == Num(IF op \in RneConversions THEN 0 ELSE 7)
  <1>1. n \in 3..5 /\ DOMAIN fields = 1..n
    BY RoundedLists
  <1>2. I = 1..(n - 1) /\ J = {n}
    <2>1. fields[n] = "rm" /\ (\A i \in 1..(n - 1) : fields[i] \in Registers)
      BY RoundedLists
    <2>2. "rm" \notin Registers
      BY DEF Registers
    <2> HIDE DEF n
    <2>3. \A i \in 1..n : i = n \/ i \in 1..(n - 1)
      BY <1>1
    <2>4. /\ \A i : i \in I <=> i \in 1..(n - 1)
          /\ \A i : i \in J <=> i = n
      BY <1>1, <2>1, <2>2, <2>3
    <2> HIDE DEF I, J
    <2> QED BY <2>4
  <1>3. Cardinality(I) = n - 1
    <2> HIDE DEF n, I
    <2>1. Cardinality(1..(n - 1)) = IF 1 > n - 1 THEN 0 ELSE (n - 1) - 1 + 1
      BY <1>1, FS_Interval
    <2> QED BY <1>1, <1>2, <2>1
  <1>4. operands = IF Len(args) < n
                   THEN InsertAt(given, SelectInSeq(fields, LAMBDA f : f = "rm"), default)
                   ELSE given
    BY Zenon DEF RoundingOperands
  <1>5. CASE Spells(fields, args) /\ mode = 7
    <2>1. Len(args) = n /\ args[n] = <<"w", "dyn">>
      BY <1>5 DEF Spells
    <2>2. "dyn" \in DOMAIN ROUNDING_MODES /\ ROUNDING_MODES["dyn"] = 7
      BY DEF ROUNDING_MODES
    <2>3. args[n][1] = "w" /\ args[n][2] = "dyn"
      BY <2>1
    <2> HIDE DEF n, I
    <2>4. named
      BY <1>1, <1>3, <2>1, <2>2, <2>3
    <2>5. operands = Append(Front(args), Num(7))
      <3> HIDE DEF named
      <3>1. given = Append(Front(args), Num(7))
        BY <2>1, <2>2, <2>3, <2>4
      <3> HIDE DEF given
      <3> QED BY <1>1, <1>4, <2>1, <3>1
    <2> DEFINE V == U \cup {Num(7)}
    <2>6. /\ Front(args) \in Seq(V) /\ Len(Front(args)) = n - 1
          /\ \A i \in 1..(n - 1) : Front(args)[i] = args[i]
      <3>1. \A i \in 1..(n - 1) : args[i] \in V
        BY <1>1, <2>1
      <3>2. Front(args) = SubSeq(args, 1, n - 1)
        BY <2>1 DEF Front
      <3> HIDE DEF V
      <3> QED BY <1>1, <3>1, <3>2, SubSeqProperties
    <2>7. Num(7) \in V
      OBVIOUS
    <2> HIDE DEF V
    <2>8. /\ Len(operands) = n /\ operands[n] = Num(7)
          /\ \A i \in 1..(n - 1) : operands[i] = args[i]
      BY <1>1, <2>5, <2>6, <2>7, AppendProperties
    <2> QED BY <1>5, <2>8 DEF n, RoundedTo
  <1>6. CASE LeavesOut(op, fields, args) /\ mode = 0
    <2>1. Len(args) = n - 1 /\ op \in RneConversions
      BY <1>6 DEF LeavesOut
    <2>2. SelectInSeq(fields, LAMBDA f : f = "rm") = n
      <3>1. SelectInSeq(fields, LAMBDA f : f = "rm") = IF J # {} THEN Min(J) ELSE 0
        BY DEF SelectInSeq
      <3> HIDE DEF n, J
      <3>2. Min({n}) = n
        BY <1>1 DEF Min
      <3> QED BY <1>2, <3>1, <3>2
    <2> HIDE DEF n, I, J
    <2>3. ~named
      BY <1>1, <1>3, <2>1
    <2>4. operands = InsertAt(args, n, Num(0))
      <3> HIDE DEF named
      <3>1. given = args /\ default = Num(0)
        BY <2>1, <2>3
      <3> HIDE DEF given, default
      <3> QED BY <1>1, <1>4, <2>1, <2>2, <3>1
    <2> DEFINE V == U \cup {Num(0)}
    <2>5. args \in Seq(V) /\ <<Num(0)>> \in Seq(V)
      OBVIOUS
    <2>6. \A i \in 1..(n - 1) : args[i] \in V
      BY <1>1, <2>1
    <2> HIDE DEF V
    <2>7. /\ SubSeq(args, 1, n - 1) \in Seq(V) /\ Len(SubSeq(args, 1, n - 1)) = n - 1
          /\ \A i \in 1..(n - 1) : SubSeq(args, 1, n - 1)[i] = args[i]
      BY <1>1, <2>6, SubSeqProperties
    <2>8. SubSeq(args, n, n - 1) \in Seq(V) /\ Len(SubSeq(args, n, n - 1)) = 0
      <3>1. \A i \in n..(n - 1) : args[i] \in V
        BY <1>1
      <3> QED BY <1>1, <3>1, SubSeqProperties
    <2> DEFINE head == SubSeq(args, 1, n - 1)
               last == SubSeq(args, n, n - 1)
    <2>9. operands = head \o <<Num(0)>> \o last
      BY <2>1, <2>4 DEF InsertAt
    <2>10. Len(<<Num(0)>>) = 1 /\ <<Num(0)>>[1] = Num(0)
      OBVIOUS
    <2> HIDE DEF head, last
    <2>11. /\ head \o <<Num(0)>> \in Seq(V) /\ Len(head \o <<Num(0)>>) = n
           /\ (head \o <<Num(0)>>)[n] = Num(0)
           /\ \A i \in 1..(n - 1) : (head \o <<Num(0)>>)[i] = args[i]
      BY <1>1, <2>5, <2>7, <2>10, ConcatProperties DEF head
    <2>12. /\ Len(operands) = n /\ operands[n] = Num(0)
           /\ \A i \in 1..(n - 1) : operands[i] = args[i]
      <3> DEFINE most == head \o <<Num(0)>>
      <3>1. last \in Seq(V) /\ Len(last) = 0
        BY <2>8 DEF last
      <3>2. operands = most \o last /\ most \in Seq(V) /\ Len(most) = n
        BY <2>9, <2>11
      <3> HIDE DEF most
      <3>3. Len(operands) = n /\ \A i \in 1..n : operands[i] = most[i]
        BY <1>1, <3>1, <3>2, ConcatProperties
      <3>4. n \in 1..n /\ \A i \in 1..(n - 1) : i \in 1..n
        BY <1>1
      <3> QED BY <2>11, <3>3, <3>4 DEF most
    <2> QED BY <1>6, <2>12 DEF n, RoundedTo
  <1> QED BY <1>5, <1>6 DEF Mode

\* What is left to show of a word with a rounding mode.
LEMMA RoundingSaid ==
    ASSUME NEW r, NEW l, RegistersSaid(r, l), "aq" \notin DOMAIN Encode(l),
           Encode(l)["rm"] = (IF <<"w", "dyn">> \in ToSet(l.args) THEN 7 ELSE 0),
           \A i \in DOMAIN l.args : l.args[i][1] # "i"
    PROVE  Exact(r, l)
  <1>1. WrittenNumbers(l) = {}
    BY DEF WrittenNumbers
  <1> QED BY <1>1, Zenon DEF Exact, Faithful, RegistersSaid

\* A row whose operands are the registers of the word, and maybe the mode.
RoundedBy(r, op, fields, args) ==
    /\ r.form = "list" /\ op # "fence" /\ \A i \in 1..Len(r.text) : r.text[i] # "CSR"
    /\ fields \in RoundedFields /\ SetOf(op).fields = fields
    /\ \A i \in 1..(Len(fields) - 1) :
          At(r, fields[i]) = {i} /\ i \in DOMAIN args /\ args[i][1] \in {"x", "f"}
    /\ \E mode : Mode(op, fields, args, mode)

LEMMA RoundedLine ==
    ASSUME NEW r, NEW op, NEW l, NEW args, LineOf(r, op, l, args), NEW fields,
           RoundedBy(r, op, fields, args)
    PROVE  Exact(r, l)
  <1> SUFFICES ASSUME Encode(l) # Refused PROVE Exact(r, l)
    BY DEF Exact
  <1>0. /\ r.form = "list" /\ op # "fence" /\ (\A i \in 1..Len(r.text) : r.text[i] # "CSR")
        /\ fields \in RoundedFields /\ SetOf(op).fields = fields
        /\ \A i \in 1..(Len(fields) - 1) :
              At(r, fields[i]) = {i} /\ i \in DOMAIN args /\ args[i][1] \in {"x", "f"}
    BY Zenon DEF RoundedBy
  <1> DEFINE operands == RoundingOperands(op, fields, args)
             n == Len(fields)
  <1>1. l.op = op /\ l.form = "list" /\ l.args = args
    <2>1. l.args = args
      BY <1>0, LineUnpatched
    <2> QED BY <1>0, <2>1 DEF LineOf
  <1>2. PICK U : args \in Seq(U)
    BY DEF LineOf
  <1>3. PICK mode : Mode(op, fields, args, mode)
    BY DEF RoundedBy
  <1>4. /\ Len(operands) = n /\ operands[n] = Num(mode)
        /\ \A i \in 1..(n - 1) : operands[i] = args[i]
    <2>1. operands = RoundingOperands(op, fields, args)
      OBVIOUS
    <2> HIDE DEF operands
    <2>2. RoundedTo(mode, fields, args, operands)
      BY <1>0, <1>2, <1>3, <2>1, RoundedOperands
    <2> QED BY <2>2, Zenon DEF RoundedTo
  <1>5. FilledFrom(l, fields, operands)
    <2>1. Preprocessed(l, fields) = operands
      BY <1>0, <1>1, RoundedLists DEF Preprocessed, ParsedOperands
    <2>2. operands = Matched(fields, Preprocessed(l, fields))
      BY <1>0, <2>1, RoundedLists DEF Matched
    <2>3. Len(fields) \in Nat
      BY <1>0, RoundedLists
    <2>4. fields = SetOf(l.op).fields
      BY <1>0, <1>1
    <2> HIDE DEF operands
    <2> QED BY <1>0, <2>2, <2>3, <2>4, RoundedLists, WordOf
  <1> HIDE DEF operands
  <1>6. /\ n \in 3..5 /\ DOMAIN fields = 1..n /\ fields[n] = "rm" /\ "rm" \notin Registers
        /\ \A i \in 1..n : i = n \/ i \in 1..(n - 1)
    <2>1. n \in 3..5 /\ DOMAIN fields = 1..n /\ fields[n] = "rm"
      BY <1>0, RoundedLists
    <2>2. "rm" \notin Registers
      BY DEF Registers
    <2> HIDE DEF n
    <2> QED BY <2>1, <2>2
  <1>7. RegistersSaid(r, l)
    <2>1. \A i \in DOMAIN fields : fields[i] \in Registers =>
             \E k : At(r, fields[i]) = {k} /\ operands[i] = l.args[k]
      BY <1>0, <1>1, <1>4, <1>6
    <2> QED BY <1>5, <2>1, RegistersSay
  <1>8. Encode(l)["rm"] = mode
    <2>1. n \in DOMAIN fields
      <3> HIDE DEF n
      <3> QED BY <1>6
    <2>2. Encode(l)["rm"] = FieldValue("rm", Num(mode))
      BY <1>4, <1>5, <1>6, <2>1 DEF FilledFrom
    <2>3. FieldValue("rm", Num(mode)) = LowBits(mode, 8)
      BY DEF FieldValue, Num, ImmediateValue, FieldSize
    <2> QED BY <1>3, <2>2, <2>3 DEF LowBits, Mode
  <1>9. mode = IF <<"w", "dyn">> \in ToSet(l.args) THEN 7 ELSE 0
    <2>1. \A c : <<"w", c>>[1] = "w"
      OBVIOUS
    <2>2. CASE Spells(fields, args) /\ mode = 7
      <3>1. DOMAIN args = 1..n
        BY <1>2, <2>2, LenProperties DEF Spells
      <3>2. n \in DOMAIN args
        <4> HIDE DEF n
        <4> QED BY <1>6, <3>1
      <3> QED BY <1>1, <2>2, <3>2 DEF Spells, ToSet
    <2>3. CASE LeavesOut(op, fields, args) /\ mode = 0
      <3>1. DOMAIN args = 1..(n - 1)
        BY <1>2, <2>3, LenProperties DEF LeavesOut
      <3>2. \A i \in DOMAIN args : args[i] # <<"w", "dyn">>
        BY <1>0, <2>1, <3>1
      <3> QED BY <1>1, <2>3, <3>2 DEF ToSet
    <2> QED BY <1>3, <2>2, <2>3 DEF Mode
  <1>10. \A i \in DOMAIN l.args : l.args[i][1] # "i"
    <2>1. CASE Spells(fields, args)
      <3>1. DOMAIN args = 1..n
        BY <1>2, <2>1, LenProperties DEF Spells
      <3>2. args[n][1] = "w"
        BY <2>1 DEF Spells
      <3>3. \A i \in 1..n : args[i][1] # "i"
        BY <1>0, <1>6, <3>2
      <3> QED BY <1>1, <3>1, <3>3
    <2>2. CASE LeavesOut(op, fields, args)
      <3>1. DOMAIN args = 1..(n - 1)
        BY <1>2, <2>2, LenProperties DEF LeavesOut
      <3> QED BY <1>0, <1>1, <3>1
    <2> QED BY <1>3, <2>1, <2>2 DEF Mode
  <1>11. "aq" \notin DOMAIN Encode(l)
    BY <1>0, <1>5, RoundedLists DEF FilledFrom
  <1> QED BY <1>7, <1>8, <1>9, <1>10, <1>11, RoundingSaid

LEMMA DynLine ==
    ASSUME NEW r, DynRow(r), NEW op \in r.ops, NEW l, NEW args, LineOf(r, op, l, args)
    PROVE  Exact(r, l)
  <1> SUFFICES ASSUME Encode(l) # Refused PROVE Exact(r, l)
    BY DEF Exact
  <1> DEFINE fields == SetOf(op).fields
  <1>1. l.op = op /\ r.form = "list" /\ InSets(op, "")
    BY Zenon DEF LineOf, DynRow, Encode
  <1>2. op # "fence"
    BY DEF DynRow, Round2, Round3, Round4
  <1>3. OtherFields(op, fields)
    BY <1>1, FieldsFound
  <1>4. /\ fields \in RoundedFields /\ Len(r.text) = Len(fields) /\ r.text[Len(fields)] = "DYN"
        /\ \A i \in 1..(Len(fields) - 1) :
              /\ At(r, fields[i]) = {i}
              /\ r.text[i] \in {"RD", "RS1", "FRD", "FRS1", "FRS2", "FRS3"}
    <2>1. CASE r.text \in DynTexts(3) /\ r.ops \subseteq Round2
      <3>1. fields = RM2
        BY <1>3, <2>1 DEF OtherFields
      <3>2. r.text \in {<<"RD", "FRS1", "DYN">>, <<"FRD", "RS1", "DYN">>, <<"FRD", "FRS1", "DYN">>}
        BY <2>1 DEF DynTexts
      <3>3. /\ Len(RM2) = 3 /\ RM2[1] = "rd" /\ RM2[2] = "rs1" /\ Len(r.text) = 3
            /\ r.text[3] = "DYN" /\ r.text[1] \in {"RD", "FRD"} /\ r.text[2] \in {"RS1", "FRS1"}
            /\ DOMAIN r.text = 1..3
        BY <3>2 DEF RM2
      <3>4. At(r, "rd") = {1} /\ At(r, "rs1") = {2}
        BY <3>3 DEF At, Plays
      <3>5. \A i \in 1..(3 - 1) : i = 1 \/ i = 2
        OBVIOUS
      <3> HIDE DEF fields
      <3> QED BY <3>1, <3>3, <3>4, <3>5 DEF RoundedFields
    <2>2. CASE r.text \in DynTexts(4) /\ r.ops \subseteq Round3
      <3>1. fields = RM3
        BY <1>3, <2>2 DEF OtherFields
      <3>2. r.text = <<"FRD", "FRS1", "FRS2", "DYN">>
        BY <2>2 DEF DynTexts
      <3>3. /\ Len(RM3) = 4 /\ RM3[1] = "rd" /\ RM3[2] = "rs1" /\ RM3[3] = "rs2"
            /\ Len(r.text) = 4 /\ DOMAIN r.text = 1..4
            /\ r.text[1] = "FRD" /\ r.text[2] = "FRS1" /\ r.text[3] = "FRS2" /\ r.text[4] = "DYN"
        BY <3>2 DEF RM3
      <3>4. At(r, "rd") = {1} /\ At(r, "rs1") = {2} /\ At(r, "rs2") = {3}
        BY <3>3 DEF At, Plays
      <3>5. \A i \in 1..(4 - 1) : i = 1 \/ i = 2 \/ i = 3
        OBVIOUS
      <3> HIDE DEF fields
      <3> QED BY <3>1, <3>3, <3>4, <3>5 DEF RoundedFields
    <2>3. CASE r.text \in DynTexts(5) /\ r.ops \subseteq Round4
      <3>1. fields = RM4
        BY <1>3, <2>3 DEF OtherFields
      <3>2. r.text = <<"FRD", "FRS1", "FRS2", "FRS3", "DYN">>
        BY <2>3 DEF DynTexts
      <3>3. /\ Len(RM4) = 5 /\ RM4[1] = "rd" /\ RM4[2] = "rs1" /\ RM4[3] = "rs2"
            /\ RM4[4] = "rs3" /\ Len(r.text) = 5 /\ DOMAIN r.text = 1..5
            /\ r.text[1] = "FRD" /\ r.text[2] = "FRS1" /\ r.text[3] = "FRS2"
            /\ r.text[4] = "FRS3" /\ r.text[5] = "DYN"
        BY <3>2 DEF RM4
      <3>4. At(r, "rd") = {1} /\ At(r, "rs1") = {2} /\ At(r, "rs2") = {3} /\ At(r, "rs3") = {4}
        BY <3>3 DEF At, Plays
      <3>5. \A i \in 1..(5 - 1) : i = 1 \/ i = 2 \/ i = 3 \/ i = 4
        OBVIOUS
      <3> HIDE DEF fields
      <3> QED BY <3>1, <3>3, <3>4, <3>5 DEF RoundedFields
    <2> QED BY <2>1, <2>2, <2>3 DEF DynRow
  <1> HIDE DEF fields
  <1>5. /\ Len(fields) \in 3..5 /\ Len(fields) \in 1..Len(fields)
        /\ \A i \in 1..Len(fields) : i = Len(fields) \/ i \in 1..(Len(fields) - 1)
        /\ \A i \in 1..(Len(fields) - 1) : i \in 1..Len(fields)
    <2> DEFINE n == Len(fields)
    <2>1. n \in 3..5
      BY <1>4, RoundedLists
    <2> HIDE DEF n
    <2>2. /\ n \in 1..n /\ (\A i \in 1..n : i = n \/ i \in 1..(n - 1))
          /\ \A i \in 1..(n - 1) : i \in 1..n
      BY <2>1
    <2> QED BY <2>1, <2>2 DEF n
  <1>6. \A i \in 1..Len(r.text) : r.text[i] # "CSR"
    BY <1>4, <1>5
  <1>7. \A i \in 1..(Len(fields) - 1) : i \in DOMAIN args /\ args[i][1] \in {"x", "f"}
    <2> SUFFICES ASSUME NEW i \in 1..(Len(fields) - 1)
                 PROVE  i \in DOMAIN args /\ args[i][1] \in {"x", "f"}
      OBVIOUS
    <2>1. i \in 1..Len(r.text) /\ r.text[i] \in {"RD", "RS1", "FRD", "FRS1", "FRS2", "FRS3"}
      BY <1>4, <1>5
    <2>2. i \in DOMAIN args /\ args[i] \in Draw(r, op, r.text[i])
      BY <2>1 DEF LineOf
    <2> QED BY <2>1, <2>2, RegisterDraw
  <1>8. Mode(op, fields, args, 7)
    <2>1. Len(fields) \in 1..Len(r.text) /\ Len(args) = Len(fields)
      <3>1. Len(args) = Len(r.text)
        BY Zenon DEF LineOf
      <3> QED BY <1>4, <1>5, <3>1, Zenon
    <2>2. args[Len(fields)] \in Draw(r, op, "DYN")
      BY <1>4, <2>1 DEF LineOf
    <2>3. args[Len(fields)] = <<"w", "dyn">>
      BY <2>2, RegisterDraw
    <2> QED BY <2>1, <2>3, Zenon DEF Spells, Mode
  <1>9. SetOf(op).fields = fields /\ fields \in RoundedFields
    BY <1>4 DEF fields
  <1>10. \A i \in 1..(Len(fields) - 1) : At(r, fields[i]) = {i}
    BY <1>4
  <1>11. RoundedBy(r, op, fields, args)
    BY <1>1, <1>2, <1>6, <1>7, <1>8, <1>9, <1>10, Zenon DEF RoundedBy
  <1> QED BY <1>11, RoundedLine

LEMMA SpelledLine ==
    ASSUME NEW r, SpelledRow(r), NEW op \in r.ops, NEW l, NEW args, LineOf(r, op, l, args)
    PROVE  Exact(r, l)
  <1> SUFFICES ASSUME Encode(l) # Refused PROVE Exact(r, l)
    BY DEF Exact
  <1>1. l.op = op /\ r.form = "list" /\ InSets(op, "")
    BY Zenon DEF LineOf, SpelledRow, Encode
  <1>2. op \in Spelled2
    BY DEF SpelledRow
  <1>3. op # "fence" /\ op \in RneConversions
    BY <1>2 DEF Spelled2, RneConversions
  <1>4. SetOf(op).fields = RM2 /\ RM2 \in RoundedFields
    BY <1>1, <1>2, FieldsFound DEF OtherFields, RoundedFields
  <1>5. /\ Len(RM2) = 3 /\ RM2[1] = "rd" /\ RM2[2] = "rs1" /\ Len(r.text) = 2
        /\ DOMAIN r.text = 1..2 /\ r.text[1] = "FRD" /\ r.text[2] \in {"RS1", "FRS1"}
    BY DEF RM2, SpelledRow
  <1>6. At(r, "rd") = {1} /\ At(r, "rs1") = {2}
    BY <1>5 DEF At, Plays
  <1>7. \A i \in 1..2 : i = 1 \/ i = 2
    OBVIOUS
  <1>8. \A i \in 1..(Len(RM2) - 1) : At(r, RM2[i]) = {i}
    BY <1>5, <1>6, <1>7
  <1>9. args[1][1] = "f" /\ args[2][1] \in {"x", "f"} /\ DOMAIN args = 1..2 /\ Len(args) = 2
    BY <1>5, RegisterDraw DEF LineOf
  <1>10. \A i \in 1..(Len(RM2) - 1) : i \in DOMAIN args /\ args[i][1] \in {"x", "f"}
    BY <1>5, <1>7, <1>9
  <1>11. \A i \in 1..Len(r.text) : r.text[i] # "CSR"
    BY <1>5, <1>7
  <1>12. Mode(op, RM2, args, 0)
    BY <1>3, <1>5, <1>9 DEF LeavesOut, Mode
  <1>13. RoundedBy(r, op, RM2, args)
    BY <1>1, <1>3, <1>4, <1>8, <1>10, <1>11, <1>12, Zenon DEF RoundedBy
  <1> QED BY <1>13, RoundedLine

\* The field lists of the atomics: registers, then `aq' and `rl'.
OrderedFields == {Tight, Ordered}

LEMMA OrderedLists ==
    ASSUME NEW fields \in OrderedFields
    PROVE  \E k \in {2, 3} :
             /\ DOMAIN fields = 1..(k + 2) /\ Len(fields) = k + 2 /\ IsInjective(fields)
             /\ fields[k + 1] = "aq" /\ fields[k + 2] = "rl"
             /\ \A i \in 1..k : fields[i] \in Registers
             /\ ~IsSplit(fields) /\ "rm" \notin ToSet(fields)
  <1>1. IsInjective(fields) /\ ~IsSplit(fields)
    BY DEF OrderedFields, Tight, Ordered, IsInjective, IsSplit, SType, BType
  <1>2. "rm" \notin ToSet(fields)
    BY DEF OrderedFields, Tight, Ordered, ToSet
  <1>3. CASE fields = Tight
    <2>1. /\ DOMAIN fields = 1..(2 + 2) /\ Len(fields) = 2 + 2 /\ fields[1] = "rd"
          /\ fields[2] = "rs1" /\ fields[2 + 1] = "aq" /\ fields[2 + 2] = "rl"
      BY <1>3 DEF Tight
    <2>2. \A i \in 1..2 : i = 1 \/ i = 2
      OBVIOUS
    <2>3. \A i \in 1..2 : fields[i] \in Registers
      BY <2>1, <2>2 DEF Registers
    <2> QED BY <1>1, <1>2, <2>1, <2>3, Zenon
  <1>4. CASE fields = Ordered
    <2>1. /\ DOMAIN fields = 1..(3 + 2) /\ Len(fields) = 3 + 2 /\ fields[1] = "rd"
          /\ fields[2] = "rs1" /\ fields[3] = "rs2" /\ fields[3 + 1] = "aq" /\ fields[3 + 2] = "rl"
      BY <1>4 DEF Ordered
    <2>2. \A i \in 1..3 : i = 1 \/ i = 2 \/ i = 3
      OBVIOUS
    <2>3. \A i \in 1..3 : fields[i] \in Registers
      BY <2>1, <2>2 DEF Registers
    <2> QED BY <1>1, <1>2, <2>1, <2>3, Zenon
  <1> QED BY <1>3, <1>4 DEF OrderedFields

\* The suffix cut from the mnemonic.
Acquires(note) == Num(IF note \in {"aq", "aqrl"} THEN 1 ELSE 0)
Releases(note) == Num(IF note \in {"rl", "aqrl"} THEN 1 ELSE 0)
OrderedTo(k, note, given, operands) ==
    /\ Len(operands) = k + 2
    /\ operands[k + 1] = Acquires(note) /\ operands[k + 2] = Releases(note)
    /\ \A i \in 1..k : operands[i] = given[i]

LEMMA AmoFilled ==
    ASSUME NEW fields, NEW k \in {2, 3}, DOMAIN fields = 1..(k + 2),
           fields[k + 1] = "aq", fields[k + 2] = "rl", \A i \in 1..k : fields[i] \in Registers,
           NEW given, Len(given) = k, NEW note
    PROVE  OrderedTo(k, note, given, AmoOperands(fields, given, note))
  <1> DEFINE registers(i) == Cardinality({j \in 1..i : fields[j] \notin {"aq", "rl"}})
             value(i) == CASE fields[i] = "aq" -> Num(IF note \in {"aq", "aqrl"} THEN 1 ELSE 0)
                           [] fields[i] = "rl" -> Num(IF note \in {"rl", "aqrl"} THEN 1 ELSE 0)
                           [] OTHER -> IF registers(i) <= Len(given) THEN given[registers(i)]
                                       ELSE Reg0
             operands == [i \in DOMAIN fields |-> value(i)]
  <1>1. AmoOperands(fields, given, note) = operands
    BY Zenon DEF AmoOperands
  <1>2. Len(operands) = k + 2
    <2> DEFINE S == {value(i) : i \in 1..(k + 2)}
    <2>1. operands \in [1..(k + 2) -> S]
      <3> HIDE DEF value
      <3> QED OBVIOUS
    <2> HIDE DEF operands, S
    <2>2. k + 2 \in Nat
      OBVIOUS
    <2> QED BY <2>1, <2>2, FunctionIsSequence
  <1>3. ASSUME NEW i \in 1..k PROVE operands[i] = given[i]
    <2>1. fields[i] \in Registers /\ "aq" \notin Registers /\ "rl" \notin Registers
      BY DEF Registers
    <2>2. registers(i) = i
      <3>1. {j \in 1..i : fields[j] \notin {"aq", "rl"}} = 1..i
        <4>1. \A j \in 1..i : j \in 1..k
          OBVIOUS
        <4> QED BY <2>1, <4>1
      <3>2. i \in Int /\ 1 \in Int /\ ~(1 > i) /\ i - 1 + 1 = i
        OBVIOUS
      <3> QED BY <3>1, <3>2, FS_Interval
    <2> HIDE DEF registers
    <2>3. i <= Len(given) /\ i \in 1..(k + 2)
      OBVIOUS
    <2>4. value(i) = given[i]
      BY <2>1, <2>2, <2>3
    <2> HIDE DEF value
    <2> QED BY <2>3, <2>4
  <1>4. operands[k + 1] = Acquires(note)
    <2>1. value(k + 1) = Acquires(note)
      BY DEF Acquires
    <2>2. k + 1 \in 1..(k + 2)
      OBVIOUS
    <2> HIDE DEF value
    <2> QED BY <2>1, <2>2
  <1>5. operands[k + 2] = Releases(note)
    <2>1. value(k + 2) = Releases(note)
      BY DEF Releases
    <2>2. k + 2 \in 1..(k + 2)
      OBVIOUS
    <2> HIDE DEF value
    <2> QED BY <2>1, <2>2
  <1> HIDE DEF operands
  <1> QED BY <1>1, <1>2, <1>3, <1>4, <1>5, Zenon DEF OrderedTo

\* What is left to show of a word with an ordering.
LEMMA OrderingSaid ==
    ASSUME NEW r, NEW l, RegistersSaid(r, l), "rm" \notin DOMAIN Encode(l),
           (Encode(l)["aq"] = 1) <=> (l.note \in {"aq", "aqrl"}),
           (Encode(l)["rl"] = 1) <=> (l.note \in {"rl", "aqrl"}),
           \A i \in DOMAIN l.args : l.args[i][1] # "i"
    PROVE  Exact(r, l)
  <1>1. WrittenNumbers(l) = {}
    BY DEF WrittenNumbers
  <1> QED BY <1>1, Zenon DEF Exact, Faithful, RegistersSaid

\* The operands an atomic hands to its register fields, and where they are written.
AtomicBy(r, l, k, fields) ==
    /\ fields \in OrderedFields /\ Len(fields) = k + 2 /\ SetOf(l.op).fields = fields
    /\ l.op # "fence" /\ Len(ParsedOperands(l)) = k
    /\ \A i \in 1..k :
          \E j : At(r, fields[i]) = {j} /\ ParsedOperands(l)[i] = l.args[j]
    /\ \A i \in DOMAIN l.args : l.args[i][1] # "i"

LEMMA AtomicSays ==
    ASSUME NEW r, NEW l, NEW k \in Nat, NEW fields, AtomicBy(r, l, k, fields)
    PROVE  Exact(r, l)
  <1> SUFFICES ASSUME Encode(l) # Refused PROVE Exact(r, l)
    BY DEF Exact
  <1> DEFINE given == ParsedOperands(l)
             operands == AmoOperands(fields, given, l.note)
  <1>1. /\ SetOf(l.op).fields = fields /\ l.op # "fence" /\ Len(given) = k
        /\ \A i \in 1..k : \E j : At(r, fields[i]) = {j} /\ given[i] = l.args[j]
        /\ \A i \in DOMAIN l.args : l.args[i][1] # "i"
    BY Zenon DEF AtomicBy
  <1>2. /\ k \in {2, 3} /\ DOMAIN fields = 1..(k + 2) /\ Len(fields) = k + 2
        /\ IsInjective(fields) /\ fields[k + 1] = "aq" /\ fields[k + 2] = "rl"
        /\ \A i \in 1..k : fields[i] \in Registers
        /\ ~IsSplit(fields) /\ "rm" \notin ToSet(fields)
    <2>1. PICK m \in {2, 3} :
             /\ DOMAIN fields = 1..(m + 2) /\ Len(fields) = m + 2 /\ IsInjective(fields)
             /\ fields[m + 1] = "aq" /\ fields[m + 2] = "rl"
             /\ \A i \in 1..m : fields[i] \in Registers
             /\ ~IsSplit(fields) /\ "rm" \notin ToSet(fields)
      <3>1. fields \in OrderedFields
        BY DEF AtomicBy
      <3> QED BY <3>1, OrderedLists
    <2>2. k = m
      BY <2>1 DEF AtomicBy
    <2> QED BY <2>1, <2>2
  <1> HIDE DEF given
  <1>3. OrderedTo(k, l.note, given, operands)
    BY <1>1, <1>2, AmoFilled
  <1> HIDE DEF operands
  <1>4. k + 1 \in DOMAIN fields /\ k + 2 \in DOMAIN fields
    BY <1>2
  <1>5. FilledFrom(l, fields, operands)
    <2>1. "aq" \in ToSet(fields)
      BY <1>2, <1>4 DEF ToSet
    <2>2. Preprocessed(l, fields) = operands
      <3>1. Preprocessed(l, fields) = AmoOperands(fields, ParsedOperands(l), l.note)
        <4>1. l.op # "fence"
          BY <1>1
        <4> QED BY <1>2, <2>1, <4>1 DEF Preprocessed
      <3> QED BY <3>1 DEF given, operands
    <2>3. operands = Matched(fields, Preprocessed(l, fields))
      BY <1>2, <2>2, Zenon DEF Matched
    <2>4. DOMAIN fields = 1..Len(fields) /\ Len(fields) \in Nat
      BY <1>2
    <2> QED BY <1>1, <1>2, <2>3, <2>4, WordOf, Zenon
  <1>6. RegistersSaid(r, l)
    <2>1. \A i \in DOMAIN fields : fields[i] \in Registers => i \in 1..k
      <3>1. "aq" \notin Registers /\ "rl" \notin Registers
        BY DEF Registers
      <3>2. \A i \in 1..(k + 2) : i \in 1..k \/ i = k + 1 \/ i = k + 2
        OBVIOUS
      <3> QED BY <1>2, <3>1, <3>2
    <2>2. \A i \in DOMAIN fields : fields[i] \in Registers =>
             \E j : At(r, fields[i]) = {j} /\ operands[i] = l.args[j]
      <3> SUFFICES ASSUME NEW i \in DOMAIN fields, fields[i] \in Registers
                   PROVE  \E j : At(r, fields[i]) = {j} /\ operands[i] = l.args[j]
        OBVIOUS
      <3>1. i \in 1..k
        BY <2>1
      <3>2. operands[i] = given[i]
        BY <1>3, <3>1, Zenon DEF OrderedTo
      <3>3. PICK j : At(r, fields[i]) = {j} /\ given[i] = l.args[j]
        BY <1>1, <3>1, Zenon
      <3> QED BY <3>2, <3>3, Zenon
    <2> QED BY <1>5, <2>2, RegistersSay
  <1>7. /\ (Encode(l)["aq"] = 1) <=> (l.note \in {"aq", "aqrl"})
        /\ (Encode(l)["rl"] = 1) <=> (l.note \in {"rl", "aqrl"})
    <2>1. /\ Encode(l)["aq"] = FieldValue("aq", Acquires(l.note))
          /\ Encode(l)["rl"] = FieldValue("rl", Releases(l.note))
      BY <1>2, <1>3, <1>4, <1>5 DEF FilledFrom, OrderedTo
    <2>2. \A b \in {0, 1} : FieldValue("aq", Num(b)) = b /\ FieldValue("rl", Num(b)) = b
      <3>1. \A b \in {0, 1} : LowBits(b, 2) = b
        BY DEF LowBits
      <3>2. FieldSize["aq"] = 2 /\ FieldSize["rl"] = 2
        BY SMT DEF FieldSize
      <3>3. \A b : /\ FieldValue("aq", Num(b)) = LowBits(b, FieldSize["aq"])
                   /\ FieldValue("rl", Num(b)) = LowBits(b, FieldSize["rl"])
        BY DEF FieldValue, Num, ImmediateValue
      <3> QED BY <3>1, <3>2, <3>3
    <2> QED BY <2>1, <2>2 DEF Acquires, Releases
  <1>8. "rm" \notin DOMAIN Encode(l)
    BY <1>2, <1>5 DEF FilledFrom
  <1> QED BY <1>1, <1>6, <1>7, <1>8, OrderingSaid

LEMMA AtomicLine ==
    ASSUME NEW r, AtomicRow(r), NEW op \in r.ops, NEW l, NEW args, LineOf(r, op, l, args)
    PROVE  Exact(r, l)
  <1> SUFFICES ASSUME Encode(l) # Refused PROVE Exact(r, l)
    BY DEF Exact
  <1>1. l.op = op /\ l.form = "address" /\ InSets(op, "")
    BY Zenon DEF LineOf, AtomicRow, Encode
  <1>2. OtherFields(op, SetOf(op).fields)
    BY <1>1, FieldsFound
  <1>3. CASE r.text = <<"RD", "T6">> /\ r.ops \subseteq Reservers
    <2>1. /\ Len(r.text) = 2 /\ DOMAIN r.text = 1..2 /\ r.text[1] = "RD" /\ r.text[2] = "T6"
          /\ Tight[1] = "rd" /\ Tight[2] = "rs1" /\ Len(Tight) = 2 + 2
      BY <1>3 DEF Tight
    <2>2. \A i \in 1..2 : i = 1 \/ i = 2
      OBVIOUS
    <2>3. l.args = args
      BY <2>1, <2>2, LineUnpatched
    <2>4. DOMAIN args = 1..2 /\ Len(args) = 2 /\ args[1][1] = "x" /\ args[2][1] = "x"
      BY <2>1, RegisterDraw DEF LineOf
    <2>5. ParsedOperands(l) = args
      <3>1. l.form # "offset"
        BY <1>1
      <3>2. Len(l.args) # 3
        <4>1. Len(l.args) = 2
          BY <2>3, <2>4, Zenon
        <4> QED BY <4>1, SMT
      <3>3. ParsedOperands(l) = l.args
        BY <3>1, <3>2 DEF ParsedOperands
      <3> QED BY <2>3, <3>3
    <2>6. At(r, "rd") = {1} /\ At(r, "rs1") = {2}
      BY <2>1 DEF At, Plays
    <2>7. op \in Reservers /\ op \in Atomics /\ op # "fence"
      BY <1>3 DEF Reservers, Atomics, AtomicsW, AtomicsD
    <2>8. SetOf(l.op).fields = Tight /\ Tight \in OrderedFields
      BY <1>1, <1>2, <2>7 DEF OtherFields, OrderedFields
    <2>9. \A i \in DOMAIN l.args : l.args[i][1] # "i"
      BY <2>2, <2>3, <2>4
    <2>10. \A i \in 1..2 : \E j : At(r, Tight[i]) = {j} /\ ParsedOperands(l)[i] = l.args[j]
      BY <2>1, <2>2, <2>3, <2>5, <2>6
    <2>11. AtomicBy(r, l, 2, Tight)
      BY <1>1, <2>1, <2>4, <2>5, <2>7, <2>8, <2>9, <2>10, Zenon DEF AtomicBy
    <2> QED BY <2>11, AtomicSays
  <1>4. CASE r.text = <<"RD", "RS2", "T6">> /\ r.ops \subseteq Atomics \ Reservers
    <2>1. /\ Len(r.text) = 3 /\ DOMAIN r.text = 1..3 /\ r.text[1] = "RD" /\ r.text[2] = "RS2"
          /\ r.text[3] = "T6" /\ Len(Ordered) = 3 + 2
          /\ Ordered[1] = "rd" /\ Ordered[2] = "rs1" /\ Ordered[3] = "rs2"
      BY <1>4 DEF Ordered
    <2>2. \A i \in 1..3 : i = 1 \/ i = 2 \/ i = 3
      OBVIOUS
    <2>3. l.args = args
      BY <2>1, <2>2, LineUnpatched
    <2>4. /\ DOMAIN args = 1..3 /\ Len(args) = 3
          /\ args[1][1] = "x" /\ args[2][1] = "x" /\ args[3][1] = "x"
      BY <2>1, RegisterDraw DEF LineOf
    <2>5. ParsedOperands(l) = <<args[1], args[3], args[2]>>
      BY <1>1, <2>3, <2>4 DEF ParsedOperands
    <2> DEFINE given == ParsedOperands(l)
    <2>6. Len(given) = 3 /\ given[1] = args[1] /\ given[2] = args[3] /\ given[3] = args[2]
      BY <2>5
    <2>7. At(r, "rd") = {1} /\ At(r, "rs1") = {3} /\ At(r, "rs2") = {2}
      BY <2>1 DEF At, Plays
    <2>8. op \notin Reservers /\ op \in Atomics /\ op # "fence"
      BY <1>4 DEF Reservers, Atomics, AtomicsW, AtomicsD
    <2>9. SetOf(l.op).fields = Ordered /\ Ordered \in OrderedFields
      BY <1>1, <1>2, <2>8 DEF OtherFields, OrderedFields
    <2>10. \A i \in DOMAIN l.args : l.args[i][1] # "i"
      BY <2>2, <2>3, <2>4
    <2> HIDE DEF given
    <2>11. \A i \in 1..3 : \E j : At(r, Ordered[i]) = {j} /\ given[i] = l.args[j]
      BY <2>1, <2>2, <2>3, <2>6, <2>7
    <2>12. AtomicBy(r, l, 3, Ordered)
      BY <1>1, <2>1, <2>6, <2>8, <2>9, <2>10, <2>11, Zenon DEF AtomicBy, given
    <2> QED BY <2>12, AtomicSays
  <1> QED BY <1>3, <1>4 DEF AtomicRow

\* A line of any row a slot draws a plain instruction from.
LEMMA PlainLine ==
    ASSUME NEW r \in KnownRows, NEW op \in r.ops,
           op \notin DirectTransfers \cup {"jalr"} \cup Compressed,
           NEW note, NEW l \in NewInstr(r, op, note)
    PROVE  Exact(r, l)
  <1>1. PlainRow(r)
    <2>1. op \notin SquashedOps
      <3>1. op \in AllOps
        BY DEF AllOps, KnownRows, Range
      <3> QED BY <3>1 DEF Compressed, SquashedOps
    <2>2. r \notin RvI_Transfers
      BY DEF RvI_Transfers, Row, Offset, DirectTransfers
    <2> QED BY <2>1, <2>2, AllPlain
  <1>2. Len(r.text) \in Nat
    <2>1. RegisterRow(r) => Len(r.text) \in Nat
      BY DEF RegisterRow, RegisterTexts
    <2>2. FenceRow(r) \/ SpelledRow(r) \/ CsrRow(r) => Len(r.text) \in Nat
      BY DEF FenceRow, SpelledRow, CsrRow
    <2>3. DynRow(r) => Len(r.text) \in Nat
      BY DEF DynRow, DynTexts
    <2>4. NumberRow(r) => Len(r.text) \in Nat
      BY DEF NumberRow
    <2>5. LoadRow(r) \/ StoreRow(r) \/ AtomicRow(r) => Len(r.text) \in Nat
      BY DEF LoadRow, StoreRow, AtomicRow
    <2> QED BY <1>1, <2>1, <2>2, <2>3, <2>4, <2>5 DEF PlainRow
  <1>3. CASE op = "clmulr"
    <2>1. RegisterRow(r)
      BY <1>1, <1>3 DEF PlainRow, FenceRow, SpelledRow, DynRow, NumberRow, CsrRow, LoadRow,
         StoreRow, AtomicRow, Spelled2, Round2, Round3, Round4, Adders, Shifts64, Shifts32,
         CsrNames, AccessOps, Stores, Reservers, Atomics, AtomicsW, AtomicsD
    <2>2. \A i \in 1..Len(r.text) :
             r.text[i] \in {"RD", "RS1", "RS2", "RS3", "FRD", "FRS1", "FRS2"}
      BY <2>1 DEF RegisterRow, RegisterTexts
    <2>3. PICK args : LineOf(r, "clmulh", l, args)
      BY <1>2, <1>3, <2>2, LineRenamed
    <2>4. "clmulh" \notin Atomics \cup Rounders \cup {"fence"}
      BY DEF Atomics, AtomicsW, AtomicsD, Rounders, Round2, Round3, Round4, Spelled2
    <2> QED BY <2>1, <2>3, <2>4, RegisterLine
  <1>4. CASE op # "clmulr"
    <2>1. PICK args : LineOf(r, op, l, args)
      BY <1>2, <1>4, LineDrawn
    <2>2. RegisterRow(r) => op \notin Atomics \cup Rounders \cup {"fence"}
      BY DEF RegisterRow
    <2> QED
      BY <1>1, <2>1, <2>2, RegisterLine, FenceLine, SpelledLine, DynLine, NumberLine, CsrLine,
         LoadLine, StoreLine, AtomicLine DEF PlainRow
  <1> QED BY <1>3, <1>4

LEMMA EncodeStep == EncodesExactly /\ [GenNext]_gvars => EncodesExactly'
  <1> SUFFICES ASSUME EncodesExactly, [GenNext]_gvars PROVE EncodesExactly'
    OBVIOUS
  <1>1. CASE Plain
    <2>1. PICK c \in Named(Rows(ExtensionsOf(profile))) :
             /\ c[2] \notin DirectTransfers \cup {"jalr"} \cup Compressed
             /\ row' = c[1] /\ line' \in NewInstr(c[1], c[2], c[3])
      BY <1>1 DEF Plain
    <2>2. c[1] \in KnownRows /\ c[2] \in c[1].ops
      BY <1>1, <2>1, NamedRow, ProfileRows, InstrGenAssumption DEF Plain, Choosing
    <2>3. Exact(row', line')
      BY <2>1, <2>2, PlainLine
    <2> QED BY <2>3, Zenon DEF EncodesExactly, Exact
  <1>2. CASE ForwardJump \/ IndirectJump \/ Loop \/ NextSlot
    <2>1. kind' # "plain"
      BY <1>2 DEF ForwardJump, IndirectJump, Loop, NextSlot
    <2> QED BY <2>1, Zenon DEF EncodesExactly
  <1>3. CASE UNCHANGED slot
    <2>1. kind' = kind /\ row' = row /\ line' = line
      BY <1>3 DEF slot
    <2> QED BY <2>1, Zenon DEF EncodesExactly
  <1>4. CASE \/ Setup \/ Skipped \/ BodyLine \/ BodyDone
             \/ Compile \/ CompileFails \/ RunEnds \/ UNCHANGED gvars
    BY <1>3, <1>4 DEF Setup, Skipped, BodyLine, BodyDone, Compile, CompileFails, RunEnds, gvars,
                      slot
  <1>5. CASE Prologue \/ TakeForward \/ NotTaken \/ TakeIndirect \/ RunBody \/ Decrement
    BY <1>3, <1>5 DEF Prologue, TakeForward, NotTaken, TakeIndirect, RunBody, Decrement, InRun
  <1> QED BY <1>1, <1>2, <1>4, <1>5 DEF GenNext

\* The word the fast encoder makes of a drawn line says what the line says, whatever the
\* registers, the immediates and the CSRs the draws are taken from: every row of
\* formats.py and the field list sets.py gives its names agree on the operands, and every
\* immediate fits its field (instruction_encoder.py encode).
THEOREM WordsSayTheirLines == GenSpec => []EncodesExactly
  <1>1. GenInit => EncodesExactly
    BY DEF GenInit, EncodesExactly
  <1> QED BY <1>1, EncodeStep, PTL DEF GenSpec

-----------------------------------------------------------------------------
(* The weights of a profile (Profiles).                                      *)

\* The recursion of the fold is a function: one exists on the sets of up to n names.
LEMMA SpecifiedEquation ==
    ASSUME NEW f, IsFiniteSet(DOMAIN f)
    PROVE  \E g : /\ g = [s \in SUBSET DOMAIN f |->
                            IF s = {} THEN 0
                            ELSE f[CHOOSE x \in s : TRUE] + g[s \ {CHOOSE x \in s : TRUE}]]
                  /\ Specified(f) = g[DOMAIN f]
  <1> DEFINE S == DOMAIN f
             first(s) == CHOOSE x \in s : TRUE
             Upto(n) == {s \in SUBSET S : Cardinality(s) <= n}
             Step(g, s) == IF s = {} THEN 0 ELSE f[first(s)] + g[s \ {first(s)}]
             Defined(g, D) == g = [s \in D |-> Step(g, s)]
             T == {n \in Nat : \E g : Defined(g, Upto(n))}
  <1>1. \A s \in SUBSET S : /\ Cardinality(s) \in Nat /\ (Cardinality(s) = 0 <=> s = {})
                            /\ Cardinality(s) <= Cardinality(S) /\ Cardinality(S) \in Nat
    BY FS_Subset, FS_CardinalityType, FS_EmptySet
  <1>2. ASSUME NEW s \in SUBSET S, s # {}
        PROVE  /\ s \ {first(s)} \in SUBSET S
               /\ Cardinality(s \ {first(s)}) = Cardinality(s) - 1
    <2>1. first(s) \in s
      BY <1>2
    <2>2. IsFiniteSet(s)
      BY FS_Subset
    <2> HIDE DEF first
    <2>3. Cardinality(s \ {first(s)}) = Cardinality(s) - 1
      BY <2>1, <2>2, FS_RemoveElement
    <2> QED BY <2>1, <2>3
  <1> HIDE DEF first, S
  <1>3. 0 \in T
    <2>1. \A s \in Upto(0) : s = {}
      BY <1>1
    <2>2. Defined([s \in Upto(0) |-> 0], Upto(0))
      BY <2>1, Zenon
    <2> QED BY <2>2
  <1>4. ASSUME NEW n \in Nat, n \in T PROVE n + 1 \in T
    <2>1. PICK g : Defined(g, Upto(n))
      BY <1>4, Zenon
    <2> DEFINE h == [s \in Upto(n + 1) |-> Step(g, s)]
    <2>2. ASSUME NEW s \in Upto(n + 1) PROVE h[s] = Step(h, s)
      <3>1. h[s] = Step(g, s)
        BY Zenon
      <3>2. CASE s = {}
        BY <3>1, <3>2, Zenon
      <3>3. CASE s # {}
        <4> DEFINE r == s \ {first(s)}
        <4>1. r \in Upto(n) /\ r \in Upto(n + 1)
          BY <1>1, <1>2, <3>3
        <4> HIDE DEF r
        <4>2. h[r] = Step(g, r) /\ g[r] = Step(g, r)
          BY <2>1, <4>1, Zenon
        <4>3. h[r] = g[r]
          BY <4>2, Zenon
        <4> QED BY <3>1, <3>3, <4>3, Zenon DEF r
      <3> QED BY <3>2, <3>3, Zenon
    <2>3. Defined(h, Upto(n + 1))
      <3> HIDE DEF Step, Upto
      <3>1. \A s \in Upto(n + 1) : h[s] = Step(h, s)
        BY <2>2
      <3>2. \A s \in Upto(n + 1) : Step(g, s) = Step(h, s)
        BY <3>1, Zenon
      <3> QED BY <3>2, Zenon
    <2>4. n + 1 \in Nat
      OBVIOUS
    <2> QED BY <2>3, <2>4, Zenon
  <1> HIDE DEF T
  <1>5. \A n \in Nat : n \in T
    BY <1>3, <1>4, Induction
  <1>6. PICK g : Defined(g, Upto(Cardinality(S)))
    <2>1. Cardinality(S) \in T
      BY <1>1, <1>5
    <2> QED BY <2>1, Zenon DEF T
  <1>7. Upto(Cardinality(S)) = SUBSET S
    BY <1>1
  <1>8. \E k : Defined(k, SUBSET S)
    BY <1>6, <1>7, Zenon
  <1> DEFINE it == CHOOSE k : Defined(k, SUBSET S)
  <1>9. Specified(f) = it[S]
    BY Zenon DEF Specified, FoldFunction, FoldFunctionOnSet, MapThenFoldSet, S, first
  <1>10. Defined(it, SUBSET S)
    BY <1>8, Zenon
  <1> HIDE DEF it
  <1> QED BY <1>9, <1>10, Zenon DEF S, first

\* A sum of n numbers of at most b is at most b * n.
LEMMA SpecifiedBound ==
    ASSUME NEW S, IsFiniteSet(S), NEW b \in Nat, NEW f \in [S -> 0..b]
    PROVE  /\ Specified(f) \in Int
           /\ 0 <= Specified(f) /\ Specified(f) <= b * Cardinality(S)
  <1>1. PICK g : /\ g = [s \in SUBSET S |->
                          IF s = {} THEN 0
                          ELSE f[CHOOSE x \in s : TRUE] + g[s \ {CHOOSE x \in s : TRUE}]]
                 /\ Specified(f) = g[S]
    BY SpecifiedEquation
  <1> DEFINE T == {n \in Nat : \A s \in SUBSET S :
                                  Cardinality(s) = n => g[s] \in 0..(b * n)}
  <1>2. 0 \in T
    <2>1. \A s \in SUBSET S : Cardinality(s) = 0 => s = {}
      BY FS_Subset, FS_EmptySet
    <2>2. g[{}] = 0
      BY <1>1
    <2>3. 0 \in 0..(b * 0)
      OBVIOUS
    <2> QED BY <2>1, <2>2, <2>3
  <1>3. ASSUME NEW n \in Nat, n \in T PROVE n + 1 \in T
    <2> SUFFICES ASSUME NEW s \in SUBSET S, Cardinality(s) = n + 1
                 PROVE  g[s] \in 0..(b * (n + 1))
      OBVIOUS
    <2> DEFINE x == CHOOSE y \in s : TRUE
    <2>1. IsFiniteSet(s) /\ s # {}
      BY FS_Subset, FS_EmptySet
    <2>2. x \in s
      BY <2>1
    <2>3. g[s] = f[x] + g[s \ {x}]
      BY <1>1, <2>1, Zenon
    <2> HIDE DEF x
    <2>4. Cardinality(s \ {x}) = n /\ s \ {x} \in SUBSET S
      <3>1. Cardinality(s \ {x}) = Cardinality(s) - 1
        BY <2>1, <2>2, FS_RemoveElement
      <3>2. (n + 1) - 1 = n
        OBVIOUS
      <3> QED BY <3>1, <3>2, Zenon
    <2>5. g[s \ {x}] \in 0..(b * n) /\ f[x] \in 0..b
      BY <1>3, <2>2, <2>4
    <2>6. b * (n + 1) = b * n + b /\ b * n \in Nat
      OBVIOUS
    <2> QED BY <2>3, <2>5, <2>6
  <1> HIDE DEF T
  <1>4. Cardinality(S) \in T
    <2>1. Cardinality(S) \in Nat
      BY FS_CardinalityType
    <2>2. \A n \in Nat : n \in T
      BY <1>2, <1>3, Induction
    <2> QED BY <2>1, <2>2
  <1>5. g[S] \in 0..(b * Cardinality(S))
    BY <1>4 DEF T
  <1>6. b * Cardinality(S) \in Int
    BY FS_CardinalityType
  <1> QED BY <1>1, <1>5, <1>6

\* What generate_instructions needs of the weights.
WeightsDefined(allowed, special) ==
    /\ Remaining(allowed, special) # 0
    /\ \A i \in DOMAIN allowed : Weights(allowed, special)[i] >= 0
    /\ \E i \in DOMAIN allowed : Weights(allowed, special)[i] > 0

LEMMA WeightOf ==
    ASSUME NEW allowed, NEW special, NEW i \in DOMAIN allowed
    PROVE  Weights(allowed, special)[i] =
             (IF Remaining(allowed, special) < 0 THEN -1 ELSE 1)
             * (IF allowed[i] \in DOMAIN special
                THEN special[allowed[i]] * Remaining(allowed, special)
                ELSE 10000 - Specified(special))
  <1> DEFINE n == Remaining(allowed, special)
             W(k) == (IF n < 0 THEN -1 ELSE 1)
                     * (IF allowed[k] \in DOMAIN special THEN special[allowed[k]] * n
                        ELSE 10000 - Specified(special))
  <1>1. Weights(allowed, special) = [k \in DOMAIN allowed |-> W(k)]
    BY Zenon DEF Weights
  <1>2. Weights(allowed, special)[i] = W(i)
    <2> HIDE DEF W
    <2> QED BY <1>1
  <1> QED BY <1>2

LEMMA Products ==
    \A a \in Nat, b \in Nat \ {0} : a * b \in Nat /\ (a > 0 => a * b > 0)
  OBVIOUS

\* The rest is shared out: fewer extensions have a probability than are listed, and
\* their sum leaves something for the others.
SharedOut(allowed, special, S, b) ==
    /\ allowed \in Seq(DOMAIN INSTRUCTION_FORMATS)
    /\ IsFiniteSet(S) /\ b \in Nat /\ special \in [S -> Nat] /\ \A e \in S : special[e] <= b
    /\ Cardinality(S) < Len(allowed) /\ b * Cardinality(S) < 10000
    /\ allowed[1] \in S => special[allowed[1]] > 0

LEMMA WeightsShared ==
    ASSUME NEW allowed, NEW special, NEW S, NEW b, SharedOut(allowed, special, S, b)
    PROVE  WeightsDefined(allowed, special)
  <1> USE DEF SharedOut
  <1> DEFINE n == Remaining(allowed, special)
             rest == 10000 - Specified(special)
             W(i) == IF allowed[i] \in DOMAIN special THEN special[allowed[i]] * n ELSE rest
             sign == IF n < 0 THEN -1 ELSE 1
  <1>1. n \in Nat \ {0} /\ Len(allowed) \in Nat \ {0} /\ DOMAIN allowed = 1..Len(allowed)
    BY FS_CardinalityType, LenProperties DEF Remaining
  <1>2. rest \in Int /\ rest > 0
    <2>1. Specified(special) \in Int /\ Specified(special) <= b * Cardinality(S)
      <3>1. special \in [S -> 0..b]
        OBVIOUS
      <3> QED BY <3>1, SpecifiedBound
    <2>2. b * Cardinality(S) \in Int
      BY FS_CardinalityType
    <2>3. PICK y \in Int : y = b * Cardinality(S)
      BY <2>2
    <2>4. Specified(special) <= y /\ y < 10000
      BY <2>1, <2>3
    <2> HIDE DEF n
    <2> QED BY <2>1, <2>3, <2>4
  <1>3. \A i \in DOMAIN allowed : Weights(allowed, special)[i] = sign * W(i)
    BY WeightOf
  <1>4. sign = 1 /\ DOMAIN special = S
    BY <1>1
  <1> HIDE DEF n, sign, rest
  <1>5. ASSUME NEW i \in DOMAIN allowed PROVE W(i) \in Nat
    <2>1. CASE allowed[i] \in DOMAIN special
      <3>1. special[allowed[i]] \in Nat
        BY <2>1
      <3>2. special[allowed[i]] * n \in Nat
        BY <1>1, <3>1, Products
      <3> QED BY <2>1, <3>2
    <2>2. CASE allowed[i] \notin DOMAIN special
      BY <1>2, <2>2
    <2> QED BY <2>1, <2>2
  <1>6. 1 \in DOMAIN allowed
    BY <1>1
  <1>7. W(1) > 0
    <2>1. CASE allowed[1] \in DOMAIN special
      <3>1. special[allowed[1]] \in Nat /\ special[allowed[1]] > 0
        BY <2>1
      <3>2. special[allowed[1]] * n > 0
        BY <1>1, <3>1, Products
      <3> QED BY <2>1, <3>2
    <2>2. CASE allowed[1] \notin DOMAIN special
      BY <1>2, <2>2
    <2> QED BY <2>1, <2>2
  <1> HIDE DEF W
  <1>8. \A i \in DOMAIN allowed : Weights(allowed, special)[i] = W(i)
    BY <1>3, <1>4, <1>5
  <1> QED BY <1>1, <1>5, <1>6, <1>7, <1>8 DEF WeightsDefined, n

\* Every listed extension has a probability of its own: the rest does not matter, but
\* it is divided by their number all the same.
LEMMA WeightsAllGiven ==
    ASSUME NEW allowed, allowed \in Seq(DOMAIN INSTRUCTION_FORMATS), NEW S, IsFiniteSet(S),
           NEW special \in [S -> Nat],
           Cardinality(S) # Len(allowed), Len(allowed) > 0,
           \A i \in 1..Len(allowed) : allowed[i] \in S, special[allowed[1]] > 0
    PROVE  WeightsDefined(allowed, special)
  <1> DEFINE n == Remaining(allowed, special)
             sign == IF n < 0 THEN -1 ELSE 1
             m == IF n < 0 THEN 0 - n ELSE n
             W(i) == sign * (IF allowed[i] \in DOMAIN special THEN special[allowed[i]] * n
                             ELSE 10000 - Specified(special))
  <1>1. /\ n \in Int /\ n # 0 /\ m \in Nat \ {0}
        /\ Len(allowed) \in Nat \ {0} /\ DOMAIN allowed = 1..Len(allowed)
    BY FS_CardinalityType, LenProperties DEF Remaining
  <1>2. \A i \in DOMAIN allowed : Weights(allowed, special)[i] = W(i)
    BY WeightOf
  <1>3. \A i \in DOMAIN allowed : allowed[i] \in S /\ S = DOMAIN special
    BY <1>1
  <1>4. \A a \in Nat : sign * (a * n) = a * m
    <2>1. n \in Int
      BY <1>1
    <2> HIDE DEF n
    <2>2. CASE n < 0
      BY <2>1, <2>2
    <2>3. CASE ~(n < 0)
      BY <2>1, <2>3
    <2> QED BY <2>2, <2>3
  <1> HIDE DEF n, sign, m
  <1>5. ASSUME NEW i \in DOMAIN allowed
        PROVE  Weights(allowed, special)[i] = special[allowed[i]] * m
    <2>1. special[allowed[i]] \in Nat
      BY <1>1
    <2>2. Weights(allowed, special)[i] = sign * (special[allowed[i]] * n)
      BY <1>2, <1>3
    <2> QED BY <1>4, <2>1, <2>2
  <1>6. ASSUME NEW i \in DOMAIN allowed
        PROVE  /\ Weights(allowed, special)[i] >= 0
               /\ special[allowed[i]] > 0 => Weights(allowed, special)[i] > 0
    <2>1. special[allowed[i]] \in Nat
      BY <1>1
    <2> QED BY <1>1, <1>5, <2>1, Products
  <1>7. 1 \in DOMAIN allowed
    BY <1>1
  <1> QED BY <1>1, <1>6, <1>7 DEF WeightsDefined, n

LEMMA FirstNumbers == \A n \in Nat : IsFiniteSet(1..n) /\ Cardinality(1..n) = n
  BY FS_Interval

\* A set named by a list has at most as many elements as the list.
LEMMA NamedByList ==
    ASSUME NEW s, NEW n \in Nat, NEW S, S = {s[i] : i \in 1..n}
    PROVE  IsFiniteSet(S) /\ Cardinality(S) \in Nat /\ Cardinality(S) <= n
  <1>1. IsFiniteSet(1..n) /\ Cardinality(1..n) = n
    BY FirstNumbers
  <1> DEFINE f == [i \in 1..n |-> s[i]]
  <1>2. f \in Surjection(1..n, S)
    BY DEF Surjection
  <1>3. IsFiniteSet(S) /\ Cardinality(S) <= Cardinality(1..n)
    BY <1>1, <1>2, FS_Surjection
  <1> QED BY <1>1, <1>3, FS_CardinalityType

LEMMA Cva6Weights == WeightsDefined(Cva6, SpecialCva6)
  <1> DEFINE S == DOMAIN SpecialCva6
             s == <<"RV_ZICSR", "rv_zifencei", "RV_I", "RV64_I", "RV_F", "RV_D", "RV64_F",
                    "RV64_D", "RV_C", "RV_C_D", "RV32_C", "RV_M", "RV32_ZPN", "RV64_M",
                    "RV_A", "RV64_A", "RV_ZBKB", "RV64_ZBKB", "RV_ZBKC", "RV_ZBKX",
                    "RV64_ZK", "RV_ZK", "ROCC">>
  <1>1. S = {s[i] : i \in 1..23}
    <2>1. \A i \in 1..23 : s[i] \in S
      BY DEF SpecialCva6
    <2>2. \A e \in S : \E i \in 1..23 : s[i] = e
      BY DEF SpecialCva6
    <2> QED BY <2>1, <2>2, Zenon
  <1>2. SpecialCva6 \in [S -> Nat]
    <2>1. SpecialCva6 = [e \in S |-> SpecialCva6[e]]
      BY DEF SpecialCva6
    <2>2. \A e \in S : SpecialCva6[e] \in Nat
      BY DEF SpecialCva6
    <2> HIDE DEF S
    <2> QED BY <2>1, <2>2, Zenon
  <1>3. Cva6 \in Seq(DOMAIN INSTRUCTION_FORMATS) /\ Len(Cva6) = 24
    <2>1. Len(Cva6) = 24
      BY DEF Cva6
    <2> QED BY <2>1, ProfileNames DEF ALLOWED_EXT_PROFILES
  <1>4. \A i \in 1..24 : Cva6[i] \in S
    BY DEF Cva6, SpecialCva6
  <1>5. SpecialCva6[Cva6[1]] > 0
    BY DEF Cva6, SpecialCva6
  <1> HIDE DEF S, s
  <1>6. IsFiniteSet(S) /\ Cardinality(S) \in Nat /\ Cardinality(S) <= 23
    BY <1>1, NamedByList
  <1>7. Cardinality(S) # Len(Cva6) /\ Len(Cva6) > 0
    BY <1>3, <1>6
  <1> QED BY <1>2, <1>3, <1>4, <1>5, <1>6, <1>7, WeightsAllGiven

\* Thirteen of the names with a probability are enough to outnumber the list.
LEMMA CascadeWeights == WeightsDefined(Cascade, SpecialCascade)
  <1> DEFINE S == DOMAIN SpecialCascade
             all == <<"RV_ZICSR", "rv_zifencei", "RV_I", "RV64_I", "RV_F_ZFINX", "RV_F",
                      "RV_D", "RV64_F", "RV64_D", "RV_M", "RV64_M", "RV_C", "RV64_C",
                      "RV32_C_F", "RV_C_D", "RV32_C", "RV_A", "RV64_A", "RV_ZBKB",
                      "RV64_ZBKB", "RV_ZBKC", "RV_ZBKX", "RV64_ZK", "RV_ZK", "ILL">>
             s == <<"RV_I", "RV_F", "RV_D", "RV_M", "RV_C", "RV_A", "ILL", "RV_ZK", "RV64_I",
                    "RV64_F", "RV64_D", "RV64_M", "RV64_C">>
             f == [i \in 1..13 |-> s[i]]
  <1>1. S = {all[i] : i \in 1..25}
    <2>1. \A i \in 1..25 : all[i] \in S
      BY DEF SpecialCascade
    <2>2. \A e \in S : \E i \in 1..25 : all[i] = e
      BY DEF SpecialCascade
    <2> QED BY <2>1, <2>2, Zenon
  <1>2. SpecialCascade \in [S -> Nat]
    <2>1. SpecialCascade = [e \in S |-> SpecialCascade[e]]
      BY DEF SpecialCascade
    <2>2. \A e \in S : SpecialCascade[e] \in Nat
      BY DEF SpecialCascade
    <2> HIDE DEF S
    <2> QED BY <2>1, <2>2, Zenon
  <1>3. Cascade \in Seq(DOMAIN INSTRUCTION_FORMATS) /\ Len(Cascade) = 12
    <2>1. Len(Cascade) = 12
      BY DEF Cascade
    <2> QED BY <2>1, ProfileNames DEF ALLOWED_EXT_PROFILES
  <1>4. \A i \in 1..12 : Cascade[i] \in S
    BY DEF Cascade, SpecialCascade
  <1>5. SpecialCascade[Cascade[1]] > 0
    BY DEF Cascade, SpecialCascade
  <1>6. IsFiniteSet(S)
    <2> HIDE DEF S, all
    <2> QED BY <1>1, NamedByList
  <1>7. Cardinality(S) >= 13
    <2>1. \A i \in 1..13 : s[i] \in S
      BY DEF SpecialCascade
    <2>2. \A i, j \in 1..13 : s[i] = s[j] => i = j
      OBVIOUS
    <2> HIDE DEF S, s
    <2>3. f \in [1..13 -> S] /\ DOMAIN f = 1..13 /\ \A i \in 1..13 : f[i] = s[i]
      BY <2>1
    <2> HIDE DEF f
    <2>5. f \in Injection(1..13, S)
      BY <2>2, <2>3 DEF Injection, IsInjective
    <2>4. IsFiniteSet(1..13) /\ Cardinality(1..13) = 13
      <3>1. 13 \in Nat
        OBVIOUS
      <3> QED BY <3>1, FirstNumbers, Zenon
    <2> QED BY <1>6, <2>4, <2>5, FS_Injection
  <1>8. Cardinality(S) # Len(Cascade) /\ Len(Cascade) > 0 /\ Cardinality(S) \in Nat
    BY <1>3, <1>6, <1>7, FS_CardinalityType
  <1> HIDE DEF S
  <1> QED BY <1>2, <1>3, <1>4, <1>5, <1>6, <1>8, WeightsAllGiven

NonEmpty(X, s) == s \in Seq(X) /\ Len(s) > 0

LEMMA HeadOfConcat ==
    ASSUME NEW X, NEW s, NonEmpty(X, s), NEW t \in Seq(X)
    PROVE  NonEmpty(X, s \o t) /\ Len(s \o t) = Len(s) + Len(t) /\ (s \o t)[1] = s[1]
  <1> USE DEF NonEmpty
  <1>1. s \o t \in Seq(X) /\ Len(s \o t) = Len(s) + Len(t)
    BY ConcatProperties
  <1>2. Len(s) \in Nat /\ Len(t) \in Nat
    BY LenProperties
  <1>3. 1 \in 1..(Len(s) + Len(t)) /\ 1 <= Len(s)
    BY <1>2
  <1>4. (s \o t)[1] = s[1]
    BY <1>3, ConcatProperties
  <1> QED BY <1>1, <1>2, <1>4

LEMMA GeneralList == Len(General) = 25 /\ General[1] = "RV_ZICSR"
  <1> DEFINE a == SubSeq(Cva6, 1, 9)
             b == SubSeq(Cva6, 11, 24)
             c == <<"ILL", "RV_F_ZFINX">>
             X == DOMAIN INSTRUCTION_FORMATS
  <1>1. Cva6 \in Seq(X) /\ Len(Cva6) = 24 /\ Cva6[1] = "RV_ZICSR" /\ c \in Seq(X) /\ Len(c) = 2
    <2>1. Cva6 \in Seq(X)
      BY ProfileNames DEF ALLOWED_EXT_PROFILES
    <2>2. Len(Cva6) = 24 /\ Cva6[1] = "RV_ZICSR"
      BY DEF Cva6
    <2>3. c \in Seq(X) /\ Len(c) = 2
      BY DEF INSTRUCTION_FORMATS
    <2> QED BY <2>1, <2>2, <2>3
  <1> HIDE DEF c, X
  <1>2. \A i \in 1..24 : Cva6[i] \in X
    BY <1>1, ElementOfSeq
  <1>3. a \in Seq(X) /\ Len(a) = 9 /\ a[1] = "RV_ZICSR"
    BY <1>1, <1>2, SubSeqProperties
  <1>4. b \in Seq(X) /\ Len(b) = 14
    BY <1>1, <1>2, SubSeqProperties
  <1> HIDE DEF a, b
  <1>5. NonEmpty(X, a \o b) /\ Len(a \o b) = Len(a) + Len(b) /\ (a \o b)[1] = a[1]
    <2>1. NonEmpty(X, a)
      BY <1>3 DEF NonEmpty
    <2> QED BY <1>4, <2>1, HeadOfConcat, Zenon
  <1>6. /\ Len((a \o b) \o c) = Len(a \o b) + Len(c)
        /\ ((a \o b) \o c)[1] = (a \o b)[1]
    BY <1>1, <1>5, HeadOfConcat, Zenon
  <1>8. Len((a \o b) \o c) = 25
    BY <1>1, <1>3, <1>4, <1>5, <1>6
  <1>7. General = (a \o b) \o c
    BY DEF General, a, b, c
  <1> QED BY <1>3, <1>5, <1>6, <1>7, <1>8, Zenon

LEMMA NotEmptyList ==
    ASSUME NEW p \in DOMAIN ALLOWED_EXT_PROFILES PROVE Len(ALLOWED_EXT_PROFILES[p]) > 0
  <1> DEFINE X == DOMAIN INSTRUCTION_FORMATS
  <1>1. Len(Cva6) = 24 /\ Len(Cascade) = 12
    BY DEF Cva6, Cascade
  <1>2. /\ Len(Rv32) = 10 /\ Len(Base) = 10 /\ Len(NutShell) = 8
        /\ Len(NutShell32) = 7 /\ Len(Rocket32) = 9
    BY DEF Rv32, Base, NutShell, NutShell32, Rocket32
  <1>3. /\ Floats \in Seq(X) /\ Compact \in Seq(X) /\ <<"RV_A", "RV64_A">> \in Seq(X)
        /\ <<"rv_zbs", "RV_ZBKB", "RV64_ZBKB", "RV_ZBKC">> \in Seq(X)
    BY DEF Floats, Compact, INSTRUCTION_FORMATS
  <1>4. NutShell \in Seq(X)
    BY ProfileNames DEF ALLOWED_EXT_PROFILES
  <1> HIDE DEF X
  <1>5. NonEmpty(X, IntegerPart)
    <2>1. \A i \in 1..8 : NutShell[i] \in X
      BY <1>2, <1>4, ElementOfSeq
    <2> QED BY <2>1, SubSeqProperties DEF IntegerPart, NonEmpty
  <1>6. NonEmpty(X, Boom)
    BY <1>3, <1>5, HeadOfConcat, Zenon DEF Boom
  <1>7. NonEmpty(X, XiangShan) /\ NonEmpty(X, Rocket)
    BY <1>3, <1>5, <1>6, HeadOfConcat, Zenon DEF XiangShan, Rocket
  <1>8. /\ Len(Cva6) > 0 /\ Len(Cascade) > 0 /\ Len(Rv32) > 0 /\ Len(General) > 0
        /\ Len(Base) > 0 /\ Len(NutShell) > 0 /\ Len(NutShell32) > 0 /\ Len(Rocket32) > 0
    BY <1>1, <1>2, GeneralList
  <1>9. \A s \in {Cva6, Cascade, Rv32, General, Base, NutShell, NutShell32, Boom, XiangShan,
                   Rocket, Rocket32} : Len(s) > 0
    BY <1>6, <1>7, <1>8, Zenon DEF NonEmpty
  <1> QED BY <1>9 DEF ALLOWED_EXT_PROFILES

LEMMA Rv32Weights ==
    WeightsDefined(Rv32, [RV_ZICSR |-> 230, rv_zifencei |-> 10, ILL |-> 10])
  <1> DEFINE f == [RV_ZICSR |-> 230, rv_zifencei |-> 10, ILL |-> 10]
             s == <<"RV_ZICSR", "rv_zifencei", "ILL">>
             S == DOMAIN f
  <1>1. S = {s[i] : i \in 1..3}
    <2>1. \A i \in 1..3 : s[i] \in S
      OBVIOUS
    <2>2. \A e \in S : \E i \in 1..3 : s[i] = e
      OBVIOUS
    <2> QED BY <2>1, <2>2, Zenon
  <1>2. f \in [S -> Nat] /\ \A e \in S : f[e] <= 230
    OBVIOUS
  <1>3. f["RV_ZICSR"] = 230
    OBVIOUS
  <1> HIDE DEF S, s, f
  <1>4. IsFiniteSet(S) /\ Cardinality(S) \in Nat /\ Cardinality(S) <= 3
    BY <1>1, NamedByList
  <1>5. Cardinality(S) < 10 /\ 230 * Cardinality(S) < 10000
    BY <1>4
  <1>6. Len(Rv32) = 10 /\ Rv32[1] = "RV_ZICSR"
    BY DEF Rv32
  <1>7. Rv32 \in Seq(DOMAIN INSTRUCTION_FORMATS)
    BY ProfileNames DEF ALLOWED_EXT_PROFILES
  <1>8. WeightsDefined(Rv32, f)
    <2>1. Rv32[1] \in S => f[Rv32[1]] > 0
      BY <1>3, <1>6
    <2>2. SharedOut(Rv32, f, S, 230)
      BY <1>2, <1>4, <1>5, <1>6, <1>7, <2>1 DEF SharedOut
    <2> QED BY <2>2, WeightsShared
  <1> QED BY <1>8 DEF f

LEMMA GeneralWeights ==
    WeightsDefined(General, [RV_A |-> 40, rv_zbs |-> 1400, RV_ZBKB |-> 1700,
                             rv_32B |-> 500, RV_ZBKX |-> 200])
  <1> DEFINE f == [RV_A |-> 40, rv_zbs |-> 1400, RV_ZBKB |-> 1700, rv_32B |-> 500,
                   RV_ZBKX |-> 200]
             s == <<"RV_A", "rv_zbs", "RV_ZBKB", "rv_32B", "RV_ZBKX">>
             S == DOMAIN f
  <1>1. S = {s[i] : i \in 1..5}
    <2>1. \A i \in 1..5 : s[i] \in S
      OBVIOUS
    <2>2. \A e \in S : \E i \in 1..5 : s[i] = e
      OBVIOUS
    <2> HIDE DEF S, s
    <2> QED BY <2>1, <2>2, Zenon
  <1>2. f \in [S -> Nat] /\ \A e \in S : f[e] <= 1700
    OBVIOUS
  <1>3. "RV_ZICSR" \notin S
    OBVIOUS
  <1> HIDE DEF S, s, f
  <1>4. IsFiniteSet(S) /\ Cardinality(S) \in Nat /\ Cardinality(S) <= 5
    BY <1>1, NamedByList
  <1>5. Cardinality(S) < 25 /\ 1700 * Cardinality(S) < 10000
    BY <1>4
  <1>6. General \in Seq(DOMAIN INSTRUCTION_FORMATS)
    BY ProfileNames DEF ALLOWED_EXT_PROFILES
  <1>7. WeightsDefined(General, f)
    <2>1. SharedOut(General, f, S, 1700)
      <3>1. Cardinality(S) < Len(General)
        BY <1>5, GeneralList
      <3>2. General[1] \in S => f[General[1]] > 0
        BY <1>3, GeneralList
      <3>3. /\ General \in Seq(DOMAIN INSTRUCTION_FORMATS) /\ IsFiniteSet(S)
            /\ f \in [S -> Nat] /\ \A e \in S : f[e] <= 1700
        BY <1>2, <1>4, <1>6
      <3>4. 1700 \in Nat /\ 1700 * Cardinality(S) < 10000
        BY <1>5
      <3> QED BY <3>1, <3>2, <3>3, <3>4 DEF SharedOut
    <2> QED BY <2>1, WeightsShared
  <1> QED BY <1>7 DEF f

\* Without special probabilities all extensions get the same weight.
LEMMA UniformWeights ==
    ASSUME NEW allowed, allowed \in Seq(DOMAIN INSTRUCTION_FORMATS), Len(allowed) > 0
    PROVE  WeightsDefined(allowed, <<>>)
  <1>1. IsFiniteSet({}) /\ Cardinality({}) = 0
    BY FS_EmptySet
  <1>2. <<>> \in [{} -> Nat]
    OBVIOUS
  <1>3. Cardinality({}) < Len(allowed) /\ 0 * Cardinality({}) < 10000
    BY <1>1
  <1>4. SharedOut(allowed, <<>>, {}, 0)
    BY <1>1, <1>2, <1>3 DEF SharedOut
  <1> QED BY <1>4, WeightsShared

LEMMA ProfileWeights ==
    ASSUME NEW p \in DOMAIN ALLOWED_EXT_PROFILES
    PROVE  WeightsDefined(ALLOWED_EXT_PROFILES[p], SPECIAL_PROBABILITIES(p))
  <1>1. CASE p = "cva6"
    <2>1. ALLOWED_EXT_PROFILES[p] = Cva6 /\ SPECIAL_PROBABILITIES(p) = SpecialCva6
      BY <1>1 DEF ALLOWED_EXT_PROFILES, SPECIAL_PROBABILITIES
    <2> QED BY <2>1, Cva6Weights
  <1>2. CASE p = "cva6_cascade"
    <2>1. ALLOWED_EXT_PROFILES[p] = Cascade /\ SPECIAL_PROBABILITIES(p) = SpecialCascade
      BY <1>2 DEF ALLOWED_EXT_PROFILES, SPECIAL_PROBABILITIES
    <2> QED BY <2>1, CascadeWeights
  <1>3. CASE p = "rv32"
    <2>1. ALLOWED_EXT_PROFILES[p] = Rv32
      BY <1>3 DEF ALLOWED_EXT_PROFILES
    <2>2. SPECIAL_PROBABILITIES(p) = [RV_ZICSR |-> 230, rv_zifencei |-> 10, ILL |-> 10]
      BY <1>3 DEF SPECIAL_PROBABILITIES
    <2> QED BY <2>1, <2>2, Rv32Weights
  <1>4. CASE p = "general"
    <2>1. ALLOWED_EXT_PROFILES[p] = General
      BY <1>4 DEF ALLOWED_EXT_PROFILES
    <2>2. SPECIAL_PROBABILITIES(p) = [RV_A |-> 40, rv_zbs |-> 1400, RV_ZBKB |-> 1700,
                                      rv_32B |-> 500, RV_ZBKX |-> 200]
      BY <1>4 DEF SPECIAL_PROBABILITIES
    <2> QED BY <2>1, <2>2, GeneralWeights
  <1>5. CASE p \notin {"cva6", "cva6_cascade", "rv32", "general"}
    <2>1. SPECIAL_PROBABILITIES(p) = <<>>
      BY <1>5 DEF SPECIAL_PROBABILITIES
    <2> QED BY <2>1, NotEmptyList, ProfileNames, UniformWeights
  <1> QED BY <1>1, <1>2, <1>3, <1>4, <1>5

\* Every profile yields weights to draw from, and the weights of a seed are computed
\* without a division by zero (generate_instructions).
THEOREM WeightsAreDefined == GenSpec => []ProbabilitiesDefined
  <1> DEFINE Inv == profile \in DOMAIN ALLOWED_EXT_PROFILES /\ phase # "failed"
  <1>1. GenInit => Inv
    BY DEF GenInit
  <1>2. Inv /\ [GenNext]_gvars => Inv'
    <2> SUFFICES ASSUME Inv, [GenNext]_gvars PROVE Inv'
      OBVIOUS
    <2>1. ASSUME Setup PROVE Inv'
      BY <2>1, ProfileWeights DEF Setup, WeightsDefined
    <2>2. ASSUME Skipped \/ UNCHANGED gvars PROVE Inv'
      BY <2>2 DEF Skipped, gvars
    <2>3. ASSUME Plain \/ ForwardJump \/ IndirectJump \/ Loop PROVE Inv'
      BY <2>3 DEF Plain, ForwardJump, IndirectJump, Loop
    <2>4. ASSUME BodyLine \/ BodyDone \/ Compile \/ CompileFails PROVE Inv'
      BY <2>4 DEF BodyLine, BodyDone, Compile, CompileFails
    <2>5. ASSUME GenRun PROVE Inv'
      BY <2>5 DEF GenRun, Prologue, TakeForward, NotTaken, TakeIndirect, RunBody, Decrement,
                  InRun, RunEnds
    <2>6. ASSUME NextSlot PROVE Inv'
      BY <2>6 DEF NextSlot
    <2> QED BY <2>1, <2>2, <2>3, <2>4, <2>5, <2>6 DEF GenNext, GenRun
  <1>3. Inv => ProbabilitiesDefined
    <2> SUFFICES ASSUME Inv PROVE ProbabilitiesDefined
      OBVIOUS
    <2> DEFINE allowed == ALLOWED_EXT_PROFILES[profile]
               special == SPECIAL_PROBABILITIES(profile)
    <2>1. WeightsDefined(allowed, special)
      BY ProfileWeights
    <2>2. DOMAIN Weights(allowed, special) = DOMAIN allowed
      BY Zenon DEF Weights
    <2> QED BY <2>1, <2>2, Zenon DEF ProbabilitiesDefined, WeightsDefined
  <1> QED BY <1>1, <1>2, <1>3, PTL DEF GenSpec

-----------------------------------------------------------------------------
(* What a body holds (InstrGen!OnlyAnnotatedSlipIn).                         *)
LEMMA SlipInStep ==
    Shape /\ OnlyAnnotatedSlipIn /\ [GenNext]_gvars => OnlyAnnotatedSlipIn'
  <1> SUFFICES ASSUME Shape, OnlyAnnotatedSlipIn, [GenNext]_gvars PROVE OnlyAnnotatedSlipIn'
    OBVIOUS
  <1>1. CASE BodyLine
    <2>1. profile \in DOMAIN ALLOWED_EXT_PROFILES /\ profile \in DrawProfiles
      BY <1>1, InstrGenAssumption DEF BodyLine, Shape
    <2>2. PICK c \in BodyRows[profile] :
             /\ Allowed(c[2], c[3])
             /\ \E entry \in {BodyEntry(c[1], l) : l \in NewInstr(c[1], c[2], c[3])} :
                   body' = Append(body, entry)
      BY <1>1 DEF BodyLine
    <2>3. PICK l \in NewInstr(c[1], c[2], c[3]) : body' = Append(body, BodyEntry(c[1], l))
      BY <2>2
    <2>4. c[1] \in KnownRows /\ c[2] \in c[1].ops
      BY <2>1, NamedRow, ProfileRows DEF BodyRows
    <2> DEFINE entry == BodyEntry(c[1], l)
    <2>5. entry.cat = c[1].cat /\ entry.note = c[3]
      BY <2>3 DEF BodyEntry, NewInstr, Line
    <2>6. entry.cat \in Barred => entry.note # ""
      BY <2>2, <2>4, <2>5, BarredSlipIn
    <2> HIDE DEF entry
    <2>7. body \in Seq(Entries(profile))
      BY DEF Shape
    <2>8. \A i \in DOMAIN body' : body'[i] = entry \/ (i \in DOMAIN body /\ body'[i] = body[i])
      BY <2>3, <2>7 DEF entry
    <2> QED BY <2>6, <2>8 DEF OnlyAnnotatedSlipIn, Barred
  <1>2. CASE NextSlot
    <2>1. body' = <<>>
      BY <1>2 DEF NextSlot
    <2>2. \A i \in DOMAIN body' : FALSE
      BY <2>1
    <2> QED BY <2>2, Zenon DEF OnlyAnnotatedSlipIn
  <1>3. CASE UNCHANGED body
    BY <1>3 DEF OnlyAnnotatedSlipIn
  <1>4. CASE \/ Setup \/ Skipped \/ Plain \/ ForwardJump \/ IndirectJump \/ Loop \/ BodyDone
             \/ Compile \/ CompileFails \/ RunEnds \/ UNCHANGED gvars
    BY <1>3, <1>4 DEF Setup, Skipped, Plain, ForwardJump, IndirectJump, Loop, BodyDone, Compile,
       CompileFails, RunEnds, gvars
  <1>5. CASE Prologue \/ TakeForward \/ NotTaken \/ TakeIndirect \/ RunBody \/ Decrement
    BY <1>3, <1>5 DEF Prologue, TakeForward, NotTaken, TakeIndirect, RunBody, Decrement, InRun
  <1> QED BY <1>1, <1>2, <1>4, <1>5 DEF GenNext

\* A body holds no instruction that writes memory or jumps, but for an annotated atomic
\* (generate_instrs.py MEMORY_MODIFYING_CATEGORIES).
THEOREM OnlyAnnotatedAtomics == GenSpec => []OnlyAnnotatedSlipIn
  <1>1. GenInit => OnlyAnnotatedSlipIn
    <2>1. GenInit => \A i \in DOMAIN body : FALSE
      BY DEF GenInit
    <2> QED BY <2>1, Zenon DEF OnlyAnnotatedSlipIn
  <1> QED BY <1>1, SlipInStep, ShapeInvariant, PTL DEF GenSpec

-----------------------------------------------------------------------------
(* The filters (Filters).                                                    *)

\* The filter's list has every instruction of these sets that rounds.
Listed(S) == \A s \in S : "rm" \in ToSet(s.fields) => \A op \in s.ops : NamesRounding(op)

LEMMA NoRounding ==
    /\ "rm" \notin ToSet(<<>>) /\ "rm" \notin ToSet(R3) /\ "rm" \notin ToSet(R2)
    /\ "rm" \notin ToSet(IType) /\ "rm" \notin ToSet(SType) /\ "rm" \notin ToSet(BType)
    /\ "rm" \notin ToSet(Ordered)
  BY DEF ToSet, R3, R2, IType, SType, BType, Ordered

LEMMA AllListed == Listed(INSTRUCTION_SETS)
  <1> USE NoRounding DEF Listed, Fields
  <1>1. Listed(SetI)
    BY SMTT(30) DEF SetI, ToSet
  <1>2. Listed(Set64I)
    BY SMTT(30) DEF Set64I, ToSet
  <1>3. Listed(Set64Zk)
    BY SMTT(30) DEF Set64Zk, ToSet
  <1>4. Listed(Set64A)
    BY SMTT(30) DEF Set64A, ToSet
  <1>5. Listed(SetA)
    BY SMTT(30) DEF SetA, ToSet
  <1>6. Listed(SetZbkb)
    BY SMTT(30) DEF SetZbkb, ToSet
  <1>7. Listed(SetZbs)
    BY SMTT(30) DEF SetZbs, ToSet
  <1>8. Listed(Set32B)
    BY SMTT(30) DEF Set32B, ToSet
  <1>9. Listed(SetZbkc)
    BY SMTT(30) DEF SetZbkc, ToSet
  <1>10. Listed(SetZbpbo)
    BY SMTT(30) DEF SetZbpbo, ToSet
  <1>11. Listed(SetZicsr)
    BY SMTT(30) DEF SetZicsr, ToSet
  <1>12. Listed(SetM)
    BY SMTT(30) DEF SetM, ToSet
  <1>13. Listed(Set64M)
    BY SMTT(30) DEF Set64M, ToSet
  <1>14. Listed(SetD)
    BY SMTT(30) DEF SetD, NamesRounding, Rounded
  <1>15. Listed(SetF)
    BY SMTT(30) DEF SetF, NamesRounding, Rounded
  <1>16. Listed(Set64D)
    BY SMTT(30) DEF Set64D, NamesRounding, Rounded
  <1>17. Listed(Set64F)
    BY SMTT(30) DEF Set64F, NamesRounding, Rounded
  <1>18. Listed(SetZifencei)
    BY SMTT(30) DEF SetZifencei, ToSet
  <1>19. Listed(Set32Zpn)
    BY SMTT(30) DEF Set32Zpn, ToSet
  <1>20. Listed(Set64Zbkb)
    BY SMTT(30) DEF Set64Zbkb, ToSet
  <1>21. Listed(SetZk)
    BY SMTT(30) DEF SetZk, ToSet
  <1>22. Listed(SetZbkx)
    BY SMTT(30) DEF SetZbkx, ToSet
  <1>23. Listed(SetC)
    BY SMTT(30) DEF SetC, ToSet
  <1> QED
    BY <1>1, <1>2, <1>3, <1>4, <1>5, <1>6, <1>7, <1>8, <1>9, <1>10, <1>11, <1>12, <1>13,
       <1>14, <1>15, <1>16, <1>17, <1>18, <1>19, <1>20, <1>21, <1>22, <1>23 DEF
       INSTRUCTION_SETS

\* What is accepted, no filter rejects.
LEMMA AcceptedByAll ==
    ASSUME NEW l, CheckPre(l) = "accepted"
    PROVE  \A i \in DOMAIN PreFilters : ~Rejects(PreFilters[i], l)
  <1> DEFINE hits == {i \in DOMAIN PreFilters : Rejects(PreFilters[i], l)}
  <1>1. DOMAIN PreFilters = 1..6
        /\ \A i \in 1..6 : PreFilters[i] \in {"C-1", "C-2", "C-3", "M-1", "W-15", "W-6"}
    BY DEF PreFilters
  <1>2. hits \subseteq 1..6
    BY <1>1
  <1>3. hits # {} => Min(hits) \in hits
    <2> SUFFICES ASSUME hits # {} PROVE Min(hits) \in hits
      OBVIOUS
    <2> HIDE DEF hits
    <2>1. \E n \in hits : \A m \in hits : n <= m
      BY <1>2, LeastNatural
    <2> QED BY <2>1 DEF Min
  <1>4. CheckPre(l) = IF hits = {} THEN "accepted" ELSE PreFilters[Min(hits)]
    BY DEF CheckPre
  <1> HIDE DEF hits
  <1>5. hits = {}
    BY <1>1, <1>2, <1>3, <1>4
  <1> QED BY <1>5 DEF hits

LEMMA RoundingStep == RoundingDefined /\ [FiltersNext]_fvars => RoundingDefined'
  <1> SUFFICES ASSUME RoundingDefined, [FiltersNext]_fvars PROVE RoundingDefined'
    OBVIOUS
  <1>1. CASE Validate
    <2> SUFFICES ASSUME verdict' = "accepted", DynamicRounding(candidate') PROVE under' \notin Reserved
      BY DEF RoundingDefined
    <2>1. under' = frm /\ CheckPre(candidate') = "accepted"
      BY <1>1 DEF Validate
    <2>2. ~(frm \in Reserved /\ NamesRounding(candidate'.op))
      <3>1. ~Rejects("W-15", candidate')
        BY <2>1, AcceptedByAll DEF PreFilters
      <3> QED BY <3>1 DEF Rejects
    <2>3. NamesRounding(candidate'.op)
      <3>1. SetOf(candidate'.op) \in INSTRUCTION_SETS /\ candidate'.op \in SetOf(candidate'.op).ops
        BY DEF DynamicRounding, InSets, SetOf
      <3> QED BY <3>1, AllListed DEF DynamicRounding, Listed
    <2> QED BY <2>1, <2>2, <2>3
  <1>2. CASE RunSequence
    BY <1>2 DEF RunSequence, RoundingDefined
  <1>3. CASE UNCHANGED fvars
    BY <1>3 DEF fvars, RoundingDefined, DynamicRounding
  <1> QED BY <1>1, <1>2, <1>3 DEF FiltersNext

\* Nothing that is accepted rounds by a reserved mode, whatever unfiltered lines have
\* left in frm (xs_filters.py W-15).
THEOREM RoundingIsDefined == FiltersSpec => []RoundingDefined
  <1>1. FiltersInit => RoundingDefined
    BY DEF FiltersInit, RoundingDefined
  <1> QED BY <1>1, RoundingStep, PTL DEF FiltersSpec

-----------------------------------------------------------------------------
(* The mutation of a seed (Mutator).                                         *)

LEMMA NoneIsNoName == \A r \in KnownRows : "none" \notin r.ops
  <1> USE DEF Row, Offset
  <1>1. \A r \in RvC_Memory \cup RvC_Transfers \cup RvC_Alu : "none" \notin r.ops
    BY DEF RvC_Memory, RvC_Transfers, RvC_Alu
  <1>2. \A r \in Rv64C \cup Rv32CF \cup RvCD \cup Rv32C : "none" \notin r.ops
    BY DEF Rv64C, Rv32CF, RvCD, Rv32C
  <1>3. \A r \in ReservedW \cup AmoW \cup ReservedD \cup AmoD : "none" \notin r.ops
    BY AtomicRows DEF AtomicsW, AtomicsD
  <1>4. \A r \in RvI_Transfers \cup RvI_Memory \cup Rv64I \cup RvF : "none" \notin r.ops
    BY DEF RvI_Transfers, RvI_Memory, Rv64I, RvF
  <1>5. \A r \in RvI_Upper \cup RvI_Alu \cup RvI_System : "none" \notin r.ops
    BY DEF RvI_Upper, RvI_Alu, RvI_System
  <1>6. \A r \in FZfinxArith \cup FZfinxRest \cup Rv64F : "none" \notin r.ops
    BY DEF FZfinxArith, FZfinxRest, Rv64F
  <1>7. \A r \in RvD_Arith \cup RvD_Rest \cup Rv64D : "none" \notin r.ops
    BY DEF RvD_Arith, RvD_Rest, Rv64D
  <1>8. \A r \in Zifencei \cup ZicsrFlags \cup ZicsrAccess \cup Zbs \cup Rocc \cup Ill : "none" \notin r.ops
    BY DEF Zifencei, ZicsrFlags, ZicsrAccess, Zbs, Rocc, Ill
  <1>9. \A r \in Rv32B_Binary \cup Rv32B_Mixed \cup Rv32B_Rest : "none" \notin r.ops
    BY DEF Rv32B_Binary, Rv32B_Mixed, Rv32B_Rest
  <1>10. \A r \in RvM \cup Rv32Zpn \cup Rv64M \cup Zbkb \cup Zbkb64 \cup Zbkc \cup Zbkx : "none" \notin r.ops
    BY DEF RvM, Rv32Zpn, Rv64M, Zbkb, Zbkb64, Zbkc, Zbkx, Binary
  <1>11. \A r \in Zk64 \cup Zk : "none" \notin r.ops
    BY DEF Zk64, Zk, Binary, Unary
  <1> SUFFICES ASSUME NEW e \in DOMAIN INSTRUCTION_FORMATS, NEW r \in INSTRUCTION_FORMATS[e]
               PROVE  "none" \notin r.ops
    BY DEF KnownRows
  <1> QED
    BY <1>1, <1>2, <1>3, <1>4, <1>5, <1>6, <1>7, <1>8, <1>9, <1>10, <1>11 DEF INSTRUCTION_FORMATS

LEMMA BlankIsNoName == Blank \notin AllNames
  <1> SUFFICES ASSUME NEW e \in Extensions, Blank \in NamesOf[e] PROVE FALSE
    BY DEF AllNames
  <1>1. PICK n \in Named(INSTRUCTION_FORMATS[e]) : Blank = <<n[2], n[3]>>
    BY DEF NamesOf
  <1>2. n[1] \in KnownRows /\ "none" \in n[1].ops
    BY <1>1, NamedRow DEF Blank, KnownRows, Extensions
  <1> QED BY <1>2, NoneIsNoName

\* A branch has a label, whatever is asked about it.
LEMMA BranchLabels ==
    ASSUME NEW name \in AllNames, Category(name) = "BRANCH"
    PROVE  HasLabel(name)
  <1>1. CategoryLookup(name[1], name[2]) = "BRANCH"
    BY DEF Category, Categories
  <1>2. FoundRows(name[1], name[2]) \subseteq KnownRows
    BY DEF FoundRows, KnownRows
  <1>3. PICK r \in FoundRows(name[1], name[2]) : r.cat = "BRANCH"
    BY <1>1 DEF CategoryLookup, Unknown
  <1>4. "LABEL" \in ToSet(r.text)
    BY <1>2, <1>3, AllRows DEF RowFact
  <1>5. "LABEL" \in VariablesLookup(name[1], name[2])
    BY <1>3, <1>4 DEF VariablesLookup
  <1> QED BY <1>5 DEF HasLabel, Labelling

\* What moves control or memory has a category the tests of process_content see, in every
\* row it is in.
Moving == TransferOps \cup LoadStoreOps
Seen == MemoryLike \cup {"JUMP", "BRANCH"}
Tested(R) == \A r \in R : r.cat \in Seen \/ r.ops \cap Moving = {}

LEMMA MovingTested == Tested(KnownRows)
  <1> USE DEF Tested, Seen, MemoryLike, Moving, TransferOps, LoadStoreOps, Loads, Stores, Row,
          Offset, Arith
  <1>1. Tested(Zifencei \cup ZicsrFlags \cup ZicsrAccess \cup Zbs)
    BY DEF Zifencei, ZicsrFlags, ZicsrAccess, Zbs
  <1>2. Tested(Rv32B_Binary \cup Rv32B_Mixed \cup Rv32B_Rest)
    BY DEF Rv32B_Binary, Rv32B_Mixed, Rv32B_Rest
  <1>3. Tested(RvI_Upper \cup RvI_Transfers \cup RvI_Memory)
    BY DEF RvI_Upper, RvI_Transfers, RvI_Memory
  <1>4. Tested(RvI_Alu \cup RvI_System)
    BY DEF RvI_Alu, RvI_System
  <1>5. Tested(Rv64I)
    BY DEF Rv64I
  <1>6. Tested(FZfinxArith \cup FZfinxRest)
    BY DEF FZfinxArith, FZfinxRest
  <1>7. Tested(RvF \cup Rv64F)
    BY DEF RvF, Rv64F
  <1>8. Tested(RvD_Arith \cup RvD_Rest \cup Rv64D)
    BY DEF RvD_Arith, RvD_Rest, Rv64D
  <1>9. Tested(RvC_Memory \cup RvC_Transfers \cup RvC_Alu)
    BY DEF RvC_Memory, RvC_Transfers, RvC_Alu
  <1>10. Tested(Rv64C \cup Rv32CF \cup RvCD \cup Rv32C)
    BY DEF Rv64C, Rv32CF, RvCD, Rv32C
  <1>11. Tested(RvM \cup Rv32Zpn \cup Rv64M \cup Rocc \cup Ill)
    BY DEF RvM, Rv32Zpn, Rv64M, Rocc, Ill, Binary
  <1>12. Tested(ReservedW \cup ReservedD)
    BY AddressRow DEF ReservedW, ReservedD
  <1>13. Tested(AmoW \cup AmoD)
    BY AddressRow DEF AmoW, AmoD
  <1>14. Tested(Zbkb \cup Zbkb64 \cup Zbkc \cup Zbkx)
    BY DEF Zbkb, Zbkb64, Zbkc, Zbkx, Binary
  <1>15. Tested(Zk64 \cup Zk)
    BY DEF Zk64, Zk, Binary, Unary
  <1> HIDE DEF Seen, Moving
  <1> DEFINE Fine(r) == r.cat \in Seen \/ r.ops \cap Moving = {}
  <1> SUFFICES ASSUME NEW e \in DOMAIN INSTRUCTION_FORMATS, NEW r \in INSTRUCTION_FORMATS[e]
               PROVE  Fine(r)
    BY DEF KnownRows
  <1>16. \A R : Tested(R) => \A q \in R : Fine(q)
    OBVIOUS
  <1> HIDE DEF Fine, Tested
  <1> QED
    BY <1>1, <1>2, <1>3, <1>4, <1>5, <1>6, <1>7, <1>8, <1>9, <1>10, <1>11, <1>12, <1>13, <1>14,
       <1>15, <1>16 DEF INSTRUCTION_FORMATS

\* So the tests of process_content see whatever moves control or memory, if the lookup
\* finds it at all; an empty line moves nothing.
LEMMA MovesAreSeen ==
    /\ Blank[1] \notin Moving
    /\ \A name \in Found : name[1] \in Moving => NeedsNoValidation(name)
  <1>1. Blank[1] \notin Moving
    BY DEF Blank, Moving, TransferOps, LoadStoreOps, Loads, Stores
  <1>2. ASSUME NEW name \in Found, name[1] \in Moving PROVE NeedsNoValidation(name)
    <2>1. FoundRows(name[1], name[2]) # {} /\ FoundRows(name[1], name[2]) \subseteq KnownRows
      BY DEF Found, FoundRows, KnownRows
    <2>2. \A r \in FoundRows(name[1], name[2]) : r.cat \in Seen
      <3> SUFFICES ASSUME NEW r \in FoundRows(name[1], name[2]) PROVE r.cat \in Seen
        OBVIOUS
      <3>1. name[1] \in r.ops
        BY DEF FoundRows
      <3> QED BY <1>2, <2>1, <3>1, MovingTested DEF Tested
    <2>3. CategoryLookup(name[1], name[2]) \in Seen
      BY <2>1, <2>2 DEF CategoryLookup
    <2>4. name \in AllNames
      BY DEF Found
    <2> QED BY <2>3, <2>4 DEF Category, Categories, NeedsNoValidation, Seen
  <1> QED BY <1>1, <1>2

\* Neither an empty line nor what replaces an instruction is a transfer or an access.
LEMMA Insensitive ==
    /\ ~NeedsNoValidation(Blank)
    /\ \A name \in AllNames : MayReplace(name) => ~NeedsNoValidation(name)
  <1>1. ~NeedsNoValidation(Blank)
    BY BlankIsNoName DEF NeedsNoValidation, HasLabel, Labelling, Category, Unknown, MemoryLike
  <1>2. ASSUME NEW name \in AllNames, MayReplace(name) PROVE ~NeedsNoValidation(name)
    BY <1>2, BranchLabels DEF MayReplace, NeedsNoValidation
  <1> QED BY <1>1, <1>2

\* The names and the lines of a text.
WrittenOps == {"beq", "bne", "li", "la", "addi", "auipc", "jalr"}
LineNames == AllNames \cup {Blank} \cup {<<op, "">> : op \in MutOps \cup WrittenOps}
LabelNames == {"fwd_0", "fwd_1", "loop_0", "x"}
LineTargets == LabelNames \cup {"none", "ahead", "here"}
MLines == [labels : Seq(LabelNames), name : LineNames, target : LineTargets, fresh : BOOLEAN]

\* The labels of a text: at most one before a line, none twice, each target there.
WellLabelled(text) ==
    /\ \A i \in DOMAIN text : Len(text[i].labels) <= 1
    /\ \A i, j \in DOMAIN text :
          text[i].labels # <<>> /\ text[i].labels = text[j].labels => i = j
    /\ \A i \in DOMAIN text :
          \/ text[i].target \in {"none", "ahead", "here"}
          \/ \E j \in DOMAIN text : text[j].labels = <<text[i].target>>

LEMMA LinesOfSeeds ==
    /\ \A op \in MutOps \cup WrittenOps : Simple(op) \in MLines
    /\ \A label \in LabelNames : Mark(label) \in MLines
    /\ \A op \in {"beq", "bne", "la"} : \A t \in LineTargets : MLine(<<>>, <<op, "">>, t) \in MLines
    /\ \A op \in MutOps : MLine(<<"x">>, <<op, "">>, "none") \in MLines
  <1> USE EmptySeq DEF MLines, MLine, Simple, Mark, LineNames, LabelNames, LineTargets
  <1>1. \A op \in MutOps \cup WrittenOps : Simple(op) \in MLines
    OBVIOUS
  <1>2. \A label \in LabelNames : Mark(label) \in MLines
    OBVIOUS
  <1>3. \A op \in {"beq", "bne", "la"} : \A t \in LineTargets : MLine(<<>>, <<op, "">>, t) \in MLines
    BY DEF WrittenOps
  <1>4. \A op \in MutOps : MLine(<<"x">>, <<op, "">>, "none") \in MLines
    <2>1. <<"x">> \in Seq(LabelNames)
      OBVIOUS
    <2> QED BY <2>1
  <1> QED BY <1>1, <1>2, <1>3, <1>4

LEMMA ShortLabels ==
    /\ \A s : s = <<>> => Len(s) <= 1
    /\ \A s, label : s = <<label>> => Len(s) <= 1 /\ s # <<>>
  <1>1. Len(<<>>) = 0
    OBVIOUS
  <1>2. \A label : Len(<<label>>) = 1 /\ <<label>> # <<>>
    OBVIOUS
  <1>3. 0 <= 1 /\ 1 <= 1
    OBVIOUS
  <1> QED BY <1>1, <1>2, <1>3, Zenon

LEMMA OneLabel ==
    ASSUME NEW n \in Nat, NEW text, DOMAIN text = 1..n, NEW m \in 1..n, NEW label,
           text[m].labels = <<label>>, \A i \in 1..n : i # m => text[i].labels = <<>>,
           \A i \in 1..n : text[i].target \in {"none", "ahead", "here", label}
    PROVE  WellLabelled(text)
  <1>1. \A i \in 1..n : i = m \/ i # m
    OBVIOUS
  <1>2. \A i \in 1..n : text[i].labels # <<>> => i = m
    OBVIOUS
  <1>3. \A i \in 1..n : Len(text[i].labels) <= 1
    BY <1>1, ShortLabels, Zenon
  <1>4. \A i \in 1..n : \/ text[i].target \in {"none", "ahead", "here"}
                       \/ \E j \in 1..n : text[j].labels = <<text[i].target>>
    <2>1. \A i \in 1..n : text[i].target = label => text[m].labels = <<text[i].target>>
      OBVIOUS
    <2> QED BY <2>1
  <1> QED BY <1>2, <1>3, <1>4, Zenon DEF WellLabelled

\* What ReadSeed puts into seed.
LEMMA SeedsAreLines ==
    ASSUME NEW op \in MutOps, NEW text \in SeedTexts(Simple(op))
    PROVE  text \in Seq(MLines) /\ WellLabelled(text) /\ text # <<>>
  <1> DEFINE b == Simple(op)
             B(o, t) == MLine(<<>>, <<o, "">>, t)
  <1>1. /\ b \in MLines /\ b.labels = <<>> /\ b.target = "none"
        /\ MLine(<<"x">>, b.name, "none") \in MLines
        /\ MLine(<<"x">>, b.name, "none").labels = <<"x">>
        /\ MLine(<<"x">>, b.name, "none").target = "none"
    BY LinesOfSeeds DEF Simple, MLine
  <1>2. \A o \in WrittenOps : /\ Simple(o) \in MLines /\ Simple(o).labels = <<>>
                              /\ Simple(o).target = "none"
    BY LinesOfSeeds DEF Simple, MLine
  <1>3. \A t \in LabelNames : /\ Mark(t) \in MLines /\ Mark(t).labels = <<t>>
                          /\ Mark(t).target = "none"
    BY LinesOfSeeds DEF Mark, MLine
  <1>4. \A o \in {"beq", "bne", "la"} : \A t \in LineTargets :
           B(o, t) \in MLines /\ B(o, t).labels = <<>> /\ B(o, t).target = t
    BY LinesOfSeeds DEF MLine
  <1>5. /\ text \in {<<B("beq", t), b, b, Mark("fwd_0")>> : t \in {"ahead", "fwd_0"}}
        \/ text = <<Simple("li"), Mark("loop_0"), b, Simple("addi"), B("bne", "loop_0")>>
        \/ text = <<B("beq", "fwd_0"), b, Mark("fwd_0"), B("beq", "ahead"), b, Mark("fwd_1")>>
        \/ text = <<Simple("auipc"), Simple("addi"), Simple("jalr"), b, Mark("fwd_0")>>
        \/ text = <<B("la", "fwd_0"), Simple("jalr"), b, b, Mark("fwd_0")>>
        \/ text = <<MLine(<<"x">>, b.name, "none"), b, B("bne", "x")>>
    BY Zenon DEF SeedTexts
  <1> HIDE DEF b, B
  <1> USE DEF WrittenOps, LabelNames, LineTargets
  <1>6. CASE text \in {<<B("beq", t), b, b, Mark("fwd_0")>> : t \in {"ahead", "fwd_0"}}
    <2>1. PICK t \in {"ahead", "fwd_0"} : text = <<B("beq", t), b, b, Mark("fwd_0")>>
      BY <1>6
    <2>2. text \in Seq(MLines) /\ DOMAIN text = 1..4 /\ text # <<>>
      BY <2>1, <1>1, <1>2, <1>3, <1>4
    <2>3. /\ text[1].labels = <<>> /\ text[1].target = t
          /\ text[2].labels = <<>> /\ text[2].target = "none"
          /\ text[3].labels = <<>> /\ text[3].target = "none"
          /\ text[4].labels = <<"fwd_0">> /\ text[4].target = "none"
      BY <2>1, <1>1, <1>2, <1>3, <1>4
    <2>4. 4 \in 1..4 /\ 4 \in Nat /\ \A i \in 1..4 :
                        /\ i # 4 => text[i].labels = <<>>
                        /\ text[i].target \in {"none", "ahead", "here", "fwd_0"}
      BY <2>3
    <2> QED BY <2>2, <2>3, <2>4, OneLabel, Zenon
  <1>7. CASE text = <<Simple("li"), Mark("loop_0"), b, Simple("addi"), B("bne", "loop_0")>>
    <2>2. text \in Seq(MLines) /\ DOMAIN text = 1..5 /\ text # <<>>
      BY <1>7, <1>1, <1>2, <1>3, <1>4
    <2>3. /\ text[1].labels = <<>> /\ text[1].target = "none"
          /\ text[2].labels = <<"loop_0">> /\ text[2].target = "none"
          /\ text[3].labels = <<>> /\ text[3].target = "none"
          /\ text[4].labels = <<>> /\ text[4].target = "none"
          /\ text[5].labels = <<>> /\ text[5].target = "loop_0"
      BY <1>7, <1>1, <1>2, <1>3, <1>4
    <2>4. 2 \in 1..5 /\ 5 \in Nat /\ text[2].labels = <<"loop_0">>
      BY <2>3
    <2>5. \A i \in 1..5 : i # 2 => text[i].labels = <<>>
      BY <2>3
    <2>6. \A i \in 1..5 : text[i].target \in {"none", "ahead", "here", "loop_0"}
      BY <2>3
    <2>7. DOMAIN text = 1..5
      BY <2>2
    <2> HIDE <2>2, <2>3, <1>7
    <2>8. WellLabelled(text)
      BY <2>4, <2>5, <2>6, <2>7, OneLabel
    <2> QED BY <2>2, <2>8
  <1>8. CASE text = <<B("beq", "fwd_0"), b, Mark("fwd_0"), B("beq", "ahead"), b, Mark("fwd_1")>>
    <2>2. text \in Seq(MLines) /\ DOMAIN text = 1..6 /\ text # <<>>
      BY <1>8, <1>1, <1>2, <1>3, <1>4
    <2>3. /\ text[1].labels = <<>> /\ text[1].target = "fwd_0"
          /\ text[2].labels = <<>> /\ text[2].target = "none"
          /\ text[3].labels = <<"fwd_0">> /\ text[3].target = "none"
          /\ text[4].labels = <<>> /\ text[4].target = "ahead"
          /\ text[5].labels = <<>> /\ text[5].target = "none"
          /\ text[6].labels = <<"fwd_1">> /\ text[6].target = "none"
      BY <1>8, <1>1, <1>2, <1>3, <1>4
    <2>4. \A i \in 1..6 : Len(text[i].labels) <= 1
      <3>1. \A i \in 1..6 : i \in {1, 2, 4, 5} \/ i = 3 \/ i = 6
        OBVIOUS
      <3>2. \A i \in {1, 2, 4, 5} : text[i].labels = <<>>
        BY <2>3
      <3> QED BY <2>3, <3>1, <3>2, ShortLabels, Zenon
    <2>5. \A i, j \in 1..6 :
             text[i].labels # <<>> /\ text[i].labels = text[j].labels => i = j
      <3>1. <<"fwd_0">> # <<"fwd_1">> /\ <<"fwd_0">> # <<>> /\ <<"fwd_1">> # <<>>
        OBVIOUS
      <3>2. \A i \in 1..6 : i \notin {3, 6} => text[i].labels = <<>>
        BY <2>3
      <3> QED BY <2>3, <3>1, <3>2
    <2>6. 3 \in 1..6 /\ \A i \in 1..6 : text[i].target \in {"none", "ahead", "here", "fwd_0"}
      BY <2>3
    <2> QED BY <2>2, <2>3, <2>4, <2>5, <2>6, Zenon DEF WellLabelled
  <1>9. CASE text = <<Simple("auipc"), Simple("addi"), Simple("jalr"), b, Mark("fwd_0")>>
    <2>2. text \in Seq(MLines) /\ DOMAIN text = 1..5 /\ text # <<>>
      BY <1>9, <1>1, <1>2, <1>3, <1>4
    <2>3. /\ text[1].labels = <<>> /\ text[1].target = "none"
          /\ text[2].labels = <<>> /\ text[2].target = "none"
          /\ text[3].labels = <<>> /\ text[3].target = "none"
          /\ text[4].labels = <<>> /\ text[4].target = "none"
          /\ text[5].labels = <<"fwd_0">> /\ text[5].target = "none"
      BY <1>9, <1>1, <1>2, <1>3, <1>4
    <2>4. 5 \in 1..5 /\ 5 \in Nat /\ \A i \in 1..5 :
                        /\ i # 5 => text[i].labels = <<>>
                        /\ text[i].target \in {"none", "ahead", "here", "fwd_0"}
      BY <2>3
    <2> QED BY <2>2, <2>3, <2>4, OneLabel, Zenon
  <1>10. CASE text = <<B("la", "fwd_0"), Simple("jalr"), b, b, Mark("fwd_0")>>
    <2>2. text \in Seq(MLines) /\ DOMAIN text = 1..5 /\ text # <<>>
      BY <1>10, <1>1, <1>2, <1>3, <1>4
    <2>3. /\ text[1].labels = <<>> /\ text[1].target = "fwd_0"
          /\ text[2].labels = <<>> /\ text[2].target = "none"
          /\ text[3].labels = <<>> /\ text[3].target = "none"
          /\ text[4].labels = <<>> /\ text[4].target = "none"
          /\ text[5].labels = <<"fwd_0">> /\ text[5].target = "none"
      BY <1>10, <1>1, <1>2, <1>3, <1>4
    <2>4. 5 \in 1..5 /\ 5 \in Nat /\ \A i \in 1..5 :
                        /\ i # 5 => text[i].labels = <<>>
                        /\ text[i].target \in {"none", "ahead", "here", "fwd_0"}
      BY <2>3
    <2> QED BY <2>2, <2>3, <2>4, OneLabel, Zenon
  <1>11. CASE text = <<MLine(<<"x">>, b.name, "none"), b, B("bne", "x")>>
    <2>2. text \in Seq(MLines) /\ DOMAIN text = 1..3 /\ text # <<>>
      BY <1>11, <1>1, <1>2, <1>3, <1>4
    <2>3. /\ text[1].labels = <<"x">> /\ text[1].target = "none"
          /\ text[2].labels = <<>> /\ text[2].target = "none"
          /\ text[3].labels = <<>> /\ text[3].target = "x"
      BY <1>11, <1>1, <1>2, <1>3, <1>4
    <2>4. 1 \in 1..3 /\ 3 \in Nat /\ text[1].labels = <<"x">>
      BY <2>3
    <2>5. \A i \in 1..3 : i # 1 => text[i].labels = <<>>
      BY <2>3
    <2>6. \A i \in 1..3 : text[i].target \in {"none", "ahead", "here", "x"}
      BY <2>3
    <2>7. DOMAIN text = 1..3
      BY <2>2
    <2> HIDE <2>2, <2>3, <1>11
    <2>8. WellLabelled(text)
      BY <2>4, <2>5, <2>6, <2>7, OneLabel
    <2> QED BY <2>2, <2>8
  <1> QED BY <1>5, <1>6, <1>7, <1>8, <1>9, <1>10, <1>11


\* The files a worker has open, and how far it is.
MutShape ==
    /\ seed \in Seq(MLines) /\ WellLabelled(seed) /\ mutated \in Seq(MLines)
    /\ at \in 0..(Len(seed) + 1)
    /\ origin \in Seq(Nat) /\ Len(origin) = Len(mutated)
    /\ at = 0 => seed = <<>> /\ mutated = <<>> /\ origin = <<>>
    /\ at = 0 => ~checked
    /\ increase_queue \subseteq AllNames /\ decrease_queue \subseteq AllNames
    /\ missing_ext \subseteq AllNames

\* What a line becomes: e is written for l, or nothing is.
Rewrites(l, e) ==
    /\ e \in MLines
    /\ checked => /\ Moves(e) => Bare(e) = Bare(l)
                  /\ HasLabel(l.name) => Bare(e) = Bare(l)
    /\ l.labels = <<>> => e.labels = <<>>
    /\ l.name = Blank => e = l
    /\ e.target \in {l.target, "here", "none"}
Omits(l) == ~HasLabel(l.name) /\ l.name # Blank
LineBecomes ==
    \/ /\ \E e : mutated' = Append(mutated, e) /\ Rewrites(seed[at], e)
       /\ origin' = Append(origin, at)
    \/ UNCHANGED <<mutated, origin>> /\ Omits(seed[at])

LEMMA LabelledLine ==
    ASSUME NEW l \in MLines, NEW new \in MLines
    PROVE  /\ Labelled(l, new) \in MLines
           /\ Bare(Labelled(l, new)) = Bare(new)
           /\ Labelled(l, new).name = new.name /\ Labelled(l, new).target = new.target
           /\ l.labels = <<>> /\ new.labels = <<>> => Labelled(l, new).labels = <<>>
  <1>1. l.labels \in Seq(LabelNames) /\ new.labels \in Seq(LabelNames)
    BY DEF MLines
  <1>2. l.labels \o new.labels \in Seq(LabelNames)
    BY <1>1
  <1>3. Labelled(l, new) = [new EXCEPT !.labels = l.labels \o new.labels]
    BY DEF Labelled
  <1>4. l.labels = <<>> /\ new.labels = <<>> => l.labels \o new.labels = <<>>
    BY ConcatEmptySeq, EmptySeq
  <1> QED BY <1>1, <1>2, <1>3, <1>4 DEF MLines, Bare

LEMMA FilledLine ==
    ASSUME NEW name \in AllNames, NEW target \in LineTargets
    PROVE  /\ Filled(name, target) \in MLines
           /\ Filled(name, target).name \in ({name} \cap Found) \cup {Blank}
           /\ Filled(name, target).labels = <<>> /\ Filled(name, target).target = target
  BY EmptySeq DEF Filled, MLine, MLines, LineNames

\* A line that is not a transfer or an access, or is not in a validated file, may be
\* rewritten with other operands, or replaced.
LEMMA FillRewrites ==
    ASSUME NEW l \in MLines, l.name \in AllNames, NEW name \in AllNames, NEW target,
           target \in {"none", "here", l.target},
           checked => ~NeedsNoValidation(name) /\ ~HasLabel(l.name),
           NEW new \in {l, Filled(name, target)}
    PROVE  Rewrites(l, Labelled(l, new))
  <1>1. target \in LineTargets
    BY DEF MLines, LineTargets
  <1>2. new \in MLines /\ (new = l \/ new = Filled(name, target))
    BY <1>1, FilledLine
  <1>3. new # l => new.labels = <<>> /\ new.target = target /\ new.name \in ({name} \cap Found) \cup {Blank}
    BY <1>1, <1>2, FilledLine
  <1>4. l.name # Blank
    BY BlankIsNoName
  <1>5. checked => (Moves(Labelled(l, new)) => Bare(new) = Bare(l))
    <2> SUFFICES ASSUME checked, new # l PROVE ~Moves(Labelled(l, new))
      OBVIOUS
    <2>1. Labelled(l, new).name \in ({name} \cap Found) \cup {Blank}
      BY <1>2, <1>3, LabelledLine
    <2> QED BY <2>1, MovesAreSeen DEF Moves, Moving
  <1>6. l.labels = <<>> => new.labels = <<>>
    BY <1>2, <1>3
  <1> QED BY <1>2, <1>3, <1>4, <1>5, <1>6, LabelledLine DEF Rewrites

LEMMA LineStep ==
    ASSUME MutShape, Keep \/ Increase \/ IncreaseValidated \/ Decrease \/ DecreaseMissing \/ Erase
    PROVE  at \in 1..Len(seed) /\ at' = at + 1 /\ UNCHANGED file /\ LineBecomes
  <1> DEFINE l == seed[at]
  <1>1. /\ at \in DOMAIN seed /\ at' = at + 1 /\ UNCHANGED file
        /\ \E k \in Range(seed) : k = l /\ MutateLine(k)
    BY DEF Keep, Increase, IncreaseValidated, Decrease, DecreaseMissing, Erase, MutateLine
  <1>2. at \in 1..Len(seed) /\ l \in MLines
    BY <1>1, LenProperties, ElementOfSeq DEF MutShape
  <1> HIDE DEF l
  <1>3. CASE Keep
    <2>1. mutated' = Append(mutated, l) /\ origin' = Append(origin, at)
      BY <1>3 DEF Keep, MutateLine, KeptLine, Emit, l
    <2> QED BY <1>1, <1>2, <2>1 DEF LineBecomes, Rewrites, l
  <1>4. CASE Increase \/ IncreaseValidated
    <2>1. /\ l.name \in increase_queue /\ (checked => ~NeedsNoValidation(l.name))
          /\ origin' = Append(origin, at)
          /\ \E new \in ModifyInc(l) : mutated' = Append(mutated, Labelled(l, new))
      BY <1>4 DEF Increase, IncreaseValidated, Validatable, MutateLine, Emit, l
    <2>2. l.name \in AllNames /\ (checked => ~HasLabel(l.name))
      BY <2>1 DEF MutShape, NeedsNoValidation
    <2>3. PICK new \in ModifyInc(l) : mutated' = Append(mutated, Labelled(l, new))
      BY <2>1
    <2>4. \E target : target \in {"none", "here", l.target} /\ new \in {l, Filled(l.name, target)}
      BY <2>3 DEF ModifyInc
    <2>5. Rewrites(l, Labelled(l, new))
      BY <1>2, <2>1, <2>2, <2>4, FillRewrites
    <2> QED BY <1>1, <1>2, <2>1, <2>3, <2>5 DEF LineBecomes, l
  <1>5. CASE Decrease \/ DecreaseMissing
    <2>1. /\ l.name \in decrease_queue /\ ~HasLabel(l.name)
          /\ \E names \in SUBSET {n \in AllNames : MayReplace(n)} : ReplaceBy(l, names)
      BY <1>5 DEF Decrease, DecreaseMissing, MutateLine, Replaceable, MutShape, l
    <2>2. PICK names \in SUBSET {n \in AllNames : MayReplace(n)} : ReplaceBy(l, names)
      BY <2>1
    <2>3. l.name \in AllNames /\ l.name # Blank
      BY <2>1, BlankIsNoName DEF MutShape
    <2>4. CASE names = {} /\ Drop
      BY <1>1, <1>2, <2>1, <2>3, <2>4 DEF LineBecomes, Omits, Drop, l
    <2>5. CASE \E name \in names : \E new \in ModifyDec(l, name) : Emit(Labelled(l, new))
      <3>0. PICK name \in names : \E new \in ModifyDec(l, name) : Emit(Labelled(l, new))
        BY <2>5
      <3>1. PICK new \in ModifyDec(l, name) :
               mutated' = Append(mutated, Labelled(l, new)) /\ origin' = Append(origin, at)
        BY <3>0 DEF Emit
      <3>2. name \in AllNames /\ ~NeedsNoValidation(name)
        BY <2>2, Insensitive
      <3>3. new \in {l, Filled(name, "none")}
        BY <3>1 DEF ModifyDec
      <3>4. Rewrites(l, Labelled(l, new))
        BY <1>2, <2>1, <2>3, <3>2, <3>3, FillRewrites
      <3> QED BY <1>1, <1>2, <3>1, <3>4 DEF LineBecomes, l
    <2> QED BY <2>2, <2>4, <2>5 DEF ReplaceBy
  <1>6. CASE Erase
    <2> DEFINE e == MLine(l.labels, Blank, "none")
    <2>1. /\ l.name \in decrease_queue /\ ~HasLabel(l.name)
          /\ mutated' = Append(mutated, e) /\ origin' = Append(origin, at)
      BY <1>6 DEF Erase, MutateLine, Replaceable, Emit, l
    <2>2. l.name # Blank
      BY <2>1, BlankIsNoName DEF MutShape
    <2>3. e \in MLines /\ e.name = Blank /\ e.labels = l.labels /\ e.target = "none"
      BY <1>2 DEF MLine, MLines, LineNames, LineTargets
    <2>4. ~Moves(e)
      BY <2>3, MovesAreSeen DEF Moves, Moving
    <2> HIDE DEF e
    <2>5. Rewrites(l, e)
      BY <2>1, <2>2, <2>3, <2>4 DEF Rewrites
    <2> QED BY <1>1, <1>2, <2>1, <2>5 DEF LineBecomes, l
  <1> QED BY <1>3, <1>4, <1>5, <1>6

LEMMA MutShapeStep == MutShape /\ [MutNext]_mvars => MutShape'
  <1> SUFFICES ASSUME MutShape, [MutNext]_mvars PROVE MutShape'
    OBVIOUS
  <1>1. CASE UNCHANGED mvars
    BY <1>1 DEF mvars, file, MutShape
  <1>2. CASE NextFile
    <2>1. WellLabelled(<<>>)
      BY DEF WellLabelled
    <2> QED BY <1>2, <2>1, EmptySeq DEF NextFile, MutShape
  <1>3. CASE ReadSeed
    <2>1. PICK op \in MutOps : seed' \in SeedTexts(Simple(op))
      BY <1>3 DEF ReadSeed, BodyLike
    <2>2. seed' \in Seq(MLines) /\ WellLabelled(seed')
      BY <2>1, SeedsAreLines
    <2>3. increase_queue' \subseteq AllNames /\ decrease_queue' \subseteq AllNames
      <3>1. PICK tie : /\ increase_queue' = IncreaseQueue(seed', tie)
                       /\ decrease_queue' = DecreaseQueue(seed', tie)
        BY <1>3 DEF ReadSeed
      <3> QED BY <3>1 DEF IncreaseQueue, DecreaseQueue, AllNames, Flagged
    <2>4. missing_ext' \subseteq AllNames /\ at' = 1 /\ UNCHANGED <<mutated, origin>>
      BY <1>3 DEF ReadSeed
    <2>5. Len(seed') \in Nat
      BY <2>2, LenProperties
    <2> QED BY <2>2, <2>3, <2>4, <2>5 DEF MutShape
  <1>4. CASE Keep \/ Increase \/ IncreaseValidated \/ Decrease \/ DecreaseMissing \/ Erase
    <2>1. at \in 1..Len(seed) /\ at' = at + 1 /\ UNCHANGED file /\ LineBecomes
      BY <1>4, LineStep
    <2>2. mutated' \in Seq(MLines) /\ origin' \in Seq(Nat) /\ Len(origin') = Len(mutated')
      <3>1. CASE UNCHANGED <<mutated, origin>>
        BY <3>1 DEF MutShape
      <3>2. CASE ~UNCHANGED <<mutated, origin>>
        <4>1. PICK e \in MLines : mutated' = Append(mutated, e) /\ origin' = Append(origin, at)
          BY <2>1, <3>2 DEF LineBecomes, Rewrites
        <4>2. at \in Nat
          BY <2>1
        <4> QED BY <4>1, <4>2, AppendProperties DEF MutShape
      <3> QED BY <3>1, <3>2
    <2>3. Len(seed) \in Nat
      BY LenProperties DEF MutShape
    <2> QED BY <2>1, <2>2, <2>3 DEF MutShape, file
  <1> QED BY <1>1, <1>2, <1>3, <1>4 DEF MutNext

LEMMA MutShapeInvariant == MutSpec => []MutShape
  <1>1. MutInit => MutShape
    <2>1. WellLabelled(<<>>)
      BY DEF WellLabelled
    <2> QED BY <2>1, EmptySeq DEF MutInit, MutShape
  <1> QED BY <1>1, MutShapeStep, PTL DEF MutSpec


\* Line by line: at most one for each of the seed, in its order.  With a validator no
\* transfer, load or store is new, no branch is lost.
InOrder ==
    /\ \A i \in DOMAIN mutated : origin[i] \in 1..(at - 1)
    /\ \A i, j \in DOMAIN mutated : i < j => origin[i] < origin[j]
Stays(p, i) == origin[i] = p /\ Bare(mutated[i]) = Bare(seed[p])
KeptSoFar ==
    checked =>
        /\ \A i \in DOMAIN mutated : Moves(mutated[i]) => Bare(mutated[i]) = Bare(seed[origin[i]])
        /\ \A p \in 1..(at - 1) : HasLabel(seed[p].name) => \E i \in DOMAIN mutated : Stays(p, i)

\* The line that is written last.
LEMMA LastLine ==
    ASSUME MutShape, NEW e \in MLines, mutated' = Append(mutated, e), origin' = Append(origin, at)
    PROVE  \E n \in Nat :
              /\ n \notin DOMAIN mutated /\ DOMAIN mutated' = DOMAIN mutated \cup {n}
              /\ mutated'[n] = e /\ origin'[n] = at
              /\ \A i \in DOMAIN mutated : /\ mutated'[i] = mutated[i] /\ origin'[i] = origin[i]
                                          /\ i \in Nat /\ i < n
  <1> DEFINE n == Len(mutated) + 1
  <1>1. /\ Len(mutated) \in Nat /\ DOMAIN mutated = 1..Len(mutated)
        /\ DOMAIN origin = 1..Len(mutated) /\ at \in Nat
    BY LenProperties DEF MutShape
  <1>2. /\ DOMAIN mutated' = 1..n /\ mutated'[n] = e
        /\ \A i \in 1..Len(mutated) : mutated'[i] = mutated[i]
    BY <1>1, AppendProperties, LenProperties DEF MutShape
  <1>3. origin'[n] = at /\ \A i \in 1..Len(mutated) : origin'[i] = origin[i]
    BY <1>1, AppendProperties, LenProperties DEF MutShape
  <1>4. /\ n \in Nat /\ n \notin 1..Len(mutated) /\ 1..n = 1..Len(mutated) \cup {n}
        /\ \A i \in 1..Len(mutated) : i \in Nat /\ i < n
    BY <1>1
  <1> HIDE DEF n
  <1> QED BY <1>1, <1>2, <1>3, <1>4, Zenon

LEMMA KeptStep ==
    MutShape /\ InOrder /\ KeptSoFar /\ [MutNext]_mvars => InOrder' /\ KeptSoFar'
  <1> SUFFICES ASSUME MutShape, InOrder, KeptSoFar, [MutNext]_mvars PROVE InOrder' /\ KeptSoFar'
    OBVIOUS
  <1>1. CASE UNCHANGED mvars
    BY <1>1 DEF mvars, file, InOrder, KeptSoFar, Stays
  <1>2. CASE NextFile \/ ReadSeed
    <2>1. DOMAIN mutated' = {}
      BY <1>2 DEF NextFile, ReadSeed, MutShape
    <2>2. InOrder'
      BY <2>1, Zenon DEF InOrder
    <2>3. NextFile => KeptSoFar'
      BY DEF NextFile, KeptSoFar
    <2>4. ASSUME ReadSeed PROVE KeptSoFar'
      <3>1. 1..(at' - 1) = {}
        BY <2>4 DEF ReadSeed
      <3> QED BY <2>1, <3>1, Zenon DEF KeptSoFar
    <2> QED BY <1>2, <2>2, <2>3, <2>4
  <1>3. CASE Keep \/ Increase \/ IncreaseValidated \/ Decrease \/ DecreaseMissing \/ Erase
    <2> DEFINE l == seed[at]
    <2>1. at \in 1..Len(seed) /\ at' = at + 1 /\ UNCHANGED file /\ LineBecomes
      BY <1>3, LineStep
    <2>2. /\ at \in Nat /\ at' - 1 = at /\ seed' = seed /\ checked' = checked
          /\ \A p \in 1..at : p \in 1..(at - 1) \/ p = at
          /\ \A p \in 1..(at - 1) : p \in 1..at /\ p < at
          /\ at \in 1..at
      BY <2>1, LenProperties DEF MutShape, file
    <2> HIDE DEF l
    <2>3. CASE UNCHANGED <<mutated, origin>> /\ Omits(l)
      <3>1. InOrder'
        BY <2>2, <2>3 DEF InOrder
      <3>2. KeptSoFar'
        <4>1. ~HasLabel(seed[at].name)
          BY <2>3 DEF Omits, l
        <4> QED BY <2>2, <2>3, <4>1, Zenon DEF KeptSoFar, Stays
      <3> QED BY <3>1, <3>2
    <2>4. CASE /\ \E e : mutated' = Append(mutated, e) /\ Rewrites(l, e)
               /\ origin' = Append(origin, at)
      <3>1. PICK e : mutated' = Append(mutated, e) /\ Rewrites(l, e)
        BY <2>4
      <3>2. /\ e \in MLines
            /\ checked => /\ Moves(e) => Bare(e) = Bare(l)
                          /\ HasLabel(l.name) => Bare(e) = Bare(l)
        BY <3>1 DEF Rewrites
      <3>3. PICK n \in Nat :
               /\ n \notin DOMAIN mutated /\ DOMAIN mutated' = DOMAIN mutated \cup {n}
               /\ mutated'[n] = e /\ origin'[n] = at
               /\ \A i \in DOMAIN mutated : /\ mutated'[i] = mutated[i] /\ origin'[i] = origin[i]
                                           /\ i \in Nat /\ i < n
        BY <2>4, <3>1, <3>2, LastLine
      <3>4. InOrder'
        <4>1. \A i \in DOMAIN mutated' : origin'[i] \in 1..(at' - 1)
          BY <2>2, <3>3 DEF InOrder
        <4>2. ASSUME NEW i \in DOMAIN mutated', NEW j \in DOMAIN mutated', i < j
              PROVE  origin'[i] < origin'[j]
          <5>1. CASE j \in DOMAIN mutated
            <6>1. i \in DOMAIN mutated
              BY <3>3, <4>2, <5>1
            <6> QED BY <3>3, <4>2, <5>1, <6>1 DEF InOrder
          <5>2. CASE j = n
            <6>1. i \in DOMAIN mutated
              BY <3>3, <4>2, <5>2
            <6> QED BY <2>2, <3>3, <5>2, <6>1 DEF InOrder
          <5> QED BY <3>3, <5>1, <5>2
        <4> QED BY <4>1, <4>2 DEF InOrder
      <3>5. KeptSoFar'
        <4> SUFFICES ASSUME checked
                     PROVE  /\ \A i \in DOMAIN mutated' :
                                  Moves(mutated'[i]) => Bare(mutated'[i]) = Bare(seed[origin'[i]])
                            /\ \A p \in 1..at : HasLabel(seed[p].name) =>
                                  \E i \in DOMAIN mutated' : Stays(p, i)'
          BY <2>2, Zenon DEF KeptSoFar, Stays
        <4>1. \A i \in DOMAIN mutated' :
                 Moves(mutated'[i]) => Bare(mutated'[i]) = Bare(seed[origin'[i]])
          BY <3>2, <3>3, Zenon DEF KeptSoFar, l
        <4>2. ASSUME NEW p \in 1..at, HasLabel(seed[p].name)
              PROVE  \E i \in DOMAIN mutated' : Stays(p, i)'
          <5>1. CASE p \in 1..(at - 1)
            <6>1. PICK i \in DOMAIN mutated : Stays(p, i)
              BY <4>2, <5>1 DEF KeptSoFar
            <6>2. Stays(p, i)'
              BY <2>2, <3>3, <6>1 DEF Stays
            <6> QED BY <3>3, <6>2
          <5>2. CASE p = at
            <6>1. seed'[p] = l /\ Bare(e) = Bare(l)
              BY <2>2, <3>2, <4>2, <5>2 DEF l
            <6>2. Stays(p, n)'
              BY <3>3, <5>2, <6>1 DEF Stays
            <6> QED BY <3>3, <6>2
          <5> QED BY <2>2, <5>1, <5>2
        <4> QED BY <4>1, <4>2
      <3> QED BY <3>4, <3>5
    <2> QED BY <2>1, <2>3, <2>4 DEF LineBecomes, l
  <1> QED BY <1>1, <1>2, <1>3 DEF MutNext

\* The lines of a mutated file stem from lines of its seed, each from one of its own and in
\* the seed's order.  With a validator every jump, branch, load and store in it (of the
\* architecture's, read-modify-writes excepted) is that line of the seed, operands included,
\* and every instruction with a label as operand is there (mutate_instructions.py
\* process_content).
THEOREM MutationKeepsTransfers == MutSpec => []TransfersKept
  <1>1. MutInit => InOrder /\ KeptSoFar
    <2>1. MutInit => DOMAIN mutated = {} /\ ~checked
      BY DEF MutInit
    <2> QED BY <2>1, Zenon DEF InOrder, KeptSoFar
  <1>2. MutShape /\ InOrder /\ KeptSoFar => TransfersKept
    <2> SUFFICES ASSUME MutShape, InOrder, KeptSoFar, Done PROVE TransfersKept
      BY DEF TransfersKept
    <2>1. at - 1 = Len(seed) /\ DOMAIN seed = 1..Len(seed)
      BY LenProperties DEF Done, MutShape
    <2> QED BY <2>1, Zenon DEF InOrder, KeptSoFar, Stays, TransfersKept
  <1> QED BY <1>1, <1>2, MutShapeInvariant, KeptStep, PTL DEF MutSpec

\* Where the labels of the lines passed are, for a text whose labels stand alone.
LabelsSoFar ==
    LabelsStandAlone =>
        /\ \A q \in DOMAIN mutated :
              /\ mutated[q].labels # <<>> =>
                    \E p \in 1..(at - 1) : mutated[q].labels = seed[p].labels
              /\ \/ mutated[q].target \in {"none", "ahead", "here"}
                 \/ \E p \in DOMAIN seed : mutated[q].target = seed[p].target
        /\ \A q, k \in DOMAIN mutated :
              mutated[q].labels # <<>> /\ mutated[q].labels = mutated[k].labels => q = k
        /\ \A p \in 1..(at - 1) :
              seed[p].labels # <<>> => \E q \in DOMAIN mutated : mutated[q].labels = seed[p].labels

LEMMA LabelsStep == MutShape /\ LabelsSoFar /\ [MutNext]_mvars => LabelsSoFar'
  <1> SUFFICES ASSUME MutShape, LabelsSoFar, [MutNext]_mvars PROVE LabelsSoFar'
    OBVIOUS
  <1>1. CASE UNCHANGED mvars
    BY <1>1 DEF mvars, file, LabelsSoFar, LabelsStandAlone
  <1>2. CASE NextFile \/ ReadSeed
    <2>1. mutated' = <<>> /\ at' \in {0, 1}
      <3>1. NextFile => mutated' = <<>> /\ at' = 0
        BY DEF NextFile
      <3>2. ReadSeed => mutated' = <<>> /\ at' = 1
        BY DEF ReadSeed, MutShape
      <3> QED BY <1>2, <3>1, <3>2
    <2>2. DOMAIN mutated' = {} /\ 1..(at' - 1) = {}
      <3>1. DOMAIN mutated' = {}
        BY <2>1
      <3>2. \A n \in {0, 1} : 1..(n - 1) = {}
        OBVIOUS
      <3> QED BY <2>1, <3>1, <3>2
    <2> QED BY <2>2, Zenon DEF LabelsSoFar
  <1>3. CASE Keep \/ Increase \/ IncreaseValidated \/ Decrease \/ DecreaseMissing \/ Erase
    <2> DEFINE l == seed[at]
               Old(q) == q \in DOMAIN mutated
    <2>1. at \in 1..Len(seed) /\ at' = at + 1 /\ UNCHANGED file /\ LineBecomes
      BY <1>3, LineStep
    <2>2. seed' = seed /\ at' - 1 = at /\ DOMAIN seed = 1..Len(seed)
      BY <2>1, LenProperties DEF file, MutShape
    <2>3. /\ 1..at = 1..(at - 1) \cup {at} /\ at \in DOMAIN seed
          /\ \A p \in 1..(at - 1) : p \in DOMAIN seed /\ p # at
      BY <2>1, <2>2, LenProperties DEF MutShape
    <2> SUFFICES ASSUME LabelsStandAlone PROVE LabelsSoFar'
      BY <2>2 DEF LabelsSoFar, LabelsStandAlone
    <2>4. l.labels # <<>> => l.name = Blank
      BY <2>3 DEF LabelsStandAlone
    <2>5. l.labels # <<>> => \A p \in 1..(at - 1) : seed[p].labels # l.labels
      BY <2>3 DEF MutShape, WellLabelled
    <2>6. CASE UNCHANGED <<mutated, origin>> /\ Omits(l)
      <3>1. l.labels = <<>>
        BY <2>4, <2>6 DEF Omits
      <3> QED BY <2>2, <2>3, <2>6, <3>1 DEF LabelsSoFar
    <2>7. CASE \E e : mutated' = Append(mutated, e) /\ Rewrites(l, e)
      <3>1. PICK e : mutated' = Append(mutated, e) /\ Rewrites(l, e)
        BY <2>7
      <3>2. /\ e \in MLines /\ e.labels = l.labels
            /\ e.target \in {l.target, "here", "none"}
        BY <2>4, <3>1 DEF Rewrites
      <3> DEFINE n == Len(mutated) + 1
      <3>3. /\ DOMAIN mutated' = DOMAIN mutated \cup {n} /\ n \notin DOMAIN mutated
            /\ \A q \in DOMAIN mutated : mutated'[q] = mutated[q]
            /\ mutated'[n] = e
        BY <3>1, <3>2, LenProperties, AppendProperties DEF MutShape
      <3> HIDE DEF n, l
      <3>4. ASSUME NEW q \in DOMAIN mutated'
            PROVE  /\ mutated'[q].labels # <<>> =>
                         \E p \in 1..at : mutated'[q].labels = seed[p].labels
                   /\ \/ mutated'[q].target \in {"none", "ahead", "here"}
                      \/ \E p \in DOMAIN seed : mutated'[q].target = seed[p].target
        <4>1. CASE q \in DOMAIN mutated
          BY <2>3, <3>3, <4>1 DEF LabelsSoFar
        <4>2. CASE q = n
          BY <2>3, <3>2, <3>3, <4>2 DEF l
        <4> QED BY <3>3, <4>1, <4>2
      <3>5. \A q \in DOMAIN mutated : l.labels # <<>> => mutated[q].labels # l.labels
        BY <2>5 DEF LabelsSoFar
      <3>6. ASSUME NEW q \in DOMAIN mutated', NEW k \in DOMAIN mutated',
                   mutated'[q].labels # <<>>, mutated'[q].labels = mutated'[k].labels
            PROVE  q = k
        <4>1. CASE q \in DOMAIN mutated /\ k \in DOMAIN mutated
          BY <3>3, <3>6, <4>1 DEF LabelsSoFar
        <4>2. CASE q = n \/ k = n
          BY <3>2, <3>3, <3>5, <3>6, <4>2
        <4> QED BY <3>3, <4>1, <4>2
      <3>7. ASSUME NEW p \in 1..at, seed[p].labels # <<>>
            PROVE  \E q \in DOMAIN mutated' : mutated'[q].labels = seed[p].labels
        <4>1. CASE p \in 1..(at - 1)
          BY <3>3, <3>7, <4>1 DEF LabelsSoFar
        <4>2. CASE p = at
          BY <3>2, <3>3, <4>2 DEF l
        <4> QED BY <2>3, <4>1, <4>2
      <3> QED BY <2>2, <3>4, <3>6, <3>7, Zenon DEF LabelsSoFar
    <2> QED BY <2>1, <2>6, <2>7 DEF LineBecomes
  <1> QED BY <1>1, <1>2, <1>3 DEF MutNext

\* Every label a mutated file refers to is defined in it exactly once
\* (mutate_instructions.py process_content, "Keep the section identifier").
THEOREM MutationKeepsReferences == MutSpec => []ReferencesResolve
  <1>1. MutInit => LabelsSoFar
    <2>1. MutInit => DOMAIN mutated = {} /\ 1..(at - 1) = {}
      BY DEF MutInit
    <2> QED BY <2>1, Zenon DEF LabelsSoFar
  <1>2. MutShape /\ LabelsSoFar => ReferencesResolve
    <2> SUFFICES ASSUME MutShape, LabelsSoFar, LabelsStandAlone, Done,
                        NEW l \in Range(mutated), l.target \notin {"none", "ahead", "here"}
                 PROVE  Cardinality(Definitions(mutated, l.target)) = 1
      BY DEF ReferencesResolve, LabelsOnce
    <2>1. at - 1 = Len(seed) /\ DOMAIN seed = 1..Len(seed)
      BY LenProperties DEF Done, MutShape
    <2>2. PICK p \in DOMAIN seed : seed[p].target = l.target
      BY DEF LabelsSoFar, Range
    <2>3. PICK j \in DOMAIN seed : seed[j].labels = <<l.target>>
      BY <2>2 DEF MutShape, WellLabelled
    <2> DEFINE only == <<l.target>>
    <2>o. only # <<>> /\ Len(only) = 1 /\ only[1] = l.target
      OBVIOUS
    <2> HIDE DEF only
    <2>4. PICK q \in DOMAIN mutated : mutated[q].labels = only
      <3>1. j \in 1..(at - 1) /\ seed[j].labels = only
        BY <2>1, <2>3 DEF only
      <3> QED BY <2>o, <3>1 DEF LabelsSoFar
    <2>5. ASSUME NEW k \in DOMAIN mutated, NEW i \in 1..2,
                 i <= Len(mutated[k].labels), mutated[k].labels[i] = l.target
          PROVE  k = q /\ i = 1
      <3>1. mutated[k].labels # <<>>
        BY <2>5
      <3>2. PICK m \in DOMAIN seed : mutated[k].labels = seed[m].labels
        BY <2>1, <3>1 DEF LabelsSoFar
      <3>3. mutated[k].labels \in Seq(LabelNames) /\ Len(mutated[k].labels) <= 1
        <4>1. seed[m] \in MLines
          BY ElementOfSeq, LenProperties DEF MutShape
        <4>2. seed[m].labels \in Seq(LabelNames)
          BY <4>1 DEF MLines
        <4>3. Len(seed[m].labels) <= 1
          BY DEF MutShape, WellLabelled
        <4> QED BY <3>2, <4>2, <4>3
      <3> DEFINE s == mutated[k].labels
      <3> HIDE DEF s
      <3>5. s \in Seq(LabelNames) /\ Len(s) <= 1 /\ i <= Len(s) /\ s[i] = l.target
        BY <2>5, <3>3 DEF s
      <3>6. i = 1 /\ Len(s) = 1
        <4>1. Len(s) \in Nat
          BY <3>5, LenProperties
        <4>2. i \in 1..2
          OBVIOUS
        <4>3. \A n \in Nat, k2 \in 1..2 : n <= 1 /\ k2 <= n => k2 = 1 /\ n = 1
          OBVIOUS
        <4> QED BY <3>5, <4>1, <4>2, <4>3, Zenon
      <3>7. s = only
        BY <2>o, <3>5, <3>6 DEF only
      <3>4. mutated[k].labels = only
        BY <3>7 DEF s
      <3> QED BY <2>4, <3>1, <3>4, <3>6 DEF LabelsSoFar
    <2>6. Definitions(mutated, l.target) = {<<q, 1>>}
      <3>1. \A x \in Definitions(mutated, l.target) : x = <<q, 1>>
        BY <2>5 DEF Definitions
      <3>2. <<q, 1>> \in Definitions(mutated, l.target)
        BY <2>4, <2>o DEF Definitions
      <3> QED BY <3>1, <3>2
    <2> QED BY <2>6, FS_Singleton
  <1> QED BY <1>1, <1>2, MutShapeInvariant, LabelsStep, PTL DEF MutSpec

=============================================================================
