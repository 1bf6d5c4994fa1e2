------------------------------ MODULE InstrGen ------------------------------
(* What generate_instructions puts into one slot of a seed: an instruction   *)
(* drawn from the tables, a loop, or a jump over a few instructions; and the *)
(* run of the compiled sequence on the simulated hart.                       *)
EXTENDS InstrDraw, JumpCompile, Profiles

CONSTANTS
    DrawProfiles,   \* bound: the profiles under which instructions are drawn
    BodyOps,        \* bound: the instructions bodies are drawn from
    MaxBody,        \* bound on the lines of a body; the code asks for 3..8
    MaxWords,       \* bound on the words of an expanded line; the assembler's is 8
    MaxIterations   \* bound on a loop's iterations; the code's is 8

ASSUME InstrGenAssumption ==
    /\ {"zero", "s11"} \subseteq IntRegs
    /\ DrawProfiles \subseteq DOMAIN ALLOWED_EXT_PROFILES
    /\ MaxBody \in 0..8 /\ MaxWords \in 1..8 /\ MaxIterations \in 1..8

VARIABLES
    phase,      \* "setup", "choose", "body", "compile", "run", "end" or "failed"
    profile,    \* the profile of the session
    kind,       \* "none", "plain", "forward", "indirect" or "loop"
    line,       \* the instruction drawn: the plain one, or the jump
    row,        \* the row it was drawn from
    body,       \* what matters of the lines of the body (middle_instrs, loop_body)
    guarded,    \* the register the body must leave alone, or "none"
    sizes,      \* per line of the body, its size in bytes
    pc,         \* where the run of the sequence is
    landed,     \* the last step took the jump
    iterations, \* what `li s11, n' loads
    counter,    \* the loop's register
    rounds      \* how often the decrement ran

slot == <<kind, line, row, guarded, iterations>>
run == <<pc, landed, counter, rounds>>
gvars == <<phase, profile, slot, body, sizes, run>>

-----------------------------------------------------------------------------
(* generate_forward_jump_instrs and generate_loop_body_instrs                *)
MEMORY_MODIFYING_CATEGORIES ==
    {"AMO", "AMO_LOAD", "AMO_STORE", "STORE", "STORE_SP", "FLOAT_STORE"}

\* The filter asks get_instruction_format, which knows nothing of an annotated atomic.
\* Mutant of Allowed: the categories that write memory are not looked up.
AllowedMemory(op, note) ==
    /\ "LABEL" \notin VariablesLookup(op, note)
    /\ CategoryLookup(op, note) \notin {"JUMP", "BRANCH"}
    /\ op \notin Compressed
Allowed(op, note) ==
    /\ "LABEL" \notin VariablesLookup(op, note)
    /\ CategoryLookup(op, note) \notin {"JUMP", "BRANCH"} \cup MEMORY_MODIFYING_CATEGORIES
    /\ op \notin Compressed

\* What a body can be drawn from, per profile: its extensions with a weight.
Rows(extensions) == UNION {INSTRUCTION_FORMATS[e] : e \in extensions}
ExtensionsOf(p) == Drawable(ALLOWED_EXT_PROFILES[p], SPECIAL_PROBABILITIES(p))
BodyRows == [p \in DrawProfiles |->
                {c \in Named(Rows(ExtensionsOf(p))) : c[2] \in BodyOps}]

\* What the later steps need of a line: its destination is the second word, with its
\* comma cut off.
Destination(l) == IF l.args = <<>> THEN "none" ELSE l.args[1][2]
BodyEntry(r, l) == [op |-> l.op, note |-> l.note, cat |-> r.cat, dest |-> Destination(l)]

\* The check for the protected register, after which the next attempt is made.
\* Mutant of KeepsGuarded: it is dropped.
KeepsAnything(entry) == TRUE
KeepsGuarded(entry) == entry.dest # guarded

-----------------------------------------------------------------------------
NoLine == Line("nop", "", "list", <<>>)
NoRow == CHOOSE r \in RvI_Upper : r.text = <<>>

GenInit ==
    /\ phase = "setup" /\ profile \in DOMAIN ALLOWED_EXT_PROFILES
    /\ kind = "none" /\ line = NoLine /\ row = NoRow /\ guarded = "none" /\ iterations = 0
    /\ body = <<>> /\ sizes = <<>> /\ pc = 0 /\ landed = FALSE /\ counter = 0 /\ rounds = 0

\* The weights are computed once per seed; a division by zero ends it.
Setup ==
    /\ phase = "setup"
    /\ phase' = (IF Remaining(ALLOWED_EXT_PROFILES[profile], SPECIAL_PROBABILITIES(profile)) = 0
                 THEN "failed" ELSE "choose")
    /\ UNCHANGED <<profile, slot, body, sizes, run>>

DirectTransfers == {"jal", "beq", "bne", "blt", "bge", "bltu", "bgeu"}
Choosing == phase = "choose" /\ profile \in DrawProfiles

\* The turns that come to nothing: an extension with compressed instructions only, a
\* jump when jumps are off.
Skipped == phase = "choose" /\ UNCHANGED gvars

\* A slot that is not a jump: any instruction of the profile that is not compressed.
Plain ==
    /\ Choosing
    /\ \E c \in Named(Rows(ExtensionsOf(profile))) :
          /\ c[2] \notin DirectTransfers \cup {"jalr"} \cup Compressed
          /\ row' = c[1] /\ line' \in NewInstr(c[1], c[2], c[3])
    /\ kind' = "plain" /\ phase' = "end"
    /\ UNCHANGED <<profile, guarded, iterations, body, sizes, run>>

\* A direct jump or branch over middle instructions; nothing is protected.  (Its
\* registers do not matter to where it goes: the first ones stand for all.)
ForwardJump ==
    /\ Choosing /\ "RV_I" \in ExtensionsOf(profile)
    /\ \E c \in Named(RvI_Transfers) :
          /\ c[2] \in DirectTransfers
          /\ row' = c[1]
          /\ line' = CHOOSE l \in NewInstr(c[1], c[2], c[3]) : TRUE
    /\ kind' = "forward" /\ phase' = "body"
    /\ UNCHANGED <<profile, guarded, iterations, body, sizes, run>>

\* jalr through a register the middle must leave alone.
SafeRegs == IntRegs \ {"zero", "sp", "gp", "tp"}
IndirectJump ==
    /\ Choosing /\ "RV_I" \in ExtensionsOf(profile)
    /\ guarded' \in SafeRegs
    /\ line' = Line("jalr", "", "offset", <<Reg0, Num(0), <<"x", guarded'>>>>)
    /\ row' = CHOOSE r \in RvI_Transfers : "jalr" \in r.ops
    /\ kind' = "indirect" /\ phase' = "body"
    /\ UNCHANGED <<profile, iterations, body, sizes, run>>

\* Half of the bne slots become a loop counted down in s11.
Loop ==
    /\ Choosing /\ "RV_I" \in ExtensionsOf(profile)
    /\ iterations' \in 1..MaxIterations
    /\ line' = Line("bne", "", "list", <<<<"x", "s11">>, Reg0, <<"w", "{LABEL}">>>>)
    /\ row' = CHOOSE r \in RvI_Transfers : "bne" \in r.ops
    /\ guarded' = "s11" /\ kind' = "loop" /\ phase' = "body"
    /\ UNCHANGED <<profile, body, sizes, run>>

\* One slot of a body gets a line that passes the check for the protected register.
BodyLine ==
    /\ phase = "body" /\ Len(body) < MaxBody
    /\ \E c \in BodyRows[profile] :
          /\ Allowed(c[2], c[3])
          /\ \E entry \in {BodyEntry(c[1], l) : l \in NewInstr(c[1], c[2], c[3])} :
                KeepsGuarded(entry) /\ body' = Append(body, entry)
    /\ UNCHANGED <<phase, profile, slot, sizes, run>>

\* The slots that are left stay empty: nothing of their extension is allowed, or every
\* attempt hit the protected register.
BodyDone ==
    /\ phase = "body" /\ phase' = "compile"
    /\ UNCHANGED <<profile, slot, body, sizes, run>>

\* _encode_sequence_flat: a line the fast encoder takes is one word; one it refuses
\* goes to the compiler, which expands `li' (main is assembled without compressed
\* instructions, so every word has four bytes).
SizesOf(entry) == IF entry.op = "li" THEN {4 * n : n \in 1..MaxWords} ELSE {4}
Compile ==
    /\ phase = "compile"
    /\ sizes' \in {s \in [DOMAIN body -> {4 * n : n \in 1..MaxWords}] :
                      \A i \in DOMAIN body : s[i] \in SizesOf(body[i])}
    /\ phase' = "run"
    /\ UNCHANGED <<profile, slot, body, run>>

\* Neither encoder nor compiler takes a line: the sequence is not run, and the label
\* is left to the assembler.
CompileFails ==
    /\ phase = "compile" /\ phase' = "end"
    /\ UNCHANGED <<profile, slot, body, sizes, run>>

-----------------------------------------------------------------------------
(* The run of the compiled words.  Loop: li, body, addi, bne.  Forward: jump,*)
(* middle.  Indirect: auipc, addi, jalr, middle.                             *)
HeadSize == IF kind = "indirect" THEN 12 ELSE 4
BodyEnd == HeadSize + Total(sizes)
SequenceEnd == IF kind = "loop" THEN BodyEnd + 8 ELSE BodyEnd
Start(i) == HeadSize + Sums(sizes)[i - 1]

\* The place the label marks in the text of the seed.
LabelAt == IF kind = "loop" THEN HeadSize ELSE BodyEnd

\* Where the hart goes from a branch or jump whose word holds this offset.
Taken(op, from, offset) ==
    from + (IF op = "jal" THEN JValue(JImm20(offset))
            ELSE BValue(BImm12Hi(offset), BImm12Lo(offset)))

InRun == phase = "run" /\ UNCHANGED <<phase, profile, slot, body, sizes>>

Prologue ==
    /\ InRun /\ pc = 0 /\ kind = "loop"
    /\ pc' = HeadSize /\ counter' = iterations /\ UNCHANGED <<landed, rounds>>

TakeForward ==
    /\ InRun /\ pc = 0 /\ kind = "forward"
    /\ pc' = Taken(line.op, pc, ForwardOffset(line.op, 4, sizes)) /\ landed' = TRUE
    /\ UNCHANGED <<counter, rounds>>

NotTaken ==
    /\ InRun /\ pc = 0 /\ kind = "forward" /\ line.op # "jal"
    /\ pc' = HeadSize /\ UNCHANGED <<landed, counter, rounds>>

TakeIndirect ==
    /\ InRun /\ pc = 0 /\ kind = "indirect"
    /\ pc' = LoadedAddress(pc, IndirectOffset(4, sizes)) /\ landed' = TRUE
    /\ UNCHANGED <<counter, rounds>>

\* A line of the body runs; one that writes the loop's register leaves anything in it.
RunBody ==
    /\ InRun /\ landed' = FALSE /\ UNCHANGED rounds
    /\ \E i \in DOMAIN body :
          /\ pc = Start(i) /\ pc' = pc + sizes[i]
          /\ counter' \in (IF kind = "loop" /\ body[i].dest = "s11"
                           THEN 0..MaxIterations ELSE {counter})

\* addi s11, s11, -1; then bne s11, zero back to the label.  (The bound on rounds
\* only matters to a loop that never ends.)
Decrement ==
    /\ InRun /\ kind = "loop" /\ pc = BodyEnd /\ rounds <= MaxIterations
    /\ counter' = counter - 1 /\ rounds' = rounds + 1
    /\ landed' = (counter' # 0)
    /\ pc' = (IF counter' # 0 THEN Taken("bne", BodyEnd + 4, BackwardOffset(sizes, 4))
              ELSE BodyEnd + 8)

RunEnds ==
    /\ phase = "run" /\ pc = SequenceEnd /\ phase' = "end" /\ landed' = FALSE
    /\ UNCHANGED <<profile, slot, body, sizes, pc, counter, rounds>>

\* The next turn of the loop of generate_instructions.
NextSlot ==
    /\ phase = "end" /\ phase' = "choose" /\ UNCHANGED profile
    /\ kind' = "none" /\ line' = NoLine /\ row' = NoRow /\ guarded' = "none"
    /\ iterations' = 0 /\ body' = <<>> /\ sizes' = <<>>
    /\ pc' = 0 /\ landed' = FALSE /\ counter' = 0 /\ rounds' = 0

GenNext ==
    \/ Setup \/ Skipped \/ Plain \/ ForwardJump \/ IndirectJump \/ Loop \/ BodyLine \/ BodyDone
    \/ Compile \/ CompileFails \/ Prologue \/ TakeForward \/ NotTaken \/ TakeIndirect
    \/ RunBody \/ Decrement \/ RunEnds \/ NextSlot

\* The simulator runs the words of a sequence one after the other.
GenRun == Prologue \/ TakeForward \/ NotTaken \/ TakeIndirect \/ RunBody \/ Decrement \/ RunEnds
GenSpec == GenInit /\ [][GenNext]_gvars /\ WF_gvars(GenRun)

-----------------------------------------------------------------------------
\* What the fast encoder makes of a drawn line is what the line says, or it refuses and
\* the compiler is asked: the simulator never runs other words than the seed's text has
\* (instruction_encoder.py encode; formats.py and sets.py agree on the operands).
EncodesExactly ==
    kind = "plain" => LET word == Encode(line)
                      IN  word = Refused \/ Faithful(row, line, word)

\* The bytes a load or store moves, by the architecture.
WidthOf(op) ==
    CASE op \in {"lb", "lbu", "sb"} -> 1 [] op \in {"lh", "lhu", "sh"} -> 2
      [] op \in {"lw", "lwu", "sw", "flw", "fsw"} -> 4 [] OTHER -> 8

\* A drawn load or store is aligned to its width and stays in [mem_region + 2048,
\* mem_region + 6143], t6 being mem_region + 4096 (memory_manager.py).
AccessInRegion ==
    row.cat \in MemoryCategories =>
        LET at == 4096 + line.args[2][2]
            width == WidthOf(line.op)
        IN  /\ line.args[3] = <<"x", "t6">> /\ at % width = 0
            /\ 2048 <= at /\ at + width - 1 <= 6143

\* A body never holds an instruction that writes memory, but for the annotated atomics,
\* which the filter's lookup does not know (generate_instrs.py MEMORY_MODIFYING_CATEGORIES).
OnlyAnnotatedSlipIn ==
    \A i \in DOMAIN body :
        body[i].cat \in MEMORY_MODIFYING_CATEGORIES \cup {"JUMP", "BRANCH"} => body[i].note # ""

\* Every profile yields weights to draw from: no division by zero, no negative weight,
\* not all zero (generate_instrs.py, `default_prob_for_remaining').
ProbabilitiesDefined ==
    LET weights == Weights(ALLOWED_EXT_PROFILES[profile], SPECIAL_PROBABILITIES(profile))
    IN  /\ phase # "failed"
        /\ \A i \in DOMAIN weights : weights[i] >= 0
        /\ \E i \in DOMAIN weights : weights[i] > 0

\* A jump that is taken lands where its label stands in the text, whatever the compiler
\* expanded in between (hybrid_encoder.py compile_*).
JumpLands == landed => pc = LabelAt

\* A loop runs as often as its `li' says: no line of its body touches the counter.
LoopRunsItsIterations ==
    phase = "run" /\ kind = "loop" /\ pc = SequenceEnd => rounds = iterations
=============================================================================
