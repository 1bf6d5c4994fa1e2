------------------------------ MODULE Encoder ------------------------------
(* The fast encoder of reg_analyzer/instruction_encoder.py: one line of      *)
(* assembly becomes the fields of one word, or is refused (ValueError) and   *)
(* goes to the compiler.                                                     *)
(*                                                                           *)
(* A line is its mnemonic, its ordering note, how it is written, and its     *)
(* operands in the order written.  An operand is tagged: <<"x", r>> and      *)
(* <<"f", r>> are registers, <<"i", n>> a number, <<"c", n>> the name of a   *)
(* CSR, <<"w", n>> any other word.  instr_dict.json is generated outside the *)
(* repository; its field lists are those sets.py repeats.                    *)
EXTENDS Integers, Sequences, SequencesExt, Functions, InstrTables, ImmFields

Line(op, note, form, args) == [op |-> op, note |-> note, form |-> form, args |-> args]

\* register_mapping.py
XPR_NAMES ==
    <<"zero", "ra", "sp", "gp", "tp", "t0", "t1", "t2", "s0", "s1", "a0", "a1", "a2", "a3",
      "a4", "a5", "a6", "a7", "s2", "s3", "s4", "s5", "s6", "s7", "s8", "s9", "s10", "s11",
      "t3", "t4", "t5", "t6">>
FPR_NAMES ==
    <<"ft0", "ft1", "ft2", "ft3", "ft4", "ft5", "ft6", "ft7", "fs0", "fs1", "fa0", "fa1",
      "fa2", "fa3", "fa4", "fa5", "fa6", "fa7", "fs2", "fs3", "fs4", "fs5", "fs6", "fs7",
      "fs8", "fs9", "fs10", "fs11", "ft8", "ft9", "ft10", "ft11">>
NumberIn(names, r) == (CHOOSE i \in DOMAIN names : names[i] = r) - 1

Loads == {"lb", "lh", "lw", "ld", "lbu", "lhu", "lwu", "flw", "fld"}
Stores == {"sb", "sh", "sw", "sd", "fsw", "fsd"}

Reg0 == <<"x", "zero">>
Num(n) == <<"i", n>>

\* parse_instruction: the operands in the order the fields will want them.
\* Mutant of ParsedOperands: stores are read like loads.
ParsedStoreAsLoad(line) ==
    CASE line.form = "offset" -> <<line.args[1], line.args[3], line.args[2]>>
      [] line.form = "address" /\ Len(line.args) = 3 ->
            <<line.args[1], line.args[3], line.args[2]>>
      [] OTHER -> line.args
ParsedOperands(line) ==
    CASE line.form = "offset" /\ line.op \in Stores ->
            <<line.args[3], line.args[1], line.args[2]>>
      [] line.form = "offset" /\ line.op \notin Stores ->
            <<line.args[1], line.args[3], line.args[2]>>
      [] line.form = "address" /\ Len(line.args) = 3 ->
            <<line.args[1], line.args[3], line.args[2]>>
      [] OTHER -> line.args

\* _preprocess_fence, for the only spelling the tables have: no operands.
FenceOperands == <<Num(0), Num(15), Num(15), Reg0, Reg0>>

\* _preprocess_amo and step 5 of encode: the operands fill the register fields in
\* order, and the suffix cut from the mnemonic fills aq and rl.
AmoOperands(fields, operands, note) ==
    LET registers(i) == Cardinality({j \in 1..i : fields[j] \notin {"aq", "rl"}})
    IN  [i \in DOMAIN fields |->
            CASE fields[i] = "aq" -> Num(IF note \in {"aq", "aqrl"} THEN 1 ELSE 0)
              [] fields[i] = "rl" -> Num(IF note \in {"rl", "aqrl"} THEN 1 ELSE 0)
              [] OTHER -> IF registers(i) <= Len(operands) THEN operands[registers(i)] ELSE Reg0]

RneConversions == {"fcvt.s.w", "fcvt.s.wu", "fcvt.s.l", "fcvt.s.lu", "fcvt.d.w", "fcvt.d.wu",
                   "fcvt.d.l", "fcvt.d.lu", "fcvt.s.d", "fcvt.d.s"}
ROUNDING_MODES == [rne |-> 0, rtz |-> 1, rdn |-> 2, rup |-> 3, rmm |-> 4, dyn |-> 7]

\* _preprocess_fp_rm: a named rounding mode becomes its number; a missing one is
\* put in the place of the rm field.
RoundingOperands(op, fields, operands) ==
    LET n == Len(operands)
        named == /\ n > Cardinality({i \in DOMAIN fields : fields[i] # "rm"})
                 /\ operands[n][1] = "w" /\ operands[n][2] \in DOMAIN ROUNDING_MODES
        given == IF named THEN Append(Front(operands), Num(ROUNDING_MODES[operands[n][2]]))
                 ELSE operands
        default == Num(IF op \in RneConversions THEN 0 ELSE 7)
    IN  IF n < Len(fields) THEN InsertAt(given, SelectInSeq(fields, LAMBDA f : f = "rm"), default)
        ELSE given

Preprocessed(line, fields) ==
    CASE line.op = "fence" -> FenceOperands
      [] "aq" \in ToSet(fields) -> AmoOperands(fields, ParsedOperands(line), line.note)
      [] "rm" \in ToSet(fields) -> RoundingOperands(line.op, fields, ParsedOperands(line))
      [] OTHER -> ParsedOperands(line)

\* Step 6 of encode: an immediate kept in two fields is handed to both.
IsSplit(fields) == fields \in {SType, BType}
Matched(fields, operands) ==
    IF Len(operands) = 3 /\ IsSplit(fields)
    THEN <<operands[3], operands[1], operands[2], operands[3]>> ELSE operands

Registers == {"rd", "rs1", "rs2", "rs3"}

\* How many values the field can hold, by arg_lut.csv; "imm40" is not in it.
FieldSize ==
    [imm12 |-> 4096, imm20 |-> 1048576, csr |-> 4096, shamtd |-> 64, shamtw |-> 32, zimm |-> 32,
     rnum |-> 16, rm |-> 8, fm |-> 16, pred |-> 16, succ |-> 16, aq |-> 2, rl |-> 2]

\* _encode_immediate_field and its callers in encode.
ImmediateValue(field, v) ==
    CASE field = "imm12hi" -> Imm12Hi(v)
      [] field = "imm12lo" -> Imm12Lo(v)
      [] field = "bimm12hi" -> BImm12Hi(v)
      [] field = "bimm12lo" -> BImm12Lo(v)
      [] field = "jimm20" -> JImm20(v)
      [] OTHER -> LowBits(v, FieldSize[field])

\* A register field takes a register name (_encode_register), an immediate field a
\* number (_parse_immediate); anything else is a ValueError.
Fits(field, operand) ==
    IF field \in Registers THEN operand[1] \in {"x", "f"}
    ELSE operand[1] = "i" /\ field # "imm40"
FieldValue(field, operand) ==
    CASE operand[1] = "x" -> NumberIn(XPR_NAMES, operand[2])
      [] operand[1] = "f" -> NumberIn(FPR_NAMES, operand[2])
      [] OTHER -> ImmediateValue(field, operand[2])

Refused == [refused |-> TRUE]

\* encode: the value of every field, or Refused.
Encode(line) ==
    IF ~InSets(line.op, "") THEN Refused
    ELSE LET fields == SetOf(line.op).fields
             operands == Matched(fields, Preprocessed(line, fields))
         IN  IF Len(operands) = Len(fields)
                /\ \A i \in DOMAIN fields : Fits(fields[i], operands[i])
             THEN [f \in ToSet(fields) |->
                      LET i == SelectInSeq(fields, LAMBDA g : g = f)
                      IN  FieldValue(f, operands[i])]
             ELSE Refused

-----------------------------------------------------------------------------
(* What the assembler makes of the same text: the row of the format tables   *)
(* names what each operand is.                                               *)
Plays(field) ==
    CASE field = "rd" -> {"RD", "FRD"}
      [] field = "rs1" -> {"RS1", "FRS1", "T6"}
      [] field = "rs2" -> {"RS2", "FRS2"}
      [] OTHER -> {"RS3", "FRS3"}
Written(row, line, field) ==
    LET at == {i \in DOMAIN row.text : row.text[i] \in Plays(field)}
    IN  IF at = {} THEN 0
        ELSE LET a == line.args[CHOOSE i \in at : TRUE]
             IN  NumberIn(IF a[1] = "x" THEN XPR_NAMES ELSE FPR_NAMES, a[2])
WrittenNumbers(line) == {line.args[i][2] : i \in {j \in DOMAIN line.args : line.args[j][1] = "i"}}

\* The word says what the text says: its registers, its number, its ordering and its
\* rounding mode (dynamic if spelled, else the assembler's choice for a conversion).
Faithful(row, line, word) ==
    /\ \A f \in Registers \cap DOMAIN word : word[f] = Written(row, line, f)
    /\ \A n \in WrittenNumbers(line) :
          \/ {"imm12hi", "imm12lo"} \subseteq DOMAIN word
             /\ SValue(word["imm12hi"], word["imm12lo"]) = n
          \/ "imm12" \in DOMAIN word /\ IValue(word["imm12"]) = n
          \/ \E f \in {"imm20", "shamtd", "shamtw", "rnum", "zimm"} \cap DOMAIN word : word[f] = n
    /\ "aq" \in DOMAIN word => /\ (word["aq"] = 1) <=> (line.note \in {"aq", "aqrl"})
                               /\ (word["rl"] = 1) <=> (line.note \in {"rl", "aqrl"})
    /\ "rm" \in DOMAIN word =>
          word["rm"] = (IF <<"w", "dyn">> \in ToSet(line.args) THEN 7 ELSE 0)
=============================================================================
