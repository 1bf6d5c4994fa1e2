----------------------------- MODULE InstrDraw -----------------------------
(* instr_generator/generator.py: the lines an instruction of the tables can  *)
(* be filled to.                                                             *)
(*                                                                           *)
(* A draw of a register, an immediate or an offset is arbitrary: the         *)
(* histories of register_history.py and the chances of the special values    *)
(* only weigh it.  Of a range of immediates the model takes a few values.    *)
EXTENDS Encoder

CONSTANTS
    IntRegs,        \* sample of reg_range (variables.py)
    FloatRegs,      \* sample of float_range
    Csrs            \* sample of csr_range without the blacklist

\* t5 and t6 are not in reg_range.
ASSUME InstrDrawAssumption == {"t5", "t6"} \cap IntRegs = {}

-----------------------------------------------------------------------------
(* gen_imm                                                                   *)
ImmKind(sign, nonzero, length, multiple) ==
    [sign |-> sign, nonzero |-> nonzero, length |-> length, multiple |-> multiple]
ImmOf(var) ==
    CASE var \in {"IMM", "IMM_12"} -> ImmKind(TRUE, FALSE, 12, 1)
      [] var = "IMM_6" -> ImmKind(TRUE, FALSE, 6, 1)
      [] var = "NZIMM_6_16" -> ImmKind(TRUE, TRUE, 6, 16)
      [] var = "UIMM_5" -> ImmKind(FALSE, FALSE, 5, 1)
      [] var = "NZUIMM_5" -> ImmKind(FALSE, TRUE, 5, 1)
      [] var = "UIMM_6" -> ImmKind(FALSE, FALSE, 6, 1)
      [] var = "NZUIMM_6" -> ImmKind(FALSE, TRUE, 6, 1)
      [] var = "NZUIMM_8_4" -> ImmKind(FALSE, TRUE, 8, 4)
      [] var = "UIMM_20" -> ImmKind(FALSE, FALSE, 20, 1)
\* IMM_40 of "li" is wider than TLC's integers and goes to the compiler whatever
\* its value: its sample is -1, 0, 1.  IMM_4_104 is 0..10.
GenImm(var) ==
    CASE var = "IMM_40" -> {-1, 0, 1}
      [] var = "IMM_4_104" -> {0, 1, 10}
      [] OTHER ->
            LET k == ImmOf(var)
                low == IF k.sign THEN -2^(k.length - 1) ELSE 0
                high == IF k.sign THEN 2^(k.length - 1) - 1 ELSE 2^k.length - 1
            IN  {v \in {low, low + 1, -k.multiple, -1, 0, 1, k.multiple, high - 1,
                        (high \div k.multiple) * k.multiple, high} :
                    /\ low <= v /\ v <= high /\ v % k.multiple = 0
                    /\ k.nonzero => v # 0}

\* MemoryAccessManager.ACCESS_WIDTH, with its default.
AccessWidth(op) ==
    CASE op \in {"lb", "lbu", "sb"} -> 1
      [] op \in {"lh", "lhu", "sh"} -> 2
      [] op \in {"ld", "sd", "fld", "fsd"} -> 8
      [] OTHER -> 4

\* get_safe_offset_for_t6: draw, then clear the bits below the width.
\* Mutant of SafeOffsets: the drawn offset is used as it is.
AnyOffsets(op) ==
    {offset \in {-2048, -2047, -1, 0, 5, 2039, 2041, 2044, 2046, 2047} :
        offset <= 2047 - AccessWidth(op) + 1}
SafeOffsets(op) ==
    {(offset \div AccessWidth(op)) * AccessWidth(op) :
        offset \in {o \in {-2048, -2047, -1, 0, 5, 2039, 2041, 2044, 2046, 2047} :
                        o <= 2047 - AccessWidth(op) + 1}}

Integer(regs) == {<<"x", r>> : r \in regs}
RvcRegs == {"s0", "s1", "a0", "a1", "a2", "a3", "a4", "a5"}

\* variable_range, and the immediates: a load or store takes its IMM_12 from the
\* memory manager (_generate_memop_offset).
MemoryCategories == {"LOAD", "STORE", "FLOAT_LOAD", "FLOAT_STORE"}
Draw(r, op, var) ==
    CASE var \in {"RD", "RS1", "RS2", "RS3"} -> Integer(IntRegs)
      [] var \in {"FRD", "FRS1", "FRS2", "FRS3"} -> {<<"f", f>> : f \in FloatRegs}
      [] var = "T6" -> {<<"x", "t6">>}
      [] var = "SP" -> {<<"x", "sp">>}
      [] var = "CSR" -> {<<"c", c>> : c \in Csrs}
      [] var = "LABEL" -> {<<"w", "{LABEL}">>}
      [] var = "DYN" -> {<<"w", "dyn">>}
      [] var \in {"RD_N0", "RD_RS1_N0", "C_RS2_N0"} -> Integer(IntRegs \ {"zero"})
      [] var = "RD_SP" -> Integer(IntRegs \ {"sp"})
      [] var \in {"RD_P", "RD_RS1_P", "RS1_P", "RS2_P"} -> Integer(IntRegs \cap RvcRegs)
      [] var = "IMM_12" /\ r.cat \in MemoryCategories -> {Num(n) : n \in SafeOffsets(op)}
      [] OTHER -> {Num(n) : n \in GenImm(var)}

\* The last lines of generate_new_instr: two CSRs are never read into a register.
CvaPatch(args) ==
    IF \E c \in {"senvcfg", "scounteren"} : <<"c", c>> \in ToSet(args)
    THEN [args EXCEPT ![1] = Reg0] ELSE args

\* generate_new_instr: every line the row can be filled to.
Drawn(r, op) ==
    LET drawn[n \in 0..Len(r.text)] ==
            IF n = 0 THEN {<<>>}
            ELSE {Append(p[1], p[2]) : p \in drawn[n - 1] \X Draw(r, op, r.text[n])}
    IN  drawn
NewInstr(r, op, note) ==
    {Line(Mnemonic(op), note, r.form, CvaPatch(args)) : args \in Drawn(r, op)[Len(r.text)]}

Named(rows) == UNION {{r} \X r.ops \X r.notes : r \in rows}
AllOps == UNION {r.ops : r \in UNION Range(INSTRUCTION_FORMATS)}
Compressed == {op \in AllOps : \E c \in SetC : op \in c.ops}
=============================================================================
