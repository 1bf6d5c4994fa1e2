------------------------------ MODULE Filters ------------------------------
(* The precision filters of bug_filter/arch/xs_filters.py, run by            *)
(* bug_filter/registry.py on every candidate the validator is given, and the *)
(* state of the simulated hart they look at.  The lines of jump and loop     *)
(* bodies run on the same hart without being filtered.                       *)
(*                                                                           *)
(* The post filters accept everything.  V-5, V-6, P-1 and W-1 never meet     *)
(* their instruction: the tables have no vector instruction and no wfi, and  *)
(* the trap vectors are not in csr_range or are blacklisted.  The other      *)
(* architectures register nothing.                                           *)
EXTENDS InstrDraw

CONSTANTS
    FilterOps,      \* bound: the instructions candidates are drawn from
    FilterRegs      \* bound: the registers they name

VARIABLES
    frm,        \* the hart's rounding mode
    misa,       \* "reset" or "written"
    low,        \* the low three bits of the integer registers in FilterRegs, but zero
    candidate,  \* the last line validated
    category,   \* the category of its row
    verdict,    \* the filter that rejected it, or "accepted"; "none" if none was asked
    under       \* the rounding mode it met

fvars == <<frm, misa, low, candidate, category, verdict, under>>

Reserved == {5, 6, 7}
CsrOps == {"csrrw", "csrrs", "csrrc", "csrrwi", "csrrsi", "csrrci"}

\* The operands as the validator splits them: an offset and its base stay together.
TextOperands(l) ==
    CASE l.form = "offset" -> <<l.args[1], <<"m", l.args[2][2], l.args[3][2]>>>>
      [] l.form = "address" -> Append(Front(l.args), <<"m", 0, Last(l.args)[2]>>)
      [] OTHER -> l.args

\* _parse_csr_from_operands, for the filters on CSR instructions.
Accesses(l, names) == l.op \in CsrOps /\ l.args[2][2] \in names

\* The mnemonics that start with one of W-15's prefixes.
\* Mutant of NamesRounding: the list forgets the negated multiply-adds.
Rounded ==
    {"fadd.s", "fsub.s", "fmul.s", "fdiv.s", "fsqrt.s", "fmadd.s", "fmsub.s", "fmin.s", "fmax.s",
     "fadd.d", "fsub.d", "fmul.d", "fdiv.d", "fsqrt.d", "fmadd.d", "fmsub.d", "fmin.d", "fmax.d",
     "fcvt.w.s", "fcvt.wu.s", "fcvt.l.s", "fcvt.lu.s", "fcvt.w.d", "fcvt.wu.d", "fcvt.l.d",
     "fcvt.lu.d", "fcvt.s.w", "fcvt.s.wu", "fcvt.s.l", "fcvt.s.lu", "fcvt.s.d", "fcvt.d.w",
     "fcvt.d.wu", "fcvt.d.l", "fcvt.d.lu", "fcvt.d.s"}
WithoutNegated(op) == op \in Rounded
NamesRounding(op) == op \in Rounded \cup {"fnmadd.s", "fnmsub.s", "fnmadd.d", "fnmsub.d"}

\* M-1: what starts with l or fl counts as a load, what starts with s or fs as a store;
\* the width is read off the letters of the mnemonic once trailing .s, .d and .q are
\* stripped, and with them the d of ld and sd.
TakenForLoad ==
    {"lb", "lbu", "lh", "lhu", "lw", "lwu", "ld", "flw", "fld", "lr.w", "lr.d", "lui", "li",
     "flt.s", "fle.s", "flt.d", "fle.d"}
TakenForStore ==
    {"sb", "sh", "sw", "sd", "fsw", "fsd", "sc.w", "sc.d", "sll", "srl", "sra", "slt", "sltu",
     "slti", "sltiu", "slli", "srli", "srai", "slliw", "srliw", "sraiw", "sllw", "srlw",
     "sraw", "sub", "subw", "slo", "sro", "shfl", "sh1add", "sh2add", "sh3add", "sext.b",
     "sext.h", "fsub.s", "fsub.d", "fsqrt.s", "fsqrt.d", "fsgnj.s", "fsgnjn.s", "fsgnjx.s",
     "fsgnj.d", "fsgnjn.d", "fsgnjx.d", "sha256sig0", "sha256sig1", "sha256sum0",
     "sha256sum1"}
LetterWidth(op) ==
    CASE op \in {"lw", "lwu", "flw", "lr.w", "sw", "fsw", "sc.w", "slliw", "srliw", "sraiw",
                 "sllw", "srlw", "sraw", "subw"} -> 4
      [] op \in {"lh", "lhu", "sh", "shfl", "sh1add", "sh2add", "sh3add", "sext.h",
                 "sha256sig0", "sha256sig1", "sha256sum0", "sha256sum1"} -> 2
      [] op \in {"lb", "lbu", "sb", "sub", "fsub.s", "fsub.d", "sext.b"} -> 1
      [] OTHER -> 4

Low(r) == IF r \in DOMAIN low THEN low[r] ELSE 0
AddressOperand(l) ==
    LET operands == TextOperands(l)
    IN  CASE l.op \in TakenForLoad /\ Len(operands) >= 2 -> operands[2]
          [] l.op \in TakenForStore /\ Len(operands) >= 3 -> operands[3]
          [] OTHER -> <<"w", "none">>
Misaligned(l) ==
    LET operand == AddressOperand(l)
    IN  \/ operand[1] = "x" /\ Low(operand[2]) % LetterWidth(l.op) # 0
        \/ operand[1] = "m" /\ (Low(operand[3]) + operand[2]) % LetterWidth(l.op) # 0

\* The filters in the order they are registered in: dir() sorts their names.
PreFilters == <<"C-1", "C-2", "C-3", "M-1", "W-15", "W-6">>
Rejects(filter, l) ==
    CASE filter = "C-1" -> Accesses(l, {"cycle", "mcycle"})
      [] filter = "C-2" -> Accesses(l, {"time"})
      [] filter = "C-3" -> Accesses(l, {"hpmcounter3"})
      [] filter = "M-1" -> Misaligned(l)
      [] filter = "W-15" -> frm \in Reserved /\ NamesRounding(l.op)
      [] filter = "W-6" -> l.op \in {"csrrw", "csrrwi"} /\ Accesses(l, {"misa"})

\* check_pre_execution: the first filter that rejects.
CheckPre(l) ==
    LET hits == {i \in DOMAIN PreFilters : Rejects(PreFilters[i], l)}
    IN  IF hits = {} THEN "accepted" ELSE PreFilters[Min(hits)]

-----------------------------------------------------------------------------
FilterRows == UNION Range(INSTRUCTION_FORMATS)
Bounded(l) ==
    \A operand \in ToSet(l.args) :
        operand[1] \in {"x", "f"} => operand[2] \in FilterRegs \cup {"t6"}
Lines(r) == {l \in UNION {NewInstr(r, op, "") : op \in r.ops \cap FilterOps} : Bounded(l)}
Candidates == UNION {{[line |-> l, cat |-> r.cat] : l \in Lines(r)} : r \in FilterRows}
NoCandidate == Line("nop", "", "list", <<>>)

FiltersInit ==
    /\ frm = 0 /\ misa = "reset" /\ low = [r \in FilterRegs \cap (IntRegs \ {"zero"}) |-> 0]
    /\ candidate = NoCandidate /\ category = "none" /\ verdict = "none" /\ under = 0

WritesFrm(l) == l.op = "fsrm" \/ Accesses(l, {"frm", "fcsr"})
Clobbers(l) == IF l.args # <<>> /\ l.args[1][1] = "x" THEN {l.args[1][2]} ELSE {}

\* What an executed line may leave in the state the filters look at (external: the hart).
Executes(l) ==
    /\ frm' \in (IF WritesFrm(l) THEN 0..7 ELSE {frm})
    /\ misa' \in (IF Accesses(l, {"misa"}) THEN {misa, "written"} ELSE {misa})
    /\ low' \in {v \in [DOMAIN low -> 0..7] :
                    \A r \in DOMAIN low \ Clobbers(l) : v[r] = low[r]}

\* validate_instruction of one candidate, as far as the filters go.
Validate ==
    \E c \in Candidates :
       /\ candidate' = c.line /\ category' = c.cat /\ under' = frm
       /\ verdict' = CheckPre(c.line)
       /\ IF verdict' = "accepted" THEN Executes(c.line) ELSE UNCHANGED <<frm, misa, low>>

\* The lines of a jump or loop body: whatever they are, no filter is asked.
RunSequence ==
    /\ \E c \in Candidates : c.cat \notin MemoryCategories /\ Executes(c.line)
    /\ candidate' = NoCandidate /\ category' = "none" /\ verdict' = "none" /\ under' = frm

FiltersNext == Validate \/ RunSequence
FiltersSpec == FiltersInit /\ [][FiltersNext]_fvars

-----------------------------------------------------------------------------
\* No accepted candidate rounds by a reserved mode, even though unfiltered sequences may
\* have set one: every instruction of the tables whose word says "round by frm" is on the
\* filter's list (W-15: "Reject FP instructions when frm=5/6/7").
DynamicRounding(l) ==
    /\ InSets(l.op, "") /\ "rm" \in ToSet(SetOf(l.op).fields)
    /\ <<"w", "dyn">> \in ToSet(l.args)
RoundingDefined ==
    verdict = "accepted" /\ DynamicRounding(candidate) => under \notin Reserved

\* What the alignment filter rejects is a memory access (M-1: "Reject load/store with
\* misaligned addresses"; "Condition: load/store address not naturally aligned").
AlignmentOnlyOfAccesses ==
    verdict = "M-1" => category \in MemoryCategories \cup {"AMO", "AMO_LOAD", "AMO_STORE"}

\* Not run: nothing writes misa (W-6: "Reject any writes to misa CSR"; csrrs and csrrc do).
MisaHardwired == misa = "reset"
=============================================================================
