---------------------------- MODULE InstrTables ----------------------------
(* The tables the instruction generator draws from: instr_generator/         *)
(* formats.py (per extension: how an instruction is written) and             *)
(* instr_generator/sets.py (per set: which fields its word has).             *)
(*                                                                           *)
(* Instructions written alike share a row.  The `.aq', `.rl' and `.aqrl'     *)
(* spellings of an atomic are keys of their own in the source; here they are *)
(* the `notes' of one row.  The 5583 illegal words are one entry.  The order *)
(* in which operands are drawn is left out, since a draw is arbitrary.  A    *)
(* row is written with its key, but for one: Mnemonic.                       *)
EXTENDS Naturals, Sequences, SequencesExt

Mnemonic(key) == IF key = "clmulr" THEN "clmulh" ELSE key

NoNote == {""}
Annotations == {"", "aq", "rl", "aqrl"}

\* How the operands of a row are written: separated by commas, as an offset and
\* a base `a, imm(base)', or as an address `rd, rs2, (base)'.
Row(ops, cat, text) ==
    [ops |-> ops, cat |-> cat, text |-> text, form |-> "list", notes |-> NoNote]
Offset(ops, cat, text) == [Row(ops, cat, text) EXCEPT !.form = "offset"]
Address(ops, cat, text) ==
    [Row(ops, cat, text) EXCEPT !.form = "address", !.notes = Annotations]

Arith == "ARITHMETIC"

Zifencei == {Row({"fence.i"}, "SYNCH", <<>>)}

ZicsrFlags == {Row({"frrm", "frflags"}, "CSR", <<"RD">>),
               Row({"fsrm", "fsflags"}, "CSR", <<"RD", "RS1">>)}
ZicsrAccess == {Row({"csrrw", "csrrs", "csrrc"}, "CSR", <<"RD", "CSR", "RS1">>),
                Row({"csrrwi", "csrrsi", "csrrci"}, "CSR", <<"RD", "CSR", "UIMM_5">>)}

Zbs == {Row({"bclr", "bext", "binv", "bset"}, Arith, <<"RD", "RS1", "RS2">>)}

Rv32B_Binary ==
    {Row({"slo", "sro", "grev", "gorc", "shfl", "unshfl", "sh1add", "sh2add", "sh3add",
          "min", "max", "maxu", "minu"}, Arith, <<"RD", "RS1", "RS2">>)}
Rv32B_Mixed ==
    {Row({"sext.b", "sext.h", "ctz"}, Arith, <<"RD", "RS1">>),
     Row({"bcompress", "bdecompress", "bfp", "clmulr"}, Arith, <<"RD", "RS1", "RS2">>)}
Rv32B_Rest ==
    {Row({"crc32.b", "crc32.h", "crc32.w", "crc32c.b", "crc32c.w", "cpop", "clz"}, Arith,
         <<"RD", "RS1">>),
     Row({"xperm.n", "xperm.b", "xperm.h", "packu"}, Arith, <<"RD", "RS1", "RS2">>),
     Row({"cmov", "cmix", "fsl", "fsr"}, Arith, <<"RD", "RS1", "RS2", "RS3">>)}

RvI_Upper == {Row({"nop"}, Arith, <<>>), Row({"lui", "auipc"}, Arith, <<"RD", "UIMM_20">>)}
RvI_Transfers ==
    {Row({"jal"}, "JUMP", <<"RD", "LABEL">>),
     Offset({"jalr"}, "JUMP", <<"RD", "IMM", "RS1">>),
     Row({"beq", "bne", "blt", "bge", "bltu", "bgeu"}, "BRANCH", <<"RS1", "RS2", "LABEL">>)}
RvI_Memory ==
    {Offset({"lb", "lh", "lw", "lbu", "lhu"}, "LOAD", <<"RD", "IMM_12", "T6">>),
     Offset({"sb", "sh", "sw"}, "STORE", <<"RS2", "IMM_12", "T6">>)}
RvI_Alu ==
    {Row({"addi"}, Arith, <<"RD", "RS1", "IMM">>),
     Row({"slti", "sltiu", "xori", "ori", "andi"}, Arith, <<"RD", "RS1", "IMM_12">>),
     Row({"add", "sub", "sll", "slt", "sltu", "xor", "srl", "sra", "or", "and"}, Arith,
         <<"RD", "RS1", "RS2">>)}
RvI_System ==
    {Row({"fence"}, "SYNCH", <<>>), Row({"ecall", "ebreak"}, "SYSTEM", <<>>),
     Row({"li"}, Arith, <<"RD", "IMM_40">>)}

Rv64I ==
    {Row({"slli", "srli", "srai"}, Arith, <<"RD", "RS1", "UIMM_6">>),
     Row({"addiw"}, Arith, <<"RD", "RS1", "IMM_12">>),
     Row({"slliw", "srliw", "sraiw"}, Arith, <<"RD", "RS1", "UIMM_5">>),
     Row({"addw", "subw", "sllw", "srlw", "sraw"}, Arith, <<"RD", "RS1", "RS2">>),
     Offset({"lwu", "ld"}, "LOAD", <<"RD", "IMM_12", "T6">>),
     Offset({"sd"}, "STORE", <<"RS2", "IMM_12", "T6">>)}

\* `DYN' is the word "dyn", written after the registers.
FZfinxArith ==
    {Row({"fmadd.s", "fmsub.s", "fnmadd.s", "fnmsub.s"}, "FLOAT",
         <<"FRD", "FRS1", "FRS2", "FRS3", "DYN">>),
     Row({"fadd.s", "fsub.s", "fmul.s", "fdiv.s"}, "FLOAT", <<"FRD", "FRS1", "FRS2", "DYN">>),
     Row({"fsqrt.s"}, "FLOAT", <<"FRD", "FRS1", "DYN">>)}
FZfinxRest ==
    {Row({"fsgnj.s", "fsgnjn.s", "fsgnjx.s", "fmin.s", "fmax.s"}, "FLOAT",
         <<"FRD", "FRS1", "FRS2">>),
     Row({"fcvt.w.s", "fcvt.wu.s"}, "FLOAT", <<"RD", "FRS1", "DYN">>),
     Row({"fmv.x.w", "fclass.s"}, "FLOAT", <<"RD", "FRS1">>),
     Row({"feq.s", "flt.s", "fle.s"}, "FLOAT", <<"RD", "FRS1", "FRS2">>),
     Row({"fcvt.s.w", "fcvt.s.wu"}, "FLOAT", <<"FRD", "RS1", "DYN">>),
     Row({"fmv.w.x"}, "FLOAT", <<"FRD", "RS1">>)}

RvF == {Offset({"flw"}, "FLOAT_LOAD", <<"FRD", "IMM_12", "T6">>),
        Offset({"fsw"}, "FLOAT_STORE", <<"FRS2", "IMM_12", "T6">>)}

RvD_Arith ==
    {Row({"fmadd.d", "fmsub.d", "fnmadd.d", "fnmsub.d"}, "FLOAT",
         <<"FRD", "FRS1", "FRS2", "FRS3", "DYN">>),
     Row({"fadd.d", "fsub.d", "fmul.d", "fdiv.d"}, "FLOAT", <<"FRD", "FRS1", "FRS2", "DYN">>),
     Row({"fsqrt.d"}, "FLOAT", <<"FRD", "FRS1", "DYN">>)}
RvD_Rest ==
    {Row({"fsgnj.d", "fsgnjn.d", "fsgnjx.d", "fmin.d", "fmax.d"}, "FLOAT",
         <<"FRD", "FRS1", "FRS2">>),
     Row({"fcvt.w.d", "fcvt.wu.d"}, "FLOAT", <<"RD", "FRS1", "DYN">>),
     Row({"feq.d", "flt.d", "fle.d"}, "FLOAT", <<"RD", "FRS1", "FRS2">>),
     Row({"fclass.d"}, "FLOAT", <<"RD", "FRS1">>),
     Row({"fcvt.d.w", "fcvt.d.wu"}, "FLOAT", <<"FRD", "RS1">>),
     Row({"fcvt.s.d"}, "FLOAT", <<"FRD", "FRS1", "DYN">>),
     Row({"fcvt.d.s"}, "FLOAT", <<"FRD", "FRS1">>),
     Offset({"fld"}, "FLOAT_LOAD", <<"FRD", "IMM_12", "T6">>),
     Offset({"fsd"}, "FLOAT_STORE", <<"FRS2", "IMM_12", "T6">>)}

Rv64F == {Row({"fcvt.l.s", "fcvt.lu.s"}, "FLOAT", <<"RD", "FRS1", "DYN">>),
          Row({"fcvt.s.l", "fcvt.s.lu"}, "FLOAT", <<"FRD", "RS1", "DYN">>)}
Rv64D == {Row({"fcvt.l.d", "fcvt.lu.d"}, "FLOAT", <<"RD", "FRS1", "DYN">>),
          Row({"fcvt.d.l", "fcvt.d.lu"}, "FLOAT", <<"FRD", "RS1", "DYN">>),
          Row({"fmv.x.d"}, "FLOAT", <<"RD", "FRS1">>),
          Row({"fmv.d.x"}, "FLOAT", <<"FRD", "RS1">>)}

RvC_Memory ==
    {Offset({"c.lwsp"}, "LOAD_SP", <<"RD_N0", "UIMM_8_4", "SP">>),
     Offset({"c.swsp"}, "STORE_SP", <<"RS2", "UIMM_8_4", "SP">>),
     Offset({"c.lw"}, "LOAD", <<"RD_P", "UIMM_7_4", "RS1_P">>),
     Offset({"c.sw"}, "STORE", <<"RS2_P", "UIMM_7_4", "RS1_P">>)}
RvC_Transfers ==
    {Row({"c.j"}, "JUMP", <<"LABEL">>), Row({"c.jr", "c.jalr"}, "JUMP", <<"RD_N0">>),
     Row({"c.beqz", "c.bnez"}, "BRANCH", <<"RS1", "LABEL">>)}
RvC_Alu ==
    {Row({"c.li"}, Arith, <<"RD", "IMM_6">>),
     Row({"c.lui"}, Arith, <<"RD_SP", "NZUIMM_5">>),
     Row({"c.addi"}, Arith, <<"RD_RS1_N0", "IMM_6">>),
     Row({"c.addi16sp"}, Arith, <<"SP", "NZIMM_6_16">>),
     Row({"c.addi4spn"}, Arith, <<"RD_P", "SP", "NZUIMM_8_4">>),
     Row({"c.andi"}, Arith, <<"RD_RS1_P", "IMM_6">>),
     Row({"c.mv", "c.add"}, Arith, <<"RD", "C_RS2_N0">>),
     Row({"c.and", "c.or", "c.xor", "c.sub"}, Arith, <<"RD_RS1_P", "RS2_P">>),
     Row({"c.nop"}, Arith, <<>>), Row({"c.ebreak"}, "SYSTEM", <<>>)}
Rv64C ==
    {Offset({"c.ldsp"}, "LOAD_SP", <<"RD_N0", "UIMM_9_8", "SP">>),
     Offset({"c.sdsp"}, "STORE_SP", <<"RS2", "UIMM_9_8", "SP">>),
     Offset({"c.ld"}, "LOAD", <<"RD_P", "UIMM_8_8", "RS1_P">>),
     Offset({"c.sd"}, "STORE", <<"RS2_P", "UIMM_8_8", "RS1_P">>),
     Row({"c.addiw"}, Arith, <<"RD_RS1_N0", "IMM_6">>),
     Row({"c.slli"}, Arith, <<"RD_RS1_N0", "NZUIMM_6">>),
     Row({"c.srli", "c.srai"}, Arith, <<"RD_RS1_P", "NZUIMM_6">>),
     Row({"c.addw", "c.subw"}, Arith, <<"RD_RS1_P", "RS2_P">>)}
Rv32CF ==
    {Offset({"c.flwsp"}, "LOAD_SP", <<"FRD", "UIMM_8_8", "SP">>),
     Offset({"c.fswsp"}, "STORE_SP", <<"FRS2", "UIMM_8_4", "SP">>),
     Offset({"c.flw"}, "FLOAT_LOAD", <<"FRD_P", "UIMM_7_8", "RS1_P">>),
     Offset({"c.fsw"}, "FLOAT_STORE", <<"FRS2_P", "UIMM_7", "RS1_P">>)}
RvCD ==
    {Row({"c.fldsp"}, "LOAD_SP", <<"FRD", "UIMM_9_8">>),
     Offset({"c.fsdsp"}, "STORE_SP", <<"FRS2", "UIMM_9_8", "SP">>),
     Offset({"c.fld"}, "FLOAT_LOAD", <<"FRD_P", "UIMM_8_8", "RS1_P">>),
     Offset({"c.fsd"}, "FLOAT_STORE", <<"FRS2_P", "IMM_8", "RS1_P">>)}
Rv32C == {Row({"c.jal"}, "JUMP", <<"LABEL">>)}

Binary(ops) == Row(ops, Arith, <<"RD", "RS1", "RS2">>)
Unary(ops) == Row(ops, Arith, <<"RD", "RS1">>)

RvM == {Binary({"mul", "mulhsu", "mulhu", "div", "divu", "rem", "remu"})}
Rv32Zpn == {Binary({"mulh"})}
Rv64M == {Binary({"mulw", "divw", "divuw", "remw", "remuw"})}

ReservedW == {Address({"lr.w"}, "AMO_LOAD", <<"RD", "T6">>),
              Address({"sc.w"}, "AMO_STORE", <<"RD", "RS2", "T6">>)}
AmoW == {Address({"amoswap.w", "amoadd.w", "amoxor.w", "amoand.w", "amoor.w", "amomin.w",
                  "amomax.w", "amominu.w", "amomaxu.w"}, "AMO", <<"RD", "RS2", "T6">>)}
ReservedD == {Address({"lr.d"}, "AMO_LOAD", <<"RD", "T6">>),
              Address({"sc.d"}, "AMO_STORE", <<"RD", "RS2", "T6">>)}
AmoD == {Address({"amoswap.d", "amoadd.d", "amoxor.d", "amoand.d", "amoor.d", "amomin.d",
                  "amomax.d", "amominu.d", "amomaxu.d"}, "AMO", <<"RD", "RS2", "T6">>)}

Zbkb == {Binary({"ror", "rol", "andn", "orn", "xnor", "pack", "packh"})}
Zbkb64 == {Row({"rori"}, Arith, <<"RD", "RS1", "UIMM_6">>),
           Binary({"rorw", "rolw", "packw"}),
           Row({"roriw"}, Arith, <<"RD", "RS1", "UIMM_5">>)}
Zbkc == {Binary({"clmul", "clmulh"})}
Zbkx == {Binary({"xperm8", "xperm4"})}
Zk64 == {Binary({"aes64es", "aes64esm", "aes64ks2", "aes64ds", "aes64dsm"}),
         Row({"aes64ks1i"}, Arith, <<"RD", "RS1", "IMM_4_104">>),
         Unary({"aes64im", "sha512sig0", "sha512sig1", "sha512sum0", "sha512sum1"})}
Zk == {Unary({"sha256sig0", "sha256sig1", "sha256sum0", "sha256sum1"})}
Rocc == {Row({"cease"}, "SYSTEM", <<>>)}
Ill == {Row({"ill"}, "ILLEGAL", <<>>)}

\* INSTRUCTION_FORMATS: extension -> rows, under the keys the source spells.
INSTRUCTION_FORMATS ==
    [rv_zifencei |-> Zifencei, RV_ZICSR |-> ZicsrFlags \cup ZicsrAccess, rv_zbs |-> Zbs,
     rv_32B |-> Rv32B_Binary \cup Rv32B_Mixed \cup Rv32B_Rest,
     RV_I |-> RvI_Upper \cup RvI_Transfers \cup RvI_Memory \cup RvI_Alu \cup RvI_System,
     RV64_I |-> Rv64I, RV_F_ZFINX |-> FZfinxArith \cup FZfinxRest, RV_F |-> RvF,
     RV_D |-> RvD_Arith \cup RvD_Rest, RV64_F |-> Rv64F, RV64_D |-> Rv64D,
     RV_C |-> RvC_Memory \cup RvC_Transfers \cup RvC_Alu, RV64_C |-> Rv64C,
     RV32_C_F |-> Rv32CF, RV_C_D |-> RvCD, RV32_C |-> Rv32C, RV_M |-> RvM,
     RV32_ZPN |-> Rv32Zpn, RV64_M |-> Rv64M, RV_A |-> ReservedW \cup AmoW,
     RV64_A |-> ReservedD \cup AmoD, RV_ZBKB |-> Zbkb, RV64_ZBKB |-> Zbkb64,
     RV_ZBKC |-> Zbkc, RV_ZBKX |-> Zbkx, RV64_ZK |-> Zk64, RV_ZK |-> Zk, ROCC |-> Rocc,
     ILL |-> Ill]

-----------------------------------------------------------------------------
(* INSTRUCTION_SETS: the fields of an instruction's word, and the set, in    *)
(* upper case as get_instruction_format spells it, the name is found in.     *)
Fields(set, fields, ops) == [set |-> set, fields |-> fields, ops |-> ops]

R3 == <<"rd", "rs1", "rs2">>
R2 == <<"rd", "rs1">>
RM3 == <<"rd", "rs1", "rs2", "rm">>
RM2 == <<"rd", "rs1", "rm">>
RM4 == <<"rd", "rs1", "rs2", "rs3", "rm">>
IType == <<"rd", "rs1", "imm12">>
SType == <<"imm12hi", "rs1", "rs2", "imm12lo">>
BType == <<"bimm12hi", "rs1", "rs2", "bimm12lo">>
Ordered == <<"rd", "rs1", "rs2", "aq", "rl">>

SetI ==
    {Fields("RV_I", R3, {"add", "and", "or", "sll", "slt", "sltu", "sra", "srl", "sub", "xor"}),
     Fields("RV_I", IType, {"addi", "andi", "jalr", "lb", "lbu", "lh", "lhu", "lw", "ori",
                            "slti", "sltiu", "xori"}),
     Fields("RV_I", <<"rd", "imm20">>, {"auipc", "lui"}),
     Fields("RV_I", BType, {"beq", "bge", "bgeu", "blt", "bltu", "bne"}),
     Fields("RV_I", <<>>, {"ebreak", "ecall", "nop"}),
     Fields("RV_I", <<"fm", "pred", "succ", "rs1", "rd">>, {"fence"}),
     Fields("RV_I", <<"rd", "jimm20">>, {"jal"}),
     Fields("RV_I", SType, {"sb", "sh", "sw"}),
     Fields("RV_I", <<"rd", "imm40">>, {"li"})}
Set64I ==
    {Fields("RV64_I", IType, {"addiw", "ld", "lwu"}),
     Fields("RV64_I", R3, {"addw", "sllw", "sraw", "srlw", "subw"}),
     Fields("RV64_I", SType, {"sd"}),
     Fields("RV64_I", <<"rd", "rs1", "shamtd">>, {"slli", "srai", "srli"}),
     Fields("RV64_I", <<"rd", "rs1", "shamtw">>, {"slliw", "sraiw", "srliw"})}
Set64Zk ==
    {Fields("RV64_ZK", R3, {"aes64ds", "aes64dsm", "aes64es", "aes64esm", "aes64ks2"}),
     Fields("RV64_ZK", R2, {"aes64im", "sha512sig0", "sha512sig1", "sha512sum0", "sha512sum1"}),
     Fields("RV64_ZK", <<"rd", "rs1", "rnum">>, {"aes64ks1i"})}
Set64A ==
    {Fields("RV64_A", Ordered, {"amoadd.d", "amoand.d", "amomax.d", "amomaxu.d", "amomin.d",
                                "amominu.d", "amoor.d", "amoswap.d", "amoxor.d", "sc.d"}),
     Fields("RV64_A", <<"rd", "rs1", "aq", "rl">>, {"lr.d"})}
SetA ==
    {Fields("RV_A", Ordered, {"amoadd.w", "amoand.w", "amomax.w", "amomaxu.w", "amomin.w",
                              "amominu.w", "amoor.w", "amoswap.w", "amoxor.w", "sc.w"}),
     Fields("RV_A", <<"rd", "rs1", "aq", "rl">>, {"lr.w"})}
SetZbkb == {Fields("RV_ZBKB", R3, {"andn", "orn", "pack", "packh", "rol", "ror", "xnor"})}
SetZbs == {Fields("RV_ZBS", R3, {"bclr", "bext", "binv", "bset"})}
Set32B ==
    {Fields("RV_32B", R3, {"slo", "sro", "gorc", "shfl", "unshfl", "sh1add", "sh2add", "sh3add",
                           "min", "max", "maxu", "bcompress", "bdecompress", "bfp", "clmulr",
                           "xperm.n", "xperm.b", "xperm.h", "packu"}),
     Fields("RV_32B", R2, {"minu", "sext.b", "sext.h", "crc32.b", "crc32.h", "crc32.w",
                           "crc32c.b", "crc32c.w", "cpop", "clz"}),
     Fields("RV_32B", <<"rd", "rs1", "rs2", "rs3">>, {"cmov", "cmix", "fsl", "fsr"})}
SetZbkc == {Fields("RV_ZBKC", R3, {"clmul", "clmulh"})}
SetZbpbo == {Fields("RV_ZBPBO", R3, {"grev"})}
SetZicsr ==
    {Fields("RV_ZICSR", <<"rd", "rs1", "csr">>, {"csrrc", "csrrs", "csrrw"}),
     Fields("RV_ZICSR", <<"rd", "csr", "zimm">>, {"csrrci", "csrrsi", "csrrwi"}),
     Fields("RV_ZICSR", <<"rd">>, {"frflags", "frrm"}),
     Fields("RV_ZICSR", R2, {"fsflags", "fsrm"})}
SetM == {Fields("RV_M", R3, {"div", "divu", "mul", "mulhsu", "mulhu", "rem", "remu"})}
Set64M == {Fields("RV64_M", R3, {"divuw", "divw", "mulw", "remuw", "remw"})}
SetD ==
    {Fields("RV_D", RM3, {"fadd.d", "fdiv.d", "fmul.d", "fsub.d"}),
     Fields("RV_D", R2, {"fclass.d"}),
     Fields("RV_D", RM2, {"fcvt.d.s", "fcvt.d.w", "fcvt.d.wu", "fcvt.s.d", "fcvt.w.d",
                          "fcvt.wu.d", "fsqrt.d"}),
     Fields("RV_D", R3, {"feq.d", "fle.d", "flt.d", "fmax.d", "fmin.d", "fsgnj.d", "fsgnjn.d",
                         "fsgnjx.d"}),
     Fields("RV_D", IType, {"fld"}), Fields("RV_D", SType, {"fsd"}),
     Fields("RV_D", RM4, {"fmadd.d", "fmsub.d", "fnmadd.d", "fnmsub.d"})}
SetF ==
    {Fields("RV_F", RM3, {"fadd.s", "fdiv.s", "fmul.s", "fsub.s"}),
     Fields("RV_F", R2, {"fclass.s", "fmv.w.x", "fmv.x.w"}),
     Fields("RV_F", RM2, {"fcvt.s.w", "fcvt.s.wu", "fcvt.w.s", "fcvt.wu.s", "fsqrt.s"}),
     Fields("RV_F", R3, {"feq.s", "fle.s", "flt.s", "fmax.s", "fmin.s", "fsgnj.s", "fsgnjn.s",
                         "fsgnjx.s"}),
     Fields("RV_F", IType, {"flw"}), Fields("RV_F", SType, {"fsw"}),
     Fields("RV_F", RM4, {"fmadd.s", "fmsub.s", "fnmadd.s", "fnmsub.s"})}
Set64D == {Fields("RV64_D", RM2, {"fcvt.d.l", "fcvt.d.lu", "fcvt.l.d", "fcvt.lu.d"}),
           Fields("RV64_D", R2, {"fmv.d.x", "fmv.x.d"})}
Set64F == {Fields("RV64_F", RM2, {"fcvt.l.s", "fcvt.lu.s", "fcvt.s.l", "fcvt.s.lu"})}
SetZifencei == {Fields("RV_ZIFENCEI", <<"imm12", "rs1", "rd">>, {"fence.i"})}
Set32Zpn == {Fields("RV32_ZPN", R3, {"mulh"})}
Set64Zbkb == {Fields("RV64_ZBKB", R3, {"packw", "rolw", "rorw"}),
              Fields("RV64_ZBKB", <<"rd", "rs1", "shamtd">>, {"rori"}),
              Fields("RV64_ZBKB", <<"rd", "rs1", "shamtw">>, {"roriw"})}
SetZk == {Fields("RV_ZK", R2, {"sha256sig0", "sha256sig1", "sha256sum0", "sha256sum1"})}
SetZbkx == {Fields("RV_ZBKX", R3, {"xperm4", "xperm8"})}
\* The words of compressed instructions are never built: their fields are left out.
SetC ==
    {Fields("RV_C", <<>>, {"c.add", "c.addi", "c.addi16sp", "c.addi4spn", "c.and", "c.andi",
            "c.beqz", "c.bnez", "c.ebreak", "c.j", "c.jalr", "c.jr", "c.li", "c.lui", "c.lw",
            "c.lwsp", "c.mv", "c.nop", "c.or", "c.sub", "c.sw", "c.swsp", "c.xor"}),
     Fields("RV64_C", <<>>, {"c.addiw", "c.addw", "c.ld", "c.ldsp", "c.sd", "c.sdsp", "c.slli",
            "c.srai", "c.srli", "c.subw"}),
     Fields("RV_C_D", <<>>, {"c.fld", "c.fldsp", "c.fsd", "c.fsdsp"}),
     Fields("RV32_C_F", <<>>, {"c.flw", "c.flwsp", "c.fsw", "c.fswsp"}),
     Fields("RV32_C", <<>>, {"c.jal"})}

INSTRUCTION_SETS ==
    SetI \cup Set64I \cup Set64Zk \cup Set64A \cup SetA \cup SetZbkb \cup SetZbs \cup Set32B
    \cup SetZbkc \cup SetZbpbo \cup SetZicsr \cup SetM \cup Set64M \cup SetD \cup SetF
    \cup Set64D \cup Set64F \cup SetZifencei \cup Set32Zpn \cup Set64Zbkb \cup SetZk
    \cup SetZbkx \cup SetC

\* get_instruction_type: an annotated atomic is in no set, nor are "ctz", "cease"
\* and the illegal words.
InSets(op, note) == note = "" /\ \E s \in INSTRUCTION_SETS : op \in s.ops
SetOf(op) == CHOOSE s \in INSTRUCTION_SETS : op \in s.ops

\* get_instruction_format(name)["category"]: the set's name in upper case must be
\* a key of the formats and hold the instruction; else nothing is known of it.
Unknown == ""
FoundRows(op, note) ==
    IF InSets(op, note) /\ SetOf(op).set \in DOMAIN INSTRUCTION_FORMATS
    THEN {r \in INSTRUCTION_FORMATS[SetOf(op).set] : op \in r.ops} ELSE {}
CategoryLookup(op, note) ==
    IF FoundRows(op, note) = {} THEN Unknown
    ELSE (CHOOSE r \in FoundRows(op, note) : TRUE).cat
VariablesLookup(op, note) == UNION {ToSet(r.text) : r \in FoundRows(op, note)}
=============================================================================
