SPECIFICATION StageSpec
CONSTANTS
    IntRegs = {"zero", "s11", "a0"}
    FloatRegs = {"ft0", "fs11"}
    Csrs = {"senvcfg", "frm", "misa"}
    DrawProfiles = {"general", "rv32"}
    BodyOps = {"addi", "li", "sw", "beq", "amoadd.d", "ecall", "c.mv"}
    MaxBody = 2
    MaxWords = 2
    MaxIterations = 2
    MutOps = {"addi", "jalr", "beq", "bne", "sw", "mul", "ecall", "amoadd.d", "lr.w"}
    Excluded = {"RV_M"}
    FilterOps = {"fadd.d", "fadd.s", "fcvt.d.l", "fcvt.d.lu", "fcvt.d.s", "fcvt.d.w",
                 "fcvt.d.wu", "fcvt.l.d", "fcvt.l.s", "fcvt.lu.d", "fcvt.lu.s", "fcvt.s.d",
                 "fcvt.s.l", "fcvt.s.lu", "fcvt.s.w", "fcvt.s.wu", "fcvt.w.d", "fcvt.w.s",
                 "fcvt.wu.d", "fcvt.wu.s", "fdiv.d", "fdiv.s", "fmadd.d", "fmadd.s",
                 "fmsub.d", "fmsub.s", "fmul.d", "fmul.s", "fnmadd.d", "fnmadd.s",
                 "fnmsub.d", "fnmsub.s", "fsqrt.d", "fsqrt.s", "fsub.d", "fsub.s", "csrrw",
                 "csrrs", "fsrm", "lw", "sltu"}
    FilterRegs = {"zero", "ft0"}
INVARIANTS
    EncodesExactly
    AccessInRegion
    OnlyAnnotatedSlipIn
    ProbabilitiesDefined
    JumpLands
    LoopRunsItsIterations
    RoundingDefined
    ReferencesResolve
    TransfersKept
