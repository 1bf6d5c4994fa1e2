SPECIFICATION FiltersSpec
CONSTANTS
    IntRegs = {"a0"}
    FloatRegs = {"ft0"}
    Csrs = {"frm", "misa", "mscratch"}
    FilterOps = {"csrrw", "csrrs", "fsrm", "addi", "sltu", "lw", "sw"}
    FilterRegs = {"a0"}
INVARIANTS
    AlignmentOnlyOfAccesses
