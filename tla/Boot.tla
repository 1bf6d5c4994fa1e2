-------------------------------- MODULE Boot --------------------------------
(* asm_template_manager/template_builder.py: the program a seed is wrapped  *)
(* in, executed.  Each builder emits blocks of instructions, and a hart     *)
(* runs them: the boot code leaves machine mode for a random privilege, the *)
(* seed's own instructions (the main hook) run there and may trap at any    *)
(* point, and the trap handlers bring the hart back, up to the store to     *)
(* tohost that ends the test.  One record stands for the instructions that  *)
(* serve one purpose; a random value is a tag that says where it came from. *)
(* The supervisor and user templates are not registered in build_template   *)
(* and are left out.                                                        *)
EXTENDS Naturals, Sequences, FiniteSets

CONSTANTS
  Templates,   \* the values of TemplateType under test
  Slots,       \* instructions of the seed
  Rounds,      \* times its loops go back
  Regs         \* general registers its instructions may name as destinations

ASSUME BootAssumption ==
  /\ Templates \subseteq {"xiangshan", "nutshell", "cva6", "boom", "rocket"}
  /\ Slots \in Nat /\ Rounds \in Nat
  /\ Regs \subseteq 1..31

VARIABLES
  template,    \* the template of the seed
  ms,          \* the value its boot code writes to mstatus
  at,          \* the program counter: <<label, instruction>>
  mode,        \* "M", "S" or "U"
  gpr,         \* where the value of each general register comes from
  fpr,         \* the floating-point registers written so far
  csr,         \* the control registers that steer traps and memory access
  status,      \* mstatus: mpp, fs, mie, mpie, mprv
  tohost,      \* the end of the test was signalled
  resume,      \* history: where the last interrupt hit
  stormed,     \* history: an interrupt was taken
  rounds,      \* times a loop of the seed went back
  through      \* the register the seed's next instruction jumps through, or 0

flow == <<rounds, through>>
bootVars ==
  <<template, ms, at, mode, gpr, fpr, csr, status, tohost, resume, stormed, rounds, through>>

-----------------------------------------------------------------------------
(* Instructions.                                                            *)

Li(R) == [op |-> "li", regs |-> R, val |-> "known"]
La(r, v) == [op |-> "li", regs |-> {r}, val |-> v]
Csrw(C, r, v) == [op |-> "csrw", csrs |-> C, reg |-> r, val |-> v]
Fmv(F) == [op |-> "fmv", fregs |-> F]
J(l) == [op |-> "j", label |-> l]
Plain(o) == [op |-> o]
\* csrr r, epc; addi r, r, 4; csrw epc, r
SkipOne(epc, r) == [op |-> "skip", csr |-> epc, reg |-> r]
\* csrr r, cause; blt r, x0, label
IfInterrupt(c, r, l) == [op |-> "ifint", csr |-> c, reg |-> r, label |-> l]
\* Mutant of MaskInterrupts: only the global enable is cleared, which mret restores
MaskStatusOnly(ie) == Plain("nop")
\* csrw ie, x0; clear the global enable in the status register
MaskInterrupts(ie) == [op |-> "mask", csr |-> ie, regs |-> {13, 15}]

Nowhere == <<"lost", 1>>
Fp == Plain("frm")

-----------------------------------------------------------------------------
(* mstatus: only the privilege to enter, the state of the floating-point    *)
(* unit, the interrupt enables and the privilege of data accesses steer what *)
(* happens here.  XiangShan's also draws endianness, widths and MPV, which a *)
(* little-endian hart of one width without a hypervisor holds fixed.         *)

MStatus(FS, MPRV) ==
  [mpp : {"U", "S", "M"}, fs : FS, mie : BOOLEAN, mpie : BOOLEAN, mprv : MPRV]

RandomMStatusRv64H == MStatus({"on"}, BOOLEAN)
RandomMStatusNutshell == MStatus({"off", "on"}, {FALSE})
\* Mutant of RandomMStatusCva6: the floating-point unit may be off
RandomMStatusCva6Off == MStatus({"off", "on"}, BOOLEAN)
RandomMStatusCva6 == MStatus({"on"}, BOOLEAN)
RandomMStatusBoom == MStatus({"on"}, BOOLEAN)
RandomMStatusRocket == MStatus({"on"}, BOOLEAN)

MStatusOf(t) == CASE t = "xiangshan" -> RandomMStatusRv64H
                  [] t = "nutshell" -> RandomMStatusNutshell
                  [] t = "cva6" -> RandomMStatusCva6
                  [] t = "boom" -> RandomMStatusBoom
                  [] t = "rocket" -> RandomMStatusRocket
-----------------------------------------------------------------------------
(* The blocks.  Registers are numbered: 5 is t0, 30 is t5, 31 is t6.        *)

Vectors ==
  <<Csrw({"mtvec"}, 13, "other_exp"), Csrw({"stvec"}, 13, "other_exp_s"),
    Csrw({"mepc"}, 13, <<"init", 1>>)>>
XsStartup == <<Csrw({"misa"}, 13, "value")>> \o Vectors
NutshellStartup == Vectors
Cva6Startup == Vectors
BoomStartup == Vectors
RocketStartup == Vectors

\* one NAPOT entry with all permissions over the whole address space
Pmp == <<Csrw({"pmp"}, 16, "open"), Li({16})>>
\* Mutant of Delegation: medeleg is left as it was
DelegationKept == <<Csrw({"mie"}, 26, "zero")>>
Delegation == <<Csrw({"medeleg", "mie"}, 26, "zero")>>
Enter(m, rest) == <<Csrw({"mstatus"}, 26, m)>> \o rest \o <<Plain("mret")>>
Fence(m) == IF m.mpp = "M" THEN <<>> ELSE <<Plain("fence")>>

XsInit(m) == Enter(m, Pmp \o Fence(m) \o Delegation)
NutshellInit(m) == Enter(m, Pmp \o Delegation \o Fence(m))
Cva6Init(m) == Enter(m, Pmp \o Fence(m) \o Delegation)
BoomInit(m) == Enter(m, Pmp \o Fence(m) \o Delegation)
RocketInit(m) == Enter(m, Pmp \o Fence(m) \o Delegation)

\* la t6, mem_region; li t5, 4096; add t6, t6, t5
MemBase == <<La(31, "region"), Li({30}), La(31, "middle"), J("main")>>
XsInitReg == <<Fp, Li(1..15), Li({5}), Fmv(0..11)>> \o MemBase
NutshellInitReg == <<Li(1..31)>> \o MemBase
Cva6InitReg == <<Fp, Li(1..31), Li({5}), Fmv(0..31)>> \o MemBase
BoomInitReg == <<Fp, Li(1..31), Li({5}), Fmv(0..31)>> \o MemBase
RocketInitReg == <<Fp, Li(1..31), Li({5}), Fmv(0..31)>> \o MemBase

\* a trap handler that skips the instruction, whatever the cause
SkipAlways(epc, ret) == <<SkipOne(epc, 13), Plain(ret)>>
\* Mutant of SkipOrMask: the cause is looked at too late
SkipThenMask(cause, epc, ret, l) ==
  <<SkipOne(epc, 13), IfInterrupt(cause, 14, l), Plain(ret)>>
\* one that turns interrupts off instead when the cause is one
SkipOrMask(cause, epc, ret, l) == <<IfInterrupt(cause, 14, l)>> \o SkipAlways(epc, ret)

Vector(b, m, s) ==
  CASE b = "other_exp" -> m [] b = "other_exp_s" -> s [] OTHER -> <<>>
ExceptionVector(b) == Vector(b, SkipAlways("mepc", "mret"), SkipAlways("sepc", "sret"))
MaskingVector(b) ==
  CASE b = "m_int" -> <<MaskInterrupts("mie"), Plain("mret")>>
    [] b = "s_int" -> <<MaskInterrupts("sie"), Plain("sret")>>
    [] OTHER -> Vector(b, SkipOrMask("mcause", "mepc", "mret", "m_int"),
                          SkipOrMask("scause", "sepc", "sret", "s_int"))
Cva6ExceptionVector(b) == MaskingVector(b)
BoomExceptionVector(b) == MaskingVector(b)
RocketExceptionVector(b) == MaskingVector(b)

\* the hook with the seed's instructions, and the illegal one behind it
MainWithHook == [i \in 1..(Slots + 1) |-> Plain(IF i <= Slots THEN "hook" ELSE "illegal")]
NutshellMain == MainWithHook
WriteTohost == <<La(6, "known"), Li({7}), Plain("store")>>
Exit == <<Plain("nop"), J("_exit")>>

-----------------------------------------------------------------------------
(* The builders.                                                            *)

Assemble(b, startup, init, initReg, vector, main) ==
  CASE b = "_start" -> startup
    [] b = "init_env" -> init
    [] b = "init" -> initReg
    [] b = "main" -> main
    [] b = "write_tohost" -> WriteTohost
    [] b = "_exit" -> Exit
    [] OTHER -> vector

BuildXiangshan(b, m) ==
  Assemble(b, XsStartup, XsInit(m), XsInitReg, ExceptionVector(b), MainWithHook)
BuildNutshell(b, m) ==
  Assemble(b, NutshellStartup, NutshellInit(m), NutshellInitReg, ExceptionVector(b), NutshellMain)
BuildCva6(b, m) ==
  Assemble(b, Cva6Startup, Cva6Init(m), Cva6InitReg, Cva6ExceptionVector(b), MainWithHook)
BuildBoom(b, m) ==
  Assemble(b, BoomStartup, BoomInit(m), BoomInitReg, BoomExceptionVector(b), MainWithHook)
BuildRocket(b, m) ==
  Assemble(b, RocketStartup, RocketInit(m), RocketInitReg, RocketExceptionVector(b), MainWithHook)

BuildTemplate(t, m, b) ==
  CASE t = "xiangshan" -> BuildXiangshan(b, m)
    [] t = "nutshell" -> BuildNutshell(b, m)
    [] t = "cva6" -> BuildCva6(b, m)
    [] t = "boom" -> BuildBoom(b, m)
    [] t = "rocket" -> BuildRocket(b, m)
Block(b) == BuildTemplate(template, ms, b)

\* the block behind one that does not end in a jump
Behind(l) ==
  CASE l = "_start" -> "init_env" [] l = "main" -> "write_tohost"
    [] l = "write_tohost" -> "_exit" [] OTHER -> "lost"

Start(l) == <<l, 1>>
Following(pc) ==
  IF pc[1] = "lost" THEN Nowhere
  ELSE IF pc[2] < Len(Block(pc[1])) THEN <<pc[1], pc[2] + 1>>
  ELSE Start(Behind(pc[1]))

Instr == Block(at[1])[at[2]]
-----------------------------------------------------------------------------
(* The hart.                                                                *)

PmpDenies(m) == csr["pmp"] = "locked" \/ (csr["pmp"] # "open" /\ m # "M")
Translated(m) == m # "M" /\ csr["satp"] = "random"
Denied(m) == PmpDenies(m) \/ Translated(m)

\* the privilege of a load or store
DataMode == IF mode = "M" /\ status.mprv THEN status.mpp ELSE mode

\* a lower mode's exception goes to the supervisor's vector if it is delegated
Delegated(cause) == mode # "M" /\ cause = "exception" /\ csr["medeleg"] # "zero"
Trap(cause) ==
  /\ IF Delegated(cause)
     THEN /\ mode' = "S" /\ at' = Start(csr["stvec"])
          /\ csr' = [csr EXCEPT !["sepc"] = at, !["scause"] = cause]
          /\ UNCHANGED status
     ELSE /\ mode' = "M" /\ at' = Start(csr["mtvec"])
          /\ csr' = [csr EXCEPT !["mepc"] = at, !["mcause"] = cause]
          /\ status' = [status EXCEPT !.mpp = mode, !.mpie = status.mie, !.mie = FALSE]
  /\ resume' = IF cause = "interrupt" THEN at ELSE Nowhere
  /\ stormed' = (stormed \/ cause = "interrupt")
  /\ UNCHANGED <<gpr, fpr, tohost, flow>>

\* the next instruction cannot be fetched
FetchFault ==
  /\ at # Nowhere /\ Denied(mode)
  /\ Trap("exception")
  /\ UNCHANGED <<template, ms>>

\* the blocks behind the seed are assembled with compressed instructions, which
\* misa may turn off
Compressed(pc) == pc \in {<<"write_tohost", 2>>, <<"_exit", 1>>, <<"_exit", 2>>}
Illegal ==
  /\ Compressed(at) /\ csr["misa"] = "random"
  /\ Trap("exception")
  /\ UNCHANGED <<template, ms>>

\* random writes may enable an interrupt whose source nobody clears
Interrupt ==
  /\ at # Nowhere /\ csr["mie"] = "random" /\ (mode = "M" => status.mie)
  /\ Trap("interrupt")
  /\ UNCHANGED <<template, ms>>

Fetch(o) == at # Nowhere /\ Instr.op = o /\ UNCHANGED <<template, ms>>
Go(pc) == at' = pc /\ UNCHANGED <<mode, status, resume, stormed>>

\* li and la
LoadImmediate ==
  /\ Fetch("li") /\ Go(Following(at))
  /\ gpr' = [r \in 1..31 |-> IF r \in Instr.regs THEN Instr.val ELSE gpr[r]]
  /\ UNCHANGED <<fpr, csr, tohost, flow>>

\* li or la, then csrw: only machine mode may
WriteCsr ==
  /\ Fetch("csrw") /\ mode = "M"
  /\ gpr' = [gpr EXCEPT ![Instr.reg] = "known"]
  /\ IF "mstatus" \in Instr.csrs
     THEN status' = Instr.val /\ UNCHANGED csr
     ELSE /\ csr' = [c \in DOMAIN csr |-> IF c \in Instr.csrs THEN Instr.val ELSE csr[c]]
          /\ UNCHANGED status
  /\ at' = Following(at)
  /\ UNCHANGED <<mode, fpr, tohost, resume, stormed, flow>>

\* fsrmi and csrwi fflags, fmv: illegal while the unit is off
FpInit ==
  /\ at # Nowhere /\ Instr.op \in {"frm", "fmv"} /\ UNCHANGED <<template, ms>>
  /\ IF status.fs = "off"
     THEN Trap("exception")
     ELSE /\ Go(Following(at))
          /\ fpr' = IF Instr.op = "fmv" THEN fpr \cup Instr.fregs ELSE fpr
          /\ UNCHANGED <<gpr, csr, tohost, flow>>

\* sfence.vma and nop
Straight ==
  /\ at # Nowhere /\ Instr.op \in {"fence", "nop"} /\ UNCHANGED <<template, ms>>
  /\ Go(Following(at))
  /\ UNCHANGED <<gpr, fpr, csr, tohost, flow>>

\* the store to tohost
Store ==
  /\ Fetch("store")
  /\ IF Denied(DataMode)
     THEN Trap("exception")
     ELSE Go(Following(at)) /\ tohost' = TRUE /\ UNCHANGED <<gpr, fpr, csr, flow>>

Jump ==
  /\ Fetch("j") /\ Go(Start(Instr.label))
  /\ UNCHANGED <<gpr, fpr, csr, tohost, flow>>

\* mret, and sret of a supervisor handler that no test can reach
Return ==
  /\ at # Nowhere /\ Instr.op \in {"mret", "sret"} /\ UNCHANGED <<template, ms>>
  /\ at' = csr[IF Instr.op = "mret" THEN "mepc" ELSE "sepc"]
  /\ mode' = IF Instr.op = "mret" THEN status.mpp ELSE "S"
  /\ status' = [status EXCEPT !.mie = status.mpie, !.mpie = TRUE, !.mpp = "U",
                              !.mprv = @ /\ mode' = "M"]
  /\ resume' = Nowhere
  /\ UNCHANGED <<gpr, fpr, csr, tohost, stormed, flow>>

\* the handler's epc := epc + 4, behind the instruction unless it has two bytes
Skip ==
  /\ Fetch("skip") /\ Go(Following(at))
  /\ gpr' = [gpr EXCEPT ![Instr.reg] = "known"]
  /\ csr' = [csr EXCEPT ![Instr.csr] = IF Compressed(@) THEN Nowhere ELSE Following(@)]
  /\ through' = 0
  /\ UNCHANGED <<fpr, tohost, rounds>>

BranchOnInterrupt ==
  /\ Fetch("ifint")
  /\ Go(IF csr[Instr.csr] = "interrupt" THEN Start(Instr.label) ELSE Following(at))
  /\ gpr' = [gpr EXCEPT ![Instr.reg] = "known"]
  /\ UNCHANGED <<fpr, csr, tohost, flow>>

\* mstatus.MIE is cleared, too, but the handler runs with it cleared and
\* mret restores it from MPIE
Mask ==
  /\ Fetch("mask") /\ Go(Following(at))
  /\ gpr' = [r \in 1..31 |-> IF r \in Instr.regs THEN "known" ELSE gpr[r]]
  /\ csr' = [csr EXCEPT ![Instr.csr] = "zero"]
  /\ UNCHANGED <<fpr, tohost, flow>>

-----------------------------------------------------------------------------
(* The seed's instructions, all of four bytes: the generator draws no       *)
(* compressed ones, no mret and no sret.  An indirect jump is the address    *)
(* loaded into a register and the jump through it behind.                    *)

\* Mutant of Dest: t6 may be a destination
DestAll == Regs

\* the registers generated code may write: variables.py's reg_range
Dest == Regs \cap 1..29

\* the registers an indirect jump may go through: not sp, gp and tp
Pointers == Dest \ {2, 3, 4}

FetchHook == Fetch("hook") /\ through = 0
Known(R) == [r \in 1..31 |-> IF r \in R THEN "known" ELSE gpr[r]]

HookComputes ==
  /\ FetchHook /\ Go(Following(at))
  /\ \E r \in Dest, v \in {IF gpr[s] = "reset" THEN "reset" ELSE "known" : s \in 1..31} :
       gpr' = [gpr EXCEPT ![r] = v]
  /\ UNCHANGED <<fpr, csr, tohost, flow>>

HookTraps == FetchHook /\ Trap("exception")
Marker == Fetch("illegal") /\ Trap("exception")

\* a branch, taken or not, or a jal
HookJumps ==
  /\ FetchHook
  /\ \E n \in (at[2] + 1)..(Slots + 1) : Go(<<"main", n>>)
  /\ \E rd \in {{}} \cup {{r} : r \in Dest} : gpr' = Known(rd)
  /\ UNCHANGED <<fpr, csr, tohost, flow>>

\* the branch that closes a loop
HookLoops ==
  /\ FetchHook /\ rounds < Rounds
  /\ \E n \in 1..(at[2] - 1) : Go(<<"main", n>>)
  /\ rounds' = rounds + 1
  /\ UNCHANGED <<gpr, fpr, csr, tohost, through>>

\* auipc and addi
HookLoadsTarget ==
  /\ FetchHook /\ at[2] < Slots /\ Go(Following(at))
  /\ through' \in Pointers
  /\ gpr' = [gpr EXCEPT ![through'] = "target"]
  /\ UNCHANGED <<fpr, csr, tohost, rounds>>

\* jalr: if a trap handler had the register in between, to wherever it points
HookJumpsThrough ==
  /\ Fetch("hook") /\ through # 0
  /\ IF gpr[through] = "target"
     THEN \E n \in (at[2] + 1)..(Slots + 1) : Go(<<"main", n>>)
     ELSE Go(Nowhere)
  /\ \E rd \in Dest : gpr' = Known({rd, through})
  /\ through' = IF gpr[through] = "target" THEN 0 ELSE through
  /\ UNCHANGED <<fpr, csr, tohost, rounds>>

\* a write to one of csr_range that steers the hart: mtvec, mepc and mstatus
\* are not among them, and without delegation sie, stvec and sepc steer nothing
HookWritesCsr ==
  /\ FetchHook /\ Go(Following(at))
  /\ \/ /\ mode = "M"
        /\ \E c \in {"medeleg", "mie", "misa"} : csr' = [csr EXCEPT ![c] = "random"]
     \/ mode = "M" /\ \E v \in {"closed", "locked"} : csr' = [csr EXCEPT !["pmp"] = v]
     \/ mode # "U" /\ csr' = [csr EXCEPT !["satp"] = "random"]
  /\ UNCHANGED <<gpr, fpr, tohost, flow>>

BootInit ==
  /\ template \in Templates
  /\ ms \in MStatusOf(template)
  /\ at = Start("_start") /\ mode = "M"
  /\ gpr = [r \in 1..31 |-> "reset"]
  /\ fpr = {}
  /\ csr = [misa |-> "reset", mtvec |-> "lost", stvec |-> "lost", mepc |-> Nowhere,
             sepc |-> Nowhere, mcause |-> "reset", scause |-> "reset", medeleg |-> "reset",
             mie |-> "zero", sie |-> "zero", pmp |-> "reset", satp |-> "zero"]
  /\ status = [mpp |-> "M", fs |-> "off", mie |-> FALSE, mpie |-> FALSE, mprv |-> FALSE]
  /\ tohost = FALSE /\ resume = Nowhere /\ stormed = FALSE
  /\ rounds = 0 /\ through = 0

Executes ==
  \/ LoadImmediate \/ WriteCsr \/ FpInit \/ Straight \/ Store \/ Jump \/ Return
  \/ Skip \/ BranchOnInterrupt \/ Mask
  \/ HookComputes \/ HookTraps \/ HookWritesCsr \/ Marker
  \/ HookJumps \/ HookLoops \/ HookLoadsTarget \/ HookJumpsThrough

BootNext ==
  \/ ~ Denied(mode) /\ Executes
  \/ FetchFault
  \/ Illegal
  \/ Interrupt

BootSpec == BootInit /\ [][BootNext]_bootVars /\ WF_bootVars(BootNext)
-----------------------------------------------------------------------------
(* Properties.                                                              *)

BootTypeOK ==
  /\ template \in Templates /\ ms \in MStatusOf(template)
  /\ at = Nowhere \/ at[2] \in 1..Len(Block(at[1]))
  /\ mode \in {"M", "S", "U"} /\ status.mpp \in {"M", "S", "U"}
  /\ gpr \in [1..31 -> {"reset", "known", "region", "middle", "target"}]
  /\ fpr \subseteq 0..31
  /\ {tohost, stormed} \subseteq BOOLEAN
  /\ rounds \in 0..Rounds /\ through \in 0..31

(* Every register the seed may read was written by the boot code or from    *)
(* such registers: what a test computes does not depend on a reset value    *)
(* that the reference model and the device need not share.  XiangShan's     *)
(* boot code leaves x17-x25, x27-x29 and f12-f31 alone; NutShell has no     *)
(* floating-point unit.                                                     *)
Determined ==
  at[1] = "main" /\ template # "xiangshan" =>
    /\ \A r \in 1..31 : gpr[r] # "reset"
    /\ template # "nutshell" => fpr = 0..31

(* t6 points at the middle of the memory region at every instruction of the *)
(* seed: neither the seed nor a trap handler in between changes it.         *)
MiddleKept == at[1] = "main" => gpr[31] = "middle"

(* The seed runs in the privilege drawn for it, also after any number of    *)
(* traps.                                                                   *)
MainPrivilege == at[1] = "main" => mode = ms.mpp

(* Below machine mode no exception is delegated and memory is open, whatever *)
(* the seed writes to control registers.                                    *)
LowerModePrepared == mode # "M" => csr["medeleg"] = "zero" /\ csr["pmp"] = "open"

(* An interrupt costs no instruction where the handler tells interrupts from *)
(* exceptions: it returns to the instruction the interrupt hit.             *)
InterruptResumes == [][at = <<"m_int", 2>> => at' = resume]_bootVars

(* What can keep a test from its end: the seed locks memory against machine *)
(* mode; it turns on translation through a random page table or closes       *)
(* memory where its fetches, or the store to tohost under the MPRV drawn for *)
(* mstatus, are not machine mode's; it turns compressed instructions off; an *)
(* interrupt's handler does not turn it off; or an interrupt hits between an *)
(* address and the jump through it, and the handler takes the register.      *)
Derailed ==
  \/ csr["pmp"] = "locked"
  \/ Translated(mode)
  \/ status.mprv /\ (csr["pmp"] = "closed" \/ csr["satp"] = "random")
  \/ csr["misa"] = "random"
  \/ stormed /\ template \in {"xiangshan", "nutshell"}
  \/ through # 0 /\ gpr[through] # "target"

(* Every other test signals its end, wherever it traps or is interrupted.   *)
TestEnds == <>(tohost \/ Derailed)
=============================================================================
