----------------------------- MODULE ImmFields -----------------------------
(* _encode_immediate_field of reg_analyzer/instruction_encoder.py: the       *)
(* pieces of an immediate that go into the fields of a word.  A shift and a  *)
(* mask are \div and % by powers of two, and Python's and TLA+'s agree on    *)
(* negative numbers.                                                         *)
EXTENDS Integers

Bit(v, weight) == (v \div weight) % 2

\* S-type: imm[11:5] and imm[4:0].
Imm12Hi(v) == (v \div 32) % 128
Imm12Lo(v) == v % 32

\* B-type: imm[12|10:5] and imm[4:1|11].
BImm12Hi(v) == Bit(v, 4096) * 64 + ((v \div 32) % 64)
BImm12Lo(v) == ((v \div 2) % 16) * 2 + Bit(v, 2048)

\* J-type: imm[20|10:1|11|19:12].
JImm20(v) == Bit(v, 1048576) * 524288 + ((v \div 2) % 1024) * 512
             + Bit(v, 2048) * 256 + ((v \div 4096) % 256)

\* Every other immediate: the low bits, negative values shifted up first.
LowBits(v, width) == v % width

\* compile_indirect_jump's split of an offset for auipc and addi.
Lo12(t) == IF t % 4096 >= 2048 THEN (t % 4096) - 4096 ELSE t % 4096
Hi20(t) == IF t % 4096 >= 2048 THEN (t \div 4096 + 1) % 1048576
           ELSE (t \div 4096) % 1048576

-----------------------------------------------------------------------------
(* What the hart makes of the fields.                                        *)
Signed(v, half) == IF v >= half THEN v - 2 * half ELSE v

IValue(imm12) == Signed(imm12, 2048)
SValue(hi, lo) == Signed(hi * 32 + lo, 2048)
BValue(hi, lo) ==
    Signed((hi \div 64) * 4096 + (lo % 2) * 2048 + (hi % 64) * 32 + (lo \div 2) * 2, 4096)
JValue(f) ==
    Signed((f \div 524288) * 1048576 + (f % 256) * 4096 + ((f \div 256) % 2) * 2048
           + ((f \div 512) % 1024) * 2, 1048576)
=============================================================================
