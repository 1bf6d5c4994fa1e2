---------------------------- MODULE JumpCompile ----------------------------
(* The jump sequences of reg_analyzer/hybrid_encoder.py: from the sizes of   *)
(* the encoded lines to the offsets written into the jump, and where control *)
(* then goes.  Offsets and addresses are in bytes from the first word of the *)
(* sequence.                                                                 *)
EXTENDS Integers, Sequences, ImmFields

\* Sums(sizes)[n]: the bytes of the first n lines.
Sums(sizes) ==
    LET sum[n \in 0..Len(sizes)] == IF n = 0 THEN 0 ELSE sum[n - 1] + sizes[n]
    IN  sum
Total(sizes) == Sums(sizes)[Len(sizes)]

CompressedJumps == {"c.beqz", "c.bnez", "c.j", "c.jal"}

\* Steps 3 of compile_forward_jump: the size assumed from the mnemonic.
AssumedJumpSize(op) == IF op \in CompressedJumps THEN 2 ELSE 4

\* Step 4, and the second encoding if the encoder's size differs from the assumed:
\* the offset is counted from the jump itself.
\* Mutant of ForwardOffset: the jump's own size is forgotten.
ForwardFromNext(op, actual, middle) == Total(middle)
ForwardOffset(op, actual, middle) ==
    IF actual # AssumedJumpSize(op) THEN actual + Total(middle)
    ELSE AssumedJumpSize(op) + Total(middle)

\* compile_backward_loop: from the branch back over the body and the decrement.
BackwardOffset(body, decrement) == -(Total(body) + decrement)

\* compile_indirect_jump: from the auipc over auipc, addi, the jump and the middle.
IndirectOffset(jump, middle) == 8 + jump + Total(middle)
LoadedAddress(auipc, offset) == auipc + Hi20(offset) * 4096 + Lo12(offset)
=============================================================================
