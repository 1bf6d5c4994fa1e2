------------------------------ MODULE Profiles ------------------------------
(* The extension profiles of asm_template_manager/ext_list and the weights   *)
(* generate_instructions makes of one of them.  Probabilities are counted in *)
(* ten-thousandths.                                                          *)
EXTENDS Integers, Sequences, SequencesExt, Functions, FiniteSets

Cascade == <<"RV_ZICSR", "RV64_I", "rv_zifencei", "RV_I", "RV64_I", "RV_F", "RV_D", "RV64_F",
             "RV64_D", "RV_M", "RV64_M", "RV_F_ZFINX">>
Cva6 == <<"RV_ZICSR", "RV64_I", "rv_zifencei", "RV_I", "RV64_I", "RV_F", "RV_D", "RV64_F",
          "RV64_D", "RV_C", "RV_C_D", "RV32_C", "RV_M", "RV32_ZPN", "RV64_M", "RV_A",
          "RV64_A", "RV_ZBKB", "RV64_ZBKB", "RV_ZBKC", "RV_ZBKX", "RV64_ZK", "RV_ZK", "ROCC">>
Rv32 == <<"RV_ZICSR", "rv_zifencei", "RV_I", "RV_M", "RV32_ZPN", "RV_ZBKB", "RV_ZBKC",
          "rv_32B", "rv_zbs", "ILL">>
General == SubSeq(Cva6, 1, 9) \o SubSeq(Cva6, 11, 24) \o <<"ILL", "RV_F_ZFINX">>
Base == <<"RV64_I", "RV_I", "RV_F", "RV_D", "RV64_F", "RV64_D", "RV_M", "RV64_M", "RV_A",
          "RV64_A">>
NutShell == <<"RV_ZICSR", "rv_zifencei", "RV_I", "RV64_I", "RV_M", "RV64_M", "RV_C", "RV32_C">>
NutShell32 == <<"RV_ZICSR", "rv_zifencei", "RV_I", "RV_M", "RV_A", "RV_C", "RV32_C">>
IntegerPart == SubSeq(NutShell, 1, 6)
Floats == <<"RV_F", "RV64_F", "RV_D", "RV64_D">>
Compact == <<"RV_C", "RV_C_D", "RV32_C", "RV64_C">>
Boom == IntegerPart \o Floats \o Compact
XiangShan == Boom \o <<"rv_zbs", "RV_ZBKB", "RV64_ZBKB", "RV_ZBKC">>
Rocket == IntegerPart \o <<"RV_A", "RV64_A">> \o Floats \o Compact
Rocket32 == <<"RV_ZICSR", "rv_zifencei", "RV_I", "RV_M", "RV_A", "RV_F", "RV_D", "RV_C",
              "RV32_C">>

ALLOWED_EXT_PROFILES ==
    [cva6 |-> Cva6, cva6_cascade |-> Cascade, rv32 |-> Rv32, general |-> General,
     base |-> Base, nutshell |-> NutShell, nutshell_rv32 |-> NutShell32, boom |-> Boom,
     xiangshan |-> XiangShan, rocket |-> Rocket, rocket_rv32 |-> Rocket32]

SpecialCva6 ==
    [RV_ZICSR |-> 423, rv_zifencei |-> 42, RV_I |-> 1652, RV64_I |-> 635, RV_F |-> 84,
     RV_D |-> 1101, RV64_F |-> 209, RV64_D |-> 254, RV_C |-> 974, RV_C_D |-> 169,
     RV32_C |-> 42, RV_M |-> 296, RV32_ZPN |-> 42, RV64_M |-> 211, RV_A |-> 476,
     RV64_A |-> 466, RV_ZBKB |-> 796, RV64_ZBKB |-> 811, RV_ZBKC |-> 284, RV_ZBKX |-> 384,
     RV64_ZK |-> 466, RV_ZK |-> 169, ROCC |-> 42]
SpecialCascade ==
    [RV_ZICSR |-> 423, rv_zifencei |-> 42, RV_I |-> 1652, RV64_I |-> 635,
     RV_F_ZFINX |-> 1016, RV_F |-> 84, RV_D |-> 1101, RV64_F |-> 209, RV64_D |-> 254,
     RV_M |-> 296, RV64_M |-> 211, RV_C |-> 0, RV64_C |-> 0, RV32_C_F |-> 0, RV_C_D |-> 0,
     RV32_C |-> 0, RV_A |-> 0, RV64_A |-> 0, RV_ZBKB |-> 0, RV64_ZBKB |-> 0, RV_ZBKC |-> 0,
     RV_ZBKX |-> 0, RV64_ZK |-> 0, RV_ZK |-> 0, ILL |-> 0]

\* The profiles without an entry have an empty dictionary.
SPECIAL_PROBABILITIES(profile) ==
    CASE profile = "cva6" -> SpecialCva6
      [] profile = "cva6_cascade" -> SpecialCascade
      [] profile = "rv32" -> [RV_ZICSR |-> 230, rv_zifencei |-> 10, ILL |-> 10]
      [] profile = "general" -> [RV_A |-> 40, rv_zbs |-> 1400, RV_ZBKB |-> 1700,
                                 rv_32B |-> 500, RV_ZBKX |-> 200]
      [] OTHER -> <<>>

-----------------------------------------------------------------------------
Specified(special) == FoldFunction(+, 0, special)

\* remaining_ext_count; a list may name an extension twice.
\* Mutant of Remaining: every extension of the profile is counted once.
DistinctRemaining(allowed, special) ==
    Cardinality(ToSet(allowed)) - Cardinality(DOMAIN special)
Remaining(allowed, special) == Len(allowed) - Cardinality(DOMAIN special)

\* The weights before they are divided by their sum, times Remaining so that they
\* stay integers; undefined when Remaining is zero (ZeroDivisionError).
Weights(allowed, special) ==
    LET shares == Remaining(allowed, special)
        sign == IF shares < 0 THEN -1 ELSE 1
    IN  [i \in DOMAIN allowed |->
            sign * (IF allowed[i] \in DOMAIN special THEN special[allowed[i]] * shares
                    ELSE 10000 - Specified(special))]
Drawable(allowed, special) ==
    {allowed[i] : i \in {j \in DOMAIN allowed : Weights(allowed, special)[j] > 0}}
=============================================================================
