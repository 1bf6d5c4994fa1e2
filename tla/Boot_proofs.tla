----------------------------- MODULE Boot_proofs -----------------------------
(* Theorems about Boot, for every number of instructions of the seed and every *)
(* way they trap, are interrupted and write control registers.                 *)
EXTENDS Boot, SequenceTheorems, TLAPS

-----------------------------------------------------------------------------
(* The blocks, written out.                                                  *)

LEMMA Joined ==
  ASSUME NEW S, NEW s \in Seq(S), NEW t \in Seq(S), NEW u \in Seq(S),
         Len(u) = Len(s) + Len(t),
         \A i \in 1..Len(s) : u[i] = s[i],
         \A i \in 1..Len(t) : u[Len(s) + i] = t[i]
  PROVE  s \o t = u
  <1>1. s \o t \in Seq(S) /\ Len(s \o t) = Len(u)
    BY ConcatProperties
  <1>2. ASSUME NEW i \in 1..Len(u) PROVE (s \o t)[i] = u[i]
    <2>1. Len(s) \in Nat /\ Len(t) \in Nat
      BY LenProperties
    <2>2. CASE i <= Len(s)
      BY <2>1, <2>2, ConcatProperties
    <2>3. CASE i > Len(s)
      <3>1. i - Len(s) \in 1..Len(t) /\ i = Len(s) + (i - Len(s))
        BY <2>1, <2>3
      <3>2. u[i] = t[i - Len(s)]
        BY <3>1
      <3> QED BY <2>1, <2>3, <3>2, ConcatProperties
    <2> QED BY <2>1, <2>2, <2>3
  <1> QED BY <1>1, <1>2, SeqEqual

LEMMA OneTwo ==
  ASSUME NEW a, NEW b, NEW c
  PROVE  <<a>> \o <<b, c>> = <<a, b, c>>
  <1> DEFINE S == {a, b, c}
             s == <<a>>
             t == <<b, c>>
             u == <<a, b, c>>
  <1>1. /\ s \in Seq(S) /\ t \in Seq(S) /\ u \in Seq(S)
        /\ Len(s) = 1 /\ Len(t) = 2 /\ Len(u) = 3
        /\ s[1] = u[1]
        /\ t[1] = u[2] /\ t[2] = u[3]
    OBVIOUS
  <1> HIDE DEF S, s, t, u
  <1>2. /\ Len(u) = Len(s) + Len(t)
        /\ \A i \in 1..Len(s) : u[i] = s[i]
        /\ \A i \in 1..Len(t) : u[Len(s) + i] = t[i]
    BY <1>1
  <1>3. s \o t = u
    BY <1>1, <1>2, Joined, Zenon
  <1> QED BY <1>3, Zenon DEF s, t, u

LEMMA OneThree ==
  ASSUME NEW a, NEW b, NEW c, NEW d
  PROVE  <<a>> \o <<b, c, d>> = <<a, b, c, d>>
  <1> DEFINE S == {a, b, c, d}
             s == <<a>>
             t == <<b, c, d>>
             u == <<a, b, c, d>>
  <1>1. /\ s \in Seq(S) /\ t \in Seq(S) /\ u \in Seq(S)
        /\ Len(s) = 1 /\ Len(t) = 3 /\ Len(u) = 4
        /\ s[1] = u[1]
        /\ t[1] = u[2] /\ t[2] = u[3] /\ t[3] = u[4]
    OBVIOUS
  <1> HIDE DEF S, s, t, u
  <1>2. /\ Len(u) = Len(s) + Len(t)
        /\ \A i \in 1..Len(s) : u[i] = s[i]
        /\ \A i \in 1..Len(t) : u[Len(s) + i] = t[i]
    BY <1>1
  <1>3. s \o t = u
    BY <1>1, <1>2, Joined, Zenon
  <1> QED BY <1>3, Zenon DEF s, t, u

LEMMA OneFour ==
  ASSUME NEW a, NEW b, NEW c, NEW d, NEW e
  PROVE  <<a>> \o <<b, c, d, e>> = <<a, b, c, d, e>>
  <1> DEFINE S == {a, b, c, d, e}
             s == <<a>>
             t == <<b, c, d, e>>
             u == <<a, b, c, d, e>>
  <1>1. /\ s \in Seq(S) /\ t \in Seq(S) /\ u \in Seq(S)
        /\ Len(s) = 1 /\ Len(t) = 4 /\ Len(u) = 5
        /\ s[1] = u[1]
        /\ t[1] = u[2] /\ t[2] = u[3] /\ t[3] = u[4] /\ t[4] = u[5]
    OBVIOUS
  <1> HIDE DEF S, s, t, u
  <1>2. /\ Len(u) = Len(s) + Len(t)
        /\ \A i \in 1..Len(s) : u[i] = s[i]
        /\ \A i \in 1..Len(t) : u[Len(s) + i] = t[i]
    BY <1>1
  <1>3. s \o t = u
    BY <1>1, <1>2, Joined, Zenon
  <1> QED BY <1>3, Zenon DEF s, t, u

LEMMA TwoOne ==
  ASSUME NEW a, NEW b, NEW c
  PROVE  <<a, b>> \o <<c>> = <<a, b, c>>
  <1> DEFINE S == {a, b, c}
             s == <<a, b>>
             t == <<c>>
             u == <<a, b, c>>
  <1>1. /\ s \in Seq(S) /\ t \in Seq(S) /\ u \in Seq(S)
        /\ Len(s) = 2 /\ Len(t) = 1 /\ Len(u) = 3
        /\ s[1] = u[1] /\ s[2] = u[2]
        /\ t[1] = u[3]
    OBVIOUS
  <1> HIDE DEF S, s, t, u
  <1>2. /\ Len(u) = Len(s) + Len(t)
        /\ \A i \in 1..Len(s) : u[i] = s[i]
        /\ \A i \in 1..Len(t) : u[Len(s) + i] = t[i]
    BY <1>1
  <1>3. s \o t = u
    BY <1>1, <1>2, Joined, Zenon
  <1> QED BY <1>3, Zenon DEF s, t, u

LEMMA ThreeOne ==
  ASSUME NEW a, NEW b, NEW c, NEW d
  PROVE  <<a, b, c>> \o <<d>> = <<a, b, c, d>>
  <1> DEFINE S == {a, b, c, d}
             s == <<a, b, c>>
             t == <<d>>
             u == <<a, b, c, d>>
  <1>1. /\ s \in Seq(S) /\ t \in Seq(S) /\ u \in Seq(S)
        /\ Len(s) = 3 /\ Len(t) = 1 /\ Len(u) = 4
        /\ s[1] = u[1] /\ s[2] = u[2] /\ s[3] = u[3]
        /\ t[1] = u[4]
    OBVIOUS
  <1> HIDE DEF S, s, t, u
  <1>2. /\ Len(u) = Len(s) + Len(t)
        /\ \A i \in 1..Len(s) : u[i] = s[i]
        /\ \A i \in 1..Len(t) : u[Len(s) + i] = t[i]
    BY <1>1
  <1>3. s \o t = u
    BY <1>1, <1>2, Joined, Zenon
  <1> QED BY <1>3, Zenon DEF s, t, u

LEMMA FourOne ==
  ASSUME NEW a, NEW b, NEW c, NEW d, NEW e
  PROVE  <<a, b, c, d>> \o <<e>> = <<a, b, c, d, e>>
  <1> DEFINE S == {a, b, c, d, e}
             s == <<a, b, c, d>>
             t == <<e>>
             u == <<a, b, c, d, e>>
  <1>1. /\ s \in Seq(S) /\ t \in Seq(S) /\ u \in Seq(S)
        /\ Len(s) = 4 /\ Len(t) = 1 /\ Len(u) = 5
        /\ s[1] = u[1] /\ s[2] = u[2] /\ s[3] = u[3] /\ s[4] = u[4]
        /\ t[1] = u[5]
    OBVIOUS
  <1> HIDE DEF S, s, t, u
  <1>2. /\ Len(u) = Len(s) + Len(t)
        /\ \A i \in 1..Len(s) : u[i] = s[i]
        /\ \A i \in 1..Len(t) : u[Len(s) + i] = t[i]
    BY <1>1
  <1>3. s \o t = u
    BY <1>1, <1>2, Joined, Zenon
  <1> QED BY <1>3, Zenon DEF s, t, u

LEMMA FiveOne ==
  ASSUME NEW a, NEW b, NEW c, NEW d, NEW e, NEW f
  PROVE  <<a, b, c, d, e>> \o <<f>> = <<a, b, c, d, e, f>>
  <1> DEFINE S == {a, b, c, d, e, f}
             s == <<a, b, c, d, e>>
             t == <<f>>
             u == <<a, b, c, d, e, f>>
  <1>1. /\ s \in Seq(S) /\ t \in Seq(S) /\ u \in Seq(S)
        /\ Len(s) = 5 /\ Len(t) = 1 /\ Len(u) = 6
        /\ s[1] = u[1] /\ s[2] = u[2] /\ s[3] = u[3] /\ s[4] = u[4] /\ s[5] = u[5]
        /\ t[1] = u[6]
    OBVIOUS
  <1> HIDE DEF S, s, t, u
  <1>2. /\ Len(u) = Len(s) + Len(t)
        /\ \A i \in 1..Len(s) : u[i] = s[i]
        /\ \A i \in 1..Len(t) : u[Len(s) + i] = t[i]
    BY <1>1
  <1>3. s \o t = u
    BY <1>1, <1>2, Joined, Zenon
  <1> QED BY <1>3, Zenon DEF s, t, u

LEMMA FourFour ==
  ASSUME NEW a, NEW b, NEW c, NEW d, NEW e, NEW f, NEW g, NEW h
  PROVE  <<a, b, c, d>> \o <<e, f, g, h>> = <<a, b, c, d, e, f, g, h>>
  <1> DEFINE S == {a, b, c, d, e, f, g, h}
             s == <<a, b, c, d>>
             t == <<e, f, g, h>>
             u == <<a, b, c, d, e, f, g, h>>
  <1>1. /\ s \in Seq(S) /\ t \in Seq(S) /\ u \in Seq(S)
        /\ Len(s) = 4 /\ Len(t) = 4 /\ Len(u) = 8
        /\ s[1] = u[1] /\ s[2] = u[2] /\ s[3] = u[3] /\ s[4] = u[4]
        /\ t[1] = u[5] /\ t[2] = u[6] /\ t[3] = u[7] /\ t[4] = u[8]
    OBVIOUS
  <1> HIDE DEF S, s, t, u
  <1>2. /\ Len(u) = Len(s) + Len(t)
        /\ \A i \in 1..Len(s) : u[i] = s[i]
        /\ \A i \in 1..Len(t) : u[Len(s) + i] = t[i]
    BY <1>1
  <1>3. s \o t = u
    BY <1>1, <1>2, Joined, Zenon
  <1> QED BY <1>3, Zenon DEF s, t, u

Names == {"xiangshan", "nutshell", "cva6", "boom", "rocket"}
\* The templates whose handlers tell interrupts from exceptions.
Masking == {"cva6", "boom", "rocket"}

LEMMA Blocks ==
  ASSUME NEW m, NEW t \in Names
  PROVE  /\ BuildTemplate(t, m, "_start") = (IF t = "xiangshan" THEN XsStartup ELSE Vectors)
         /\ BuildTemplate(t, m, "init_env") =
              (IF t = "nutshell" THEN NutshellInit(m) ELSE XsInit(m))
         /\ BuildTemplate(t, m, "init") =
              (IF t = "xiangshan" THEN XsInitReg
               ELSE IF t = "nutshell" THEN NutshellInitReg ELSE Cva6InitReg)
         /\ BuildTemplate(t, m, "main") = MainWithHook
         /\ BuildTemplate(t, m, "write_tohost") = WriteTohost
         /\ BuildTemplate(t, m, "_exit") = Exit
         /\ BuildTemplate(t, m, "other_exp") =
              (IF t \in {"xiangshan", "nutshell"} THEN SkipAlways("mepc", "mret")
               ELSE SkipOrMask("mcause", "mepc", "mret", "m_int"))
         /\ BuildTemplate(t, m, "m_int") =
              (IF t \in {"xiangshan", "nutshell"} THEN <<>>
               ELSE <<MaskInterrupts("mie"), Plain("mret")>>)
  <1>1. CASE t = "xiangshan"
    <2>1. \A b : BuildTemplate(t, m, b) = BuildXiangshan(b, m)
      BY <1>1 DEF BuildTemplate
    <2> QED BY <1>1, <2>1 DEF BuildXiangshan, Assemble, ExceptionVector, Vector
  <1>2. CASE t = "nutshell"
    <2>1. \A b : BuildTemplate(t, m, b) = BuildNutshell(b, m)
      BY <1>2 DEF BuildTemplate
    <2> QED BY <1>2, <2>1 DEF BuildNutshell, Assemble, ExceptionVector, Vector, NutshellStartup,
                              NutshellMain
  <1>3. CASE t = "cva6"
    <2>1. \A b : BuildTemplate(t, m, b) = BuildCva6(b, m)
      BY <1>3 DEF BuildTemplate
    <2> QED BY <1>3, <2>1 DEF BuildCva6, Assemble, Cva6ExceptionVector, MaskingVector, Vector,
                              Cva6Startup, Cva6Init, XsInit
  <1>4. CASE t = "boom"
    <2>1. \A b : BuildTemplate(t, m, b) = BuildBoom(b, m)
      BY <1>4 DEF BuildTemplate
    <2> QED BY <1>4, <2>1 DEF BuildBoom, Assemble, BoomExceptionVector, MaskingVector, Vector,
                              BoomStartup, BoomInit, XsInit, BoomInitReg, Cva6InitReg
  <1>5. CASE t = "rocket"
    <2>1. \A b : BuildTemplate(t, m, b) = BuildRocket(b, m)
      BY <1>5 DEF BuildTemplate
    <2> QED BY <1>5, <2>1 DEF BuildRocket, Assemble, RocketExceptionVector, MaskingVector, Vector,
                              RocketStartup, RocketInit, XsInit, RocketInitReg, Cva6InitReg
  <1> QED BY <1>1, <1>2, <1>3, <1>4, <1>5 DEF Names

LEMMA ThreeEntries ==
  ASSUME NEW a, NEW b, NEW c, NEW s, s = <<a, b, c>>
  PROVE  Len(s) = 3 /\ s[1] = a /\ s[2] = b /\ s[3] = c /\ 1..3 = {1, 2, 3}
  OBVIOUS
LEMMA FourEntries ==
  ASSUME NEW a, NEW b, NEW c, NEW d, NEW s, s = <<a, b, c, d>>
  PROVE  Len(s) = 4 /\ s[1] = a /\ s[2] = b /\ s[3] = c /\ s[4] = d /\ 1..4 = {1, 2, 3, 4}
  OBVIOUS
LEMMA FiveEntries ==
  ASSUME NEW a, NEW b, NEW c, NEW d, NEW e, NEW s, s = <<a, b, c, d, e>>
  PROVE  /\ Len(s) = 5 /\ s[1] = a /\ s[2] = b /\ s[3] = c /\ s[4] = d /\ s[5] = e
         /\ 1..4 = {1, 2, 3, 4} /\ 3..4 = {3, 4}
  OBVIOUS
LEMMA SixEntries ==
  ASSUME NEW a, NEW b, NEW c, NEW d, NEW e, NEW f, NEW s, s = <<a, b, c, d, e, f>>
  PROVE  /\ Len(s) = 6 /\ s[1] = a /\ s[2] = b /\ s[3] = c /\ s[4] = d /\ s[5] = e /\ s[6] = f
         /\ 3..5 = {3, 4, 5}
  OBVIOUS
LEMMA EightEntries ==
  ASSUME NEW a, NEW b, NEW c, NEW d, NEW e, NEW f, NEW g, NEW h,
         NEW s, s = <<a, b, c, d, e, f, g, h>>
  PROVE  /\ Len(s) = 8 /\ s[1] = a /\ s[2] = b /\ s[3] = c /\ s[4] = d /\ s[5] = e /\ s[6] = f
         /\ s[7] = g /\ s[8] = h
  OBVIOUS

LEMMA StartupBlock ==
  ASSUME NEW m, NEW t \in Names, NEW b, b = BuildTemplate(t, m, "_start")
  PROVE  /\ Len(b) \in {3, 4}
         /\ \A i \in 1..Len(b) :
              /\ b[i].op = "csrw" /\ b[i].reg = 13
              /\ b[i].csrs \cap {"mstatus", "pmp", "mie", "satp"} = {}
              /\ "mtvec" \in b[i].csrs => b[i].val = "other_exp"
         /\ "mtvec" \in b[Len(b) - 2].csrs
         /\ "mepc" \in b[Len(b)].csrs /\ b[Len(b)].val = <<"init", 1>>
  <1> DEFINE A == Csrw({"misa"}, 13, "value")
             T == Csrw({"mtvec"}, 13, "other_exp")
             S == Csrw({"stvec"}, 13, "other_exp_s")
             E == Csrw({"mepc"}, 13, <<"init", 1>>)
  <1>1. XsStartup = <<A, T, S, E>> /\ Vectors = <<T, S, E>>
    BY OneThree DEF XsStartup, Vectors
  <1> HIDE DEF A, T, S, E
  <1>2. b = <<A, T, S, E>> \/ b = <<T, S, E>>
    BY <1>1, Blocks
  <1>3. CASE b = <<A, T, S, E>>
    BY <1>3, FourEntries DEF A, T, S, E, Csrw
  <1>4. CASE b = <<T, S, E>>
    BY <1>4, ThreeEntries DEF T, S, E, Csrw
  <1> QED BY <1>2, <1>3, <1>4

LEMMA EnvBlock ==
  ASSUME NEW m, NEW t \in Names, NEW b, b = BuildTemplate(t, m, "init_env")
  PROVE  /\ Len(b) \in {5, 6}
         /\ b[1] = Csrw({"mstatus"}, 26, m) /\ b[2] = Csrw({"pmp"}, 16, "open")
         /\ \A i \in 3..(Len(b) - 1) :
              b[i] \in {Li({16}), Plain("fence"), Csrw({"medeleg", "mie"}, 26, "zero")}
         /\ \E i \in 3..(Len(b) - 1) : b[i] = Csrw({"medeleg", "mie"}, 26, "zero")
         /\ b[Len(b)] = Plain("mret")
  <1> DEFINE S == Csrw({"mstatus"}, 26, m)
             P == Csrw({"pmp"}, 16, "open")
             L == Li({16})
             F == Plain("fence")
             D == Csrw({"medeleg", "mie"}, 26, "zero")
             R == Plain("mret")
             X == Fence(m)
  <1>1. Pmp = <<P, L>> /\ Delegation = <<D>> /\ X = (IF m.mpp = "M" THEN <<>> ELSE <<F>>)
    BY DEF Pmp, Delegation, Fence
  <1>2. /\ XsInit(m) = (<<S>> \o ((<<P, L>> \o X) \o <<D>>)) \o <<R>>
        /\ NutshellInit(m) = (<<S>> \o ((<<P, L>> \o <<D>>) \o X)) \o <<R>>
    BY <1>1, Zenon DEF XsInit, NutshellInit, Enter
  <1> HIDE DEF S, P, L, F, D, R, X
  <1>3. <<P, L>> \o <<D>> = <<P, L, D>>
    BY TwoOne
  <1>4. CASE X = <<>>
    <2>1. <<P, L>> \o X = <<P, L>> /\ <<P, L, D>> \o X = <<P, L, D>>
      BY <1>4
    <2>2. /\ XsInit(m) = (<<S>> \o <<P, L, D>>) \o <<R>>
          /\ NutshellInit(m) = (<<S>> \o <<P, L, D>>) \o <<R>>
      BY <1>2, <1>3, <2>1, Zenon
    <2>3. (<<S>> \o <<P, L, D>>) \o <<R>> = <<S, P, L, D, R>>
      <3>1. <<S>> \o <<P, L, D>> = <<S, P, L, D>>
        BY OneThree
      <3>2. <<S, P, L, D>> \o <<R>> = <<S, P, L, D, R>>
        BY FourOne
      <3> QED BY <3>1, <3>2, Zenon
    <2>4. b = <<S, P, L, D, R>>
      BY <2>2, <2>3, Blocks, Zenon
    <2>5. /\ Len(b) = 5 /\ b[1] = S /\ b[2] = P /\ b[3] = L /\ b[4] = D /\ b[5] = R
          /\ 3..4 = {3, 4}
      BY <2>4, FiveEntries
    <2>6. (\A i \in 3..4 : b[i] \in {L, F, D}) /\ (\E i \in 3..4 : b[i] = D)
      BY <2>5
    <2>7. Len(b) - 1 = 4
      BY <2>5
    <2> QED BY <2>5, <2>6, <2>7 DEF S, P, L, F, D, R
  <1>5. CASE X = <<F>>
    <2>1. <<P, L>> \o X = <<P, L, F>> /\ <<P, L, D>> \o X = <<P, L, D, F>>
      BY <1>5, TwoOne, ThreeOne, Zenon
    <2>2. <<P, L, F>> \o <<D>> = <<P, L, F, D>>
      BY ThreeOne
    <2>3. /\ XsInit(m) = (<<S>> \o <<P, L, F, D>>) \o <<R>>
          /\ NutshellInit(m) = (<<S>> \o <<P, L, D, F>>) \o <<R>>
      BY <1>2, <1>3, <2>1, <2>2, Zenon
    <2>4. /\ (<<S>> \o <<P, L, F, D>>) \o <<R>> = <<S, P, L, F, D, R>>
          /\ (<<S>> \o <<P, L, D, F>>) \o <<R>> = <<S, P, L, D, F, R>>
      <3>1. /\ <<S>> \o <<P, L, F, D>> = <<S, P, L, F, D>>
            /\ <<S>> \o <<P, L, D, F>> = <<S, P, L, D, F>>
        BY OneFour
      <3>2. /\ <<S, P, L, F, D>> \o <<R>> = <<S, P, L, F, D, R>>
            /\ <<S, P, L, D, F>> \o <<R>> = <<S, P, L, D, F, R>>
        BY FiveOne
      <3> QED BY <3>1, <3>2, Zenon
    <2>5. b = <<S, P, L, F, D, R>> \/ b = <<S, P, L, D, F, R>>
      BY <2>3, <2>4, Blocks, Zenon
    <2>6. /\ Len(b) = 6 /\ b[1] = S /\ b[2] = P /\ b[6] = R /\ 3..5 = {3, 4, 5}
          /\ b[3] = L /\ {b[4], b[5]} = {F, D}
      BY <2>5, SixEntries
    <2>7. \A i \in 3..5 : b[i] \in {L, F, D}
      BY <2>6
    <2>8. \E i \in 3..5 : b[i] = D
      BY <2>6
    <2>9. Len(b) - 1 = 5
      BY <2>6
    <2> QED BY <2>6, <2>7, <2>8, <2>9 DEF S, P, L, F, D, R
  <1> QED BY <1>1, <1>4, <1>5

SetsRegisters(b, t) ==
  /\ Len(b) \in {5, 8}
  /\ \A i \in 1..(Len(b) - 1) :
       \/ b[i].op = "frm" /\ t # "nutshell"
       \/ b[i].op = "fmv" /\ t # "nutshell" /\ b[i].fregs \subseteq 0..31
       \/ /\ b[i].op = "li" /\ b[i].val \in {"known", "region", "middle"}
          /\ b[i].regs \subseteq 1..31
  /\ b[Len(b) - 1] = La(31, "middle") /\ b[Len(b)] = J("main")
  /\ t # "xiangshan" => \E i \in 1..(Len(b) - 1) : b[i] = Li(1..31)
  /\ t \in Masking => \E i \in 1..(Len(b) - 1) : b[i] = Fmv(0..31)
LEMMA RegistersBlock ==
  ASSUME NEW m, NEW t \in Names, NEW b, b = BuildTemplate(t, m, "init")
  PROVE  SetsRegisters(b, t)
  <1> USE DEF SetsRegisters
  <1> DEFINE G == La(31, "region")
             K == Li({30})
             M == La(31, "middle")
             E == J("main")
  <1>1. MemBase = <<G, K, M, E>>
    BY DEF MemBase
  <1>2. /\ Fp.op = "frm" /\ \A F : Fmv(F).op = "fmv"
        /\ \A R : Li(R).op = "li" /\ Li(R).val = "known" /\ Li(R).regs = R
        /\ G.op = "li" /\ G.val = "region" /\ M.op = "li" /\ M.val = "middle"
        /\ G.regs = {31} /\ M.regs = {31} /\ K.regs = {30}
        /\ (1..15) \subseteq (1..31) /\ 5 \in 1..31 /\ {30, 31} \subseteq 1..31
        /\ K.op = "li" /\ K.val = "known" /\ M = La(31, "middle") /\ E = J("main")
    BY DEF Fp, Plain, Li, La, Fmv
  <1> HIDE DEF G, K, M, E
  <1>3. CASE t = "xiangshan"
    <2>1. b = <<Fp, Li(1..15), Li({5}), Fmv(0..11), G, K, M, E>>
      BY <1>1, <1>3, Blocks, FourFour DEF XsInitReg
    <2>2. /\ b[1] = Fp /\ b[2] = Li(1..15) /\ b[3] = Li({5}) /\ b[4] = Fmv(0..11)
          /\ b[5] = G /\ b[6] = K /\ b[7] = M /\ b[8] = E
          /\ Len(b) = 8 /\ 1..7 = {1, 2, 3, 4, 5, 6, 7}
      BY <2>1, EightEntries
    <2>3. Fmv(0..11).fregs \subseteq 0..31
      BY DEF Fmv
    <2>4. \A i \in 1..7 :
              \/ b[i].op = "frm"
              \/ b[i].op = "fmv" /\ b[i].fregs \subseteq 0..31
              \/ /\ b[i].op = "li" /\ b[i].val \in {"known", "region", "middle"}
                 /\ b[i].regs \subseteq 1..31
      BY <1>2, <2>2, <2>3
    <2>5. Len(b) - 1 = 7
      BY <2>2
    <2> QED BY <1>2, <1>3, <2>2, <2>4, <2>5 DEF Masking
  <1>4. CASE t = "nutshell"
    <2>1. b = <<Li(1..31), G, K, M, E>>
      BY <1>1, <1>4, Blocks, OneFour DEF NutshellInitReg
    <2>2. /\ b[1] = Li(1..31) /\ b[2] = G
          /\ b[3] = K /\ b[4] = M /\ b[5] = E
          /\ Len(b) = 5 /\ 1..4 = {1, 2, 3, 4}
      BY <2>1, FiveEntries
    <2>3. \A i \in 1..4 : /\ b[i].op = "li" /\ b[i].val \in {"known", "region", "middle"}
                        /\ b[i].regs \subseteq 1..31
      BY <1>2, <2>2
    <2>4. Len(b) - 1 = 4
      BY <2>2
    <2> QED BY <1>2, <1>4, <2>2, <2>3, <2>4 DEF Masking
  <1>5. CASE t \in Masking
    <2>1. b = <<Fp, Li(1..31), Li({5}), Fmv(0..31), G, K, M, E>>
      BY <1>1, <1>5, Blocks, FourFour DEF Cva6InitReg, Masking
    <2>2. /\ b[1] = Fp /\ b[2] = Li(1..31) /\ b[3] = Li({5}) /\ b[4] = Fmv(0..31)
          /\ b[5] = G /\ b[6] = K /\ b[7] = M /\ b[8] = E
          /\ Len(b) = 8 /\ 1..7 = {1, 2, 3, 4, 5, 6, 7}
      BY <2>1, EightEntries
    <2>3. Fmv(0..31).fregs \subseteq 0..31
      BY DEF Fmv
    <2>4. \A i \in 1..7 :
              \/ b[i].op = "frm"
              \/ b[i].op = "fmv" /\ b[i].fregs \subseteq 0..31
              \/ /\ b[i].op = "li" /\ b[i].val \in {"known", "region", "middle"}
                 /\ b[i].regs \subseteq 1..31
      BY <1>2, <2>2, <2>3
    <2>5. Len(b) - 1 = 7
      BY <2>2
    <2> QED BY <1>2, <1>5, <2>2, <2>4, <2>5 DEF Masking
  <1> QED BY <1>3, <1>4, <1>5 DEF Names, Masking

LEMMA MainBlock ==
  ASSUME NEW m, NEW t \in Names, NEW b, b = BuildTemplate(t, m, "main")
  PROVE  /\ Len(b) = Slots + 1 /\ Len(b) \in Nat \ {0}
         /\ \A i \in 1..Len(b) : b[i].op \in {"hook", "illegal"}
  <1>1. b = [i \in 1..(Slots + 1) |-> Plain(IF i <= Slots THEN "hook" ELSE "illegal")]
    BY Blocks DEF MainWithHook
  <1>2. Slots + 1 \in Nat /\ Slots + 1 # 0
    BY BootAssumption
  <1>3. b \in Seq({Plain("hook"), Plain("illegal")}) /\ Len(b) = Slots + 1
    BY <1>1, <1>2
  <1>4. \A i \in 1..Len(b) : b[i] \in {Plain("hook"), Plain("illegal")}
    BY <1>3, ElementOfSeq
  <1> QED BY <1>2, <1>3, <1>4 DEF Plain

LEMMA EpilogueBlocks ==
  ASSUME NEW m, NEW t \in Names,
         NEW w, w = BuildTemplate(t, m, "write_tohost"), NEW e, e = BuildTemplate(t, m, "_exit")
  PROVE  /\ Len(w) = 3 /\ w[1] = La(6, "known") /\ w[2] = Li({7}) /\ w[3] = Plain("store")
         /\ Len(e) = 2 /\ e[1] = Plain("nop") /\ e[2] = J("_exit")
  <1>1. w = <<La(6, "known"), Li({7}), Plain("store")>> /\ e = <<Plain("nop"), J("_exit")>>
    BY Blocks DEF WriteTohost, Exit
  <1> QED BY <1>1, ThreeEntries

LEMMA HandlerBlocks ==
  ASSUME NEW m, NEW t \in Names,
         NEW o, o = BuildTemplate(t, m, "other_exp"), NEW i, i = BuildTemplate(t, m, "m_int")
  PROVE  /\ t \in {"xiangshan", "nutshell"} =>
              /\ Len(o) = 2 /\ o[1] = SkipOne("mepc", 13) /\ o[2] = Plain("mret")
              /\ Len(i) = 0
         /\ t \in Masking =>
              /\ Len(o) = 3 /\ o[1] = IfInterrupt("mcause", 14, "m_int")
              /\ o[2] = SkipOne("mepc", 13) /\ o[3] = Plain("mret")
              /\ Len(i) = 2 /\ i[1] = MaskInterrupts("mie") /\ i[2] = Plain("mret")
  <1>1. ASSUME t \in {"xiangshan", "nutshell"}
        PROVE  o = <<SkipOne("mepc", 13), Plain("mret")>> /\ i = <<>>
    BY <1>1, Blocks DEF SkipAlways
  <1>2. ASSUME t \in Masking
        PROVE  /\ o = <<IfInterrupt("mcause", 14, "m_int"), SkipOne("mepc", 13), Plain("mret")>>
               /\ i = <<MaskInterrupts("mie"), Plain("mret")>>
    <2>1. SkipOrMask("mcause", "mepc", "mret", "m_int") =
            <<IfInterrupt("mcause", 14, "m_int"), SkipOne("mepc", 13), Plain("mret")>>
      BY OneTwo DEF SkipOrMask, SkipAlways
    <2> QED BY <1>2, <2>1, Blocks DEF Masking
  <1>3. t \in {"xiangshan", "nutshell"} =>
              /\ Len(o) = 2 /\ o[1] = SkipOne("mepc", 13) /\ o[2] = Plain("mret")
              /\ Len(i) = 0
    BY <1>1
  <1>4. t \in Masking =>
              /\ Len(o) = 3 /\ o[1] = IfInterrupt("mcause", 14, "m_int")
              /\ o[2] = SkipOne("mepc", 13) /\ o[3] = Plain("mret")
    BY <1>2, ThreeEntries
  <1>5. t \in Masking =>
              /\ Len(i) = 2 /\ i[1] = MaskInterrupts("mie") /\ i[2] = Plain("mret")
    BY <1>2
  <1> QED BY <1>3, <1>4, <1>5

-----------------------------------------------------------------------------
(* The inductive invariant: what holds at each part of the program.  The     *)
(* boot code runs through once; behind it are the test, the epilogue and the *)
(* handlers, which trap, return and are interrupted in any order.            *)

Modes == {"M", "S", "U"}
Values == {"reset", "known", "region", "middle", "target"}
CsrNames == {"misa", "mtvec", "stvec", "mepc", "sepc", "mcause", "scause", "medeleg", "mie",
             "sie", "pmp", "satp"}
TestLabels == {"main", "write_tohost", "_exit"}
Handlers == {"other_exp", "m_int"}

BootShape ==
  /\ template \in Templates /\ ms \in MStatusOf(template)
  /\ mode \in Modes
  /\ status \in MStatus({"off", "on"}, BOOLEAN)
  /\ gpr \in [1..31 -> Values]
  /\ fpr \subseteq 0..31
  /\ csr = [c \in CsrNames |-> csr[c]]

Inside(pc) == pc[2] \in 1..Len(Block(pc[1]))
\* A place the test may be at, or return to.
TestPoint(pc) == pc = Nowhere \/ (pc[1] \in TestLabels \cup Handlers /\ Inside(pc))

\* Nothing can go wrong: no interrupt is enabled, and no access faults.
Quiet == csr["mie"] = "zero" /\ csr["satp"] = "zero"

InStartup ==
  /\ at[1] = "_start" /\ Inside(at)
  /\ mode = "M" /\ Quiet /\ csr["pmp"] = "reset"
  /\ at[2] + 1 >= Len(Block("_start")) => csr["mtvec"] = "other_exp"

Undelegates(i) == i.op = "csrw" /\ "medeleg" \in i.csrs
InEnv ==
  /\ at[1] = "init_env" /\ Inside(at)
  /\ mode = "M" /\ Quiet /\ csr["pmp"] \in {"reset", "open"}
  /\ csr["mtvec"] = "other_exp" /\ csr["mepc"] = <<"init", 1>>
  /\ at[2] > 1 => status = ms
  /\ at[2] > 2 => csr["pmp"] = "open"
  /\ \A k \in 1..(at[2] - 1) : Undelegates(Block("init_env")[k]) => csr["medeleg"] = "zero"

\* The registers set by the instructions behind the hart.
SetBy(i) ==
  /\ i.op = "li" => \A r \in i.regs : gpr[r] # "reset"
  /\ i.op = "fmv" => i.fregs \subseteq fpr
InRegisters ==
  /\ at[1] = "init" /\ Inside(at)
  /\ mode = ms.mpp /\ Quiet /\ status.fs = ms.fs
  /\ csr["pmp"] = "open" /\ csr["medeleg"] = "zero" /\ csr["mtvec"] = "other_exp"
  /\ \A k \in 1..(at[2] - 1) : SetBy(Block("init")[k])
  /\ at[2] = Len(Block("init")) => gpr[31] = "middle"

Initialised ==
  /\ gpr[31] = "middle"
  /\ template # "xiangshan" => \A r \in 1..31 : gpr[r] # "reset"
  /\ template \in Masking => fpr = 0..31
InTest ==
  /\ TestPoint(at) /\ Initialised /\ csr["mtvec"] = "other_exp"
  /\ ms.mpp # "M" => csr["medeleg"] = "zero" /\ csr["pmp"] = "open"
  /\ at[1] \notin Handlers => mode = ms.mpp
  /\ at[1] \in Handlers =>
        /\ mode = "M" /\ status.mpp = ms.mpp /\ ~status.mie
        /\ TestPoint(csr["mepc"])
        /\ csr["mepc"][1] \in Handlers => csr["pmp"] = "locked"
        /\ at # <<"other_exp", 1>> => csr["pmp"] # "locked"
        /\ at[1] = "m_int" \/ (at[2] = 1 /\ csr["mcause"] = "interrupt") => csr["mepc"] = resume

\* What needs no other part: the counters and flags.
Flags == {tohost, stormed} \subseteq BOOLEAN /\ rounds \in 0..Rounds /\ through \in 0..29

BootInv == BootShape /\ Flags /\ (InStartup \/ InEnv \/ InRegisters \/ InTest)

-----------------------------------------------------------------------------
(* Which action an instruction is executed by.                               *)

HookFlows == HookJumps \/ HookLoops \/ HookLoadsTarget \/ HookJumpsThrough

LEMMA Dispatch ==
  ASSUME Executes
  PROVE  /\ UNCHANGED <<template, ms>> /\ at # Nowhere
         /\ Instr.op = "li" => LoadImmediate
         /\ Instr.op = "csrw" => WriteCsr
         /\ Instr.op \in {"frm", "fmv"} => FpInit
         /\ Instr.op \in {"fence", "nop"} => Straight
         /\ Instr.op = "store" => Store
         /\ Instr.op = "j" => Jump
         /\ Instr.op = "mret" => Return
         /\ Instr.op = "skip" => Skip
         /\ Instr.op = "ifint" => BranchOnInterrupt
         /\ Instr.op = "mask" => Mask
         /\ Instr.op = "hook" => HookComputes \/ HookTraps \/ HookWritesCsr \/ HookFlows
         /\ Instr.op = "illegal" => Marker
  <1>1. CASE LoadImmediate
    BY <1>1 DEF LoadImmediate, Fetch
  <1>2. CASE WriteCsr
    BY <1>2 DEF WriteCsr, Fetch
  <1>3. CASE FpInit
    BY <1>3 DEF FpInit
  <1>4. CASE Straight
    BY <1>4 DEF Straight
  <1>5. CASE Jump
    BY <1>5 DEF Jump, Fetch
  <1>6. CASE Return
    BY <1>6 DEF Return
  <1>7. CASE Skip
    BY <1>7 DEF Skip, Fetch
  <1>8. CASE BranchOnInterrupt
    BY <1>8 DEF BranchOnInterrupt, Fetch
  <1>9. CASE Mask
    BY <1>9 DEF Mask, Fetch
  <1>10. CASE HookComputes \/ HookTraps \/ HookWritesCsr
    BY <1>10 DEF HookComputes, HookTraps, HookWritesCsr, FetchHook, Fetch
  <1>11. CASE Marker
    BY <1>11 DEF Marker, Fetch
  <1>12. CASE HookFlows
    BY <1>12 DEF HookFlows, HookJumps, HookLoops, HookLoadsTarget, HookJumpsThrough, FetchHook,
                 Fetch
  <1>13. CASE Store
    BY <1>13 DEF Store, Fetch
  <1> QED BY <1>1, <1>2, <1>3, <1>4, <1>5, <1>6, <1>7, <1>8, <1>9, <1>10, <1>11, <1>12, <1>13
          DEF Executes, HookFlows

LEMMA TemplateNames == BootShape => template \in Names
  BY BootAssumption DEF BootShape, Names

\* While nothing is enabled that could interrupt it, the hart executes its instruction.
LEMMA QuietStep ==
  ASSUME BootNext, Quiet, csr["pmp"] = "open" \/ (csr["pmp"] = "reset" /\ mode = "M"),
         at[1] \in {"_start", "init_env", "init"}
  PROVE  Executes
  BY DEF BootNext, Quiet, FetchFault, Interrupt, Illegal, Compressed, Denied, PmpDenies, Translated

LEMMA StartupStep ==
  ASSUME BootShape, InStartup, BootNext
  PROVE  BootShape' /\ (InStartup' \/ InEnv')
  <1> DEFINE b == Block("_start")
             n == at[2]
  <1>1. template \in Names /\ b = BuildTemplate(template, ms, "_start")
    BY TemplateNames DEF Block
  <1>2. /\ Len(b) \in {3, 4} /\ n \in 1..Len(b)
        /\ b[n].op = "csrw" /\ b[n].reg = 13
        /\ b[n].csrs \cap {"mstatus", "pmp", "mie", "satp"} = {}
        /\ "mtvec" \in b[n].csrs => b[n].val = "other_exp"
        /\ n = Len(b) - 2 => "mtvec" \in b[n].csrs
        /\ n = Len(b) => "mepc" \in b[n].csrs /\ b[n].val = <<"init", 1>>
    BY <1>1, StartupBlock DEF InStartup, Inside
  <1>3. Instr = b[n]
    BY DEF Instr, InStartup
  <1> HIDE DEF b
  <1>4. WriteCsr /\ UNCHANGED <<template, ms>>
    BY <1>2, <1>3, QuietStep, Dispatch DEF InStartup
  <1>5. /\ UNCHANGED <<mode, status, fpr>> /\ gpr' = [gpr EXCEPT ![13] = "known"]
        /\ csr' = [c \in DOMAIN csr |-> IF c \in b[n].csrs THEN b[n].val ELSE csr[c]]
        /\ at' = Following(at)
    BY <1>2, <1>3, <1>4 DEF WriteCsr
  <1>6. at' = IF n < Len(b) THEN <<"_start", n + 1>> ELSE <<"init_env", 1>>
    BY <1>5 DEF Following, InStartup, Start, Behind, b
  <1>7. /\ DOMAIN csr = CsrNames /\ csr' = [c \in CsrNames |-> csr'[c]]
        /\ \A c \in CsrNames : csr'[c] = IF c \in b[n].csrs THEN b[n].val ELSE csr[c]
    BY <1>5 DEF BootShape
  <1>8. BootShape'
    BY <1>4, <1>5, <1>7 DEF BootShape, Values
  <1>9. Quiet' /\ csr'["pmp"] = "reset" /\ mode' = "M"
    BY <1>2, <1>5, <1>7 DEF InStartup, Quiet, CsrNames
  <1>10. Block("_start")' = b /\ Block("init_env")' = BuildTemplate(template, ms, "init_env")
    BY <1>4 DEF Block, b
  <1>11. n + 1 >= Len(b) - 1 => csr'["mtvec"] = "other_exp"
    BY <1>2, <1>7 DEF InStartup, CsrNames, b
  <1>12. CASE n < Len(b)
    <2>1. at'[1] = "_start" /\ at'[2] = n + 1 /\ n + 1 \in 1..Len(b)
      BY <1>2, <1>6, <1>12
    <2> QED BY <1>2, <1>8, <1>9, <1>10, <1>11, <2>1 DEF InStartup, Inside
  <1>13. CASE n = Len(b)
    <2>1. at'[1] = "init_env" /\ at'[2] = 1
      BY <1>2, <1>6, <1>13
    <2>2. Len(BuildTemplate(template, ms, "init_env")) \in {5, 6}
      BY <1>1, EnvBlock
    <2>3. csr'["mtvec"] = "other_exp" /\ csr'["mepc"] = <<"init", 1>>
      BY <1>2, <1>7, <1>11, <1>13 DEF CsrNames
    <2>4. 1..(at'[2] - 1) = {} /\ ~(at'[2] > 1) /\ ~(at'[2] > 2)
      BY <2>1
    <2>5. Inside(at)'
      BY <1>4, <2>1, <2>2 DEF Inside, Block
    <2> QED BY <1>8, <1>9, <2>1, <2>3, <2>4, <2>5 DEF InEnv
  <1> QED BY <1>2, <1>12, <1>13

LEMMA EnvStep ==
  ASSUME BootShape, InEnv, BootNext
  PROVE  BootShape' /\ (InEnv' \/ InRegisters')
  <1> DEFINE b == Block("init_env")
             n == at[2]
             D == Csrw({"medeleg", "mie"}, 26, "zero")
  <1>1. template \in Names /\ b = BuildTemplate(template, ms, "init_env")
    BY TemplateNames DEF Block
  <1>2. /\ Len(b) \in {5, 6} /\ n \in 1..Len(b)
        /\ b[1] = Csrw({"mstatus"}, 26, ms) /\ b[2] = Csrw({"pmp"}, 16, "open")
        /\ \A i \in 3..(Len(b) - 1) : b[i] \in {Li({16}), Plain("fence"), D}
        /\ \E i \in 3..(Len(b) - 1) : b[i] = D
        /\ b[Len(b)] = Plain("mret")
    BY <1>1, EnvBlock DEF InEnv, Inside
  <1>3. Instr = b[n] /\ at # Nowhere
    BY DEF Instr, InEnv, Nowhere
  <1> HIDE DEF b, D
  <1>4. Executes /\ UNCHANGED <<template, ms>>
    BY QuietStep, Dispatch DEF InEnv
  <1>5. Block("init_env")' = b /\ Block("init")' = BuildTemplate(template, ms, "init")
    BY <1>4 DEF Block, b
  <1>6. Following(at) = IF n < Len(b) THEN <<"init_env", n + 1>> ELSE <<"lost", 1>>
    BY DEF Following, InEnv, Start, Behind, b
  <1>7. ms \in MStatus({"off", "on"}, BOOLEAN)
    BY <1>1 DEF BootShape, MStatusOf, Names, RandomMStatusRv64H, RandomMStatusNutshell,
                RandomMStatusCva6, RandomMStatusBoom, RandomMStatusRocket, Modes, MStatus
  <1>8. CASE n < Len(b)
    <2>1. SUFFICES /\ BootShape' /\ at' = <<"init_env", n + 1>> /\ mode' = "M" /\ Quiet'
                   /\ csr'["pmp"] \in {"reset", "open"} /\ csr'["mtvec"] = csr["mtvec"]
                   /\ csr'["mepc"] = csr["mepc"]
                   /\ status' = ms
                   /\ n >= 2 => csr'["pmp"] = "open"
                   /\ b[n] = D \/ csr["medeleg"] = "zero" => csr'["medeleg"] = "zero"
      <3>1. n + 1 \in 1..Len(b) /\ n + 1 > 1
        BY <1>2, <1>8
      <3>2. Inside(at)'
        BY <1>5, <2>1, <3>1 DEF Inside
      <3>3. ASSUME NEW k \in 1..n, Undelegates(b[k]) PROVE csr'["medeleg"] = "zero"
        <4>1. CASE k < n
          <5>1. k \in 1..(n - 1)
            BY <1>2, <4>1
          <5> QED BY <2>1, <3>3, <5>1 DEF InEnv, b
        <4>2. CASE k = n
          <5>1. \A x \in {Li({16}), Plain("fence"), b[1], b[2]} : ~Undelegates(x)
            BY <1>2 DEF Undelegates, Li, Plain, Csrw
          <5>2. n = 1 \/ n = 2 \/ n \in 3..(Len(b) - 1)
            BY <1>2, <1>8
          <5>3. b[n] = D
            BY <1>2, <3>3, <4>2, <5>1, <5>2
          <5> QED BY <2>1, <5>3
        <4> QED BY <1>2, <4>1, <4>2
      <3>4. at'[1] = "init_env" /\ at'[2] = n + 1 /\ (n + 1) - 1 = n
        BY <1>2, <2>1
      <3>5. n + 1 > 2 => n >= 2
        BY <1>2
      <3> QED BY <1>4, <1>5, <2>1, <3>2, <3>3, <3>4, <3>5 DEF InEnv
    <2>2. /\ DOMAIN csr = CsrNames /\ mode = "M" /\ Quiet /\ csr["pmp"] \in {"reset", "open"}
          /\ n > 1 => status = ms
          /\ n > 2 => csr["pmp"] = "open"
      BY DEF InEnv, BootShape
    <2>3. CASE n = 1
      <3>1. Instr.op = "csrw" /\ Instr.csrs = {"mstatus"} /\ Instr.val = ms /\ Instr.reg = 26
        BY <1>2, <1>3, <2>3 DEF Csrw
      <3>2. WriteCsr
        BY <1>4, <3>1, Dispatch
      <3>3. /\ status' = ms /\ UNCHANGED <<csr, mode, fpr>> /\ at' = Following(at)
            /\ gpr' = [gpr EXCEPT ![26] = "known"]
        BY <3>1, <3>2 DEF WriteCsr
      <3>4. b[n] # D
        <4>1. "mstatus" \in b[n].csrs /\ "mstatus" \notin D.csrs
          BY <1>2, <2>3 DEF D, Csrw
        <4> QED BY <4>1
      <3>5. BootShape'
        BY <1>4, <1>7, <3>3 DEF BootShape, Values
      <3> QED BY <1>6, <1>8, <2>2, <2>3, <3>3, <3>4, <3>5 DEF Quiet
    <2>4. ASSUME NEW C \in {{"pmp"}, {"medeleg", "mie"}}, NEW r \in 1..31,
                 NEW v \in {"open", "zero"}, b[n] = Csrw(C, r, v)
          PROVE  /\ BootShape' /\ status' = status /\ mode' = mode /\ at' = Following(at)
                 /\ \A c \in CsrNames : csr'[c] = IF c \in C THEN v ELSE csr[c]
      <3>1. Instr.op = "csrw" /\ Instr.csrs = C /\ Instr.val = v /\ Instr.reg = r
        BY <1>3, <2>4 DEF Csrw
      <3>2. WriteCsr /\ "mstatus" \notin C
        BY <1>4, <3>1, Dispatch
      <3>3. /\ UNCHANGED <<status, mode, fpr>> /\ at' = Following(at)
            /\ csr' = [c \in CsrNames |-> IF c \in C THEN v ELSE csr[c]]
            /\ gpr' = [gpr EXCEPT ![r] = "known"]
        BY <2>2, <3>1, <3>2 DEF WriteCsr
      <3>4. BootShape'
        BY <1>4, <3>3 DEF BootShape, Values
      <3> QED BY <3>3, <3>4
    <2>5. CASE n = 2
      <3>1. b[n] = Csrw({"pmp"}, 16, "open") /\ b[n] # D
        BY <1>2, <2>5 DEF D, Csrw
      <3>2. /\ BootShape' /\ status' = status /\ mode' = mode /\ at' = Following(at)
            /\ \A c \in CsrNames : csr'[c] = IF c \in {"pmp"} THEN "open" ELSE csr[c]
        BY <2>4, <3>1
      <3> QED BY <1>6, <1>8, <2>2, <2>5, <3>1, <3>2 DEF Quiet, CsrNames
    <2>6. CASE n \in 3..(Len(b) - 1) /\ b[n] = D
      <3>1. /\ BootShape' /\ status' = status /\ mode' = mode /\ at' = Following(at)
            /\ \A c \in CsrNames : csr'[c] = IF c \in {"medeleg", "mie"} THEN "zero" ELSE csr[c]
        BY <2>4, <2>6 DEF D
      <3>2. n > 2 /\ n > 1
        BY <1>2, <2>6
      <3> QED BY <1>6, <1>8, <2>2, <3>1, <3>2 DEF Quiet, CsrNames
    <2>7. CASE n \in 3..(Len(b) - 1) /\ b[n] = Li({16})
      <3>1. Instr.op = "li" /\ Instr.regs = {16} /\ Instr.val = "known"
        BY <1>3, <2>7 DEF Li
      <3>2. LoadImmediate
        BY <1>4, <3>1, Dispatch
      <3>3. /\ UNCHANGED <<csr, mode, fpr, status>> /\ at' = Following(at)
            /\ gpr' = [r \in 1..31 |-> IF r \in {16} THEN "known" ELSE gpr[r]]
        BY <3>1, <3>2 DEF LoadImmediate, Go
      <3>4. BootShape'
        BY <1>4, <3>3 DEF BootShape, Values
      <3>5. n > 2 /\ n > 1 /\ b[n] # D
        BY <1>2, <2>7 DEF D, Li, Csrw
      <3> QED BY <1>6, <1>8, <2>2, <3>3, <3>4, <3>5 DEF Quiet
    <2>8. CASE n \in 3..(Len(b) - 1) /\ b[n] = Plain("fence")
      <3>1. Instr.op = "fence"
        BY <1>3, <2>8 DEF Plain
      <3>2. Straight
        BY <1>4, <3>1, Dispatch
      <3>3. UNCHANGED <<csr, mode, fpr, status, gpr>> /\ at' = Following(at)
        BY <3>1, <3>2 DEF Straight, Go
      <3>4. BootShape'
        BY <1>4, <3>3 DEF BootShape
      <3>5. n > 2 /\ n > 1 /\ b[n] # D
        BY <1>2, <2>8 DEF D, Plain, Csrw
      <3> QED BY <1>6, <1>8, <2>2, <3>3, <3>4, <3>5 DEF Quiet
    <2>9. n = 1 \/ n = 2 \/ n \in 3..(Len(b) - 1)
      BY <1>2, <1>8
    <2> QED BY <1>2, <2>3, <2>5, <2>6, <2>7, <2>8, <2>9
  <1>9. CASE n = Len(b)
    <2>1. Instr.op = "mret"
      BY <1>2, <1>3, <1>9 DEF Plain
    <2>2. Return
      BY <1>4, <2>1, Dispatch
    <2>3. n > 1 /\ n > 2
      BY <1>2, <1>9
    <2>4. csr["medeleg"] = "zero"
      <3>1. PICK i \in 3..(Len(b) - 1) : b[i] = D
        BY <1>2
      <3>2. Undelegates(b[i]) /\ i \in 1..(n - 1)
        BY <1>2, <1>9, <3>1 DEF Undelegates, D, Csrw
      <3> QED BY <3>2 DEF InEnv, b
    <2>5. /\ at' = <<"init", 1>> /\ mode' = status.mpp /\ UNCHANGED <<gpr, fpr, csr>>
          /\ status' = [status EXCEPT !.mie = status.mpie, !.mpie = TRUE, !.mpp = "U",
                                      !.mprv = @ /\ mode' = "M"]
      BY <2>1, <2>2 DEF Return, InEnv
    <2>6. status = ms
      BY <2>3 DEF InEnv
    <2>7. mode' = ms.mpp /\ status'.fs = ms.fs
      BY <1>7, <2>5, <2>6 DEF MStatus
    <2>8. BootShape'
      BY <1>4, <1>7, <2>5, <2>6, <2>7 DEF BootShape, Modes, MStatus
    <2>9. Len(BuildTemplate(template, ms, "init")) \in {5, 8}
      BY <1>1, RegistersBlock DEF SetsRegisters
    <2>10. at'[1] = "init" /\ at'[2] = 1
      BY <2>5
    <2>11. Inside(at)' /\ at'[2] # Len(Block("init"))'
      <3>1. Len(Block("init"))' \in {5, 8}
        BY <1>5, <2>9
      <3>2. Inside(at)'
        <4>1. 1 \in 1..Len(BuildTemplate(template, ms, "init"))
          <5>1. \A x \in {5, 8} : 1 \in 1..x
            OBVIOUS
          <5> QED BY <2>9, <5>1, Zenon
        <4> QED BY <1>4, <2>10, <4>1 DEF Inside, Block
      <3> QED BY <2>10, <3>1, <3>2
    <2>12. 1..(at'[2] - 1) = {}
      BY <2>10
    <2> QED BY <1>4, <2>3, <2>4, <2>5, <2>7, <2>8, <2>10, <2>11, <2>12 DEF InRegisters, InEnv, Quiet
  <1> QED BY <1>2, <1>8, <1>9

LEMMA Between ==
  \A x \in Nat : \A y \in 1..x :
    /\ y < x => y + 1 \in 1..x
    /\ (y + 1) - 1 = y
    /\ \A z \in 1..y : z < y \/ z = y
  OBVIOUS

LEMMA RegistersStep ==
  ASSUME BootShape, InRegisters, BootNext
  PROVE  BootShape' /\ (InRegisters' \/ InTest')
  <1> DEFINE b == Block("init")
             n == at[2]
  <1>1. template \in Names /\ b = BuildTemplate(template, ms, "init")
    BY TemplateNames DEF Block
  <1>2. Instr = b[n] /\ at # Nowhere /\ n \in 1..Len(b)
    BY DEF Instr, InRegisters, Inside, Nowhere
  <1> DEFINE Set(i) == /\ i.op = "li" => \A r \in i.regs : gpr'[r] # "reset"
                       /\ i.op = "fmv" => i.fregs \subseteq fpr'
  <1> HIDE DEF b, n
  <1>3. SetsRegisters(b, template)
    BY <1>1, RegistersBlock
  <1>10. Len(b) \in Nat /\ n \in 1..Len(b)
    <2>1. Len(b) \in {5, 8}
      BY <1>3 DEF SetsRegisters
    <2> QED BY <1>2, <2>1
  <1> USE DEF SetsRegisters
  <1>4. Executes /\ UNCHANGED <<template, ms>>
    BY QuietStep, Dispatch DEF InRegisters
  <1>5. Block("init")' = b
    BY <1>4 DEF Block, b
  <1>6. Following(at) = IF n < Len(b) THEN <<"init", n + 1>> ELSE <<"lost", 1>>
    BY DEF Following, InRegisters, Start, Behind, b, n
  <1>7. template # "nutshell" => status.fs # "off"
    BY <1>1 DEF InRegisters, BootShape, MStatusOf, Names, RandomMStatusRv64H, RandomMStatusCva6,
                RandomMStatusBoom, RandomMStatusRocket, MStatus
  <1>8. CASE n < Len(b)
    <2>1. SUFFICES /\ at' = <<"init", n + 1>> /\ UNCHANGED <<mode, status, csr>>
                   /\ gpr' \in [1..31 -> Values]
                   /\ fpr' \subseteq 0..31 /\ fpr \subseteq fpr'
                   /\ \A r \in 1..31 : gpr[r] # "reset" => gpr'[r] # "reset"
                   /\ Set(b[n])
                   /\ n = Len(b) - 1 => gpr'[31] = "middle"
      <3>1. at'[1] = "init" /\ at'[2] = n + 1
        BY <2>1
      <3>6. n + 1 \in 1..Len(b) /\ (n + 1) - 1 = n
        BY <1>8, <1>10, Between, Zenon
      <3>2. Inside(at)'
        BY <1>4, <3>1, <3>6 DEF Inside, Block, b
      <3>3. BootShape'
        BY <1>4, <2>1 DEF BootShape
      <3>4. ASSUME NEW k \in 1..n PROVE Set(b[k])
        <4>1. CASE k < n
          <5>1. k \in 1..(n - 1)
            BY <1>3, <1>2, <4>1
          <5>2. SetBy(b[k])
            BY <5>1 DEF InRegisters, b, n
          <5>3. b[k].op = "li" => b[k].regs \subseteq 1..31
            <6>1. k \in 1..(Len(b) - 1)
              BY <1>3, <1>2, <5>1
            <6> QED BY <1>3, <6>1
          <5> QED BY <2>1, <5>2, <5>3 DEF SetBy
        <4>2. CASE k = n
          BY <2>1, <4>2
        <4>3. k < n \/ k = n
          BY <1>10, Between, Zenon
        <4> QED BY <4>1, <4>2, <4>3
      <3>5. n + 1 = Len(b) => gpr'[31] = "middle"
        BY <1>3, <1>2, <2>1
      <3>7. \A k \in 1..(at'[2] - 1) : SetBy(Block("init")[k])'
        BY <1>5, <3>1, <3>4, <3>6 DEF SetBy
      <3> QED BY <1>4, <1>5, <2>1, <3>1, <3>2, <3>3, <3>5, <3>7 DEF InRegisters, Quiet
    <2>2. n \in 1..(Len(b) - 1)
      BY <1>3, <1>2, <1>8
    <2>3. /\ gpr \in [1..31 -> Values] /\ fpr \subseteq 0..31
      BY DEF BootShape
    <2>4. CASE /\ b[n].op = "li" /\ b[n].val \in {"known", "region", "middle"}
               /\ b[n].regs \subseteq 1..31
      <3>1. LoadImmediate
        BY <1>2, <1>4, <2>4, Dispatch
      <3>2. /\ UNCHANGED <<mode, status, csr, fpr>> /\ at' = Following(at)
            /\ gpr' = [r \in 1..31 |-> IF r \in b[n].regs THEN b[n].val ELSE gpr[r]]
        BY <1>2, <3>1 DEF LoadImmediate, Go
      <3>3. n = Len(b) - 1 => b[n].regs = {31} /\ b[n].val = "middle"
        BY <1>3 DEF La
      <3>4. \A r \in b[n].regs : gpr'[r] # "reset"
        BY <2>4, <3>2
      <3>5. /\ gpr' \in [1..31 -> Values]
            /\ \A r \in 1..31 : gpr[r] # "reset" => gpr'[r] # "reset"
        BY <2>3, <2>4, <3>2 DEF Values
      <3>6. n = Len(b) - 1 => gpr'[31] = "middle"
        BY <3>2, <3>3
      <3> QED BY <1>6, <1>8, <2>3, <2>4, <3>2, <3>4, <3>5, <3>6
    <2>5. CASE b[n].op = "frm" /\ template # "nutshell"
      <3>1. FpInit
        BY <1>2, <1>4, <2>5, Dispatch
      <3>2. UNCHANGED <<mode, status, csr, fpr, gpr>> /\ at' = Following(at)
        BY <1>2, <1>7, <2>5, <3>1 DEF FpInit, Go
      <3>3. n # Len(b) - 1
        BY <1>3, <2>5 DEF La
      <3> QED BY <1>6, <1>8, <2>3, <2>5, <3>2, <3>3
    <2>6. CASE b[n].op = "fmv" /\ template # "nutshell" /\ b[n].fregs \subseteq 0..31
      <3>1. FpInit
        BY <1>2, <1>4, <2>6, Dispatch
      <3>2. /\ UNCHANGED <<mode, status, csr, gpr>> /\ at' = Following(at)
            /\ fpr' = fpr \cup b[n].fregs
        BY <1>2, <1>7, <2>6, <3>1 DEF FpInit, Go
      <3>3. n # Len(b) - 1
        BY <1>3, <2>6 DEF La
      <3> QED BY <1>6, <1>8, <2>3, <2>6, <3>2, <3>3
    <2> QED BY <1>3, <2>2, <2>4, <2>5, <2>6, Zenon
  <1>9. CASE n = Len(b)
    <2>1. Instr.op = "j" /\ Instr.label = "main"
      BY <1>3, <1>2, <1>9 DEF J
    <2>2. Jump
      BY <1>4, <2>1, Dispatch
    <2>3. at' = <<"main", 1>> /\ UNCHANGED <<mode, status, gpr, fpr, csr>>
      BY <2>1, <2>2 DEF Jump, Go, Start
    <2>4. BootShape'
      BY <1>4, <2>3 DEF BootShape
    <2>5. \A i \in 1..(Len(b) - 1) : SetBy(b[i])
      BY <1>9 DEF InRegisters, b, n
    <2>6. template # "xiangshan" => \A r \in 1..31 : gpr[r] # "reset"
      <3>1. Li(1..31).op = "li" /\ Li(1..31).regs = 1..31
        BY DEF Li
      <3> QED BY <1>3, <2>5, <3>1 DEF SetBy
    <2>7. template \in Masking => fpr = 0..31
      <3>1. Fmv(0..31).op = "fmv" /\ Fmv(0..31).fregs = 0..31
        BY DEF Fmv
      <3> QED BY <1>3, <2>5, <3>1 DEF SetBy, BootShape
    <2>8. Initialised'
      BY <1>4, <1>9, <2>3, <2>6, <2>7 DEF Initialised, InRegisters, b, n
    <2>9. 1 \in 1..Len(BuildTemplate(template, ms, "main"))
      BY <1>1, MainBlock
    <2>10. TestPoint(at)'
      BY <1>4, <2>3, <2>9 DEF TestPoint, TestLabels, Inside, Block
    <2>11. "main" \notin Handlers
      BY DEF Handlers
    <2> QED BY <1>4, <2>3, <2>4, <2>8, <2>10, <2>11 DEF InTest, InRegisters
  <1> QED BY <1>3, <1>2, <1>8, <1>9

-----------------------------------------------------------------------------
(* The test and its handlers.                                                *)

LEMMA FollowPoint ==
  ASSUME BootShape, NEW pc, TestPoint(pc)
  PROVE  /\ TestPoint(Following(pc))
         /\ pc[1] \notin Handlers => Following(pc)[1] \notin Handlers
  <1>1. template \in Names
    BY TemplateNames
  <1>2. CASE pc = Nowhere
    BY <1>2 DEF TestPoint, Following, Nowhere, Handlers
  <1>3. CASE pc # Nowhere
    <2> DEFINE l == pc[1]
               n == pc[2]
               b == Block(l)
    <2>1. l \in TestLabels \cup Handlers /\ n \in 1..Len(b) /\ l # "lost"
      BY <1>3 DEF TestPoint, Inside, TestLabels, Handlers
    <2>2. Len(b) \in Nat
      <3>1. Len(Block("main")) \in Nat
        BY <1>1, MainBlock DEF Block
      <3>2. Len(Block("write_tohost")) \in Nat /\ Len(Block("_exit")) \in Nat
        BY <1>1, EpilogueBlocks DEF Block
      <3>3. Len(Block("other_exp")) \in Nat /\ Len(Block("m_int")) \in Nat
        BY <1>1, HandlerBlocks DEF Block, Names, Masking
      <3> QED BY <2>1, <3>1, <3>2, <3>3 DEF TestLabels, Handlers
    <2>3. CASE n < Len(b)
      <3>1. Following(pc) = <<l, n + 1>>
        BY <2>1, <2>3 DEF Following
      <3>2. n + 1 \in 1..Len(b)
        BY <2>1, <2>2, <2>3
      <3> QED BY <2>1, <3>1, <3>2 DEF TestPoint, Inside
    <2>4. CASE ~(n < Len(b))
      <3>1. Following(pc) = <<Behind(l), 1>>
        BY <2>1, <2>4 DEF Following, Start
      <3>2. Behind(l) \in {"write_tohost", "_exit", "lost"}
        BY <2>1 DEF Behind, TestLabels, Handlers
      <3>3. Len(Block("write_tohost")) = 3 /\ Len(Block("_exit")) = 2
        BY <1>1, EpilogueBlocks DEF Block
      <3> QED BY <3>1, <3>2, <3>3 DEF TestPoint, Inside, TestLabels, Handlers, Nowhere
    <2> QED BY <2>3, <2>4
  <1> QED BY <1>2, <1>3

\* What the test and its handlers consist of.
LEMMA TestInstr ==
  ASSUME BootShape, TestPoint(at), at # Nowhere
  PROVE  \/ /\ at[1] \in TestLabels
            /\ \/ Instr.op \in {"hook", "illegal"} /\ at[1] = "main"
               \/ Instr.op \in {"nop", "store"}
               \/ Instr.op = "li" /\ Instr.val = "known" /\ Instr.regs \subseteq {6, 7}
               \/ Instr.op = "j" /\ Instr.label = "_exit"
         \/ /\ at[1] = "other_exp"
            /\ \/ /\ Instr.op = "skip" /\ Instr.csr = "mepc" /\ Instr.reg = 13
                  /\ Following(at) = <<"other_exp", at[2] + 1>> /\ at[2] + 1 # 1
               \/ Instr.op = "mret"
               \/ /\ Instr.op = "ifint" /\ Instr.csr = "mcause" /\ Instr.reg = 14
                  /\ Instr.label = "m_int" /\ template \in Masking
                  /\ at[2] = 1 /\ Following(at) = <<"other_exp", 2>>
         \/ /\ at[1] = "m_int" /\ template \in Masking
            /\ \/ /\ Instr.op = "mask" /\ Instr.csr = "mie" /\ Instr.regs = {13, 15}
                  /\ at[2] = 1 /\ Following(at) = <<"m_int", 2>>
               \/ Instr.op = "mret"
  <1> DEFINE l == at[1]
             n == at[2]
             b == Block(l)
  <1>1. template \in Names
    BY TemplateNames
  <1>2. l \in TestLabels \cup Handlers /\ n \in 1..Len(b) /\ Instr = b[n]
    BY DEF TestPoint, Inside, Instr
  <1>3. CASE l = "main"
    <2>1. b[n].op \in {"hook", "illegal"}
      BY <1>1, <1>2, <1>3, MainBlock DEF Block
    <2> QED BY <1>2, <1>3, <2>1 DEF TestLabels
  <1>4. CASE l = "write_tohost"
    <2>1. Len(b) = 3 /\ b[1] = La(6, "known") /\ b[2] = Li({7}) /\ b[3] = Plain("store")
      BY <1>1, <1>4, EpilogueBlocks DEF Block
    <2>2. n = 1 \/ n = 2 \/ n = 3
      BY <1>2, <2>1
    <2> QED BY <1>2, <1>4, <2>1, <2>2 DEF TestLabels, La, Li, Plain
  <1>5. CASE l = "_exit"
    <2>1. Len(b) = 2 /\ b[1] = Plain("nop") /\ b[2] = J("_exit")
      BY <1>1, <1>5, EpilogueBlocks DEF Block
    <2>2. n = 1 \/ n = 2
      BY <1>2, <2>1
    <2> QED BY <1>2, <1>5, <2>1, <2>2 DEF TestLabels, J, Plain
  <1>6. CASE l = "other_exp"
    <2>1. n < Len(b) => Following(at) = <<"other_exp", n + 1>>
      BY <1>6 DEF Following
    <2>2. CASE template \in {"xiangshan", "nutshell"}
      <3>1. Len(b) = 2 /\ b[1] = SkipOne("mepc", 13) /\ b[2] = Plain("mret")
        BY <1>1, <1>6, <2>2, HandlerBlocks DEF Block
      <3>2. n = 1 \/ n = 2
        BY <1>2, <3>1
      <3> QED BY <1>2, <1>6, <2>1, <3>1, <3>2 DEF SkipOne, Plain
    <2>3. CASE template \in Masking
      <3>1. /\ Len(b) = 3 /\ b[1] = IfInterrupt("mcause", 14, "m_int")
            /\ b[2] = SkipOne("mepc", 13) /\ b[3] = Plain("mret")
        BY <1>1, <1>6, <2>3, HandlerBlocks DEF Block
      <3>2. n = 1 \/ n = 2 \/ n = 3
        BY <1>2, <3>1
      <3> QED BY <1>2, <1>6, <2>1, <2>3, <3>1, <3>2 DEF SkipOne, Plain, IfInterrupt
    <2> QED BY <1>1, <2>2, <2>3 DEF Names, Masking
  <1>7. CASE l = "m_int"
    <2>1. template \in Masking
      <3>1. template \in {"xiangshan", "nutshell"} => Len(b) = 0
        BY <1>1, <1>7, HandlerBlocks DEF Block
      <3> QED BY <1>1, <1>2, <3>1 DEF Names, Masking
    <2>2. Len(b) = 2 /\ b[1] = MaskInterrupts("mie") /\ b[2] = Plain("mret")
      BY <1>1, <1>7, <2>1, HandlerBlocks DEF Block
    <2>3. n = 1 \/ n = 2
      BY <1>2, <2>2
    <2>4. n = 1 => Following(at) = <<"m_int", 2>>
      BY <1>7, <2>2 DEF Following
    <2> QED BY <1>2, <1>7, <2>1, <2>2, <2>3, <2>4 DEF MaskInterrupts, Plain
  <1> QED BY <1>2, <1>3, <1>4, <1>5, <1>6, <1>7 DEF TestLabels, Handlers

LEMMA TrapStep ==
  ASSUME BootShape, InTest, at # Nowhere, UNCHANGED <<template, ms>>,
         NEW cause \in {"exception", "interrupt"}, Trap(cause),
         at[1] \in Handlers => csr["pmp"] = "locked"
  PROVE  BootShape' /\ InTest'
  <1>1. mode = ms.mpp
    BY DEF InTest
  <1>2. ~Delegated(cause)
    BY <1>1 DEF Delegated, InTest
  <1>3. /\ mode' = "M" /\ at' = <<"other_exp", 1>> /\ UNCHANGED <<gpr, fpr>>
        /\ csr' = [csr EXCEPT !["mepc"] = at, !["mcause"] = cause]
        /\ status' = [status EXCEPT !.mpp = mode, !.mpie = status.mie, !.mie = FALSE]
        /\ resume' = IF cause = "interrupt" THEN at ELSE Nowhere
    BY <1>2 DEF Trap, Start, InTest
  <1>4. /\ csr' = [c \in CsrNames |-> csr'[c]]
        /\ csr'["mepc"] = at /\ csr'["mcause"] = cause
        /\ csr'["mtvec"] = csr["mtvec"] /\ csr'["medeleg"] = csr["medeleg"]
        /\ csr'["pmp"] = csr["pmp"]
    BY <1>3 DEF BootShape, CsrNames
  <1>5. /\ status' \in MStatus({"off", "on"}, BOOLEAN)
        /\ status'.mpp = mode /\ ~status'.mie
    <2>1. status \in [mpp : Modes, fs : {"off", "on"}, mie : BOOLEAN, mpie : BOOLEAN, mprv : BOOLEAN]
          /\ mode \in Modes
      BY DEF BootShape, MStatus, Modes
    <2> QED BY <1>3, <2>1 DEF MStatus, Modes
  <1>6. BootShape'
    BY <1>3, <1>4, <1>5 DEF BootShape, Modes
  <1>7. TestPoint(at)'
    <2>1. 1 \in 1..Len(BuildTemplate(template, ms, "other_exp"))
      BY TemplateNames, HandlerBlocks DEF Names, Masking
    <2> QED BY <1>3, <2>1 DEF TestPoint, Inside, Block, Handlers
  <1>8. TestPoint(csr["mepc"])'
    BY <1>4 DEF InTest, TestPoint, Inside, Block
  <1>9. Initialised'
    BY <1>3 DEF Initialised, InTest
  <1>10. at' = <<"other_exp", 1>> /\ at'[1] = "other_exp" /\ at'[1] \in Handlers
    BY <1>3 DEF Handlers
  <1>11. csr'["mcause"] = "interrupt" => csr'["mepc"] = resume'
    BY <1>3, <1>4
  <1> QED BY <1>1, <1>3, <1>4, <1>5, <1>6, <1>7, <1>8, <1>9, <1>10, <1>11 DEF InTest

\* In a handler only a lock stops the hart.
LEMMA HandlerRuns ==
  ASSUME InTest, at[1] \in Handlers
  PROVE  ~Interrupt /\ ~Illegal /\ (csr["pmp"] # "locked" => ~FetchFault)
  BY DEF InTest, Interrupt, Illegal, Compressed, Handlers, FetchFault, Denied, PmpDenies, Translated

\* One instruction of the test, which does not trap: what it leaves alone.
LEMMA StraightOn ==
  ASSUME BootShape, InTest, at[1] \notin Handlers, at # Nowhere, UNCHANGED <<template, ms>>,
         TestPoint(at'), at'[1] \notin Handlers, mode' = mode, status' = status,
         csr' = [c \in CsrNames |-> csr'[c]], csr'["mtvec"] = csr["mtvec"],
         mode # "M" => csr'["medeleg"] = csr["medeleg"] /\ csr'["pmp"] = csr["pmp"],
         gpr' \in [1..31 -> Values],
         gpr'[31] = gpr[31],
         (\A r \in 1..31 : gpr[r] # "reset") => \A r \in 1..31 : gpr'[r] # "reset",
         fpr' = fpr
  PROVE  BootShape' /\ InTest'
  <1>1. BootShape'
    BY DEF BootShape
  <1>2. TestPoint(at)'
    BY DEF TestPoint, Inside, Block
  <1>3. Initialised'
    BY DEF Initialised, InTest
  <1> QED BY <1>1, <1>2, <1>3 DEF InTest

\* Where the seed may jump to.
LEMMA HookPoint ==
  ASSUME BootShape, TestPoint(at), at[1] = "main",
         NEW n \in ((at[2] + 1)..(Slots + 1)) \cup (1..(at[2] - 1))
  PROVE  TestPoint(<<"main", n>>) /\ <<"main", n>>[1] \notin Handlers
  <1>1. Len(Block("main")) = Slots + 1
    BY TemplateNames, MainBlock DEF Block
  <1>2. at[2] \in 1..(Slots + 1)
    BY <1>1 DEF TestPoint, Inside, Nowhere
  <1>3. n \in 1..(Slots + 1)
    BY <1>2, BootAssumption
  <1> QED BY <1>1, <1>3 DEF TestPoint, Inside, TestLabels, Handlers

LEMMA MainStep ==
  ASSUME BootShape, InTest, Flags, at[1] \notin Handlers, BootNext
  PROVE  BootShape' /\ InTest'
  <1>1. at # Nowhere /\ UNCHANGED <<template, ms>>
    BY Dispatch DEF BootNext, FetchFault, Interrupt, Illegal, Compressed, Nowhere
  <1>2. ASSUME NEW cause \in {"exception", "interrupt"}, Trap(cause)
        PROVE  BootShape' /\ InTest'
    BY <1>1, <1>2, TrapStep
  <1>3. CASE FetchFault
    BY <1>2, <1>3 DEF FetchFault
  <1>4. CASE Interrupt \/ Illegal
    BY <1>2, <1>4 DEF Interrupt, Illegal
  <1>5. CASE Executes
    <2>1. TestPoint(at) /\ mode = ms.mpp
      BY DEF InTest
    <2>2. /\ at[1] \in TestLabels
          /\ \/ Instr.op \in {"hook", "illegal"} /\ at[1] = "main"
             \/ Instr.op \in {"nop", "store"}
             \/ Instr.op = "li" /\ Instr.val = "known" /\ Instr.regs \subseteq {6, 7}
             \/ Instr.op = "j" /\ Instr.label = "_exit"
      BY <1>1, <2>1, TestInstr DEF Handlers
    <2>3. TestPoint(Following(at)) /\ Following(at)[1] \notin Handlers
      BY <2>1, FollowPoint
    <2>4. gpr \in [1..31 -> Values]
          /\ csr = [c \in CsrNames |-> csr[c]]
      BY DEF BootShape
    <2>5. CASE Instr.op = "hook"
      <3>1. CASE HookTraps
        BY <1>2, <3>1 DEF HookTraps
      <3>2. CASE HookComputes
        <4>1. PICK r \in Dest, v \in {IF gpr[s] = "reset" THEN "reset" ELSE "known" : s \in 1..31} :
                gpr' = [gpr EXCEPT ![r] = v]
          BY <3>2 DEF HookComputes
        <4>2. v \in {"reset", "known"} /\ r \in 1..31 /\ r # 31
          BY <4>1 DEF Dest
        <4>3. (\A s \in 1..31 : gpr[s] # "reset") => v = "known"
          BY <4>1
        <4>4. /\ at' = Following(at) /\ UNCHANGED <<mode, status, fpr, csr>>
          BY <3>2 DEF HookComputes, Go
        <4>5. /\ gpr' \in [1..31 -> Values]
              /\ gpr'[31] = gpr[31]
              /\ (\A s \in 1..31 : gpr[s] # "reset") => \A s \in 1..31 : gpr'[s] # "reset"
          BY <2>4, <4>1, <4>2, <4>3 DEF Values
        <4> QED BY <1>1, <2>3, <2>4, <4>4, <4>5, StraightOn
      <3>3. CASE HookWritesCsr
        <4>1. at' = Following(at) /\ UNCHANGED <<mode, status, fpr, gpr>>
          BY <3>3 DEF HookWritesCsr, Go
        <4>2. /\ csr' = [c \in CsrNames |-> csr'[c]] /\ csr'["mtvec"] = csr["mtvec"]
              /\ mode # "M" => csr'["medeleg"] = csr["medeleg"] /\ csr'["pmp"] = csr["pmp"]
          <5>1. PICK c \in {"medeleg", "mie", "misa", "pmp", "satp"}, v \in {"random", "closed", "locked"} :
                  csr' = [csr EXCEPT ![c] = v] /\ (c # "satp" => mode = "M")
            BY <3>3 DEF HookWritesCsr
          <5> QED BY <2>4, <5>1 DEF CsrNames
        <4> QED BY <1>1, <2>3, <2>4, <4>1, <4>2, StraightOn
      <3>4. CASE HookFlows
        <4>1. at[1] = "main"
          BY <2>2, <2>5
        <4>2. ASSUME NEW R \in SUBSET (0..29), NEW v \in {"known", "target"},
                     gpr' = [r \in 1..31 |-> IF r \in R THEN v ELSE gpr[r]],
                     UNCHANGED <<mode, status, fpr, csr>>,
                     TestPoint(at'), at'[1] \notin Handlers
              PROVE  BootShape' /\ InTest'
          <5>1. /\ gpr' \in [1..31 -> Values] /\ gpr'[31] = gpr[31]
                /\ (\A s \in 1..31 : gpr[s] # "reset") => \A s \in 1..31 : gpr'[s] # "reset"
            BY <2>4, <4>2 DEF Values
          <5> QED BY <1>1, <2>4, <4>2, <5>1, StraightOn
        <4>3. CASE HookJumps
          <5>1. PICK n \in (at[2] + 1)..(Slots + 1) : at' = <<"main", n>>
            BY <4>3 DEF HookJumps, Go
          <5>2. PICK rd \in SUBSET (0..29) : gpr' = Known(rd)
            BY <4>3 DEF HookJumps, Dest
          <5>3. TestPoint(at') /\ at'[1] \notin Handlers
            BY <2>1, <4>1, <5>1, HookPoint
          <5> QED BY <4>2, <4>3, <5>2, <5>3 DEF HookJumps, Go, Known
        <4>4. CASE HookLoops
          <5>1. PICK n \in 1..(at[2] - 1) : at' = <<"main", n>>
            BY <4>4 DEF HookLoops, Go
          <5>2. TestPoint(at') /\ at'[1] \notin Handlers
            BY <2>1, <4>1, <5>1, HookPoint
          <5>3. UNCHANGED <<mode, status, fpr, csr, gpr>>
            BY <4>4 DEF HookLoops, Go
          <5> QED BY <1>1, <2>4, <5>2, <5>3, StraightOn
        <4>5. CASE HookLoadsTarget
          <5>1. through' \in 1..29
            BY <4>5 DEF HookLoadsTarget, Pointers, Dest
          <5>2. gpr' = [r \in 1..31 |-> IF r \in {through'} THEN "target" ELSE gpr[r]]
            BY <2>4, <4>5, <5>1 DEF HookLoadsTarget
          <5>3. {through'} \in SUBSET (0..29)
            BY <5>1
          <5>4. at' = Following(at) /\ UNCHANGED <<mode, status, fpr, csr>>
            BY <4>5 DEF HookLoadsTarget, Go
          <5> QED BY <2>3, <4>2, <5>2, <5>3, <5>4
        <4>6. CASE HookJumpsThrough
          <5>1. \/ at' = Nowhere
                \/ \E n \in (at[2] + 1)..(Slots + 1) : at' = <<"main", n>>
            BY <4>6 DEF HookJumpsThrough, Go
          <5>2. PICK rd \in Dest : gpr' = Known({rd, through})
            BY <4>6 DEF HookJumpsThrough
          <5>3. {rd, through} \in SUBSET (0..29)
            BY DEF Flags, Dest
          <5>4. TestPoint(Nowhere) /\ Nowhere[1] \notin Handlers
            BY DEF TestPoint, Nowhere, Handlers
          <5>5. TestPoint(at') /\ at'[1] \notin Handlers
            BY <2>1, <4>1, <5>1, <5>4, HookPoint
          <5> QED BY <4>2, <4>6, <5>2, <5>3, <5>5 DEF HookJumpsThrough, Go, Known
        <4> QED BY <3>4, <4>3, <4>4, <4>5, <4>6 DEF HookFlows
      <3> QED BY <1>5, <2>5, <3>1, <3>2, <3>3, <3>4, Dispatch
    <2>6. CASE Instr.op = "illegal"
      BY <1>2, <1>5, <2>6, Dispatch DEF Marker
    <2>7. CASE Instr.op \in {"nop", "store"}
      <3>1. CASE at' = Following(at) /\ UNCHANGED <<mode, status, fpr, csr, gpr>>
        BY <1>1, <2>3, <2>4, <3>1, StraightOn
      <3>2. CASE Trap("exception")
        BY <1>2, <3>2
      <3> QED BY <1>5, <2>7, <3>1, <3>2, Dispatch DEF Straight, Store, Go
    <2>8. CASE Instr.op = "li" /\ Instr.val = "known" /\ Instr.regs \subseteq {6, 7}
      <3>1. LoadImmediate
        BY <1>5, <2>8, Dispatch
      <3>2. /\ at' = Following(at) /\ UNCHANGED <<mode, status, fpr, csr>>
            /\ gpr' = [r \in 1..31 |-> IF r \in Instr.regs THEN "known" ELSE gpr[r]]
        BY <2>8, <3>1 DEF LoadImmediate, Go
      <3>3. /\ gpr' \in [1..31 -> Values]
            /\ gpr'[31] = gpr[31]
            /\ (\A s \in 1..31 : gpr[s] # "reset") => \A s \in 1..31 : gpr'[s] # "reset"
        BY <2>4, <2>8, <3>2 DEF Values
      <3> QED BY <1>1, <2>3, <2>4, <3>2, <3>3, StraightOn
    <2>9. CASE Instr.op = "j" /\ Instr.label = "_exit"
      <3>1. at' = <<"_exit", 1>> /\ UNCHANGED <<mode, status, fpr, csr, gpr>>
        BY <1>5, <2>9, Dispatch DEF Jump, Go, Start
      <3>2. Len(Block("_exit")) = 2
        BY TemplateNames, EpilogueBlocks DEF Block
      <3>3. TestPoint(<<"_exit", 1>>) /\ <<"_exit", 1>>[1] \notin Handlers
        BY <3>2 DEF TestPoint, Inside, TestLabels, Handlers
      <3> QED BY <1>1, <2>4, <3>1, <3>3, StraightOn
    <2> QED BY <2>2, <2>5, <2>6, <2>7, <2>8, <2>9
  <1> QED BY <1>3, <1>4, <1>5 DEF BootNext

\* One instruction of a handler that stays in the handlers.
LEMMA HandlerOn ==
  ASSUME BootShape, InTest, at[1] \in Handlers, UNCHANGED <<template, ms>>,
         TestPoint(at'), at'[1] \in Handlers, at'[1] = "other_exp" => at'[2] # 1,
         csr["pmp"] # "locked", UNCHANGED <<mode, status, fpr>>,
         csr' = [c \in CsrNames |-> csr'[c]],
         \A c \in CsrNames \ {"mepc", "mie"} : csr'[c] = csr[c],
         TestPoint(csr'["mepc"]), csr'["mepc"][1] \notin Handlers,
         at'[1] = "m_int" => csr'["mepc"] = resume',
         gpr' \in [1..31 -> Values],
         gpr'[31] = gpr[31],
         (\A r \in 1..31 : gpr[r] # "reset") => \A r \in 1..31 : gpr'[r] # "reset"
  PROVE  BootShape' /\ InTest'
  <1>1. BootShape'
    BY DEF BootShape
  <1>2. TestPoint(at)' /\ TestPoint(csr["mepc"])'
    BY DEF TestPoint, Inside, Block
  <1>3. Initialised'
    BY DEF Initialised, InTest
  <1>4. /\ csr'["mtvec"] = csr["mtvec"] /\ csr'["medeleg"] = csr["medeleg"]
        /\ csr'["pmp"] = csr["pmp"]
    BY DEF CsrNames
  <1>5. at'[1] = "m_int" \/ (at'[2] = 1 /\ csr'["mcause"] = "interrupt") =>
          csr'["mepc"] = resume'
    BY DEF Handlers
  <1> QED BY <1>1, <1>2, <1>3, <1>4, <1>5 DEF InTest

LEMMA HandlerStep ==
  ASSUME BootShape, InTest, at[1] \in Handlers, BootNext
  PROVE  BootShape' /\ InTest'
  <1>1. at # Nowhere /\ UNCHANGED <<template, ms>>
    BY Dispatch DEF BootNext, FetchFault, Interrupt, Illegal, Compressed, Nowhere
  <1>2. CASE FetchFault
    BY <1>1, <1>2, HandlerRuns, TrapStep DEF FetchFault
  <1>3. CASE ~Denied(mode) /\ Executes
    <2>1. mode = "M" /\ csr["pmp"] # "locked" /\ TestPoint(at)
      BY <1>3 DEF InTest, Denied, PmpDenies
    <2>2. TestPoint(csr["mepc"]) /\ csr["mepc"][1] \notin Handlers
      BY <2>1 DEF InTest
    <2>3. /\ gpr \in [1..31 -> Values]
          /\ csr = [c \in CsrNames |-> csr[c]]
      BY DEF BootShape
    <2>4. TestPoint(Following(at))
      BY <2>1, FollowPoint
    <2>5. \/ /\ at[1] = "other_exp"
             /\ \/ /\ Instr.op = "skip" /\ Instr.csr = "mepc" /\ Instr.reg = 13
                   /\ Following(at) = <<"other_exp", at[2] + 1>> /\ at[2] + 1 # 1
                \/ Instr.op = "mret"
                \/ /\ Instr.op = "ifint" /\ Instr.csr = "mcause" /\ Instr.reg = 14
                   /\ Instr.label = "m_int" /\ template \in Masking
                   /\ at[2] = 1 /\ Following(at) = <<"other_exp", 2>>
          \/ /\ at[1] = "m_int" /\ template \in Masking
             /\ \/ /\ Instr.op = "mask" /\ Instr.csr = "mie" /\ Instr.regs = {13, 15}
                   /\ at[2] = 1 /\ Following(at) = <<"m_int", 2>>
                \/ Instr.op = "mret"
      BY <1>1, <2>1, TestInstr DEF TestLabels, Handlers
    <2>6. CASE Instr.op = "skip" /\ Instr.csr = "mepc" /\ Instr.reg = 13
               /\ Following(at) = <<"other_exp", at[2] + 1>> /\ at[2] + 1 # 1
      <3>1. Skip
        BY <1>3, <2>6, Dispatch
      <3>2. /\ at' = Following(at) /\ UNCHANGED <<mode, status, fpr>>
            /\ gpr' = [gpr EXCEPT ![13] = "known"]
            /\ \/ csr' = [csr EXCEPT !["mepc"] = Following(csr["mepc"])]
               \/ csr' = [csr EXCEPT !["mepc"] = Nowhere]
        BY <2>6, <3>1 DEF Skip, Go
      <3>3. /\ gpr' \in [1..31 -> Values]
            /\ gpr'[31] = gpr[31]
            /\ (\A r \in 1..31 : gpr[r] # "reset") => \A r \in 1..31 : gpr'[r] # "reset"
        BY <2>3, <3>2 DEF Values
      <3>4. /\ csr' = [c \in CsrNames |-> csr'[c]]
            /\ \A c \in CsrNames \ {"mepc", "mie"} : csr'[c] = csr[c]
            /\ csr'["mepc"] = Following(csr["mepc"]) \/ csr'["mepc"] = Nowhere
        BY <2>3, <3>2 DEF CsrNames
      <3>5. TestPoint(csr'["mepc"]) /\ csr'["mepc"][1] \notin Handlers
        <4>1. TestPoint(Nowhere) /\ Nowhere[1] \notin Handlers
          BY DEF TestPoint, Nowhere, Handlers
        <4> QED BY <2>2, <3>4, <4>1, FollowPoint
      <3>6. at'[1] = "other_exp" /\ at'[2] # 1 /\ at'[1] \in Handlers
        BY <2>6, <3>2 DEF Handlers
      <3> QED BY <1>1, <2>1, <2>4, <3>2, <3>3, <3>4, <3>5, <3>6, HandlerOn
    <2>7. CASE Instr.op = "mret"
      <3>1. /\ at' = csr["mepc"] /\ mode' = status.mpp /\ UNCHANGED <<gpr, fpr, csr>>
            /\ status' = [status EXCEPT !.mie = status.mpie, !.mpie = TRUE, !.mpp = "U",
                                        !.mprv = @ /\ mode' = "M"]
        BY <1>3, <2>7, Dispatch DEF Return
      <3>2. mode' = ms.mpp
        BY <3>1 DEF InTest
      <3>3. BootShape'
        BY <1>1, <3>1 DEF BootShape, Modes, MStatus
      <3>4. TestPoint(at)' /\ Initialised'
        BY <1>1, <2>2, <3>1 DEF TestPoint, Inside, Block, Initialised, InTest
      <3> QED BY <1>1, <2>2, <3>1, <3>2, <3>3, <3>4 DEF InTest
    <2>8. CASE /\ Instr.op = "ifint" /\ Instr.csr = "mcause" /\ Instr.reg = 14
               /\ Instr.label = "m_int" /\ template \in Masking
               /\ at[2] = 1 /\ Following(at) = <<"other_exp", 2>>
      <3>1. BranchOnInterrupt
        BY <1>3, <2>8, Dispatch
      <3>2. /\ at' = IF csr["mcause"] = "interrupt" THEN <<"m_int", 1>> ELSE <<"other_exp", 2>>
            /\ UNCHANGED <<mode, status, fpr, csr, resume>>
            /\ gpr' = [gpr EXCEPT ![14] = "known"]
        BY <2>8, <3>1 DEF BranchOnInterrupt, Go, Start
      <3>3. /\ gpr' \in [1..31 -> Values]
            /\ gpr'[31] = gpr[31]
            /\ (\A r \in 1..31 : gpr[r] # "reset") => \A r \in 1..31 : gpr'[r] # "reset"
        BY <2>3, <3>2 DEF Values
      <3>4. TestPoint(at') /\ at'[1] \in Handlers /\ (at'[1] = "other_exp" => at'[2] # 1)
        <4>1. Len(Block("m_int")) = 2
          BY <2>8, HandlerBlocks, TemplateNames DEF Block
        <4>2. TestPoint(<<"m_int", 1>>)
          BY <4>1 DEF TestPoint, Inside, Handlers
        <4> QED BY <2>4, <2>8, <3>2, <4>2 DEF Handlers
      <3>5. at'[1] = "m_int" => csr'["mepc"] = resume'
        BY <2>8, <3>2 DEF InTest
      <3> QED BY <1>1, <2>1, <2>2, <2>3, <3>2, <3>3, <3>4, <3>5, HandlerOn
    <2>9. CASE /\ Instr.op = "mask" /\ Instr.csr = "mie" /\ Instr.regs = {13, 15}
               /\ at[1] = "m_int" /\ at[2] = 1 /\ Following(at) = <<"m_int", 2>>
      <3>1. Mask
        BY <1>3, <2>9, Dispatch
      <3>2. /\ at' = <<"m_int", 2>> /\ UNCHANGED <<mode, status, fpr, resume>>
            /\ gpr' = [r \in 1..31 |-> IF r \in {13, 15} THEN "known" ELSE gpr[r]]
            /\ csr' = [csr EXCEPT !["mie"] = "zero"]
        BY <2>9, <3>1 DEF Mask, Go
      <3>3. /\ gpr' \in [1..31 -> Values]
            /\ gpr'[31] = gpr[31]
            /\ (\A r \in 1..31 : gpr[r] # "reset") => \A r \in 1..31 : gpr'[r] # "reset"
        BY <2>3, <3>2 DEF Values
      <3>4. /\ csr' = [c \in CsrNames |-> csr'[c]]
            /\ \A c \in CsrNames \ {"mepc", "mie"} : csr'[c] = csr[c]
            /\ csr'["mepc"] = csr["mepc"]
        BY <2>3, <3>2 DEF CsrNames
      <3>5. csr'["mepc"] = resume'
        BY <2>9, <3>2, <3>4 DEF InTest
      <3>6. TestPoint(at') /\ at'[1] \in Handlers /\ (at'[1] = "other_exp" => at'[2] # 1)
        BY <2>4, <2>9, <3>2 DEF Handlers
      <3> QED BY <1>1, <2>1, <2>2, <3>2, <3>3, <3>4, <3>5, <3>6, HandlerOn
    <2> QED BY <2>5, <2>6, <2>7, <2>8, <2>9
  <1> QED BY <1>2, <1>3, HandlerRuns DEF BootNext

-----------------------------------------------------------------------------
(* The invariant, and what it gives.                                         *)

LEMMA InitRegion == BootInit => BootInv
  <1> SUFFICES ASSUME BootInit
               PROVE  BootInv
    OBVIOUS
  <1>1. csr = [c \in CsrNames |-> csr[c]]
    BY DEF BootInit, CsrNames
  <1>2. BootShape
    <2>1. status \in MStatus({"off", "on"}, BOOLEAN)
      BY DEF BootInit, MStatus
    <2>2. gpr \in [1..31 -> Values]
      BY DEF BootInit, Values
    <2> QED BY <1>1, <2>1, <2>2 DEF BootInit, BootShape, Modes
  <1>8. Flags
    <2>1. /\ tohost \in BOOLEAN /\ stormed \in BOOLEAN /\ rounds = 0 /\ through = 0
          /\ Rounds \in Nat
      BY BootAssumption DEF BootInit
    <2> QED BY <2>1 DEF Flags
  <1>3. Len(Block("_start")) \in {3, 4}
    <2> DEFINE b == BuildTemplate(template, ms, "_start")
    <2>1. template \in Names /\ b = BuildTemplate(template, ms, "_start")
      BY <1>2, TemplateNames
    <2> HIDE DEF b
    <2>2. Len(b) \in {3, 4}
      BY <2>1, StartupBlock
    <2> QED BY <2>1, <2>2 DEF Block
  <1>4. at[1] = "_start" /\ at[2] = 1 /\ Inside(at)
    <2>1. at[1] = "_start" /\ at[2] = 1
      BY DEF BootInit, Start
    <2>2. 1 \in 1..Len(Block("_start"))
      BY <1>3
    <2>3. Block(at[1]) = Block("_start")
      BY <2>1
    <2> QED BY <2>1, <2>2, <2>3, Zenon DEF Inside
  <1>5. ~(at[2] + 1 >= Len(Block("_start")))
    <2>1. \A k \in {3, 4} : ~(2 >= k)
      OBVIOUS
    <2>2. at[2] + 1 = 2
      BY <1>4
    <2> QED BY <1>3, <2>1, <2>2
  <1>6. Quiet /\ csr["pmp"] = "reset" /\ mode = "M"
    BY DEF BootInit, Quiet
  <1>7. InStartup
    BY <1>4, <1>5, <1>6 DEF InStartup
  <1> QED BY <1>2, <1>7, <1>8 DEF BootInv

LEMMA FlagsStay ==
  ASSUME Flags, [BootNext]_bootVars
  PROVE  Flags'
  <1>1. ASSUME NEW cause, Trap(cause)
        PROVE  Flags'
    BY <1>1 DEF Trap, flow, Flags
  <1>2. CASE UNCHANGED bootVars
    BY <1>2 DEF bootVars, Flags
  <1>3. CASE FetchFault \/ Interrupt \/ Illegal
    BY <1>1, <1>3 DEF FetchFault, Interrupt, Illegal
  <1>4. CASE Executes
    <2>1. CASE LoadImmediate \/ WriteCsr \/ Straight \/ Jump \/ Return
      BY <2>1 DEF LoadImmediate, WriteCsr, Straight, Jump, Return, Go, flow, Flags
    <2>2. CASE Skip \/ BranchOnInterrupt \/ Mask \/ HookComputes \/ HookWritesCsr
      BY <2>2 DEF Skip, BranchOnInterrupt, Mask, HookComputes, HookWritesCsr, Go, flow, Flags
    <2>3. CASE FpInit \/ Store \/ HookTraps \/ Marker
      BY <1>1, <2>3 DEF FpInit, Store, HookTraps, Marker, Go, flow, Flags
    <2>4. CASE HookFlows
      <3>1. HookLoops => rounds' \in 0..Rounds
        BY BootAssumption DEF HookLoops, Flags
      <3>2. HookLoadsTarget \/ HookJumpsThrough => through' \in 0..29
        BY DEF HookLoadsTarget, HookJumpsThrough, Pointers, Dest, Flags
      <3> QED BY <2>4, <3>1, <3>2 DEF HookFlows, HookJumps, HookLoops, HookLoadsTarget,
                                      HookJumpsThrough, Go, flow, Flags
    <2> QED BY <1>4, <2>1, <2>2, <2>3, <2>4 DEF Executes, HookFlows
  <1> QED BY <1>2, <1>3, <1>4 DEF BootNext

LEMMA StepStays ==
  ASSUME BootInv, [BootNext]_bootVars
  PROVE  BootInv'
  <1>3. Flags'
    BY FlagsStay DEF BootInv
  <1>1. CASE UNCHANGED bootVars
    <2>1. /\ UNCHANGED <<template, ms, at, mode, gpr, fpr, csr, status, resume>>
      BY <1>1 DEF bootVars
    <2>2. BootShape'
      BY <2>1 DEF BootInv, BootShape
    <2>3. InStartup => InStartup'
      BY <2>1 DEF InStartup, Inside, Block, Quiet
    <2>4. InEnv => InEnv'
      BY <2>1 DEF InEnv, Inside, Block, Quiet
    <2>5. InRegisters => InRegisters'
      BY <2>1 DEF InRegisters, Inside, Block, Quiet, SetBy
    <2>6. InTest => InTest'
      BY <2>1 DEF InTest, TestPoint, Inside, Block, Initialised
    <2> QED BY <1>3, <2>2, <2>3, <2>4, <2>5, <2>6 DEF BootInv
  <1>2. CASE BootNext
    <2>1. CASE InStartup
      BY <1>2, <1>3, <2>1, StartupStep DEF BootInv
    <2>2. CASE InEnv
      BY <1>2, <1>3, <2>2, EnvStep DEF BootInv
    <2>3. CASE InRegisters
      BY <1>2, <1>3, <2>3, RegistersStep DEF BootInv
    <2>4. CASE InTest
      BY <1>2, <1>3, <2>4, MainStep, HandlerStep DEF BootInv
    <2> QED BY <1>3, <2>1, <2>2, <2>3, <2>4 DEF BootInv
  <1> QED BY <1>1, <1>2

LEMMA BootInvariant == BootSpec => []BootInv
  BY InitRegion, StepStays, PTL DEF BootSpec

LEMMA NotInTheTest ==
  ASSUME InStartup \/ InEnv \/ InRegisters
  PROVE  at[1] # "main" /\ at[1] # "m_int"
  BY DEF InStartup, InEnv, InRegisters

(* For every choice of templates and every length of the seed: the program   *)
(* counter is at an instruction of a block template_builder.py emits, or     *)
(* lost behind the handlers, and no register or flag leaves its type.        *)
THEOREM BootTypes == BootSpec => []BootTypeOK
  <1>2. BootInv => at = Nowhere \/ at[2] \in 1..Len(Block(at[1]))
    BY DEF BootInv, InStartup, InEnv, InRegisters, InTest, TestPoint, Inside
  <1>3. BootShape => /\ template \in Templates /\ ms \in MStatusOf(template)
                     /\ mode \in {"M", "S", "U"} /\ status.mpp \in {"M", "S", "U"}
                     /\ gpr \in [1..31 -> {"reset", "known", "region", "middle", "target"}]
                     /\ fpr \subseteq 0..31
    BY DEF BootShape, Modes, Values, MStatus
  <1>5. Flags => {tohost, stormed} \subseteq BOOLEAN /\ rounds \in 0..Rounds /\ through \in 0..31
    BY DEF Flags
  <1>6. BootInv => BootShape /\ Flags
    BY DEF BootInv
  <1>4. BootInv => BootTypeOK
    BY <1>2, <1>3, <1>5, <1>6 DEF BootTypeOK
  <1> QED BY <1>4, BootInvariant, PTL

(* Whatever the seed computes it computes from values the boot code wrote:   *)
(* template_builder.py's init blocks write every register the seed may read, *)
(* XiangShan's excepted, and traps in between bring back no reset value.     *)
THEOREM BootCodeDetermines == BootSpec => []Determined
  <1>1. BootInv => Determined
    <2> SUFFICES ASSUME BootInv, at[1] = "main", template # "xiangshan"
                 PROVE  (\A r \in 1..31 : gpr[r] # "reset")
                        /\ (template # "nutshell" => fpr = 0..31)
      BY DEF Determined
    <2>1. Initialised
      BY NotInTheTest DEF BootInv, InTest
    <2>2. template \in Names
      BY TemplateNames DEF BootInv
    <2> QED BY <2>1, <2>2 DEF Initialised, Names, Masking
  <1> QED BY <1>1, BootInvariant, PTL

(* The memory base register of template_builder.py's init blocks points at   *)
(* the middle of the region at every instruction of the seed: no instruction *)
(* and no handler has it as a destination.                                   *)
THEOREM MiddleStays == BootSpec => []MiddleKept
  <1>1. BootInv => MiddleKept
    BY NotInTheTest DEF BootInv, InTest, Initialised, MiddleKept
  <1> QED BY <1>1, BootInvariant, PTL

(* The seed runs in the privilege drawn for mstatus, after any number of     *)
(* traps, interrupts and returns.                                            *)
THEOREM PrivilegeStays == BootSpec => []MainPrivilege
  <1>1. BootInv => MainPrivilege
    BY NotInTheTest DEF BootInv, InTest, Handlers, MainPrivilege
  <1> QED BY <1>1, BootInvariant, PTL

(* The boot code's writes to medeleg and to the memory protection hold as    *)
(* long as the hart runs below machine mode: a seed drawn for a lower mode   *)
(* cannot write either, and its traps reach the machine handler.             *)
THEOREM LowerModesPrepared == BootSpec => []LowerModePrepared
  <1>1. BootInv => LowerModePrepared
    BY DEF BootInv, InStartup, InEnv, InRegisters, InTest, LowerModePrepared
  <1> QED BY <1>1, BootInvariant, PTL

(* The masking handlers of cva6, boom and rocket return from an interrupt to *)
(* the instruction it hit: mepc still holds it when mret is executed.        *)
THEOREM InterruptsReturn == BootSpec => InterruptResumes
  <1>1. ASSUME BootInv, [BootNext]_bootVars
        PROVE  [at = <<"m_int", 2>> => at' = resume]_bootVars
    <2> SUFFICES ASSUME BootNext, at = <<"m_int", 2>>
                 PROVE  at' = resume
      BY <1>1
    <2>1. at[1] = "m_int" /\ at[2] = 2 /\ at # Nowhere /\ at[1] \in Handlers
      BY DEF Nowhere, Handlers
    <2>2. BootShape /\ InTest
      BY <1>1, <2>1, NotInTheTest DEF BootInv
    <2>3. TestPoint(at) /\ csr["pmp"] # "locked" /\ csr["mepc"] = resume
      BY <2>1, <2>2 DEF InTest
    <2>4. Executes
      BY <2>1, <2>2, <2>3, HandlerRuns DEF BootNext
    <2>5. Instr.op = "mret"
      BY <2>1, <2>2, <2>3, TestInstr DEF TestLabels
    <2> QED BY <2>3, <2>4, <2>5, Dispatch DEF Return
  <1> QED BY <1>1, BootInvariant, PTL DEF BootSpec, InterruptResumes
=============================================================================
