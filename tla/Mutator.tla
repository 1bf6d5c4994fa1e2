------------------------------ MODULE Mutator ------------------------------
(* core/mutator: how the main function of a seed is mutated line by line.    *)
(* The instructions a seed uses more often than its extensions' geometric    *)
(* mean are replaced, those it uses less often get new operands.             *)
(*                                                                           *)
(* A line is its labels, its instruction, what it refers to and whether its  *)
(* operands are new.  Every chance of the code is in (0, 1) here: both       *)
(* outcomes are possible.  Any line may have the letters of a special        *)
(* register in it (`sra' has), in which case it usually comes back as it is. *)
EXTENDS InstrDraw

CONSTANTS
    MutOps,     \* bound: the instructions that are put in or drawn from
    Excluded    \* exclude_extensions

VARIABLES
    seed,       \* the lines of the main function
    checked,    \* a validator was built (eliminate_enable, and the session came up)
    enable_ext,
    increase_queue, decrease_queue, missing_ext,
    at,         \* the next line; 0 before a file is read
    mutated,    \* updated_content
    origin      \* history: which line of the seed each of them stems from

file == <<seed, checked, enable_ext, increase_queue, decrease_queue, missing_ext>>
mvars == <<file, at, mutated, origin>>

-----------------------------------------------------------------------------
(* The lines.  A target is the name of a label, "ahead" for `. + n', "here"  *)
(* for `.', or "none".                                                       *)
MLine(labels, name, target) ==
    [labels |-> labels, name |-> name, target |-> target, fresh |-> FALSE]
Blank == <<"none", "">>
Mark(label) == MLine(<<label>>, Blank, "none")
Simple(op) == MLine(<<>>, <<op, "">>, "none")

\* What generate_instructions writes for its sequences, around one line of a body; and
\* a text in which a label stands before its instruction.
SeedTexts(b) ==
    {<<MLine(<<>>, <<"beq", "">>, t), b, b, Mark("fwd_0")>> : t \in {"ahead", "fwd_0"}} \cup
    {<<Simple("li"), Mark("loop_0"), b, Simple("addi"), MLine(<<>>, <<"bne", "">>, "loop_0")>>,
     <<MLine(<<>>, <<"beq", "">>, "fwd_0"), b, Mark("fwd_0"),
       MLine(<<>>, <<"beq", "">>, "ahead"), b, Mark("fwd_1")>>,
     <<Simple("auipc"), Simple("addi"), Simple("jalr"), b, Mark("fwd_0")>>,
     <<MLine(<<>>, <<"la", "">>, "fwd_0"), Simple("jalr"), b, b, Mark("fwd_0")>>,
     <<MLine(<<"x">>, b.name, "none"), b, MLine(<<>>, <<"bne", "">>, "x")>>}

-----------------------------------------------------------------------------
(* sorting.py classify_instructions                                          *)
Extensions == DOMAIN INSTRUCTION_FORMATS
NamesOf == [ext \in Extensions |->
               {c \in {<<n[2], n[3]>> : n \in Named(INSTRUCTION_FORMATS[ext])} : c[1] \in MutOps}]
AllNames == UNION {NamesOf[e] : e \in Extensions}
Counted(text, name) == Cardinality({i \in DOMAIN text : text[i].name = name})
Used(text, ext) == {c \in NamesOf[ext] : Counted(text, c) > 0}
Flagged(text) == {ext \in Extensions : Used(text, ext) # {}}

\* c > geometric mean of the non-zero counts: c^n > their product.
Product(text, ext) ==
    FoldSet(LAMBDA c, p : p * Counted(text, c), 1, Used(text, ext))
\* Of a count equal to the mean the rounding of exp and log decides.
Power(text, ext, c) == Counted(text, c)^Cardinality(Used(text, ext))
Tied(text, tie, ext, c, side) == Power(text, ext, c) = Product(text, ext) /\ tie[ext] = side
Above(text, tie, ext, c) ==
    Power(text, ext, c) > Product(text, ext) \/ Tied(text, tie, ext, c, "above")
Below(text, tie, ext, c) ==
    Power(text, ext, c) < Product(text, ext) \/ Tied(text, tie, ext, c, "below")

\* Of the tied counts `tie' says per extension where they end up.
IncreaseQueue(text, tie) ==
    UNION {{c \in NamesOf[e] : Below(text, tie, e, c)} : e \in Flagged(text)}
DecreaseQueue(text, tie) ==
    UNION {{c \in NamesOf[e] : Above(text, tie, e, c)} : e \in Flagged(text)}
Ties(text) ==
    {t \in [Flagged(text) -> {"above", "below", "even"}] :
        \A e \in DOMAIN t : Product(text, e) = 1 => t[e] = "even"}

-----------------------------------------------------------------------------
Categories == [n \in AllNames |-> CategoryLookup(n[1], n[2])]
Category(name) == IF name \in AllNames THEN Categories[name] ELSE Unknown
Labelling == {n \in AllNames : "LABEL" \in VariablesLookup(n[1], n[2])}
HasLabel(name) == name \in Labelling
BodyLike == {op \in MutOps : CategoryLookup(op, "") \notin {"JUMP", "BRANCH"}}
Found == {n \in AllNames : FoundRows(n[1], n[2]) # {}}
MemoryLike == {"LOAD", "STORE", "FLOAT_LOAD", "FLOAT_STORE", "LOAD_SP", "STORE_SP", "AMO_LOAD",
               "AMO_STORE"}

\* With a validator these keep their operands: the tests look for LOAD, STORE, JUMP and
\* BRANCH in the name of the category.
NeedsNoValidation(name) ==
    HasLabel(name) \/ Category(name) \in MemoryLike \cup {"JUMP", "BRANCH"}

\* What may replace an instruction.  Nothing is known of an annotated atomic.
MayReplace(name) == ~HasLabel(name) /\ Category(name) \notin MemoryLike \cup {"SYSTEM", "JUMP"}

\* find_instruction_extension
ExtensionOf(name) == CHOOSE e \in Extensions : name \in NamesOf[e]

\* A line of an instruction the lookup does not know is empty.
Filled(name, target) ==
    [MLine(<<>>, IF name \in Found THEN name ELSE Blank, target)
        EXCEPT !.fresh = TRUE]

\* modify_instruction_inc: new operands.  The word in the place of the label is taken
\* over, which of `. + n' is only the dot.
ModifyInc(l) ==
    {l, Filled(l.name, IF l.target = "ahead" THEN "here" ELSE l.target)}
\* modify_instruction_dec
ModifyDec(l, name) == {l, Filled(name, "none")}

\* segment_label + the new text, which keeps its label if it is the old one.
Labelled(l, new) == [new EXCEPT !.labels = l.labels \o @]
Emit(l) == mutated' = Append(mutated, l) /\ origin' = Append(origin, at)
Drop == UNCHANGED <<mutated, origin>>

-----------------------------------------------------------------------------
MutInit ==
    /\ seed = <<>> /\ checked = FALSE /\ enable_ext = FALSE /\ at = 0
    /\ mutated = <<>> /\ origin = <<>>
    /\ increase_queue = {} /\ decrease_queue = {} /\ missing_ext = {}

\* process_content of one file: extract_main_function, the session, the queues.
ReadSeed ==
    /\ at = 0 /\ at' = 1
    /\ \E op \in BodyLike : seed' \in SeedTexts(Simple(op))
    /\ checked' \in BOOLEAN /\ enable_ext' \in BOOLEAN
    /\ \E tie \in Ties(seed') :
          /\ increase_queue' = IncreaseQueue(seed', tie)
          /\ decrease_queue' = DecreaseQueue(seed', tie)
    /\ missing_ext' = AllNames \ (increase_queue' \cup decrease_queue')
    /\ UNCHANGED <<mutated, origin>>

MutateLine(l) ==
    /\ at \in DOMAIN seed /\ l = seed[at] /\ at' = at + 1
    /\ UNCHANGED file

\* The lines left alone: only a label, `la', in no queue, or by chance.
\* Mutant of KeptLine: a line with nothing but a label is not passed on.
KeptLineNoMark(l) == IF l.name = Blank THEN Drop ELSE Emit(l)
KeptLine(l) == Emit(l)
Keep == \E l \in Range(seed) : MutateLine(l) /\ KeptLine(l)

\* An instruction used too little, without a validator.
Increase ==
    \E l \in Range(seed) :
        /\ MutateLine(l) /\ l.name \in increase_queue /\ ~checked
        /\ \E new \in ModifyInc(l) : Emit(Labelled(l, new))

\* The same with a validator: one of ten attempts is accepted, or the line is kept.
Validatable(l) == ~NeedsNoValidation(l.name)
IncreaseValidated ==
    \E l \in Range(seed) :
        /\ MutateLine(l) /\ l.name \in increase_queue /\ checked /\ Validatable(l)
        /\ \E new \in ModifyInc(l) : Emit(Labelled(l, new))

\* An instruction used too often is replaced, or dropped with its label if there is
\* nothing to replace it with; never validated.
\* Mutant of Replaceable: transfers are replaced as well.
AnyReplaceable(l) == TRUE
Replaceable(l) == ~HasLabel(l.name)
ReplaceBy(l, names) ==
    \/ \E name \in names : \E new \in ModifyDec(l, name) : Emit(Labelled(l, new))
    \/ names = {} /\ Drop
Decrease ==
    \E l \in Range(seed) :
        /\ MutateLine(l) /\ l.name \in decrease_queue /\ Replaceable(l)
        /\ ReplaceBy(l, {n \in increase_queue : MayReplace(n)})
DecreaseMissing ==
    \E l \in Range(seed) :
        /\ MutateLine(l) /\ l.name \in decrease_queue /\ Replaceable(l) /\ enable_ext
        /\ ReplaceBy(l, {n \in missing_ext : MayReplace(n) /\ ExtensionOf(n) \notin Excluded})
Erase ==
    \E l \in Range(seed) :
        /\ MutateLine(l) /\ l.name \in decrease_queue /\ Replaceable(l)
        /\ Emit(MLine(l.labels, Blank, "none"))

\* The file is written; the worker takes another one.
Done == at = Len(seed) + 1 /\ seed # <<>>
NextFile ==
    /\ Done /\ at' = 0 /\ mutated' = <<>> /\ origin' = <<>> /\ seed' = <<>>
    /\ checked' = FALSE /\ enable_ext' = FALSE
    /\ increase_queue' = {} /\ decrease_queue' = {} /\ missing_ext' = {}

MutNext ==
    \/ NextFile \/ ReadSeed \/ Keep \/ Increase \/ IncreaseValidated \/ Decrease
    \/ DecreaseMissing \/ Erase
MutSpec == MutInit /\ [][MutNext]_mvars

-----------------------------------------------------------------------------
Definitions(text, label) ==
    {p \in (DOMAIN text) \X (1..2) :
        p[2] <= Len(text[p[1]].labels) /\ text[p[1]].labels[p[2]] = label}
LabelsStandAlone == \A i \in DOMAIN seed : seed[i].labels # <<>> => seed[i].name = Blank

\* A mutated file assembles as far as its labels go: every label a line refers to is
\* defined, and none twice (for texts whose labels have lines of their own, as the
\* generator writes them; process_content, "Keep the section identifier").
LabelsOnce ==
    Done => \A l \in Range(mutated) : l.target \notin {"none", "ahead", "here"} =>
                Cardinality(Definitions(mutated, l.target)) = 1
ReferencesResolve == LabelsStandAlone => LabelsOnce

\* What moves control, and what loads or stores, by the architecture and whatever the
\* tables say of it.  The read-modify-writes (amoadd.w) are not among them: their category
\* is AMO, in which process_content looks for LOAD and STORE in vain, so they are put in
\* and redrawn like arithmetic.
TransferOps == {"jal", "jalr", "beq", "bne", "blt", "bge", "bltu", "bgeu", "c.j", "c.jal", "c.jr",
                "c.jalr", "c.beqz", "c.bnez"}
LoadStoreOps == Loads \cup Stores \cup
    {"lr.w", "sc.w", "lr.d", "sc.d", "c.lw", "c.sw", "c.ld", "c.sd", "c.flw", "c.fsw", "c.fld",
     "c.fsd", "c.lwsp", "c.swsp", "c.ldsp", "c.sdsp", "c.flwsp", "c.fswsp", "c.fldsp", "c.fsdsp"}
Moves(l) == l.name[1] \in TransferOps \cup LoadStoreOps
Bare(l) == [l EXCEPT !.labels = <<>>]

\* A line of the seed leaves at most one line, in the seed's order.  With a validator the
\* mutant has no jump, branch, load or store the seed does not have at that place, with
\* the same operands, and it has every branch and jump to a label.  (A jalr, a load or a
\* store that is used too often may be replaced, emptied or dropped.)
TransfersKept ==
    Done =>
        /\ \A i, j \in DOMAIN mutated : i < j => origin[i] < origin[j]
        /\ checked =>
              /\ \A i \in DOMAIN mutated :
                    Moves(mutated[i]) => Bare(mutated[i]) = Bare(seed[origin[i]])
              /\ \A p \in DOMAIN seed : HasLabel(seed[p].name) =>
                    \E i \in DOMAIN mutated : origin[i] = p /\ Bare(mutated[i]) = Bare(seed[p])
=============================================================================
