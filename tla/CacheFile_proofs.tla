-------------------------- MODULE CacheFile_proofs --------------------------
(* Theorems about CacheFile, for every set of keys, every filter shape and   *)
(* any number of invocations, killed wherever it may be.                     *)
EXTENDS CacheFile, TLAPS

(* Types of what the arguments below use.                                   *)
Typed ==
  /\ shape \in Shapes
  /\ file \in [exists : BOOLEAN, header : Shapes \cup {NoShape}, len : Nat, data : SUBSET Nat]
  /\ known \in SUBSET Keys /\ saved \in SUBSET Keys

(* Before load() a run knows no key and its segment is empty, whatever a    *)
(* killed run left.                                                         *)
FreshSegment == phase = "created" => shm = {} /\ known = {}

(* A file without a header is empty, one being written is not whole, and a  *)
(* whole one holds every byte of the keys it was written for.               *)
FileContents ==
  /\ file.header = NoShape => file.len = 0
  /\ ~file.exists => file.header = NoShape
  /\ phase = "saving" => file.exists /\ file.header \in {NoShape, shape} /\ ~Intact
  /\ Intact => CellsOf(file.header, saved) \subseteq file.data

(* A run on the file of the last completed save knows all that it stored.   *)
SavedIsKnown ==
  phase = "running" /\ Intact /\ file.header = shape => saved \subseteq known

LEMMA CellsBelow ==
  ASSUME NEW s \in Shapes, NEW S \in SUBSET Keys
  PROVE CellsOf(s, S) \subseteq 0 .. SizeBytes[s] - 1
  BY CacheFileAssumption DEF CellsOf

LEMMA CellsAdd ==
  ASSUME NEW s \in Shapes, NEW S \in SUBSET Keys, NEW k \in Keys
  PROVE CellsOf(s, S \cup {k}) = CellsOf(s, S) \cup Cells[s][k]
  BY DEF CellsOf

LEMMA NoCells == \A s \in Shapes : CellsOf(s, {}) = {}
  BY DEF CellsOf

LEMMA InitFile == Init => Typed /\ FreshSegment /\ FileContents /\ KnownInFilter /\ NoStaleBits /\ SavedIsKnown
  BY CacheFileAssumption DEF Init, Typed, FreshSegment, FileContents, KnownInFilter,
     NoStaleBits, SavedIsKnown, NoFile, Intact

LEMMA TypedStep == Typed /\ [Next]_vars => Typed'
  <1> SUFFICES ASSUME Typed, [Next]_vars PROVE Typed'
    OBVIOUS
  <1> USE CacheFileAssumption DEF Typed
  <1>1. CASE \E s \in Shapes : Create(s)
    BY <1>1 DEF Create
  <1>2. CASE NoFileToLoad \/ Load \/ LoadRefused \/ Cleanup \/ Crash \/ SaveFails
    BY <1>2 DEF NoFileToLoad, Load, LoadRefused, Cleanup, Crash, SaveFails
  <1>3. CASE \E k \in Keys : Register(k)
    BY <1>3 DEF Register
  <1>4. CASE SaveOpen \/ DeleteFile
    <2>1. \A e \in BOOLEAN :
            [exists |-> e, header |-> NoShape, len |-> 0, data |-> {}]
              \in [exists : BOOLEAN, header : Shapes \cup {NoShape}, len : Nat, data : SUBSET Nat]
      OBVIOUS
    <2> QED BY <1>4, <2>1 DEF SaveOpen, DeleteFile, NoFile
  <1>5. CASE SaveHeader
    BY <1>5 DEF SaveHeader
  <1>6. CASE SaveData
    <2>1. shm \cap (0 .. file.len) \in SUBSET Nat /\ file.len + 1 \in Nat
      OBVIOUS
    <2> QED BY <1>6, <2>1 DEF SaveData
  <1>7. CASE UNCHANGED vars
    BY <1>7 DEF vars
  <1> QED BY <1>1, <1>2, <1>3, <1>4, <1>5, <1>6, <1>7 DEF Next

LEMMA FreshStep == Typed /\ FreshSegment /\ [Next]_vars => FreshSegment'
  BY DEF FreshSegment, Next, vars, Create, NoFileToLoad, Load, LoadRefused, Register, SaveOpen,
     SaveHeader, SaveData, SaveFails, Cleanup, Crash, DeleteFile

LEMMA StaleStep == Typed /\ FreshSegment /\ NoStaleBits /\ [Next]_vars => NoStaleBits'
  <1> SUFFICES ASSUME Typed, FreshSegment, NoStaleBits, [Next]_vars PROVE NoStaleBits'
    OBVIOUS
  <1> USE DEF NoStaleBits, FreshSegment
  <1>1. CASE \E s \in Shapes : Create(s)
    BY <1>1 DEF Create
  <1>2. CASE NoFileToLoad
    BY <1>2 DEF NoFileToLoad
  <1>3. CASE Load
    BY <1>3 DEF Load
  <1>4. ASSUME NEW k \in Keys, Register(k) PROVE NoStaleBits'
    BY <1>4, CellsAdd DEF Register, Typed
  <1>5. CASE LoadRefused \/ Cleanup \/ Crash \/ SaveFails
    BY <1>5 DEF LoadRefused, Cleanup, Crash, SaveFails
  <1>6. CASE SaveOpen \/ SaveHeader \/ SaveData \/ DeleteFile
    BY <1>6 DEF SaveOpen, SaveHeader, SaveData, DeleteFile
  <1>7. CASE UNCHANGED vars
    BY <1>7 DEF vars
  <1> QED BY <1>1, <1>2, <1>3, <1>4, <1>5, <1>6, <1>7 DEF Next

LEMMA ContentsStep == Typed /\ KnownInFilter /\ FileContents /\ [Next]_vars => FileContents'
  <1> SUFFICES ASSUME Typed, KnownInFilter, FileContents, [Next]_vars PROVE FileContents'
    OBVIOUS
  <1> USE CacheFileAssumption DEF FileContents, Intact, Typed
  <1>1. CASE \E s \in Shapes : Create(s)
    BY <1>1 DEF Create
  <1>2. CASE NoFileToLoad \/ Load \/ LoadRefused \/ Cleanup \/ Crash \/ SaveFails
    BY <1>2 DEF NoFileToLoad, Load, LoadRefused, Cleanup, Crash, SaveFails
  <1>3. CASE \E k \in Keys : Register(k)
    BY <1>3 DEF Register
  <1>4. CASE SaveOpen
    BY <1>4 DEF SaveOpen
  <1>5. CASE SaveHeader
    <2>1. file'.header = shape /\ file'.len = file.len /\ file'.data = file.data
          /\ file'.exists = file.exists /\ shape' = shape /\ saved' = saved /\ phase' = phase
      BY <1>5 DEF SaveHeader
    <2>2. file.len = 0 /\ SizeBytes[shape] # 0 /\ file.exists
      BY <1>5 DEF SaveHeader
    <2> QED BY <2>1, <2>2
  <1>6. CASE SaveData
    <2>1. file.header = shape /\ SizeBytes[shape] \in Nat
      BY <1>6 DEF SaveData
    <2>2. /\ file'.header = shape /\ file'.len = file.len + 1 /\ file'.exists = file.exists
          /\ file'.data = shm \cap (0 .. file.len) /\ shape' = shape
      BY <1>6, <2>1 DEF SaveData
    <2>3. CASE file.len + 1 = SizeBytes[shape]
      <3>1. phase' = "saved" /\ saved' = known
        BY <1>6, <2>3 DEF SaveData
      <3>2. CellsOf(shape, known) \subseteq shm
        BY <1>6 DEF SaveData, KnownInFilter
      <3>3. CellsOf(shape, known) \subseteq 0 .. SizeBytes[shape] - 1
        BY CellsBelow
      <3>4. file.len = SizeBytes[shape] - 1
        BY <2>1, <2>3
      <3>5. CellsOf(shape, known) \subseteq file'.data
        BY <2>2, <3>2, <3>3, <3>4
      <3>6. file.exists
        BY <2>1
      <3> QED BY <2>1, <2>2, <3>1, <3>5, <3>6
    <2>4. CASE file.len + 1 # SizeBytes[shape]
      BY <1>6, <2>1, <2>2, <2>4 DEF SaveData
    <2> QED BY <2>3, <2>4
  <1>7. CASE DeleteFile
    BY <1>7 DEF DeleteFile, NoFile
  <1>8. CASE UNCHANGED vars
    BY <1>8 DEF vars
  <1> QED BY <1>1, <1>2, <1>3, <1>4, <1>5, <1>6, <1>7, <1>8 DEF Next

LEMMA KnownStep ==
  Typed /\ FreshSegment /\ FileContents /\ KnownInFilter /\ [Next]_vars => KnownInFilter'
  <1> SUFFICES ASSUME Typed, FreshSegment, FileContents, KnownInFilter, [Next]_vars
               PROVE KnownInFilter'
    OBVIOUS
  <1> USE NoCells DEF KnownInFilter, FreshSegment, Typed
  <1>1. CASE \E s \in Shapes : Create(s)
    BY <1>1 DEF Create
  <1>2. CASE NoFileToLoad
    <2>1. phase' = "running" /\ known' = known /\ shm' = {} /\ phase = "created" /\ shape' = shape
      BY <1>2 DEF NoFileToLoad
    <2> QED BY <2>1, <1>2
  <1>3. CASE Load
    BY <1>3 DEF Load, FileContents
  <1>4. ASSUME NEW k \in Keys, Register(k) PROVE KnownInFilter'
    BY <1>4, CellsAdd DEF Register
  <1>5. CASE LoadRefused \/ Cleanup \/ Crash \/ SaveFails
    BY <1>5 DEF LoadRefused, Cleanup, Crash, SaveFails
  <1>6. CASE SaveOpen \/ SaveHeader \/ SaveData \/ DeleteFile
    BY <1>6 DEF SaveOpen, SaveHeader, SaveData, DeleteFile
  <1>7. CASE UNCHANGED vars
    BY <1>7 DEF vars
  <1> QED BY <1>1, <1>2, <1>3, <1>4, <1>5, <1>6, <1>7 DEF Next

LEMMA SavedStep == Typed /\ FileContents /\ SavedIsKnown /\ [Next]_vars => SavedIsKnown'
  <1> SUFFICES ASSUME Typed, FileContents, SavedIsKnown, [Next]_vars PROVE SavedIsKnown'
    OBVIOUS
  <1> USE CacheFileAssumption DEF SavedIsKnown, Intact, Typed, FileContents
  <1>1. CASE \E s \in Shapes : Create(s)
    BY <1>1 DEF Create
  <1>2. CASE NoFileToLoad
    BY <1>2 DEF NoFileToLoad
  <1>3. CASE Load
    BY <1>3 DEF Load
  <1>4. CASE \E k \in Keys : Register(k)
    BY <1>4 DEF Register
  <1>5. CASE LoadRefused \/ Cleanup \/ Crash \/ SaveFails
    BY <1>5 DEF LoadRefused, Cleanup, Crash, SaveFails
  <1>6. CASE SaveOpen \/ SaveHeader \/ SaveData \/ DeleteFile
    BY <1>6 DEF SaveOpen, SaveHeader, SaveData, DeleteFile
  <1>7. CASE UNCHANGED vars
    BY <1>7 DEF vars
  <1> QED BY <1>1, <1>2, <1>3, <1>4, <1>5, <1>6, <1>7 DEF Next

LEMMA FileInvariant ==
  Spec => [](Typed /\ FreshSegment /\ FileContents /\ KnownInFilter /\ SavedIsKnown)
  BY InitFile, TypedStep, FreshStep, ContentsStep, KnownStep, SavedStep, PTL DEF Spec

(* Whatever a killed run left in the shared segment or the file, a run's    *)
(* filter holds only what it loaded and what it registered.                 *)
THEOREM NoStaleBitsEver == Spec => []NoStaleBits
  BY InitFile, TypedStep, FreshStep, StaleStep, PTL DEF Spec

(* Every key a run must remember, of this run or of a completed save, is    *)
(* in its filter.                                                           *)
THEOREM KnownKeysKept == Spec => []KnownInFilter
  BY FileInvariant, PTL

(* Keys of the last completed save are not accepted by a run that starts    *)
(* from it with the same filter shape, whatever happened in between.        *)
THEOREM SavedKeysStay == Spec => SavedNotAccepted
  <1>1. Typed /\ KnownInFilter /\ SavedIsKnown /\ [Next]_vars
          => [\A k \in Keys : Register(k) /\ Intact /\ file.header = shape => k \notin saved]_vars
    <2> SUFFICES ASSUME Typed, KnownInFilter, SavedIsKnown,
                        NEW k \in Keys, Register(k), Intact, file.header = shape, k \in saved
                 PROVE FALSE
      OBVIOUS
    <2>1. k \in known /\ CellsOf(shape, known) \subseteq shm
      BY DEF Register, SavedIsKnown, KnownInFilter
    <2> QED BY <2>1 DEF Register, CellsOf
  <1> QED BY <1>1, FileInvariant, PTL DEF Spec, SavedNotAccepted
=============================================================================
