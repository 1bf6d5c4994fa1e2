----------------------------- MODULE CacheFile -----------------------------
(***************************************************************************)
(* The life of the deduplication state over many invocations of            *)
(* generate_instructions_parallel: create() a zeroed filter, load() the    *)
(* file of an earlier run, register keys, save() and cleanup().  A run may *)
(* be killed anywhere and may be given another workload, so another filter *)
(* shape; the file is written in place, header first, then the bitmap.     *)
(*                                                                         *)
(* check_and_add is one step here (XORCache has its interleavings), and a  *)
(* position stands for a whole byte of the bitmap.                         *)
(***************************************************************************)
EXTENDS Naturals

CONSTANTS
  Keys,       \* (opcode, value) combinations
  Shapes,     \* filter shapes: (size_bits, num_hashes) a workload leads to
  SizeBytes,  \* SizeBytes[s]: bitmap bytes of shape s
  Cells,      \* Cells[s][k]: the bytes of the positions of k in shape s
  NoShape,    \* "no header": what a truncated file starts with
  MaxRuns     \* bound on the number of invocations

ASSUME CacheFileAssumption ==
  /\ SizeBytes \in [Shapes -> Nat \ {0}]
  /\ \A s \in Shapes : Cells[s] \in [Keys -> SUBSET (0 .. SizeBytes[s] - 1)]
  /\ NoShape \notin Shapes
  /\ MaxRuns \in Nat

VARIABLES
  phase,    \* "off", "created", "running", "saving", "saved"
  shape,    \* shape of the current run's filter
  shm,      \* bytes with a bit set in the shared memory segment
  file,     \* the cache file: exists, header, number of data bytes, data
  runs,     \* invocations so far
  known,    \* history: keys the current run must remember
  loaded,   \* history: what load() brought into the current run
  saved     \* history: keys the last completed save() stored

vars == <<phase, shape, shm, file, runs, known, loaded, saved>>

AllBytes == UNION {0 .. SizeBytes[s] - 1 : s \in Shapes}
CellsOf(s, S) == UNION {Cells[s][k] : k \in S}
NoFile == [exists |-> FALSE, header |-> NoShape, len |-> 0, data |-> {}]
\* What load() accepts: a whole header whose byte count is the instance's.
Readable == file.header # NoShape /\ SizeBytes[file.header] = SizeBytes[shape]
\* The file a completed save() left.
Intact == file.header # NoShape /\ file.len = SizeBytes[file.header]

TypeOK ==
  /\ phase \in {"off", "created", "running", "saving", "saved"}
  /\ shape \in Shapes
  /\ shm \subseteq AllBytes
  /\ file \in [exists : BOOLEAN, header : Shapes \cup {NoShape}, len : Nat,
               data : SUBSET AllBytes]
  /\ file.len <= IF file.header = NoShape THEN 0 ELSE SizeBytes[file.header]
  /\ \A b \in file.data : b < file.len
  /\ runs \in 0 .. MaxRuns
  /\ known \subseteq Keys /\ saved \subseteq Keys
  /\ loaded \subseteq AllBytes

Init ==
  /\ phase = "off"
  /\ shape \in Shapes
  /\ shm = {}
  /\ file = NoFile
  /\ runs = 0
  /\ known = {} /\ loaded = {} /\ saved = {}

-----------------------------------------------------------------------------
\* Mutant of Create: the segment a killed run left is not zeroed.
CreateKeepsStale(s) ==
  /\ phase = "off" /\ runs < MaxRuns
  /\ phase' = "created" /\ shape' = s /\ runs' = runs + 1
  /\ known' = {} /\ loaded' = {}
  /\ UNCHANGED <<shm, file, saved>>

\* create(): unlinks a segment of that name a killed run left, allocates, zeroes.
Create(s) ==
  /\ phase = "off" /\ runs < MaxRuns
  /\ phase' = "created" /\ shape' = s /\ runs' = runs + 1
  /\ shm' = {}
  /\ known' = {} /\ loaded' = {}
  /\ UNCHANGED <<file, saved>>

\* No file yet: the run starts from the empty filter.
NoFileToLoad ==
  /\ phase = "created" /\ ~file.exists
  /\ phase' = "running"
  /\ UNCHANGED <<shape, shm, file, runs, known, loaded, saved>>

\* load(): the only check is the header's byte count; data may be shorter than that.
Load ==
  /\ phase = "created" /\ file.exists
  /\ Readable
  /\ phase' = "running"
  /\ shm' = (shm \ (0 .. file.len - 1)) \cup file.data
  /\ loaded' = file.data
  /\ known' = IF Intact /\ file.header = shape THEN saved ELSE {}
  /\ UNCHANGED <<shape, file, runs, saved>>

\* A short header or another byte count raises: the run ends before the pool starts.
LoadRefused ==
  /\ phase = "created" /\ file.exists
  /\ ~Readable
  /\ phase' = "off"
  /\ shm' = {}
  /\ UNCHANGED <<shape, file, runs, known, loaded, saved>>

\* check_and_add of a key that is not covered by the bits that are set.
Register(k) ==
  /\ phase = "running"
  /\ ~(Cells[shape][k] \subseteq shm)
  /\ shm' = shm \cup Cells[shape][k]
  /\ known' = known \cup {k}
  /\ UNCHANGED <<phase, shape, file, runs, loaded, saved>>

\* save(): open(..., 'wb') truncates, the header follows, then the bitmap in order.
SaveOpen ==
  /\ phase = "running"
  /\ phase' = "saving"
  /\ file' = [exists |-> TRUE, header |-> NoShape, len |-> 0, data |-> {}]
  /\ UNCHANGED <<shape, shm, runs, known, loaded, saved>>

SaveHeader ==
  /\ phase = "saving" /\ file.header = NoShape
  /\ file' = [file EXCEPT !.header = shape]
  /\ UNCHANGED <<phase, shape, shm, runs, known, loaded, saved>>

\* Mutant of SaveData: the last byte is dropped.
SaveDataShort ==
  /\ phase = "saving" /\ file.header # NoShape
  /\ file' = [file EXCEPT !.len = SizeBytes[shape], !.data = shm \cap (0 .. SizeBytes[shape] - 2)]
  /\ phase' = "saved" /\ saved' = known
  /\ UNCHANGED <<shape, shm, runs, known, loaded>>

SaveData ==
  /\ phase = "saving" /\ file.header # NoShape
  /\ file.len < SizeBytes[shape]
  /\ file' = [file EXCEPT !.len = @ + 1, !.data = shm \cap (0 .. file.len)]
  /\ IF file.len + 1 = SizeBytes[shape]
       THEN phase' = "saved" /\ saved' = known
       ELSE UNCHANGED <<phase, saved>>
  /\ UNCHANGED <<shape, shm, runs, known, loaded>>

\* save() raises (a full disk): swallowed, the file stays as far as it got.
SaveFails ==
  /\ phase = "saving"
  /\ phase' = "off"
  /\ shm' = {}
  /\ UNCHANGED <<shape, file, runs, known, loaded, saved>>

\* cleanup(): the owner unlinks the segment.
Cleanup ==
  /\ phase = "saved"
  /\ phase' = "off"
  /\ shm' = {}
  /\ UNCHANGED <<shape, file, runs, known, loaded, saved>>

\* The master is killed: nothing is cleaned up, the segment may survive.
Crash ==
  /\ phase # "off"
  /\ phase' = "off"
  /\ UNCHANGED <<shape, shm, file, runs, known, loaded, saved>>

\* "Please delete the file or fix the issue before continuing."
DeleteFile ==
  /\ phase = "off" /\ file.exists
  /\ file' = NoFile
  /\ UNCHANGED <<phase, shape, shm, runs, known, loaded, saved>>

Next ==
  \/ \E s \in Shapes : Create(s)
  \/ NoFileToLoad \/ Load \/ LoadRefused
  \/ \E k \in Keys : Register(k)
  \/ SaveOpen \/ SaveHeader \/ SaveData \/ SaveFails \/ Cleanup
  \/ Crash \/ DeleteFile

Spec == Init /\ [][Next]_vars
-----------------------------------------------------------------------------
\* A run's filter holds nothing but what load() brought and what the run itself
\* registered, even after killed runs left their segment behind (create, load).
NoStaleBits ==
  phase \in {"running", "saving", "saved"} => shm \subseteq loaded \cup CellsOf(shape, known)

\* Every key the run must remember is in the filter, so it cannot be accepted again:
\* keys of a completed save under the same filter shape survive kills, refused loads
\* and further runs as long as no later save was torn (save, load, check_and_add).
KnownInFilter ==
  phase \in {"running", "saving", "saved"} => CellsOf(shape, known) \subseteq shm

\* A run that starts from an untouched file of the same filter shape never accepts
\* a key the last completed save stored.
SavedNotAccepted ==
  [][\A k \in Keys : Register(k) /\ Intact /\ file.header = shape => k \notin saved]_vars

\* As load()'s docstring puts it: a file is taken only if its size matches.
OnlyWholeFilesLoaded == [][Load => Intact]_vars
=============================================================================
