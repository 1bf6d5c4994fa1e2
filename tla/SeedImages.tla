----------------------------- MODULE SeedImages -----------------------------
(* From generated assembly to the images the device is given, over several  *)
(* runs on one seeds_output directory: executor/divefuzz_adapter.py and     *)
(* utils/elf_to_img.py.  Nothing is ever removed from the directory but the *)
(* object files, the tools' return codes are not looked at, and all that is *)
(* found is converted and tested.                                           *)
EXTENDS Naturals, FiniteSets

CONSTANTS
  Names,       \* base names of seed files
  MaxRuns,     \* bound: invocations of run_divefuzz
  ToolsFail    \* whether as, ld and objcopy may fail or be missing

ASSUME ImagesAssumption == MaxRuns \in Nat \ {0} /\ ToolsFail \in BOOLEAN

\* contents of a file: nothing, what run r wrote, or the part of it a killed writer left
Absent == [run |-> 0, whole |-> TRUE]
Contents == [run : 0..MaxRuns, whole : BOOLEAN]

VARIABLES
  run,         \* the current invocation
  stage,       \* "idle", "generate", "convert", "list"
  src, obj, elf, img,   \* the files of each name
  step,        \* where process_file is for each name
  written,     \* names whose file this run has written
  failed,      \* names for which a tool failed in this run
  missing,     \* a tool could not be started: the conversion raises
  tested       \* the images run_divefuzz returned in this run

files == <<src, obj, elf, img>>
imagesVars == <<run, stage, src, obj, elf, img, step, written, failed, missing, tested>>

ImagesTypeOK ==
  /\ run \in 0..MaxRuns
  /\ stage \in {"idle", "generate", "convert", "list"}
  /\ \A f \in {src, obj, elf, img} : f \in [Names -> Contents]
  /\ step \in [Names -> {"out", "as", "ld", "objcopy", "rm", "done"}]
  /\ written \subseteq Names /\ failed \subseteq Names
  /\ missing \in BOOLEAN
  /\ tested \subseteq Names

ImagesInit ==
  /\ run = 0 /\ stage = "idle"
  /\ src = [n \in Names |-> Absent] /\ obj = src /\ elf = src /\ img = src
  /\ step = [n \in Names |-> "out"]
  /\ written = {} /\ failed = {} /\ missing = FALSE /\ tested = {}

Exists(f, n) == f[n] # Absent

-----------------------------------------------------------------------------
(* The generator's output, as run_divefuzz sees it.                         *)

StartRun ==
  /\ stage = "idle" /\ run < MaxRuns
  /\ run' = run + 1 /\ stage' = "generate"
  /\ written' = {} /\ failed' = {} /\ missing' = FALSE /\ tested' = {}
  /\ step' = [n \in Names |-> "out"]
  /\ UNCHANGED files

\* write_instructions_to_file; a worker may be killed in it
WriteSeed(n) ==
  /\ stage = "generate" /\ n \notin written
  /\ \E whole \in BOOLEAN : src' = [src EXCEPT ![n] = [run |-> run, whole |-> whole]]
  /\ written' = written \cup {n}
  /\ UNCHANGED <<run, stage, obj, elf, img, step, failed, missing, tested>>

\* Mutant of StartConversion: only the sources written first are listed
StartConversionStale ==
  /\ stage = "generate"
  /\ stage' = "convert"
  /\ step' = [n \in Names |-> IF Exists(src, n) /\ ~Exists(img, n) THEN "as" ELSE "out"]
  /\ UNCHANGED <<run, src, obj, elf, img, written, failed, missing, tested>>

\* process_assembly_files: every .S of the directory
StartConversion ==
  /\ stage = "generate"
  /\ stage' = "convert"
  /\ step' = [n \in Names |-> IF Exists(src, n) THEN "as" ELSE "out"]
  /\ UNCHANGED <<run, src, obj, elf, img, written, failed, missing, tested>>

-----------------------------------------------------------------------------
(* process_file, one step per command; the files of two names are disjoint. *)

\* half a source file may or may not assemble
MayFail(n) == ToolsFail \/ ~src[n].whole

\* a tool that succeeds had its input and writes its output; one that fails leaves its
\* output as it was or removes it
Ran(n, in, out, new) ==
  \/ /\ Exists(in, n)
     /\ new = [out EXCEPT ![n] = in[n]]
     /\ UNCHANGED failed
  \/ /\ MayFail(n)
     /\ new \in {out, [out EXCEPT ![n] = Absent]}
     /\ failed' = failed \cup {n}

\* Mutant of Assemble: a source that has an ELF already is not assembled again
AssembleOnce(n) ==
  /\ stage = "convert" /\ step[n] = "as"
  /\ IF Exists(elf, n) THEN UNCHANGED <<obj, failed>> ELSE Ran(n, src, obj, obj')
  /\ step' = [step EXCEPT ![n] = "ld"]
  /\ UNCHANGED <<run, stage, src, elf, img, written, missing, tested>>

Assemble(n) ==
  /\ stage = "convert" /\ step[n] = "as"
  /\ Ran(n, src, obj, obj')
  /\ step' = [step EXCEPT ![n] = "ld"]
  /\ UNCHANGED <<run, stage, src, elf, img, written, missing, tested>>

Link(n) ==
  /\ stage = "convert" /\ step[n] = "ld"
  /\ Ran(n, obj, elf, elf')
  /\ step' = [step EXCEPT ![n] = "objcopy"]
  /\ UNCHANGED <<run, stage, src, obj, img, written, missing, tested>>

\* Mutant of ObjCopy: the object file is copied, linked or not.
ObjCopyUnlinked(n) ==
  /\ stage = "convert" /\ step[n] = "objcopy"
  /\ Ran(n, obj, img, img')
  /\ step' = [step EXCEPT ![n] = "rm"]
  /\ UNCHANGED <<run, stage, src, obj, elf, written, missing, tested>>

ObjCopy(n) ==
  /\ stage = "convert" /\ step[n] = "objcopy"
  /\ Ran(n, elf, img, img')
  /\ step' = [step EXCEPT ![n] = "rm"]
  /\ UNCHANGED <<run, stage, src, obj, elf, written, missing, tested>>

RemoveObject(n) ==
  /\ stage = "convert" /\ step[n] = "rm"
  /\ obj' = [obj EXCEPT ![n] = Absent]
  /\ step' = [step EXCEPT ![n] = "done"]
  /\ UNCHANGED <<run, stage, src, elf, img, written, failed, missing, tested>>

\* subprocess.run raises: the object file stays
ToolMissing(n) ==
  /\ stage = "convert" /\ step[n] \in {"as", "ld", "objcopy"} /\ ToolsFail
  /\ missing' = TRUE
  /\ failed' = failed \cup {n}
  /\ step' = [step EXCEPT ![n] = "done"]
  /\ UNCHANGED <<run, stage, src, obj, elf, img, written, tested>>

-----------------------------------------------------------------------------
Converted == \A n \in Names : step[n] \in {"out", "done"}

\* executor.map's results are all there; an exception among them is raised now
ConversionDone ==
  /\ stage = "convert" /\ Converted
  /\ stage' = IF missing THEN "idle" ELSE "list"
  /\ UNCHANGED <<run, src, obj, elf, img, step, written, failed, missing, tested>>

\* process_divefuzz_asm: every .img of the directory
ListImages ==
  /\ stage = "list"
  /\ tested' = {n \in Names : Exists(img, n)}
  /\ stage' = "idle"
  /\ UNCHANGED <<run, src, obj, elf, img, step, written, failed, missing>>

\* the process is killed; the operator starts it again
Crash ==
  /\ stage \in {"generate", "convert"}
  /\ stage' = "idle"
  /\ step' = [n \in Names |-> "out"]
  /\ UNCHANGED <<run, src, obj, elf, img, written, failed, missing, tested>>

\* the operator clears the directory
ClearDirectory ==
  /\ stage = "idle"
  /\ src' = [n \in Names |-> Absent] /\ obj' = src' /\ elf' = src' /\ img' = src'
  /\ tested' = {}
  /\ UNCHANGED <<run, stage, step, written, failed, missing>>

ImagesNext ==
  \/ StartRun \/ StartConversion \/ ConversionDone \/ ListImages \/ Crash \/ ClearDirectory
  \/ \E n \in Names : WriteSeed(n) \/ Assemble(n) \/ Link(n) \/ ObjCopy(n)
                      \/ RemoveObject(n) \/ ToolMissing(n)

ImagesSpec == ImagesInit /\ [][ImagesNext]_imagesVars

-----------------------------------------------------------------------------
(* Properties.                                                              *)

(* A seed all of whose tools worked in this run is tested as it was         *)
(* written, whatever earlier runs and crashes have left in the directory.   *)
WorkedIsFresh ==
  stage = "list" => \A n \in Names : step[n] = "done" /\ n \notin failed
                                       => img[n] = src[n] /\ Exists(img, n)

(* Every seed this run has written and could convert is among the images    *)
(* the device gets.                                                         *)
NewSeedsTested ==
  [][ListImages => \A n \in written \ failed : n \in tested' /\ img[n].run = run]_imagesVars

(* A file is never older than one made from it, so an image never goes back *)
(* to an earlier run's program, although object files and ELFs of crashed   *)
(* runs are linked and converted when a later tool fails.                   *)
NotNewer(f, g, n) == Exists(g, n) => f[n].run <= g[n].run

StagesOrdered ==
  \A n \in Names :
    /\ NotNewer(img, src, n) /\ NotNewer(elf, src, n)
    /\ NotNewer(obj, src, n) /\ NotNewer(elf, obj, n) /\ NotNewer(img, obj, n) /\ NotNewer(img, elf, n)

ImagesNeverOlder ==
  [][\A n \in Names : Exists(img', n) => img[n].run <= img'[n].run]_imagesVars

(* executor/divefuzz_adapter.py:131 reports the images found as "generated  *)
(* seed files".  Images of earlier runs are among them.                     *)
TestedWereGenerated ==
  stage = "idle" => \A n \in tested : n \in written

=============================================================================
