# A TLA+ verification project for DiveFuzz

DiveFuzz generates RISC-V assembly seeds, steers them with an in-process Spike so that
every accepted instruction is new in its architectural context, and then runs them on a
device under test.  This directory holds TLA+ models of its core, TLC runs on small
instances, and TLAPS proofs for every value of the constants.  Paths below are relative to
`src/fuzzer/`; `G/` stands for `generator/`.

## 1. Inventory

| component | state | operations | interacts with |
|---|---|---|---|
| XOR cache `G/reg_analyzer/xor_cache.py` | Bloom filter in a shared memory segment (`_buffer`), cache file | `create`, `load`, `check_and_add`, `save`, `cleanup`, `from_worker_state`, `close` | created by the master, attached by every seed task, filled without a lock |
| Stateful XOR cache `G/reg_analyzer/stateful_xor_cache.py` | category cache per process | `check_and_add_stateful`: reads context fields from Spike and hashes them into the key | validator, XOR cache |
| Parallel generation `G/core/generator/__init__.py` | `pending_seeds`, `retry_round`, counters, the pool | `generate_instructions_parallel` | `ProcessPoolExecutor`, XOR cache, one task per seed |
| Seed main loop `G/core/generator/generate_instrs.py` | `logical_instr_index`, `actual_bytes`, `total_instr_retry`, the list of lines | `generate_instructions`, jump and loop sequences, padding, `write_instructions_to_file` | validator, encoder, session |
| Instruction validator `G/reg_analyzer/instruction_validator.py` | none of its own but the session's | `validate_instruction` | encoder, cache, filter registry, session, debug logger |
| Spike session `G/reg_analyzer/spike_session.py` | `engine`, `checkpoint_set` | `set_checkpoint`, `restore_checkpoint_and_reset`, `confirm_instruction`, `execute_sequence`, queries | external Spike engine |
| Filter context `G/bug_filter/context.py` | lazily fetched fields of the pre- and post-state | first-access queries | session; read by filters |
| Filter registry `G/bug_filter/registry.py`, filters `G/bug_filter/arch/` | registered filters by priority, enabled names | `register`, `enable`, `check_pre_execution`, `check_post_execution` | validator |
| Hybrid encoder, label manager `G/reg_analyzer/hybrid_encoder.py`, `G/instr_generator/label_manager.py` | statistics, label counter | `encode_sequence`, compile forward jumps, backward loops, indirect jumps | main loop |
| Instruction generation `G/instr_generator/`, `G/core/generator/register_history.py` | register histories, tables | random instruction text | main loop, mutator |
| Mutator `G/core/mutator/` | per seed: file, cache, session | `mutate_instructions` | pool, validator, cache |
| DUT executor `executor/`, `config/logger_config.py`, `utils/elf_to_img.py` | thread pool, loggers, images | run a seed on a simulator, compare, log | file system, threads |
| Templates `G/asm_template_manager/`, `G/reg_analyzer/nop_template_gen.py` | temporary files in `/dev/shm` | template text, NOP template ELF | session |
| Configuration, tables, reports | module attributes | argument parsing, log scraping | everything |

What is hard here, and what must be right about it:

* **The shared filter.**  `check_and_add` tests bits and sets them later, a byte at a time
  and unlocked (`xor_cache.py:223`, `:451`), in many processes that may be killed.  Right
  means: no rejection without a cause, no registered combination accepted again, as far as
  the code can promise it.
* **The cache file.**  It is rewritten in place at the end of a run and read back by the
  next one, possibly with a filter of another shape, possibly after a kill.
* **The pool.**  Tasks return, return without a file, raise before or after they wrote it,
  time out, die, hang, and the user presses Ctrl-C at any time; the cache should be saved
  after the last worker stopped, every seed must be accounted for, and no finished file
  may be touched again.
* **Checkpoint and rollback.**  Any call between `set_checkpoint` and
  `confirm_instruction` may raise.  Spike's state must be the one the accepted
  instructions produce, and a combination must be accepted once.
* **Stale reads.**  Filters compare states before and after an execution through proxies
  that fetch a field when it is first touched.
* **The three counters of the main loop.**  Slots, bytes and retries are incremented on
  a dozen branches by different amounts; termination and the memory layout depend on them.
* **Threads sharing loggers, images of earlier runs.**  Loggers are found by name and two
  seeds may have one name; the conversion takes all it finds in a directory that earlier,
  perhaps killed, runs have filled.
* **The program around a seed.**  A test computes from registers the boot code set or forgot
  to set, is trapped and interrupted anywhere, and must come back to where it was.
* **Instructions as tables.**  How an instruction is written, which fields its word has and
  which operands it is given stand in three files; jumps and loops are compiled from
  assumed sizes.
* **Mutation of text.**  Lines that other lines jump to, or whose operands the control flow
  relies on, are replaced, dropped and doubled.

`PROJECT.json` lists each hazard at its line with the properties that cover it.

## 2. Modules

```
DedupSet <--refines-- XORCache - MCXORCache          AtomicEngine <--refines-- Validator - MCValidator
CacheFile - MCCacheFile    GenPool - MCGenPool       SeedGen - MCSeedGen
SeedImages, DutRun - MCDevice (side by side)         Boot - MCBoot
InstrTables, ImmFields - Encoder - InstrDraw         ImmFields - JumpCompile       Profiles
InstrDraw, JumpCompile, Profiles - InstrGen          InstrDraw - Mutator, Filters
InstrGen, Mutator, Filters - MCStage (side by side)
```

An `X_proofs` holds the theorems about `X`; `Stage_proofs` those about InstrGen, Filters and
Mutator and the modules they extend, `Device_proofs` those about SeedImages and DutRun
(section 5).  An arrow means that TLC and the prover check the refinement mapping, a dash
that the module to the right extends those to the left.

### The filter and the pool

**DedupSet** (abstract).  A set of known keys; a key is accepted when it is not known.
A rejection is a stuttering step, because a Bloom filter may reject anything.

**XORCache.**  `buffer` is the set of bits set in the shared segment.  `CheckAndAdd` starts
a call, `TestSet`, `TestClear` and `Reject` are iterations of the test loop, `ReadByte`
and `WriteByte` the two halves of `buffer[b] |= m` in `_set_bits`, `AcceptKey` the last
write and `return True`.  `Attach` and `Close` are `from_worker_state` and `close`; `Die`
kills a process anywhere.  `CheckUninitialized` is the call on a cache whose `create()` was
never called, as the mutator does (`G/core/mutator/mutate_instructions.py:103`).  The hash
list is a table `Pos` of positions, arbitrary in the proofs.  `settled`, `before` and
`accepts` are history variables.

**CacheFile.**  One cache over many invocations: `Create`, `Load` (which looks at nothing
but the header's byte count), `LoadRefused`, `Register` (one whole `check_and_add`, the
interleavings are XORCache's), `SaveOpen`, `SaveHeader`, `SaveData` (byte by byte, so that
a kill tears the file anywhere), `SaveFails`, `Cleanup`, `Crash`, and the operator's
`DeleteFile`.

**GenPool.**  The master's phases are the blocks of `generate_instructions_parallel`:
`EnterRound` and `LeaveLoop` are the `while`, `SubmitSeed`, `SubmitToBroken` and `ClearPending`
the submissions, `CollectResult`, `CollectTimeout` and `CollectError` the three ways through the
collecting loop's `try`, `RoundDone` its end, `PoolDrained` the pool's `__exit__`, `SaveCache` and
`CleanupCache` the `finally` block.  `Interrupt` is a Ctrl-C, in every phase and as often as the
user likes: in the loop it leads to the pool's `__exit__`, in `__exit__` it ends the wait and
leads to `finally` with processes still at work, and in `finally` the rest is skipped.
The pool is external: a task is the future of a seed's latest submission, a job the call
that a process executes for it, and the loss of a process breaks every open future while the
other processes still run until they are terminated.  A call goes through the stages of its
file (`JobOpens` truncates it, `JobWrites` completes it, the clean-up follows) and may return,
raise, time out or be killed at each of them, so that a file may be whole although its
task raised, or torn although its seed counts as completed.

### One seed

**AtomicEngine** (abstract).  A state and the keys accepted so far.  An accepted
instruction or sequence is one step; a rejected one is none.

**Validator.**  `validate_instruction`, `execute_sequence_with_checkpoint` and the
SpikeSession calls they make.  `pc` is the position in the pipeline, `engine` Spike's state,
`checkpoint` and `checkpoint_set` what `set_checkpoint` leaves.  `Faults` says which calls
may raise; each has its own action and goes where the code's `try` sends it (a
pre-execution filter raises outside the `try` and ends the seed, a logging call inside).
`ReadPre` is the first access to a field of the lazy pre-state, `ReadCsrs` that to its `csrs`
property, which fetches all CSRs and overwrites those already read.  The key of a candidate is
any function `Digest` of the state, because the code truncates and mixes the source values.

**SeedGen.**  One seed's main loop.  `Draw` is an iteration that passed the guard;
`DrawCompressed` ends in `continue`, `EmitIllegal`, `BackwardLoop`, `ForwardJump`,
`IndirectJump`, `CandidateAccepted`, `EmitUnvalidated` and `EmitNop` append lines,
`SkipLastJump`, `JumpDisabled` and `GiveUpInstr` append none.  `Pad` and `WriteFile` follow
the loop.  `logical`, `actual` and `retry` are the code's counters; `items`, `bytes`, `ran`,
`loops`, `skipped` and `estimated` are history variables that count what really happened.

### What a slot of the seed is made of

**InstrTables.**  `G/instr_generator/formats.py` and `sets.py` as sets of rows: instructions
written alike share one.  A row's `cat` is its category, `text` its operands in the order
written; a set's `fields` are what its word has.  The `.aq`, `.rl` and `.aqrl` spellings are the
`notes` of a row, the 5583 illegal words one entry.  `Mnemonic` is the one key whose text names
another instruction: `clmulr` is written `clmulh` (`formats.py:306`).

**ImmFields**, **Encoder.**  `encode` of `reg_analyzer/instruction_encoder.py`: a line becomes the
fields of a word, or is `Refused` and goes to the compiler.  The pieces of an immediate are
divisions and remainders; what the hart makes of them (`IValue`, `SValue`, `BValue`,
`JValue`) is the reference they are checked and proved against.

**JumpCompile.**  The offsets `compile_forward_jump`, `compile_backward_loop` and
`compile_indirect_jump` compute from the sizes of the encoded lines.

**Profiles.**  The eleven extension lists, their special probabilities in ten-thousandths,
and `Weights`, what `generate_instructions` makes of them.

**InstrDraw.**  The lines an instruction of the tables can be filled to by
`generate_new_instr`, with `gen_imm`'s ranges cut down to their ends and special values and
`memory_manager.py`'s aligned offsets.

**InstrGen.**  One slot: `Setup` computes the weights, `Plain` draws an instruction,
`ForwardJump`, `IndirectJump` and `Loop` begin a sequence, `BodyLine` draws a line the body's
filter lets through (`Allowed`: jumps, branches and memory are looked up by name), `Compile`
gives every line a size, and `Prologue`, `TakeForward`, `NotTaken`, `TakeIndirect`, `RunBody`,
`Decrement` and `RunEnds` run the compiled sequence on a hart.

**Filters.**  `registry.py` runs the pre filters in order of priority, `Rejects` is one filter of
`arch/xs_filters.py`, `Validate` a candidate that meets them on a hart whose rounding mode,
`misa` and registers are arbitrary results of what ran, `RunSequence` a body, which no
filter sees.  The post filters accept everything; `V-5`, `V-6`, `P-1` and `W-1` never meet their
instruction.

**Mutator.**  `process_content` line by line: `ReadSeed` counts the instructions of a seed and
makes the two queues from their extensions' geometric means (compared as products and
powers, ties broken either way as floats may), `Increase` and `IncreaseValidated` re-draw
operands, `Decrease` and `DecreaseMissing` replace, `Erase` drops, `Keep` keeps.  The history
variable `origin` says which line of the seed each line of the mutant stems from.

**Boot.**  The five templates `build_template` registers, as blocks of records
(`XsInit`, `Cva6InitReg`, `MaskingVector` ...), and a hart that executes them: `Trap`,
`Interrupt`, `FetchFault` and `Illegal` enter handlers, `Return` leaves them.  Of the drawn
`mstatus` it keeps MPP, FS and MPRV, which makes the accesses of machine mode those of the mode
in MPP (`DataMode`) until an `mret` to a lower mode clears it.  The seed's own instructions are
`HookComputes`, `HookTraps`, `HookWritesCsr` (misa is one of `csr_range`), `HookJumps` (a branch or
`jal`, taken or not), `HookLoops` (a loop's branch back) and the two halves of an indirect jump,
`HookLoadsTarget` and `HookJumpsThrough`, between which an interrupt's handler may take the
register: the handlers overwrite x13-x15, which their docstring calls safe to clobber
(`template_builder.py:1378`).  `Marker` is the illegal instruction behind the seed, `Block` a block
of the program at hand, `BuildTemplate` of any.  A register's value is where it comes from:
reset, the boot code, the memory region, an address of the seed.

### After generation

**SeedImages.**  `run_divefuzz` over several runs on one directory: `WriteSeed`, the four
commands of `process_file` per name (`Assemble`, `Link`, `ObjCopy`, `RemoveObject`),
`ToolMissing`, `ListImages`, `Crash`.  A file's content is the run that wrote its source, and
whether that write was whole.

**DutRun.**  `run_dut_tests`: `SubmitSeeds`, `CollectResult`, `CollectError` and `ConfigDone` are
the main thread, `OpenLog` ... `Return` one thread's `run_single_seed`.  `attached` is the
handler lists of Python's loggers, `stream` and `offset` their files; handlers write to the
same file at positions of their own (`Overlay`), and a cleanup closes every handler of the
logger, whoever attached it.

## 3. Runs

| run | question | distinct states |
|---|---|---|
| `XORCache_shared` | Two workers, two keys that share a byte, one that shares none: what can lost updates, races and dead workers do? | 114,000 |
| `XORCache_single` | Does one worker implement `DedupSet`? | 340 |
| `XORCache_lost` (violation) | Is a settled key never accepted again, for all keys? | |
| `CacheFile_runs` | Three invocations with kills, torn files and changing filters. | 24,000 |
| `GenPool_rounds` | All ends of tasks, at every stage of the file, Ctrl-C anywhere, broken pools; bookkeeping, order, end. | 180,000 |
| `Validator_faults` | Every call may raise: deduplication and early reads. | 1,178,000 |
| `Validator_atomic` | Any call but the checkpoint's may raise: exact rollback and refinement. | 90,000 |
| `SeedGen_loop` | All kinds of draws and failures, all settings: counters and end. | 72,000 |
| `Stage` | Every instruction two profiles draw, with its word; sequences and their runs; filters; mutation. | 49,000 |
| `Filters_misaligned` (violation) | Does the alignment filter reject accesses only? | |
| `Boot_modes` | Five templates, all privileges, jumps, loops, traps and interrupts anywhere. | 393,000 |
| `Device_runs` | Threads that share loggers; runs that share a directory. | 697,000 |

`MCDevice` and `MCStage` explore modules that share no state side by side (`side` says which
one moves), since their product would show nothing more.

What the passing runs show:

* *XORCache.*  `RejectsCovered`: whatever interleaves or dies, `check_and_add` never answers
  False unless keys whose registration began cover all positions.  A lost update does clear
  other workers' bits, but only within a byte: `Retained` and `SafeNotAccepted` say that a key
  none of whose bytes holds another used bit is never forgotten and not accepted by a later
  call.  `DedupSpec`: with one worker none of this happens.
* *CacheFile.*  A run's filter contains nothing a killed run left in the segment
  (`NoStaleBits`), nothing the run must remember is missing (`KnownInFilter`), and keys of a
  completed `save` are not accepted by a run that starts from that file with the same
  filter shape (`SavedNotAccepted`).
* *GenPool.*  When the cache is saved and unlinked no call can touch it any more, unless two
  things went wrong: the user pressed Ctrl-C twice, or once with a process lost
  (`QuietWhenSaved`; a second Ctrl-C during the wait of `__exit__` does save under running
  calls).  Completed, failed and pending seeds add up (`Accounted`).  A seed whose task
  returned with its file is never generated again and the file stays whole, whatever other
  calls for it there were (`FinishedFilesStay`).  The invocation ends unless a call hangs for
  ever (`Terminates`).
* *Validator.*  With every call allowed to raise, no key is accepted twice (`OncePerKey`)
  and a field read by a pre-execution filter keeps its value (`EarlyReadsStable`), but for a CSR
  that a first use of `csrs` after the execution overwrites with the new value; no filter in
  the repository uses `csrs` today.  When
  `set_checkpoint` and the rollback do not raise, Spike's state between operations is what
  the last accepted one left (`RollbackExact`) and the session implements `AtomicEngine`.
* *SeedGen.*  `actual_bytes` is the size of the lines on every branch (`BytesTracked`), so the
  padded file covers the NOP template and exceeds it by less than one longest sequence
  (`OvershootBounded`); the index runs ahead of the appended instructions by exactly one
  per backward loop and one for a jump in the last slot (`SlotsAccounted`); the loop ends
  however many candidates are refused (`Terminates`).
* *InstrGen.*  What the fast encoder encodes is what the line says (`EncodesExactly`); a drawn
  access is aligned and in the region (`AccessInRegion`); the only stores and loads in a body
  are the annotated atomics its filter does not know (`OnlyAnnotatedSlipIn`); every profile
  has weights (`ProbabilitiesDefined`); a taken jump lands on its label whatever the
  assembler expanded (`JumpLands`); no body touches its loop's counter
  (`LoopRunsItsIterations`).
* *Filters.*  No accepted candidate rounds by a reserved mode, even one set by an unfiltered
  body (`RoundingDefined`).
* *Mutator.*  Every label a mutated text refers to is defined once, if labels have lines of
  their own as the generator writes them (`ReferencesResolve`).  The lines keep the seed's
  order; with a validator each jump, branch, load and store of the mutant is one the seed has
  at that place with the same operands, and every branch and jump to a label is still there
  (`TransfersKept`).  What moves control or data is listed by the architecture there, not by
  the code's test: a `jalr`, a load or a store that is used too often may be replaced, emptied
  or dropped, and a read-modify-write atomic, whose category `AMO` the test for `LOAD` and `STORE`
  does not match, may be put in or re-drawn.
* *Boot.*  But for XiangShan's, a test computes from nothing the boot code did not set
  (`Determined`); t6 stays in the middle of its region through traps (`MiddleKept`); below
  machine mode memory is open and nothing is delegated (`LowerModePrepared`); an interrupt
  costs no instruction (`InterruptResumes`); a test ends unless it is derailed in one of six
  named ways (`TestEnds`, `Derailed`): memory locked against machine mode, translation through a
  random page table, closed memory or translation under the MPRV drawn for `mstatus` (the store
  to tohost then faults for ever), compressed instructions turned off before the compressed
  footer, an interrupt that its handler does not turn off, or one that takes the register
  between an address and the jump through it.  TLC finds the test without an end as soon as
  one of the six is left out.
* *SeedImages.*  A seed whose tools worked is listed as written (`WorkedIsFresh`) and tested
  (`NewSeedsTested`); no file is older than one made from it (`StagesOrdered`).
* *DutRun.*  The log of a seed is whole and its own unless one of the same log name runs at
  the same time or later (`UndisturbedLogWhole`); the summary counts each outcome once
  (`EverySeedCounted`); the run ends (`DeviceEnds`).

The violation runs, quoted in `PROJECT.json` under `findings`: a lost update makes the filter
forget a combination, against "Multi-process safe"; and the alignment filter takes every
mnemonic that starts with `s` or `l` for an access.

### Definitions that are not run

Some definitions state what the code's words say and the code does not keep.  They are in
the modules for the reader and no run checks them, because they do not hold:

* `CacheFile!OnlyWholeFilesLoaded`: a torn file with a whole header is loaded.
* `GenPool!HungTaskTimesOut`: `as_completed` yields only finished futures, so the timeout of
  `result()` never applies.
* `Validator!PreStateIsPre`: a pre-state field first read after the execution is the new value.
* `SeedGen!EmittedWasExecuted`: a sequence that Spike rolled back is appended.
* `DutRun!DedicatedLog`, `SeedImages!TestedWereGenerated`: logs are shared and images of earlier
  runs are tested.
* `Filters!MisaHardwired`: `W-6` sees `csrrw` and `csrrwi` only; `csrrs` and `csrrc` write `misa`.
* `Mutator!LabelsOnce`: a line whose label stands before its instruction is dropped with the
  label when no replacement is left, or the label is doubled.

Type invariants and what a run's deeper property implies hold and are left out of the
configurations: the `TypeOK`s, `XORCache!PhantomInv` and `AcceptsBounded`, `GenPool!RetriesBounded`,
`Validator!KeyInv` and `RollbackInv`, `DutRun!HandlersReleased`, `SeedImages!ImagesNeverOlder`,
`Boot!MainPrivilege`.  Most of them are proved (section 5).

Read off the models without a definition of their own: `completed_count` includes tasks that
returned without a file; a file of the same byte count but another number of hashes is
loaded; the mutator's cache answers "new" to everything; if `set_checkpoint` raises, the
handler undoes the instruction accepted before; a seed whose call raised ETIMEDOUT after
it wrote its file is generated again and the file overwritten; if the call raised it in the
middle of the write and the retry cannot be set up, a torn file stays of a seed counted as
generated; one whose call raised after the write is reported
as an error with its file in place; the mutator replaces a loop's
`addi s11, s11, -1` and leaves `. + n` offsets as they were when lines between go; replacements
of the decrease branch are never validated; seeds of one base name in two directories
overwrite each other's mutated file; `formats.py:306` writes `clmulr` as `clmulh`; a cva6 profile
that matched `ALLOWED_EXT_CVA6` exactly, as `special_probabilities.py` asks, would divide by
zero, and only the duplicate `RV64_I` of the list prevents it; the documented range of `C-3`
differs from the code's.

### Bounds

* *XORCache*: two workers are enough for a lost update, three keys for one that lost updates
  hit, one they miss and a false positive; two calls per worker let a call start after
  another finished.  Bytes have two bits.  Larger values are covered by the proofs.
* *CacheFile*: three runs, so that a run can follow a torn save that followed a good one; two
  shapes with the same byte count and one with another.
* *GenPool*: two seeds on two processes, so that an old and a new call of a seed could run
  side by side and a seed is retried while another runs; three rounds (`max_retries` is 5 in
  the code), so that a retry of a retry and the bound are reached.  Interrupts have no bound of
  their own: each ends a phase.
* *Validator*: two instructions, two fields of two values; one instruction's key depends on
  one field, the other's collides.  The run is not bounded in length.
* *SeedGen*: five instructions with one NOP of slack, two candidates per instruction, one
  retry per instruction, sequences with one or three lines that may expand twofold, so
  that every way out of the loop (slots, bytes, retries) is reached.
* *InstrGen*: the profiles `general` and `rv32` together draw every row that any profile draws
  uncompressed; registers are samples with the special ones (zero, the counter s11);
  bodies of up to two lines of one or two words (the code: three to eight lines, eight
  words; the theorems: up to eight of each), enough for a body that expands, one that does not and one that mixes them; loops
  of one and two iterations (the code's bound is eight).
* *Filters*: every instruction that rounds, those that write CSRs, a load, and `sltu`.
* *Mutator*: each kind of sequence the generator writes around one line, and a text with a
  label before its instruction; nine instructions to draw from, one of them of an excluded
  extension.
* *Boot*: three instructions of the seed (`Slots`) and the marker, so that an indirect jump has
  something to jump over; one turn back (`Rounds`) in place of up to eight, since a loop's
  counter, s11, is written by no handler and its turns are bounded by the generator
  (`LoopRunsItsIterations`); seven registers the seed may write (`Regs`): sp, t0, the three the
  handlers take, one XiangShan's boot code leaves alone and the reserved t6.  The theorems
  hold for all three at any value.
* *SeedImages*: two names and two runs, so that a second run meets the first one's files.
* *DutRun*: two seeds that share a logger, one that does not, on two threads, so that one
  waits for a thread; a second configuration finds no seed.

`CHECK_DEADLOCK FALSE` is set where every modelled process ends: the workers have made their
calls, the invocations are used up, the master returned, the seed's file is written, an
exception ended the validator's session, the test signalled its end.

## 4. Fairness

*GenPool*: weak fairness of the master's steps, of the start of each queued task and of each
call's own steps (the operating system schedules every process; the pool starts queued tasks
when a process is free and terminates the processes of a broken pool).  No fairness for
lost processes or interrupts; a call may choose to hang, and then `Terminates` promises
nothing.  A kill of the master is not in the model; CacheFile takes it to take the
pool's workers with it, so that a new run meets no old worker.
*SeedGen*: weak fairness of the next-state relation (one sequential process) and strong
fairness of `Progress`, the draws that are not wasted on a compressed extension: the
extension is drawn at random with positive weights each time, so it cannot avoid the
others for ever.  Without it, `continue` on compressed extensions, which counts as neither
slot nor retry, could go on for ever.
*DutRun*: weak fairness of the main thread and of each thread; a device ends or is timed out
after 300 seconds, so a thread's next step always comes.
*Boot*: weak fairness of the hart, which executes or is interrupted but never stops.
Interrupts get no bound: a handler that does not turn them off is one of the six
exceptions of `TestEnds`.
Safety properties need no fairness.

## 5. Proofs

All theorems hold for every value of the constants that satisfies the modules' `ASSUME`s.

* `XORCache_proofs`.  `TypeInvariant`; `PhantomInvariant` (inductive: bits in the buffer,
  bits in a byte a worker has read, and bits a test has passed all belong to keys whose
  registration began, where a key a dead worker left half set counts as begun);
  `RejectsAreCovered` follows.  `RetainedInvariant` is inductive relative to it: the safe
  bits of settled keys are in the buffer, and the byte a worker holds is not stale in its
  safe bits, because no other worker writes a used bit of that byte.  `SafeStaysRejected`
  follows.  `AcceptsStayBounded`: the calls that may still answer "new" for a registered key
  are those that began before (`Racing`), and each answer but the first uses one up; it
  assumes a finite number of workers.  `SingleWorkerImplementsDedup` assumes one worker and generate mode: then every
  bit is safe, what the worker remembered from the start of its call is all there is, and
  every `AcceptKey` maps to `Accept`.
* `CacheFile_proofs`.  `KnownInFilter` is not inductive: it needs that a loaded segment was
  empty (`FreshSegment`), that a whole file holds every byte of the keys it was saved for
  and one being written is not whole (`FileContents`).  With `SavedIsKnown`, `SavedKeysStay`
  follows: a registered key would be covered already.  `NoStaleBitsEver` needs
  `FreshSegment` only.
* `GenPool_proofs`.  `Calls`: the only call a process executes for a seed is that of its latest
  submission, because a seed goes back to the list only when its future is done.  `Open`
  strengthens `QuietWhenSaved`: in the loop the open futures are those still to be collected,
  and outside it they are left by an interrupt or a broken pool.  `Balance` strengthens
  `Accounted` (completed, given up, waiting and uncollected seeds partition the seeds until an
  exception leaves the loop), with `Lists` saying how the two lists of seeds lie in each
  phase.  `Files` (what a call has written is whole, and so is the file of a task that
  returned with it) and `Calls` give `FinishedFilesAreFinal`: who would open the file again is
  a call of that seed, and there is none.  `RetriesStayBounded` counts rounds.
  `InvocationIsFinite`: a call has four steps at most, a round one for each submission and each
  result and three more; the sum of what is left goes down with every step, interrupts and
  losses included, so an invocation cannot go round in circles.
* `Validator_proofs`.  `TypeInvariant`, `KeyInvariant`, `AcceptedOncePerKey` and
  `EarlyReadsAreStable` whichever calls raise: a candidate's key is registered before any
  filter runs and is in `accepted` only after the confirmation; a field cached before the
  execution is never fetched again by its own access, only by a first `csrs`.  `RollbackInvariant`, `RollbackIsExact` and
  `ValidatorImplementsAtomic` assume `NoRollbackFaults` (the checkpoint and the rollback do not
  raise): inside an operation the checkpoint in force is the state it began in, which is
  the last confirmed one; outside, the flag is off.  `RollbackExact` alone is not inductive,
  since it says nothing of the checkpoint while an operation is open.
* `SeedGen_proofs`.  `TypeInvariant`, `SlotsInvariant` and `BytesInvariant`: the equations
  between the code's counters and what was appended, for every length of seed and every
  size of sequence, with or without failures.  `OvershootInvariant`: the guard was passed
  before the last line was appended, so the excess is below one longest sequence; it assumes
  that a body has a line (`SomeBody`), as the code's `randint(3, 8)` gives.  `WorkIsBounded`: a
  turn of the loop takes a slot or a retry, of which there are `InstrNumber + MaxRetry`, and
  costs at most `MaxMutate + 2` steps; every step uses one up but the draw of an extension
  that has compressed instructions only, which is why `Terminates` needs `Progress`.
* `Stage_proofs`, about what a slot is made of, for all registers, bodies of up to eight
  lines, sizes and texts.
  `IExact`, `SExact`, `BExact`, `JExact`: every immediate in range, cut into its fields and put
  together by the hart, is itself; `SplitExact`: the auipc/addi parts of an offset add up to it
  and fit.
  `JumpsLand` and `LoopsRunTheirIterations` rest on `Shape` (what the variables of a slot hold
  at each phase) and `Control` (a jump that was taken is at its label; a loop is in front of
  its body, or in it with the rounds left in its register, or at its end with all rounds
  done).  The offsets are sums of sizes, so
  the lemmas about `Sums` are proved by induction, and each offset is then the distance
  between two places of the text.
  `AccessesStayInRegion` and `OnlyAnnotatedAtomics` are arguments about the tables: which rows
  are accesses, what `SafeOffsets` leaves of each width, which names `Allowed` finds.  They are
  lemmas of their own, since a table of 250 rows is more than a prover takes at once.
  `RoundingIsDefined` compares the instructions whose word asks for the dynamic mode with the
  names the filter knows, for any rounding mode that unfiltered lines leave.
  `WordsSayTheirLines` pairs the rows of formats.py with the field lists of sets.py table by
  table (`AllPaired`, `AllPlain`): a row's operands, in their order, are what the fields of its
  names ask for.  `WordOf` then fills every field with the operand in its place, and every
  immediate drawn fits.  One lemma per kind of row (registers, fences, CSRs, which the
  encoder refuses, numbers, loads, stores, rounding modes, atomics) leads to a line's word.
  `WeightsAreDefined` goes through the profiles.  In cva6 and cva6_cascade every extension has
  a number of its own, and what counts is that the code's divisor, the length of the list less
  the number of names, is not zero: cva6 names 24 extensions, one of them twice, against 23
  numbers, and cva6_cascade gives more than twelve numbers for a list of twelve.  In the others
  the numbers leave something of 10000 and names to share it.  Their sum is a fold; that its
  recursion has a solution is proved by induction over the number of names
  (`SpecifiedEquation`), which gives its bound (`SpecifiedBound`).
  `MutationKeepsTransfers` and `MutationKeepsReferences` say what a line may become
  (`LineBecomes`: a line written in its place, or none), and carry it from the lines done so
  far (`InOrder`, `KeptSoFar`: what `TransfersKept` says of them; `LabelsSoFar`: the labels of the mutated lines are those of the seed's
  lines, each at one place) to the whole text.
* `Boot_proofs`.  A program runs through four parts, and `BootInv` says what holds in each:
  `InStartup`, `InEnv` (which of the control registers are written by now), `InRegisters` (the
  registers set by the instructions behind the hart, `SetBy`), `InTest`.  In the test the hart is
  in the drawn privilege; in a handler it is in machine mode with interrupts off, mepc is a
  place of the test unless memory is locked, and while the handler of an interrupt is at
  work mepc is the instruction the interrupt hit; `Flags` gives the types of the variables that
  steer jumps and loops.  No property alone is inductive: that
  the seed's privilege returns needs that `mpp` still holds it at the handler's `mret`, which
  needs that no handler that can go on is trapped itself, which needs that the boot code
  opened memory and that only machine mode can lock it.
  `BootCodeDetermines`, `MiddleStays`, `PrivilegeStays`, `LowerModesPrepared` and `InterruptsReturn`
  follow, for every number of instructions and every order of traps and interrupts;
  `BootTypes` says that the program counter stays at the blocks' instructions.
* `Device_proofs`.  For SeedImages, `OrderStep` compares the runs that wrote a name's files one
  command at a time; `ChainFresh` says how far a name whose tools worked is fresh at each
  command, and with `WrittenNow` gives `FreshWhenWorked` and `EveryNewSeedTested`.  For DutRun,
  `Counted` (a seed is in the results once from its collection on) needs that
  configurations are disjoint (`ToCome`) and when a seed has an outcome (`Outcomes`).
  `UndisturbedLogsWhole`: while a seed is undisturbed it is alone with its logger
  (`Alone`), its only open handler is at the end of the file, and the file holds exactly the
  lines written so far (`SoFar`); a line of another seed goes elsewhere (`EmitOthers`).
  `HandlersAreReleased`: a seed is in its thread only while its configuration is run
  (`InTurn`), and only then holds a handler (`Held`).  `DeviceRunIsFinite`: a configuration pays
  for the seven steps of each of its threads when it is begun; it assumes a finite set of
  seeds.

Inductive invariants are put to TLC on the runs' instances before they are proved (`BootInv` on
that of `Boot_modes`, `FewAccepts` on that of `XORCache_shared`), and so are the measures
(`StepsShrink` and `WorkShrinks` on those of `GenPool_rounds`, `Device_runs` and `SeedGen_loop`).
The library's induction theorems take an operator and are of no use to the provers here;
where a proof needs induction it takes the set of the numbers it holds for, and the
least-element principle gives it (`LeastNatural`, `Induction` in `Stage_proofs`).

Only model-checked is liveness (`GenPool` and `SeedGen!Terminates`, `DeviceEnds`, `TestEnds`), which
is outside the prover's reach with the fairness it rests on.  For the first three the measures
above show the part that does not need fairness, for every value of the constants: a run that
goes on must end (in SeedGen, if it does not draw compressed extensions for ever).  What is
left to TLC is that it goes on: some step of the master, a task or a thread is possible
until the end.  `TestEnds` has no such measure, since interrupts have no bound.

## 6. Not modelled

`PROJECT.json` lists every component and what is left out of it.

* *Argument parsing and configuration, report and log scripts*: assignments and text
  processing without state.
* *Spike itself*: external, a state that an instruction changes.
* *Hash functions, `compute_xor`*: any table; a key is an arbitrary value.
* *Register histories and chances*: they weigh a draw, and a draw is arbitrary here.
* *Vector instructions*, the sets of instructions no format exists for, and
  `jump_sequence_compiler.py`, which nothing calls.
* *Other bits of `mstatus`*: XiangShan's also draws endianness, widths and MPV, which stay at
  what a hart with fixed little-endian 64-bit modes and no guest makes of them.  A mutated
  file's fixed offsets may jump anywhere; Boot's seed is a generated one.
* *The supervisor and user templates*, which `build_template` does not register; data sections
  and the NOP template's temporary files.
* *The post filters and `match_bug`'s blacklists*: the former accept everything.

A cache shared by several processes is XORCache's subject; Validator sees one process's
registrations.

## 7. What could follow

The context hash as a function of its fields; the labels and offsets of several sequences in
one seed; the unregistered templates, should they be used.
