------------------------------ MODULE GenPool ------------------------------
(***************************************************************************)
(* core/generator/__init__.py, generate_instructions_parallel: the master  *)
(* creates the shared cache, submits one task per seed to a process pool,  *)
(* collects the results in rounds, and on most ways out saves the cache    *)
(* and unlinks the shared memory; and what each call of                    *)
(* generate_instructions does to the seed's .S file.                       *)
(*                                                                         *)
(* The pool (ProcessPoolExecutor, as_completed) is external: a future per  *)
(* seed, the processes that execute calls, a pool that breaks when one of  *)
(* them is lost.  The user may press Ctrl-C again and again.               *)
(***************************************************************************)
EXTENDS Naturals, FiniteSets

CONSTANTS
  Seeds,       \* seed indexes, range(seed_times)
  MaxWorkers,  \* processes of the pool
  MaxRetries,  \* max_retries (5 in the code)
  Ends         \* how a call may end, see TaskEnds

\* "file": the call returns with the .S file written.  "skip": Spike or the cache could
\* not be set up and it returns (0, 0).  "raise": any exception.  "etime": a TimeoutError
\* of the call's own (an OSError with ETIMEDOUT).  "die": its process is killed.
\* "hang": it never returns.
TaskEnds == {"file", "skip", "raise", "etime", "die", "hang"}

ASSUME GenPoolAssumption ==
  /\ IsFiniteSet(Seeds)
  /\ MaxWorkers \in Nat \ {0}
  /\ MaxRetries \in Nat \ {0}
  /\ Ends \subseteq TaskEnds

VARIABLES
  phase,       \* where the master is
  pending,     \* pending_seeds
  round,       \* retry_round
  uncollected, \* seeds of this round that were submitted and not yielded yet
  completed,   \* completed_count
  errors,      \* history: seeds whose exception was printed and dropped
  timeouts,    \* timeout_count
  aborted,     \* an exception is propagating out of the try block
  shm,         \* "none", "live" or "unlinked"
  submits,     \* history: how often each seed was submitted
  interrupts,  \* history: how often a KeyboardInterrupt reached the master
  task,        \* the future of each seed's latest submission
  job,         \* the call of each submission, and how far it is
  file,        \* the .S file of each seed
  broken       \* the pool lost a process

vars == <<phase, pending, round, uncollected, completed, errors, timeouts, aborted, shm,
          submits, interrupts, task, job, file, broken>>
poolVars == <<task, job, file, broken>>
counts == <<completed, errors, timeouts>>

\* The submissions there can be, and the stages of a call: generating, hung, writing its
\* file, cleaning up after it.
Jobs == Seeds \X (1 .. MaxRetries)
Active == {"running", "hung", "writing", "written"}
InPool == {"queued", "running"}
Done == {"file", "skip", "raise", "etime", "broken"}

TypeOK ==
  /\ phase \in {"start", "loop", "submit", "collect", "shutdown", "save", "cleanup", "end"}
  /\ pending \subseteq Seeds
  /\ round \in 0 .. MaxRetries
  /\ uncollected \subseteq Seeds
  /\ completed \in Nat /\ errors \in Nat /\ timeouts \in Nat
  /\ aborted \in BOOLEAN
  /\ shm \in {"none", "live", "unlinked"}
  /\ submits \in [Seeds -> 0 .. MaxRetries]
  /\ interrupts \in Nat
  /\ task \in [Seeds -> {"none"} \cup InPool \cup Done]
  /\ job \in [Jobs -> {"none", "done"} \cup Active]
  /\ file \in [Seeds -> {"none", "torn", "whole"}]
  /\ broken \in BOOLEAN

Init ==
  /\ phase = "start"
  /\ pending = Seeds
  /\ round = 0
  /\ uncollected = {}
  /\ completed = 0 /\ errors = 0 /\ timeouts = 0
  /\ aborted = FALSE
  /\ shm = "none"
  /\ submits = [s \in Seeds |-> 0]
  /\ interrupts = 0
  /\ task = [s \in Seeds |-> "none"]
  /\ job = [j \in Jobs |-> "none"]
  /\ file = [s \in Seeds |-> "none"]
  /\ broken = FALSE

\* No future is open and no process executes a call.
Quiet ==
  /\ \A s \in Seeds : task[s] \notin InPool
  /\ \A j \in Jobs : job[j] \notin Active

-----------------------------------------------------------------------------
(* The master.                                                             *)

\* xor_cache.create() and load() succeed; the try block is entered.
CreateCache ==
  /\ phase = "start"
  /\ phase' = "loop" /\ shm' = "live"
  /\ UNCHANGED <<pending, round, uncollected, counts, aborted, submits, interrupts, poolVars>>

\* load() raises: cleanup() and RuntimeError before the try block, nothing is saved.
LoadFails ==
  /\ phase = "start"
  /\ phase' = "end" /\ shm' = "unlinked" /\ aborted' = TRUE
  /\ UNCHANGED <<pending, round, uncollected, counts, submits, interrupts, poolVars>>

\* The condition of the while loop.
LoopGuard == pending # {} /\ round < MaxRetries

EnterRound ==
  /\ phase = "loop" /\ LoopGuard
  /\ phase' = "submit"
  /\ UNCHANGED <<pending, round, uncollected, counts, aborted, shm, submits, interrupts,
                 poolVars>>

LeaveLoop ==
  /\ phase = "loop" /\ ~LoopGuard
  /\ phase' = "shutdown"
  /\ UNCHANGED <<pending, round, uncollected, counts, aborted, shm, submits, interrupts,
                 poolVars>>

\* executor.submit for one seed of the list: its new future replaces the old one.
SubmitSeed(s) ==
  /\ phase = "submit" /\ ~broken
  /\ s \in pending \ uncollected
  /\ uncollected' = uncollected \cup {s}
  /\ submits' = [submits EXCEPT ![s] = @ + 1]
  /\ task' = [task EXCEPT ![s] = "queued"]
  /\ UNCHANGED <<phase, pending, round, counts, aborted, shm, interrupts, job, file, broken>>

\* submit() on a pool that lost a process raises BrokenProcessPool out of the loop.
SubmitToBroken ==
  /\ phase = "submit" /\ broken
  /\ pending \ uncollected # {}
  /\ phase' = "shutdown" /\ aborted' = TRUE
  /\ UNCHANGED <<pending, round, uncollected, counts, shm, submits, interrupts, poolVars>>

\* Every seed of the list is submitted; the list is cleared.
ClearPending ==
  /\ phase = "submit" /\ pending \subseteq uncollected
  /\ pending' = {}
  /\ phase' = "collect"
  /\ UNCHANGED <<round, uncollected, counts, aborted, shm, submits, interrupts, poolVars>>

\* as_completed yields a future that is done; result() returns at once.
CollectResult(s) ==
  /\ phase = "collect" /\ s \in uncollected
  /\ task[s] \in {"file", "skip"}
  /\ uncollected' = uncollected \ {s}
  /\ completed' = completed + 1
  /\ UNCHANGED <<phase, pending, round, errors, timeouts, aborted, shm, submits, interrupts,
                 poolVars>>

\* Mutant of CollectTimeout: the seed is not put back.
CollectTimeoutDrops(s) ==
  /\ phase = "collect" /\ s \in uncollected
  /\ task[s] = "etime"
  /\ uncollected' = uncollected \ {s}
  /\ timeouts' = timeouts + 1
  /\ UNCHANGED <<phase, pending, round, completed, errors, aborted, shm, submits, interrupts,
                 poolVars>>

\* Mutant of CollectTimeout: the futures are waited for with result(timeout) themselves, so
\* the timeout is also that of a call which still runs.
CollectTimeoutLate(s) ==
  /\ phase = "collect" /\ s \in uncollected
  /\ task[s] \in {"etime", "running"}
  /\ uncollected' = uncollected \ {s}
  /\ timeouts' = timeouts + 1
  /\ pending' = pending \cup {s}
  /\ UNCHANGED <<phase, round, completed, errors, aborted, shm, submits, interrupts, poolVars>>

\* except TimeoutError: the seed goes back to the list.
CollectTimeout(s) ==
  /\ phase = "collect" /\ s \in uncollected
  /\ task[s] = "etime"
  /\ uncollected' = uncollected \ {s}
  /\ timeouts' = timeouts + 1
  /\ pending' = pending \cup {s}
  /\ UNCHANGED <<phase, round, completed, errors, aborted, shm, submits, interrupts, poolVars>>

\* Mutant of CollectError: BrokenProcessPool is not among what is caught.
CollectErrorNotBroken(s) ==
  /\ phase = "collect" /\ s \in uncollected
  /\ task[s] = "raise"
  /\ uncollected' = uncollected \ {s}
  /\ errors' = errors + 1
  /\ UNCHANGED <<phase, pending, round, completed, timeouts, aborted, shm, submits,
                 interrupts, poolVars>>

\* except Exception: printed, the seed is given up.
CollectError(s) ==
  /\ phase = "collect" /\ s \in uncollected
  /\ task[s] \in {"raise", "broken"}
  /\ uncollected' = uncollected \ {s}
  /\ errors' = errors + 1
  /\ UNCHANGED <<phase, pending, round, completed, timeouts, aborted, shm, submits,
                 interrupts, poolVars>>

RoundDone ==
  /\ phase = "collect" /\ uncollected = {}
  /\ round' = round + 1
  /\ phase' = "loop"
  /\ UNCHANGED <<pending, uncollected, counts, aborted, shm, submits, interrupts, poolVars>>

\* Mutant of PoolDrained: shutdown(wait=False).
PoolNotDrained ==
  /\ phase = "shutdown"
  /\ phase' = "save"
  /\ UNCHANGED <<pending, round, uncollected, counts, aborted, shm, submits, interrupts,
                 poolVars>>

\* The pool's __exit__, shutdown(wait=True), returns when every task, queued ones too, is
\* over and the processes have ended; then the finally block runs.
PoolDrained ==
  /\ phase = "shutdown" /\ Quiet
  /\ phase' = "save"
  /\ UNCHANGED <<pending, round, uncollected, counts, aborted, shm, submits, interrupts,
                 poolVars>>

\* xor_cache.save(); its exceptions are swallowed.
SaveCache ==
  /\ phase = "save"
  /\ phase' = "cleanup"
  /\ UNCHANGED <<pending, round, uncollected, counts, aborted, shm, submits, interrupts,
                 poolVars>>

CleanupCache ==
  /\ phase = "cleanup"
  /\ phase' = "end" /\ shm' = "unlinked"
  /\ UNCHANGED <<pending, round, uncollected, counts, aborted, submits, interrupts, poolVars>>

(* A KeyboardInterrupt reaches the master, wherever it is.                 *)

\* Before the try block nothing is undone: the memory may stay.
InterruptStart ==
  /\ phase = "start"
  /\ phase' = "end" /\ shm' \in {"none", "live"}

\* In the loop the pool's __exit__ comes next.
InterruptLoop ==
  /\ phase \in {"loop", "submit", "collect"}
  /\ phase' = "shutdown" /\ shm' = shm

\* In __exit__ the wait is over at once: the finally block runs, the pool goes on.
InterruptShutdown ==
  /\ phase = "shutdown"
  /\ phase' = "save" /\ shm' = shm

\* In the finally block `except Exception` does not catch it: what follows is skipped.
InterruptFinally ==
  /\ phase \in {"save", "cleanup"}
  /\ phase' = "end"
  /\ shm' \in {shm, IF phase = "cleanup" THEN "unlinked" ELSE shm}

Interrupt ==
  /\ InterruptStart \/ InterruptLoop \/ InterruptShutdown \/ InterruptFinally
  /\ aborted' = TRUE
  /\ interrupts' = interrupts + 1
  /\ UNCHANGED <<pending, round, uncollected, counts, submits, poolVars>>
-----------------------------------------------------------------------------
(* The pool and its processes.                                             *)
masterVars == <<phase, pending, round, uncollected, counts, aborted, shm, submits, interrupts>>

ActiveJobs == {j \in Jobs : job[j] \in Active}

\* A process of the pool takes a queued call.
TaskStart(s) ==
  /\ task[s] = "queued" /\ ~broken
  /\ Cardinality(ActiveJobs) < MaxWorkers
  /\ task' = [task EXCEPT ![s] = "running"]
  /\ job' = [job EXCEPT ![<<s, submits[s]>>] = "running"]
  /\ UNCHANGED <<masterVars, file, broken>>

\* write_instructions_to_file opens the seed's file, which truncates it ...
JobOpens(j) ==
  /\ job[j] = "running" /\ "file" \in Ends
  /\ job' = [job EXCEPT ![j] = "writing"]
  /\ file' = [file EXCEPT ![j[1]] = "torn"]
  /\ UNCHANGED <<masterVars, task, broken>>

\* ... and writes and closes it; the clean-up follows.
JobWrites(j) ==
  /\ job[j] = "writing"
  /\ job' = [job EXCEPT ![j] = "written"]
  /\ file' = [file EXCEPT ![j[1]] = "whole"]
  /\ UNCHANGED <<masterVars, task, broken>>

\* What a call may return with, or raise, from each stage: also once the file is there.
EndsAt(stage) ==
  CASE stage = "running" -> {"skip", "raise", "etime"}
    [] stage = "writing" -> {"raise", "etime"}
    [] stage = "written" -> {"file", "raise", "etime"}
    [] OTHER -> {}

\* The call is over; its end goes to the submission's own future, if that is still open.
JobReturns(j, end) ==
  /\ end \in Ends \cap EndsAt(job[j])
  /\ job' = [job EXCEPT ![j] = "done"]
  /\ task' = [task EXCEPT ![j[1]] = IF j[2] = submits[j[1]] /\ @ = "running" THEN end ELSE @]
  /\ UNCHANGED <<masterVars, file, broken>>

JobHangs(j) ==
  /\ job[j] = "running" /\ "hang" \in Ends
  /\ job' = [job EXCEPT ![j] = "hung"]
  /\ UNCHANGED <<masterVars, task, file, broken>>

\* A process is lost, with the call it executes or idle: every future that is not done
\* gets BrokenProcessPool.  The other processes still run.
LoseProcess(lost) ==
  /\ ~broken /\ "die" \in Ends
  /\ \E s \in Seeds : submits[s] > 0
  /\ broken' = TRUE
  /\ task' = [s \in Seeds |-> IF task[s] \in InPool THEN "broken" ELSE task[s]]
  /\ job' = [j \in Jobs |-> IF j \in lost THEN "done" ELSE job[j]]
  /\ UNCHANGED <<masterVars, file>>

\* The pool terminates the other processes of a broken pool, whatever they are doing.
JobKilled(j) ==
  /\ broken /\ job[j] \in Active
  /\ job' = [job EXCEPT ![j] = "done"]
  /\ UNCHANGED <<masterVars, task, file, broken>>

Master ==
  \/ CreateCache \/ LoadFails \/ EnterRound \/ LeaveLoop \/ SubmitToBroken \/ ClearPending
  \/ RoundDone \/ PoolDrained \/ SaveCache \/ CleanupCache
  \/ \E s \in Seeds : SubmitSeed(s) \/ CollectResult(s) \/ CollectTimeout(s) \/ CollectError(s)

\* What a process does with its call, and the pool with the process.
JobStep(j) ==
  \/ JobOpens(j) \/ JobWrites(j) \/ JobHangs(j) \/ JobKilled(j)
  \/ \E end \in TaskEnds : JobReturns(j, end)

Lose == LoseProcess({}) \/ \E j \in ActiveJobs : LoseProcess({j})

Next ==
  \/ Master \/ Interrupt \/ Lose
  \/ \E s \in Seeds : TaskStart(s)
  \/ \E j \in Jobs : JobStep(j)

Spec == Init /\ [][Next]_vars

\* The master is never preempted for ever, the pool starts queued tasks, a call returns or
\* hangs, and a broken pool kills its processes.  Nothing makes a process die or the user
\* interrupt.
Fairness ==
  /\ WF_vars(Master)
  /\ \A s \in Seeds : WF_vars(TaskStart(s))
  /\ \A j \in Jobs : WF_vars(JobStep(j))
FairSpec == Spec /\ Fairness
-----------------------------------------------------------------------------
\* The cache is saved and unlinked while no task is queued and no process executes a call
\* (a worker's late write would be missing from the file), unless two things went wrong
\* before: the user pressed Ctrl-C twice, or once with a process lost.  One Ctrl-C, one
\* lost process, and any number of failing or retried tasks never lead there (the pool's
\* __exit__ before the finally block of generate_instructions_parallel).
Misfortunes == interrupts + (IF broken THEN 1 ELSE 0)
QuietWhenSaved ==
  phase \in {"save", "cleanup", "end"} /\ Misfortunes <= 1 => Quiet

\* Every seed is accounted for exactly once when the loop is left: completed, given
\* up with an error, or still pending after the last retry round.
Accounted ==
  phase \in {"save", "cleanup", "end"} /\ ~aborted =>
    completed + errors + Cardinality(pending) = Cardinality(Seeds)

\* Retries are bounded: no seed is submitted more often than max_retries says.
RetriesBounded == \A s \in Seeds : submits[s] <= MaxRetries

\* Once a seed's task has returned with its file, the seed is never generated again, and
\* no other attempt at it, late, retried or about to be killed, opens the file any more:
\* it stays whole (the retry of pending_seeds, write_instructions_to_file).
FinishedFilesStay ==
  [][\A s \in Seeds : /\ task[s] = "file" => task'[s] = "file"
                      /\ task'[s] = "file" => file'[s] = "whole"]_vars

\* The invocation ends, also after lost processes and interrupts, unless some call
\* hangs for ever.
Terminates == (\A j \in Jobs : []<>(job[j] # "hung")) => <>(phase = "end")

\* What the comment on timeout_seconds says: a task that runs past it is timed out.
HungTaskTimesOut == \A j \in Jobs : job[j] = "hung" ~> timeouts > 0
=============================================================================
