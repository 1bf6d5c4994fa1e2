--------------------------- MODULE GenPool_proofs ---------------------------
(* Theorems about GenPool, for every set of seeds, number of processes,      *)
(* number of retries and whatever ends the tasks may have.                   *)
EXTENDS Integers, GenPool, FiniteSetTheorems, TLAPS

\* The types the arguments below need.
Typed ==
  /\ phase \in {"start", "loop", "submit", "collect", "shutdown", "save", "cleanup", "end"}
  /\ pending \in SUBSET Seeds
  /\ uncollected \in SUBSET Seeds
  /\ completed \in Nat /\ errors \in Nat /\ interrupts \in Nat
  /\ submits \in [Seeds -> Nat]
  /\ task \in [Seeds -> {"none"} \cup InPool \cup Done]
  /\ job \in [Jobs -> {"none", "done"} \cup Active]
  /\ file \in [Seeds -> {"none", "torn", "whole"}]
  /\ broken \in BOOLEAN /\ aborted \in BOOLEAN

(* The calls that are executed are those of the latest submissions, and     *)
(* their futures are open or were broken with the pool: a seed never has    *)
(* two calls.                                                               *)
Calls ==
  /\ \A j \in Jobs : job[j] \in Active =>
        j[2] = submits[j[1]] /\ task[j[1]] \in {"running", "broken"}
  /\ \A j \in Jobs : job[j] # "none" =>
        j[2] <= submits[j[1]] /\ (j[2] = submits[j[1]] => task[j[1]] # "queued")
  /\ \A s \in Seeds : task[s] = "broken" => broken
  /\ broken => \A s \in Seeds : task[s] \notin InPool
  /\ \A s \in pending \ uncollected : task[s] \in {"none", "etime"}

(* Open futures are those of the round's uncollected seeds, until an        *)
(* interrupt leaves them to the pool's __exit__.                            *)
Open ==
  /\ phase = "start" => \A s \in Seeds : task[s] = "none"
  /\ phase = "loop" => \A s \in Seeds : task[s] \notin InPool
  /\ phase \in {"submit", "collect"} => \A s \in Seeds : task[s] \in InPool => s \in uncollected
  /\ phase \in {"start", "loop", "submit", "collect"} => interrupts = 0
  /\ phase = "shutdown" /\ interrupts = 0 => \A s \in Seeds : task[s] \notin InPool
  /\ QuietWhenSaved

(* What is written is whole, and so is the file of a task that returned.    *)
Files ==
  /\ \A j \in Jobs : job[j] = "written" => file[j[1]] = "whole"
  /\ \A s \in Seeds : task[s] = "file" => file[s] = "whole"

\* The seeds of the round, while they are submitted and collected.
Lists ==
  /\ phase \in {"start", "loop"} => uncollected = {}
  /\ phase = "submit" => uncollected \subseteq pending
  /\ phase = "collect" => pending \cap uncollected = {}
  /\ ~aborted /\ phase \notin {"submit", "collect"} => uncollected = {}

(* Every seed is in one of the four: completed, given up, waiting, to be    *)
(* collected, until an exception leaves the loop.                           *)
Balance ==
  ~aborted => completed + errors + Cardinality(pending \cup uncollected) = Cardinality(Seeds)

\* What the pool and its processes do.
PoolStep == Lose \/ (\E s \in Seeds : TaskStart(s)) \/ (\E j \in Jobs : JobStep(j))

LEMMA InitTyped == Init => Typed
  <1> SUFFICES ASSUME Init PROVE Typed
    OBVIOUS
  <1>1. submits \in [Seeds -> Nat] /\ task \in [Seeds -> {"none"} \cup InPool \cup Done]
    BY DEF Init
  <1>2. job \in [Jobs -> {"none", "done"} \cup Active] /\ file \in [Seeds -> {"none", "torn", "whole"}]
    BY DEF Init
  <1>3. pending \in SUBSET Seeds /\ uncollected \in SUBSET Seeds
    BY DEF Init
  <1> QED BY <1>1, <1>2, <1>3 DEF Init, Typed

\* What the interrupt, wherever it arrives, does.
LEMMA InterruptIs ==
  Interrupt => /\ UNCHANGED <<pending, uncollected, round, submits, completed, errors, task, job,
                              file, broken>>
               /\ aborted' = TRUE /\ interrupts' = interrupts + 1
               /\ \/ phase = "start" /\ phase' = "end"
                  \/ phase \in {"loop", "submit", "collect"} /\ phase' = "shutdown"
                  \/ phase = "shutdown" /\ phase' = "save"
                  \/ phase \in {"save", "cleanup"} /\ phase' = "end"
  BY DEF Interrupt, InterruptStart, InterruptLoop, InterruptShutdown, InterruptFinally, counts,
         poolVars

LEMMA TypedStep == Typed /\ [Next]_vars => Typed'
  <1> SUFFICES ASSUME Typed, [Next]_vars PROVE Typed'
    OBVIOUS
  <1> USE DEF Typed, InPool, Done, counts, poolVars
  <1>1. CASE CreateCache \/ LoadFails \/ EnterRound \/ LeaveLoop \/ SubmitToBroken \/ ClearPending
             \/ RoundDone \/ PoolDrained \/ SaveCache \/ CleanupCache
    BY <1>1 DEF CreateCache, LoadFails, EnterRound, LeaveLoop, SubmitToBroken, ClearPending,
         RoundDone, PoolDrained, SaveCache, CleanupCache
  <1>7. CASE \E s \in Seeds : SubmitSeed(s) \/ CollectResult(s) \/ CollectTimeout(s) \/ CollectError(s)
    BY <1>7 DEF SubmitSeed, CollectResult, CollectTimeout, CollectError
  <1>2. CASE Interrupt
    BY <1>2, InterruptIs
  <1>3. CASE \E s \in Seeds : TaskStart(s)
    BY <1>3 DEF TaskStart, masterVars, Active
  <1>4. CASE Lose
    BY <1>4 DEF Lose, LoseProcess, masterVars
  <1>5. ASSUME NEW j \in Jobs, JobStep(j) PROVE Typed'
    <2>1. j[1] \in Seeds
      BY <1>5 DEF Jobs
    <2>2. CASE JobOpens(j) \/ JobWrites(j) \/ JobHangs(j) \/ JobKilled(j)
      BY <2>1, <2>2 DEF JobOpens, JobWrites, JobHangs, JobKilled, masterVars, Active
    <2>3. ASSUME NEW end \in TaskEnds, JobReturns(j, end) PROVE Typed'
      <3>1. end \in {"file", "skip", "raise", "etime"}
        BY <2>3 DEF JobReturns, EndsAt
      <3> QED BY <2>1, <2>3, <3>1 DEF JobReturns, masterVars
    <2> QED BY <1>5, <2>2, <2>3 DEF JobStep
  <1>6. CASE UNCHANGED vars
    BY <1>6 DEF vars
  <1> QED BY <1>1, <1>2, <1>3, <1>4, <1>5, <1>6, <1>7 DEF Next, Master

LEMMA JobIs == \A j \in Jobs : j[1] \in Seeds /\ j[2] \in 1 .. MaxRetries /\ j = <<j[1], j[2]>>
  BY DEF Jobs

LEMMA CallsStep == Typed /\ Calls /\ Lists /\ [Next]_vars => Calls'
  <1> SUFFICES ASSUME Typed, Calls, Lists, [Next]_vars PROVE Calls'
    OBVIOUS
  <1> USE JobIs DEF Typed, Calls, InPool, counts, poolVars
  <1>1. CASE CreateCache \/ LoadFails \/ EnterRound \/ LeaveLoop \/ SubmitToBroken \/ ClearPending
             \/ RoundDone \/ PoolDrained \/ SaveCache \/ CleanupCache
    BY <1>1 DEF CreateCache, LoadFails, EnterRound, LeaveLoop, SubmitToBroken, ClearPending,
         RoundDone, PoolDrained, SaveCache, CleanupCache
  <1>2. ASSUME NEW s \in Seeds, SubmitSeed(s) PROVE Calls'
    <2>1. /\ ~broken /\ s \in pending \ uncollected /\ job' = job /\ broken' = broken
          /\ pending' = pending /\ uncollected' = uncollected \cup {s}
          /\ submits' = [submits EXCEPT ![s] = @ + 1] /\ task' = [task EXCEPT ![s] = "queued"]
      BY <1>2 DEF SubmitSeed
    <2>2. \A j \in Jobs : job[j] # "none" /\ j[1] = s => job[j] \notin Active /\ j[2] < submits'[s]
      BY <2>1
    <2> QED BY <2>1, <2>2 DEF Active
  <1>3. CASE \E s \in Seeds : CollectResult(s) \/ CollectTimeout(s) \/ CollectError(s)
    BY <1>3 DEF CollectResult, CollectTimeout, CollectError, Lists
  <1>4. CASE Interrupt
    BY <1>4, InterruptIs
  <1>5. ASSUME NEW s \in Seeds, TaskStart(s) PROVE Calls'
    <2>1. /\ task[s] = "queued" /\ ~broken /\ task' = [task EXCEPT ![s] = "running"]
          /\ job' = [job EXCEPT ![<<s, submits[s]>>] = "running"]
          /\ UNCHANGED <<submits, broken, pending, uncollected>>
      BY <1>5 DEF TaskStart, masterVars
    <2> QED BY <2>1 DEF Active
  <1>6. CASE Lose
    <2>1. /\ broken' = TRUE /\ UNCHANGED <<submits, pending, uncollected>>
          /\ task' = [s \in Seeds |-> IF task[s] \in InPool THEN "broken" ELSE task[s]]
          /\ \A j \in Jobs : job'[j] = job[j] \/ (job'[j] = "done" /\ job[j] \in Active)
      <3>1. CASE LoseProcess({})
        BY <3>1 DEF LoseProcess, masterVars
      <3>2. ASSUME NEW i \in ActiveJobs, LoseProcess({i}) 
            PROVE /\ broken' = TRUE /\ UNCHANGED <<submits, pending, uncollected>>
                  /\ task' = [s \in Seeds |-> IF task[s] \in InPool THEN "broken" ELSE task[s]]
                  /\ \A j \in Jobs : job'[j] = job[j] \/ (job'[j] = "done" /\ job[j] \in Active)
        BY <3>2 DEF LoseProcess, ActiveJobs, masterVars
      <3> QED BY <1>6, <3>1, <3>2 DEF Lose
    <2>2. \A j \in Jobs : job'[j] \in Active => job[j] \in Active
      BY <2>1 DEF Active
    <2>3. \A j \in Jobs : job'[j] # "none" => job[j] # "none"
      BY <2>1 DEF Active
    <2> QED BY <2>1, <2>2, <2>3
  <1>7. ASSUME NEW j \in Jobs, JobStep(j) PROVE Calls'
    <2>1. CASE JobOpens(j) \/ JobWrites(j) \/ JobHangs(j) \/ JobKilled(j)
      BY <2>1 DEF JobOpens, JobWrites, JobHangs, JobKilled, masterVars, Active
    <2>2. ASSUME NEW end \in TaskEnds, JobReturns(j, end) PROVE Calls'
      <3>1. /\ job[j] \in Active /\ job' = [job EXCEPT ![j] = "done"]
            /\ end \in {"file", "skip", "raise", "etime"}
            /\ task' = [task EXCEPT ![j[1]] =
                         IF j[2] = submits[j[1]] /\ task[j[1]] = "running" THEN end ELSE task[j[1]]]
            /\ UNCHANGED <<submits, broken, pending, uncollected>>
        BY <2>2 DEF JobReturns, EndsAt, masterVars, Active
      <3>2. \A i \in Jobs : job[i] \in Active /\ i[1] = j[1] => i = j
        BY <3>1
      <3>3. \A s \in Seeds : task'[s] # task[s] => s = j[1] /\ task'[s] = end /\ task[s] = "running"
        BY <3>1
      <3>4. \A i \in Jobs : job'[i] \in Active => i # j /\ job[i] \in Active /\ i[1] # j[1]
        BY <3>1, <3>2 DEF Active
      <3>5. \A i \in Jobs : job'[i] \in Active =>
               i[2] = submits'[i[1]] /\ task'[i[1]] \in {"running", "broken"}
        BY <3>1, <3>3, <3>4
      <3>6. \A i \in Jobs : job'[i] # "none" => job[i] # "none"
        BY <3>1 DEF Active
      <3> QED BY <3>1, <3>3, <3>5, <3>6
    <2> QED BY <1>7, <2>1, <2>2 DEF JobStep
  <1>8. CASE UNCHANGED vars
    BY <1>8 DEF vars
  <1> QED BY <1>1, <1>2, <1>3, <1>4, <1>5, <1>6, <1>7, <1>8 DEF Next, Master

\* Nothing starts in a pool without open futures and calls.
LEMMA QuietStays ==
  Typed /\ Quiet /\ PoolStep
    => Quiet' /\ Lose
  <1> SUFFICES ASSUME Typed, Quiet, PoolStep
               PROVE  Quiet' /\ Lose
    OBVIOUS
  <1> USE DEF Typed, Quiet, InPool, Active
  <1>1. \A s \in Seeds : ~TaskStart(s)
    BY DEF TaskStart
  <1>2. \A j \in Jobs : ~JobStep(j)
    BY DEF JobStep, JobOpens, JobWrites, JobHangs, JobKilled, JobReturns, EndsAt
  <1>3. CASE Lose
    BY <1>3 DEF Lose, LoseProcess
  <1> QED BY <1>1, <1>2, <1>3 DEF PoolStep

LEMMA OpenStep == Typed /\ Calls /\ Lists /\ Open /\ [Next]_vars => Open'
  <1> SUFFICES ASSUME Typed, Calls, Lists, Open, [Next]_vars PROVE Open'
    OBVIOUS
  <1> USE DEF Typed, Open, InPool, counts, poolVars
  <1>0. \A s \in Seeds : task[s] = "broken" => broken
    BY DEF Calls
  <1>1. CASE CreateCache \/ LoadFails \/ EnterRound \/ LeaveLoop \/ SubmitToBroken \/ ClearPending
             \/ RoundDone \/ PoolDrained \/ SaveCache \/ CleanupCache
    <2>1. UNCHANGED <<task, job, broken, interrupts, submits>>
      BY <1>1 DEF CreateCache, LoadFails, EnterRound, LeaveLoop, SubmitToBroken, ClearPending,
         RoundDone, PoolDrained, SaveCache, CleanupCache
    <2>2. Quiet' = Quiet /\ Misfortunes' = Misfortunes
      BY <2>1 DEF Quiet, Misfortunes
    <2>3. phase = "start" => Quiet
      BY JobIs DEF Calls, Quiet
    <2>4. QuietWhenSaved'
      <3>1. CASE LoadFails
        BY <2>2, <2>3, <3>1 DEF LoadFails, QuietWhenSaved
      <3>2. CASE PoolDrained
        BY <2>2, <3>2 DEF PoolDrained, QuietWhenSaved
      <3>3. CASE SaveCache \/ CleanupCache
        BY <2>2, <3>3 DEF SaveCache, CleanupCache, QuietWhenSaved
      <3>4. CASE CreateCache \/ EnterRound \/ LeaveLoop \/ SubmitToBroken \/ ClearPending \/ RoundDone
        BY <3>4 DEF CreateCache, EnterRound, LeaveLoop, SubmitToBroken, ClearPending, RoundDone,
             QuietWhenSaved
      <3> QED BY <1>1, <3>1, <3>2, <3>3, <3>4
    <2>5. \A s \in Seeds : broken => task[s] \notin InPool
      BY DEF Calls
    <2> QED BY <1>1, <2>1, <2>4, <2>5 DEF CreateCache, LoadFails, EnterRound, LeaveLoop,
         SubmitToBroken, ClearPending, RoundDone, PoolDrained, SaveCache, CleanupCache
  <1>2. CASE \E s \in Seeds : SubmitSeed(s) \/ CollectResult(s) \/ CollectTimeout(s) \/ CollectError(s)
    BY <1>2 DEF SubmitSeed, CollectResult, CollectTimeout, CollectError, QuietWhenSaved
  <1>3. CASE Interrupt
    <2>1. Quiet' = Quiet /\ Misfortunes' = Misfortunes + 1
      BY <1>3, InterruptIs DEF Quiet, Misfortunes
    <2>2. Misfortunes \in Nat /\ (Misfortunes = 0 => interrupts = 0 /\ ~broken)
      BY DEF Misfortunes
    <2>3. phase = "start" => Quiet
      BY JobIs DEF Calls, Quiet
    <2>4. phase = "shutdown" /\ Misfortunes = 0 => Quiet
      BY <1>0, <2>2, JobIs DEF Calls, Quiet
    <2>5. QuietWhenSaved'
      BY <1>3, <2>1, <2>2, <2>3, <2>4, InterruptIs DEF QuietWhenSaved
    <2> QED BY <1>3, <2>5, InterruptIs
  <1>4. CASE PoolStep
    <2>1. UNCHANGED <<phase, interrupts, uncollected>>
      BY <1>4 DEF PoolStep, Lose, LoseProcess, TaskStart, JobStep, JobOpens, JobWrites, JobHangs, JobKilled,
         JobReturns, masterVars
    <2>2. \A s \in Seeds : /\ task'[s] \in InPool => task[s] \in InPool
                           /\ task[s] = "none" => task'[s] = "none"
      BY <1>4 DEF PoolStep, Lose, LoseProcess, TaskStart, JobStep, JobOpens, JobWrites, JobHangs, JobKilled,
         JobReturns, EndsAt
    <2>3. Misfortunes' <= 1 => Misfortunes <= 1
      <3>1. broken => broken'
        BY <1>4 DEF PoolStep, Lose, LoseProcess, TaskStart, JobStep, JobOpens, JobWrites, JobHangs,
           JobKilled, JobReturns
      <3> QED BY <2>1, <3>1 DEF Misfortunes
    <2>4. QuietWhenSaved'
      BY <1>4, <2>1, <2>3, QuietStays DEF QuietWhenSaved
    <2> QED BY <2>1, <2>2, <2>4
  <1>5. CASE UNCHANGED vars
    BY <1>5 DEF vars, QuietWhenSaved, Quiet, Misfortunes
  <1> QED BY <1>1, <1>2, <1>3, <1>4, <1>5 DEF Next, Master, PoolStep

LEMMA ListsStep == Typed /\ Lists /\ [Next]_vars => Lists'
  <1> SUFFICES ASSUME Typed, Lists, [Next]_vars PROVE Lists'
    OBVIOUS
  <1> USE DEF Typed, Lists, counts, poolVars
  <1>1. CASE Master
    BY <1>1 DEF Master, CreateCache, LoadFails, EnterRound, LeaveLoop, SubmitToBroken, ClearPending,
         RoundDone, PoolDrained, SaveCache, CleanupCache, SubmitSeed, CollectResult,
         CollectTimeout, CollectError
  <1>2. CASE Interrupt
    BY <1>2, InterruptIs
  <1>3. CASE PoolStep
    BY <1>3 DEF PoolStep, Lose, LoseProcess, TaskStart, JobStep, JobOpens, JobWrites, JobHangs, JobKilled,
         JobReturns, masterVars
  <1>4. CASE UNCHANGED vars
    BY <1>4 DEF vars
  <1> QED BY <1>1, <1>2, <1>3, <1>4 DEF Next, PoolStep

LEMMA FilesStep == Typed /\ Calls /\ Files /\ [Next]_vars => Files'
  <1> SUFFICES ASSUME Typed, Calls, Files, [Next]_vars PROVE Files'
    OBVIOUS
  <1> USE JobIs DEF Typed, Files, counts, poolVars
  <1>1. CASE Master
    BY <1>1 DEF Master, CreateCache, LoadFails, EnterRound, LeaveLoop, SubmitToBroken, ClearPending,
         RoundDone, PoolDrained, SaveCache, CleanupCache, SubmitSeed, CollectResult,
         CollectTimeout, CollectError
  <1>2. CASE Interrupt
    BY <1>2, InterruptIs
  <1>3. CASE \E s \in Seeds : TaskStart(s)
    BY <1>3 DEF TaskStart, masterVars
  <1>4. CASE Lose
    BY <1>4 DEF Lose, LoseProcess, masterVars
  <1>5. ASSUME NEW j \in Jobs, JobStep(j) PROVE Files'
    <2>1. \A i \in Jobs : job[i] \in Active /\ job[j] \in Active /\ i[1] = j[1] => i = j
      BY DEF Calls
    <2>2. job[j] \in Active => task[j[1]] # "file"
      BY DEF Calls
    <2>3. CASE JobOpens(j) \/ JobWrites(j) \/ JobHangs(j) \/ JobKilled(j)
      BY <2>1, <2>2, <2>3 DEF JobOpens, JobWrites, JobHangs, JobKilled, masterVars, Active
    <2>4. ASSUME NEW end \in TaskEnds, JobReturns(j, end) PROVE Files'
      BY <2>4 DEF JobReturns, EndsAt, masterVars
    <2> QED BY <1>5, <2>3, <2>4 DEF JobStep
  <1>6. CASE UNCHANGED vars
    BY <1>6 DEF vars
  <1> QED BY <1>1, <1>2, <1>3, <1>4, <1>5, <1>6 DEF Next

LEMMA SizesOf == ASSUME NEW S \in SUBSET Seeds
                 PROVE /\ IsFiniteSet(S) /\ Cardinality(S) \in Nat
                       /\ \A s \in S : Cardinality(S \ {s}) = Cardinality(S) - 1
                       /\ \A s \in Seeds \ S : Cardinality(S \cup {s}) = Cardinality(S) + 1
  <1>1. IsFiniteSet(S)
    BY GenPoolAssumption, FS_Subset
  <1>2. Cardinality(S) \in Nat
    BY <1>1, FS_CardinalityType
  <1>3. \A s \in S : Cardinality(S \ {s}) = Cardinality(S) - 1
    BY <1>1, FS_RemoveElement
  <1>4. \A s \in Seeds \ S : Cardinality(S \cup {s}) = Cardinality(S) + 1
    BY <1>1, FS_AddElement
  <1> QED BY <1>1, <1>2, <1>3, <1>4

LEMMA BalanceStep == Typed /\ Lists /\ Balance /\ [Next]_vars => Balance'
  <1> SUFFICES ASSUME Typed, Lists, Balance, [Next]_vars, ~aborted' PROVE Balance'
    BY DEF Balance
  <1> USE DEF Typed, Balance, Lists, counts, poolVars
  <1>1. CASE CreateCache \/ EnterRound \/ LeaveLoop \/ RoundDone \/ PoolDrained \/ SaveCache
             \/ CleanupCache
    BY <1>1 DEF CreateCache, EnterRound, LeaveLoop, RoundDone, PoolDrained, SaveCache, CleanupCache
  <1>2. CASE LoadFails \/ SubmitToBroken \/ Interrupt
    BY <1>2, InterruptIs DEF LoadFails, SubmitToBroken
  <1>3. CASE ClearPending \/ \E s \in Seeds : SubmitSeed(s)
    <2>1. pending' \cup uncollected' = pending \cup uncollected
      BY <1>3 DEF ClearPending, SubmitSeed
    <2> QED BY <1>3, <2>1 DEF ClearPending, SubmitSeed
  <1>4. ASSUME NEW s \in Seeds, CollectTimeout(s) PROVE Balance'
    <2>1. pending' \cup uncollected' = pending \cup uncollected
      BY <1>4 DEF CollectTimeout
    <2> QED BY <1>4, <2>1 DEF CollectTimeout
  <1>5. ASSUME NEW s \in Seeds, CollectResult(s) \/ CollectError(s) PROVE Balance'
    <2>1. /\ s \in pending \cup uncollected /\ ~aborted
          /\ pending' \cup uncollected' = (pending \cup uncollected) \ {s}
      BY <1>5 DEF CollectResult, CollectError
    <2>2. /\ Cardinality(pending \cup uncollected) \in Nat
          /\ Cardinality((pending \cup uncollected) \ {s}) = Cardinality(pending \cup uncollected) - 1
      BY <2>1, SizesOf
    <2>3. completed' + errors' + Cardinality((pending \cup uncollected) \ {s}) = Cardinality(Seeds)
      <3>1. CASE CollectResult(s)
        BY <3>1, <2>1, <2>2 DEF CollectResult
      <3>2. CASE CollectError(s)
        BY <3>2, <2>1, <2>2 DEF CollectError
      <3> QED BY <1>5, <3>1, <3>2
    <2> QED BY <2>1, <2>3
  <1>6. CASE PoolStep
    BY <1>6 DEF PoolStep, Lose, LoseProcess, TaskStart, JobStep, JobOpens, JobWrites, JobHangs,
         JobKilled, JobReturns, masterVars
  <1>7. CASE UNCHANGED vars
    BY <1>7 DEF vars
  <1> QED BY <1>1, <1>2, <1>3, <1>4, <1>5, <1>6, <1>7 DEF Next, Master, PoolStep

LEMMA PoolInvariant == Spec => [](Typed /\ Calls /\ Open /\ Files /\ Lists /\ Balance)
  <1>1. Init => Calls /\ Open /\ Files /\ Lists
    BY JobIs DEF Init, Calls, Open, Files, Lists, InPool, Active, QuietWhenSaved
  <1>2. Init => Balance
    <2>1. ASSUME Init PROVE pending \cup uncollected = Seeds
      BY <2>1 DEF Init
    <2>2. Cardinality(Seeds) \in Nat
      BY SizesOf
    <2> QED BY <2>1, <2>2 DEF Init, Balance
  <1> QED BY <1>1, <1>2, InitTyped, TypedStep, CallsStep, OpenStep, FilesStep, ListsStep,
             BalanceStep, PTL DEF Spec

(* The saved filter is complete: when the master saves and unlinks it, no   *)
(* task is queued and no process executes a call, unless the user           *)
(* interrupted twice, or once and a process was lost (the pool's __exit__   *)
(* before the finally block).                                               *)
THEOREM QuietSave == Spec => []QuietWhenSaved
  <1>1. Open => QuietWhenSaved
    BY DEF Open
  <1> QED BY <1>1, PoolInvariant, PTL

(* After the loop completed, failed and pending seeds add up to all seeds,  *)
(* however often tasks raise, time out or lose their process.               *)
THEOREM SeedsAccounted == Spec => []Accounted
  <1>1. Lists /\ Balance => Accounted
    BY DEF Accounted, Lists, Balance
  <1> QED BY <1>1, PoolInvariant, PTL

(* The file of a seed whose task returned is final: no retry and no other   *)
(* call, whatever it dies of or however late it is, writes it again.        *)
THEOREM FinishedFilesAreFinal == Spec => FinishedFilesStay
  <1> DEFINE Kept == \A s \in Seeds : /\ task[s] = "file" => task'[s] = "file"
                                      /\ task'[s] = "file" => file'[s] = "whole"
  <1>1. Typed /\ Calls /\ Files' /\ [Next]_vars => [Kept]_vars
    <2> SUFFICES ASSUME Typed, Calls, Files', Next, NEW s \in Seeds, task[s] = "file"
                 PROVE task'[s] = "file"
      BY DEF Files
    <2> USE DEF Typed, counts, poolVars
    <2>1. CASE \E t \in Seeds : SubmitSeed(t)
      BY <2>1 DEF SubmitSeed, Calls
    <2>2. CASE Master /\ ~(\E t \in Seeds : SubmitSeed(t))
      BY <2>2 DEF Master, CreateCache, LoadFails, EnterRound, LeaveLoop, SubmitToBroken, ClearPending,
         RoundDone, PoolDrained, SaveCache, CleanupCache, CollectResult, CollectTimeout, CollectError
    <2>3. CASE Interrupt
      BY <2>3, InterruptIs
    <2>4. CASE PoolStep
      BY <2>4, JobIs DEF PoolStep, Lose, LoseProcess, TaskStart, JobStep, JobOpens, JobWrites,
         JobHangs, JobKilled, JobReturns, InPool
    <2> QED BY <2>1, <2>2, <2>3, <2>4 DEF Next, PoolStep
  <1> QED BY <1>1, PoolInvariant, PTL DEF Spec, FinishedFilesStay

(* A seed is submitted at most once a round.                                *)
Rounds ==
  /\ round \in 0 .. MaxRetries
  /\ phase \in {"submit", "collect"} => round < MaxRetries
  /\ phase \in {"start", "loop"} => \A s \in Seeds : submits[s] <= round
  /\ phase = "submit" => \A s \in Seeds : submits[s] <= IF s \in uncollected THEN round + 1 ELSE round
  /\ phase = "collect" => \A s \in Seeds : submits[s] <= round + 1
  /\ \A s \in Seeds : task[s] = "queued" => submits[s] >= 1
  /\ RetriesBounded

LEMMA RoundsInvariant == Spec => []Rounds
  <1>1. Init => Rounds
    BY GenPoolAssumption DEF Init, Rounds, RetriesBounded
  <1>2. Typed /\ Rounds /\ [Next]_vars => Rounds'
    <2> SUFFICES ASSUME Typed, Rounds, [Next]_vars PROVE Rounds'
      OBVIOUS
    <2> USE GenPoolAssumption DEF Typed, Rounds, RetriesBounded, counts, poolVars
    <2>1. CASE \E s \in Seeds : SubmitSeed(s)
      BY <2>1 DEF SubmitSeed
    <2>2. CASE EnterRound \/ LeaveLoop \/ ClearPending \/ RoundDone
      BY <2>2 DEF EnterRound, LeaveLoop, LoopGuard, ClearPending, RoundDone
    <2>3. CASE \E s \in Seeds : CollectResult(s) \/ CollectTimeout(s) \/ CollectError(s)
      BY <2>3 DEF CollectResult, CollectTimeout, CollectError
    <2>4. CASE CreateCache \/ LoadFails \/ SubmitToBroken \/ PoolDrained \/ SaveCache \/ CleanupCache
      BY <2>4 DEF CreateCache, LoadFails, SubmitToBroken, PoolDrained, SaveCache, CleanupCache
    <2>5. CASE Interrupt
      BY <2>5, InterruptIs
    <2>6. CASE PoolStep
      <3>1. UNCHANGED <<phase, round, submits, uncollected>>
        BY <2>6 DEF PoolStep, Lose, LoseProcess, TaskStart, JobStep, JobOpens, JobWrites, JobHangs,
           JobKilled, JobReturns, masterVars
      <3>2. \A s \in Seeds : task'[s] = "queued" => task[s] = "queued"
        BY <2>6, JobIs DEF PoolStep, Lose, LoseProcess, TaskStart, JobStep, JobOpens, JobWrites,
           JobHangs, JobKilled, JobReturns, EndsAt
      <3> QED BY <3>1, <3>2
    <2>7. CASE UNCHANGED vars
      BY <2>7 DEF vars
    <2> QED BY <2>1, <2>2, <2>3, <2>4, <2>5, <2>6, <2>7 DEF Next, Master, PoolStep
  <1> QED BY <1>1, <1>2, PoolInvariant, PTL DEF Spec

(* No seed is submitted more than max_retries times.                        *)
THEOREM RetriesStayBounded == Spec => []RetriesBounded
  <1>1. Rounds => RetriesBounded
    BY DEF Rounds
  <1> QED BY <1>1, RoundsInvariant, PTL
-----------------------------------------------------------------------------
(* Why an invocation ends: a round is a few steps of the master, a          *)
(* submission and a collection of each seed, and each of its calls goes     *)
(* through its stages once, whatever happens to it.                         *)
Unstarted == {j \in Jobs : job[j] = "none"}
Unopened == {j \in Jobs : job[j] \in {"none", "running"}}
Unwritten == {j \in Jobs : job[j] \in {"none", "running", "writing"}}
Unreturned == {j \in Jobs : job[j] # "done"}
PoolSteps ==
  Cardinality(Unstarted) + Cardinality(Unopened) + Cardinality(Unwritten) + Cardinality(Unreturned)
  + (IF broken THEN 0 ELSE 1)
RoundSteps == 2 * Cardinality(Seeds) + 3
Unsubmitted == pending \ uncollected
MasterSteps ==
  CASE phase = "start" -> (MaxRetries - round) * RoundSteps + 5
    [] phase = "loop" -> (MaxRetries - round) * RoundSteps + 4
    [] phase = "submit" ->
         (MaxRetries - (round + 1)) * RoundSteps + Cardinality(Seeds) + 6 + Cardinality(Unsubmitted)
    [] phase = "collect" -> (MaxRetries - (round + 1)) * RoundSteps + 5 + Cardinality(uncollected)
    [] phase = "shutdown" -> 3
    [] phase = "save" -> 2
    [] phase = "cleanup" -> 1
    [] phase = "end" -> 0
StepsLeft == MasterSteps + PoolSteps

\* Every step of the master, of the user or of the pool brings the end nearer.
StepsCounted == StepsLeft \in Nat
StepsShrink == [][StepsLeft' < StepsLeft]_vars

LEMMA JobsFinite == /\ IsFiniteSet(Jobs) /\ Cardinality(Jobs) = Cardinality(Seeds) * MaxRetries
  <1>1. IsFiniteSet(1 .. MaxRetries) /\ Cardinality(1 .. MaxRetries) = MaxRetries
    BY FS_Interval, GenPoolAssumption
  <1> QED BY <1>1, FS_Product, GenPoolAssumption DEF Jobs

\* Calls that still have a stage before them become fewer.
LEMMA FewerJobs ==
  \A A \in SUBSET Jobs : \A B \in SUBSET A :
    /\ Cardinality(A) \in Nat /\ Cardinality(B) \in Nat /\ Cardinality(B) <= Cardinality(A)
    /\ B # A => Cardinality(B) < Cardinality(A)
  <1> SUFFICES ASSUME NEW A \in SUBSET Jobs, NEW B \in SUBSET A
               PROVE  /\ Cardinality(A) \in Nat /\ Cardinality(B) \in Nat /\ Cardinality(B) <= Cardinality(A)
                      /\ B # A => Cardinality(B) < Cardinality(A)
    OBVIOUS
  <1>1. IsFiniteSet(A)
    BY JobsFinite, FS_Subset
  <1>2. IsFiniteSet(B) /\ Cardinality(B) <= Cardinality(A) /\ (Cardinality(A) = Cardinality(B) => A = B)
    BY <1>1, FS_Subset
  <1>3. Cardinality(A) \in Nat /\ Cardinality(B) \in Nat
    BY <1>1, <1>2, FS_CardinalityType
  <1> QED BY <1>2, <1>3

LEMMA PoolStepsTyped == PoolSteps \in Nat
  <1>1. /\ Unstarted \in SUBSET Jobs /\ Unopened \in SUBSET Jobs
        /\ Unwritten \in SUBSET Jobs /\ Unreturned \in SUBSET Jobs
    BY DEF Unstarted, Unopened, Unwritten, Unreturned
  <1>2. \A A \in SUBSET Jobs : Cardinality(A) \in Nat
    BY FewerJobs
  <1> HIDE DEF Unstarted, Unopened, Unwritten, Unreturned
  <1> QED BY <1>1, <1>2 DEF PoolSteps

LEMMA Multiples ==
  /\ RoundSteps \in Nat
  /\ \A a \in Nat : a * RoundSteps \in Nat
  /\ \A a \in Nat \ {0} : (a - 1) * RoundSteps = a * RoundSteps - RoundSteps
  <1>1. RoundSteps \in Nat
    BY SizesOf DEF RoundSteps
  <1>2. \A k \in Nat, a \in Nat : a * k \in Nat /\ (a - 1) * k = a * k - k
    OBVIOUS
  <1> QED BY <1>1, <1>2

\* No step undoes a stage of a call, and one of the pool's ends one or breaks the pool.
LEMMA StagesShrink ==
  ASSUME Typed, Calls, Rounds, [Next]_vars
  PROVE  /\ Unstarted' \subseteq Unstarted /\ Unopened' \subseteq Unopened
         /\ Unwritten' \subseteq Unwritten /\ Unreturned' \subseteq Unreturned
         /\ broken => broken'
         /\ PoolStep => \/ Unstarted' # Unstarted \/ Unopened' # Unopened
                        \/ Unwritten' # Unwritten \/ Unreturned' # Unreturned
                        \/ ~broken /\ broken'
  <1> USE DEF Typed, Unstarted, Unopened, Unwritten, Unreturned, poolVars
  <1>1. Master \/ Interrupt \/ UNCHANGED vars => job' = job /\ broken' = broken
    BY InterruptIs DEF Master, CreateCache, LoadFails, EnterRound, LeaveLoop, SubmitToBroken,
       ClearPending, RoundDone, PoolDrained, SaveCache, CleanupCache, SubmitSeed, CollectResult,
       CollectTimeout, CollectError, vars
  <1>2. CASE Lose
    BY <1>2 DEF Lose, LoseProcess
  <1>3. ASSUME NEW s \in Seeds, TaskStart(s)
        PROVE  /\ Unstarted' \subseteq Unstarted /\ Unopened' \subseteq Unopened
               /\ Unwritten' \subseteq Unwritten /\ Unreturned' \subseteq Unreturned
               /\ broken' = broken /\ Unstarted' # Unstarted
    <2> DEFINE j == <<s, submits[s]>>
    <2>1. task[s] = "queued" /\ job' = [job EXCEPT ![j] = "running"] /\ broken' = broken
      BY <1>3 DEF TaskStart
    <2>2. j \in Jobs /\ j[1] = s /\ j[2] = submits[s]
      BY <2>1 DEF Jobs, Rounds, RetriesBounded
    <2>3. job[j] = "none"
      BY <2>1, <2>2 DEF Calls
    <2> QED BY <2>1, <2>2, <2>3
  <1>4. ASSUME NEW j \in Jobs, JobStep(j)
        PROVE  /\ Unstarted' \subseteq Unstarted /\ Unopened' \subseteq Unopened
               /\ Unwritten' \subseteq Unwritten /\ Unreturned' \subseteq Unreturned
               /\ broken' = broken
               /\ Unopened' # Unopened \/ Unwritten' # Unwritten \/ Unreturned' # Unreturned
    BY <1>4 DEF JobStep, JobOpens, JobWrites, JobHangs, JobKilled, JobReturns, EndsAt, Active
  <1> QED BY <1>1, <1>2, <1>3, <1>4 DEF Next, PoolStep

LEMMA PoolShrinks ==
  ASSUME Typed, Calls, Rounds, [Next]_vars
  PROVE  PoolSteps' <= PoolSteps /\ (PoolStep => PoolSteps' < PoolSteps)
  <1> DEFINE a == Cardinality(Unstarted)    b == Cardinality(Unopened)
             c == Cardinality(Unwritten)    d == Cardinality(Unreturned)
             e == IF broken THEN 0 ELSE 1
  <1>1. /\ Unstarted \in SUBSET Jobs /\ Unopened \in SUBSET Jobs
        /\ Unwritten \in SUBSET Jobs /\ Unreturned \in SUBSET Jobs
    BY DEF Unstarted, Unopened, Unwritten, Unreturned
  <1>2. /\ a \in Nat /\ a' \in Nat /\ a' <= a /\ (Unstarted' # Unstarted => a' < a)
        /\ b \in Nat /\ b' \in Nat /\ b' <= b /\ (Unopened' # Unopened => b' < b)
        /\ c \in Nat /\ c' \in Nat /\ c' <= c /\ (Unwritten' # Unwritten => c' < c)
        /\ d \in Nat /\ d' \in Nat /\ d' <= d /\ (Unreturned' # Unreturned => d' < d)
    BY <1>1, StagesShrink, FewerJobs
  <1>3. e \in 0 .. 1 /\ e' \in 0 .. 1 /\ e' <= e /\ (~broken /\ broken' => e' < e)
    BY StagesShrink DEF Typed
  <1>4. PoolSteps = a + b + c + d + e /\ PoolSteps' = a' + b' + c' + d' + e'
    BY DEF PoolSteps
  <1>5. PoolStep => \/ a' < a \/ b' < b \/ c' < c \/ d' < d \/ e' < e
    BY <1>2, <1>3, StagesShrink
  <1>6. \A i, j, k, l, m, n, o, p, q, r \in Nat :
          n <= i /\ o <= j /\ p <= k /\ q <= l /\ r <= m =>
            /\ n + o + p + q + r <= i + j + k + l + m
            /\ n < i \/ o < j \/ p < k \/ q < l \/ r < m => n + o + p + q + r < i + j + k + l + m
    OBVIOUS
  <1>7. e \in Nat /\ e' \in Nat
    BY <1>3
  <1> HIDE DEF a, b, c, d, e
  <1> QED BY <1>2, <1>3, <1>4, <1>5, <1>6, <1>7, Zenon

LEMMA UnsubmittedTyped == Typed =>
  /\ Unsubmitted \in SUBSET Seeds /\ Cardinality(Unsubmitted) \in Nat
  /\ Cardinality(uncollected) \in Nat
  /\ Cardinality(Unsubmitted) <= Cardinality(Seeds) /\ Cardinality(uncollected) <= Cardinality(Seeds)
  <1> SUFFICES ASSUME Typed PROVE
        /\ Unsubmitted \in SUBSET Seeds /\ Cardinality(Unsubmitted) \in Nat
        /\ Cardinality(uncollected) \in Nat
        /\ Cardinality(Unsubmitted) <= Cardinality(Seeds)
        /\ Cardinality(uncollected) <= Cardinality(Seeds)
    OBVIOUS
  <1>1. Unsubmitted \in SUBSET Seeds /\ uncollected \in SUBSET Seeds
    BY DEF Typed, Unsubmitted
  <1>2. \A S \in SUBSET Seeds : Cardinality(S) \in Nat /\ Cardinality(S) <= Cardinality(Seeds)
    BY SizesOf, FS_Subset, GenPoolAssumption
  <1> QED BY <1>1, <1>2

\* The rounds that are left, in steps.
LEMMA RoundsLeft == Rounds =>
  /\ (MaxRetries - round) * RoundSteps \in Nat
  /\ round < MaxRetries => /\ (MaxRetries - (round + 1)) * RoundSteps \in Nat
                           /\ (MaxRetries - round) * RoundSteps
                                = (MaxRetries - (round + 1)) * RoundSteps + RoundSteps
  <1> SUFFICES ASSUME Rounds PROVE
        /\ (MaxRetries - round) * RoundSteps \in Nat
        /\ round < MaxRetries => /\ (MaxRetries - (round + 1)) * RoundSteps \in Nat
                                 /\ (MaxRetries - round) * RoundSteps
                                      = (MaxRetries - (round + 1)) * RoundSteps + RoundSteps
    OBVIOUS
  <1>1. MaxRetries - round \in Nat
    BY GenPoolAssumption DEF Rounds
  <1>2. round < MaxRetries => /\ MaxRetries - round \in Nat \ {0}
                              /\ MaxRetries - (round + 1) = (MaxRetries - round) - 1
                              /\ MaxRetries - (round + 1) \in Nat
    BY GenPoolAssumption DEF Rounds
  <1>3. (MaxRetries - round) * RoundSteps \in Nat
    BY <1>1, Multiples
  <1>4. ASSUME round < MaxRetries
        PROVE  /\ (MaxRetries - (round + 1)) * RoundSteps \in Nat
               /\ (MaxRetries - (round + 1)) * RoundSteps = (MaxRetries - round) * RoundSteps - RoundSteps
    BY <1>2, <1>4, Multiples
  <1> QED BY <1>3, <1>4, Multiples

LEMMA MasterStepsTyped == Typed /\ Rounds => MasterSteps \in Nat
  <1> SUFFICES ASSUME Typed, Rounds PROVE MasterSteps \in Nat
    OBVIOUS
  <1>1. CASE phase = "start" \/ phase = "loop"
    BY <1>1, RoundsLeft DEF MasterSteps
  <1>2. CASE phase = "submit"
    BY <1>2, RoundsLeft, UnsubmittedTyped, SizesOf DEF MasterSteps, Rounds
  <1>3. CASE phase = "collect"
    BY <1>3, RoundsLeft, UnsubmittedTyped DEF MasterSteps, Rounds
  <1>4. CASE phase \in {"shutdown", "save", "cleanup", "end"}
    BY <1>4 DEF MasterSteps
  <1> QED BY <1>1, <1>2, <1>3, <1>4 DEF Typed

\* Where the master is decides how many steps it has before it.
LEMMA MasterShrinks ==
  ASSUME Typed, Typed', Lists, Lists', Rounds, Master
  PROVE  MasterSteps' < MasterSteps
  <1> DEFINE n == Cardinality(Seeds)
             m == (MaxRetries - round) * RoundSteps
             l == (MaxRetries - (round + 1)) * RoundSteps
             u == Cardinality(Unsubmitted)
             c == Cardinality(uncollected)
  <1>0. /\ n \in Nat /\ m \in Nat /\ u \in Nat /\ c \in Nat /\ u <= n /\ c <= n
        /\ round < MaxRetries => l \in Nat /\ m = l + 2 * n + 3
    BY RoundsLeft, UnsubmittedTyped, SizesOf DEF RoundSteps
  <1>a. /\ phase = "start" => MasterSteps = m + 5
        /\ phase = "loop" => MasterSteps = m + 4
        /\ phase = "submit" => round < MaxRetries /\ MasterSteps = l + n + 6 + u
        /\ phase = "collect" => round < MaxRetries /\ MasterSteps = l + 5 + c
        /\ phase = "shutdown" => MasterSteps = 3
        /\ phase = "save" => MasterSteps = 2
        /\ phase = "cleanup" => MasterSteps = 1
    BY DEF MasterSteps, Rounds
  <1>b. /\ round' = round /\ phase' = "loop" => MasterSteps' = m + 4
        /\ round' = round /\ phase' = "submit" => MasterSteps' = l + n + 6 + Cardinality(Unsubmitted')
        /\ round' = round /\ phase' = "collect" => MasterSteps' = l + 5 + Cardinality(uncollected')
        /\ phase' = "shutdown" => MasterSteps' = 3
        /\ phase' = "save" => MasterSteps' = 2
        /\ phase' = "cleanup" => MasterSteps' = 1
        /\ phase' = "end" => MasterSteps' = 0
    BY DEF MasterSteps, RoundSteps
  <1> USE DEF counts, poolVars
  <1>1. CASE CreateCache \/ LoadFails
    <2>1. phase = "start" /\ (phase' = "end" \/ (phase' = "loop" /\ round' = round))
      BY <1>1 DEF CreateCache, LoadFails
    <2> HIDE DEF n, m, l, u, c
    <2> QED BY <1>0, <1>a, <1>b, <2>1
  <1>2. CASE EnterRound
    <2>1. phase = "loop" /\ phase' = "submit" /\ round' = round /\ round < MaxRetries
          /\ Unsubmitted' = Unsubmitted
      BY <1>2 DEF EnterRound, LoopGuard, Unsubmitted
    <2>2. MasterSteps' = l + n + 6 + u
      BY <1>b, <2>1
    <2> HIDE DEF n, m, l, u, c
    <2> QED BY <1>0, <1>a, <2>1, <2>2
  <1>3. CASE LeaveLoop \/ SubmitToBroken \/ PoolDrained \/ SaveCache \/ CleanupCache
    <2>1. \/ phase \in {"loop", "submit"} /\ phase' = "shutdown"
          \/ phase = "shutdown" /\ phase' = "save"
          \/ phase = "save" /\ phase' = "cleanup"
          \/ phase = "cleanup" /\ phase' = "end"
      BY <1>3 DEF LeaveLoop, SubmitToBroken, PoolDrained, SaveCache, CleanupCache
    <2> HIDE DEF n, m, l, u, c
    <2> QED BY <1>0, <1>a, <1>b, <2>1
  <1>4. ASSUME NEW s \in Seeds, SubmitSeed(s) PROVE MasterSteps' < MasterSteps
    <2>1. /\ phase = "submit" /\ phase' = "submit" /\ round' = round
          /\ s \in Unsubmitted /\ Unsubmitted' = Unsubmitted \ {s}
      BY <1>4 DEF SubmitSeed, Unsubmitted
    <2>2. Cardinality(Unsubmitted') = u - 1
      BY <2>1, UnsubmittedTyped, SizesOf
    <2>3. MasterSteps' = l + n + 6 + (u - 1)
      BY <1>b, <2>1, <2>2
    <2> HIDE DEF n, m, l, u, c
    <2> QED BY <1>0, <1>a, <2>1, <2>3
  <1>5. CASE ClearPending
    <2>1. phase = "submit" /\ phase' = "collect" /\ round' = round /\ uncollected' = uncollected
      BY <1>5 DEF ClearPending
    <2>2. MasterSteps' = l + 5 + c
      BY <1>b, <2>1
    <2> HIDE DEF n, m, l, u, c
    <2> QED BY <1>0, <1>a, <2>1, <2>2
  <1>6. ASSUME NEW s \in Seeds, CollectResult(s) \/ CollectTimeout(s) \/ CollectError(s)
        PROVE  MasterSteps' < MasterSteps
    <2>1. /\ phase = "collect" /\ phase' = "collect" /\ round' = round
          /\ s \in uncollected /\ uncollected' = uncollected \ {s}
      BY <1>6 DEF CollectResult, CollectTimeout, CollectError
    <2>2. Cardinality(uncollected') = c - 1
      BY <2>1, SizesOf DEF Typed
    <2>3. MasterSteps' = l + 5 + (c - 1)
      BY <1>b, <2>1, <2>2
    <2> HIDE DEF n, m, l, u, c
    <2> QED BY <1>0, <1>a, <2>1, <2>3
  <1>7. CASE RoundDone
    <2>1. phase = "collect" /\ phase' = "loop" /\ round' = round + 1
      BY <1>7 DEF RoundDone
    <2>2. MasterSteps' = l + 4
      BY <2>1 DEF MasterSteps, RoundSteps
    <2> HIDE DEF n, m, l, u, c
    <2> QED BY <1>0, <1>a, <2>1, <2>2
  <1> QED BY <1>1, <1>2, <1>3, <1>4, <1>5, <1>6, <1>7 DEF Master

LEMMA InterruptShrinks ==
  ASSUME Typed, Rounds, Interrupt
  PROVE  MasterSteps' < MasterSteps
  <1>1. MasterSteps' = CASE phase' = "shutdown" -> 3 [] phase' = "save" -> 2 [] phase' = "end" -> 0
    BY InterruptIs DEF MasterSteps
  <1>2. CASE phase = "start" \/ phase = "loop"
    BY <1>1, <1>2, RoundsLeft, InterruptIs DEF MasterSteps
  <1>3. CASE phase = "submit"
    BY <1>1, <1>3, RoundsLeft, UnsubmittedTyped, SizesOf, InterruptIs DEF MasterSteps, Rounds
  <1>4. CASE phase = "collect"
    BY <1>1, <1>4, RoundsLeft, UnsubmittedTyped, InterruptIs DEF MasterSteps, Rounds
  <1>5. CASE phase \in {"shutdown", "save", "cleanup"}
    BY <1>1, <1>5, InterruptIs DEF MasterSteps
  <1> QED BY <1>2, <1>3, <1>4, <1>5, InterruptIs

Counts == PoolSteps \in Nat /\ MasterSteps \in Nat

LEMMA StepShrinks ==
  ASSUME Typed, Typed', Calls, Lists, Lists', Rounds, Counts, Counts', Next
  PROVE  StepsLeft' < StepsLeft
  <1>0. PoolSteps \in Nat /\ MasterSteps \in Nat /\ PoolSteps' \in Nat /\ MasterSteps' \in Nat
    BY DEF Counts
  <1>1. StepsLeft = MasterSteps + PoolSteps /\ StepsLeft' = MasterSteps' + PoolSteps'
    BY DEF StepsLeft
  <1>2. \A a, b, c, d \in Nat : (a < c /\ b <= d) \/ (a = c /\ b < d) => a + b < c + d
    OBVIOUS
  <1>3. PoolSteps' <= PoolSteps /\ (PoolStep => PoolSteps' < PoolSteps)
    BY PoolShrinks
  <1>4. CASE Master \/ Interrupt
    <2>1. MasterSteps' < MasterSteps
      BY <1>4, MasterShrinks, InterruptShrinks
    <2> QED BY <1>0, <1>1, <1>2, <1>3, <2>1, Zenon
  <1>5. CASE PoolStep
    <2>1. UNCHANGED <<phase, round, pending, uncollected>>
      BY <1>5 DEF PoolStep, Lose, LoseProcess, TaskStart, JobStep, JobOpens, JobWrites, JobHangs,
         JobKilled, JobReturns, masterVars
    <2>2. MasterSteps' = MasterSteps
      BY <2>1 DEF MasterSteps, RoundSteps, Unsubmitted
    <2> QED BY <1>0, <1>1, <1>2, <1>3, <1>5, <2>2, Zenon
  <1> QED BY <1>4, <1>5 DEF Next, PoolStep

\* An invocation has at most max_retries * (6 * seeds + 3) + 6 steps: whatever tasks
\* time out, hang or lose their process, and however often the user interrupts, it never
\* goes round in circles (generate_instructions_parallel, the while loop over
\* pending_seeds).
THEOREM InvocationIsFinite ==
  /\ Init => StepsLeft = MaxRetries * (6 * Cardinality(Seeds) + 3) + 6
  /\ Spec => []StepsCounted /\ StepsShrink
  <1>1. ASSUME Init PROVE StepsLeft = MaxRetries * (6 * Cardinality(Seeds) + 3) + 6
    <2>1. Unstarted = Jobs /\ Unopened = Jobs /\ Unwritten = Jobs /\ Unreturned = Jobs /\ ~broken
      BY <1>1 DEF Init, Unstarted, Unopened, Unwritten, Unreturned
    <2>2. PoolSteps = 4 * (Cardinality(Seeds) * MaxRetries) + 1
      <3>1. \A k \in Nat : k + k + k + k + 1 = 4 * k + 1
        OBVIOUS
      <3>2. Cardinality(Seeds) * MaxRetries \in Nat
        BY SizesOf, GenPoolAssumption
      <3> QED BY <2>1, <3>1, <3>2, JobsFinite DEF PoolSteps
    <2>3. MasterSteps = MaxRetries * (2 * Cardinality(Seeds) + 3) + 5
      <3>1. MasterSteps = (MaxRetries - 0) * RoundSteps + 5
        BY <1>1 DEF Init, MasterSteps
      <3> QED BY <3>1, GenPoolAssumption DEF RoundSteps
    <2>4. \A r, n \in Nat : r * (2 * n + 3) + 5 + (4 * (n * r) + 1) = r * (6 * n + 3) + 6
      OBVIOUS
    <2> QED BY <2>2, <2>3, <2>4, SizesOf, GenPoolAssumption DEF StepsLeft
  <1>2. Typed /\ Rounds => Counts
    BY MasterStepsTyped, PoolStepsTyped DEF Counts
  <1>3. Counts => StepsCounted
    BY DEF Counts, StepsCounted, StepsLeft
  <1>4. Typed /\ Typed' /\ Calls /\ Lists /\ Lists' /\ Rounds /\ Counts /\ Counts' /\ [Next]_vars
        => [StepsLeft' < StepsLeft]_vars
    BY StepShrinks
  <1>5. Spec => []StepsCounted /\ StepsShrink
    BY <1>2, <1>3, <1>4, RoundsInvariant, PoolInvariant, PTL DEF Spec, StepsShrink
  <1> QED BY <1>1, <1>5
=============================================================================
