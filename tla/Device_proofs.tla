---------------------------- MODULE Device_proofs ----------------------------
(* Theorems about the two stages behind the generator: DutRun, for every number *)
(* of seeds, configurations and threads and whichever calls fail, and           *)
(* SeedImages, for every number of runs and of seed files, whichever tools fail *)
(* and wherever a run is killed.                                                *)
EXTENDS Integers, DutRun, SeedImages, FiniteSetTheorems, TLAPS

-----------------------------------------------------------------------------
(* The runs on the device.                                                   *)

Typed ==
  /\ turn \in Nat \ {0}
  /\ phase \in {"prepare", "run", "done", "aborted"}
  /\ phase \in {"prepare", "run"} => turn <= Len(Configs)
  /\ pc \in [Seeds -> {"none", "queued", "open", "begun", "ran", "noted", "cleaned",
                       "returned", "failed", "collected"}]
  /\ outcome \in [Seeds -> {"none", "SUCCESS", "FAILURE", "TIMEOUT", "ERROR"}]
  /\ attached \in SUBSET Seeds /\ disturbed \in SUBSET Seeds
  /\ stream \in [Seeds -> {"none", "open", "closed"}]
  /\ offset \in [Seeds -> Nat]
  /\ file = [l \in Logs |-> file[l]]
  /\ results \in Seq(Seeds)

(* A seed of a configuration to come has not been touched.                  *)
ToCome ==
  \A i \in 1 .. Len(Configs) :
    i > turn \/ (i = turn /\ phase = "prepare") => \A s \in Configs[i] : pc[s] = "none"

(* A seed has an outcome once its device ended, and not before.             *)
Outcomes ==
  \A s \in Seeds :
    /\ pc[s] \in {"none", "queued", "open", "begun", "failed"} => outcome[s] = "none"
    /\ pc[s] \in {"ran", "noted", "cleaned", "returned"} => outcome[s] # "none"

Places(s) == {i \in 1 .. Len(results) : results[i] = s}

(* It is in the results once, from when its result is collected.            *)
Counted ==
  \A s \in Seeds :
    IF pc[s] = "collected" /\ outcome[s] # "none" THEN \E i : Places(s) = {i} ELSE Places(s) = {}

LEMMA EmitTyped ==
  ASSUME Typed, NEW s \in Seeds, NEW line, Emit(s, line)
  PROVE  file' = [l \in Logs |-> file'[l]] /\ offset' \in [Seeds -> Nat]
  <1>1. \A v : LET f == [file EXCEPT ![Log[s]] = v] IN f = [l \in Logs |-> f[l]]
    BY DEF Typed
  <1>2. file' = [l \in Logs |-> file'[l]]
    BY <1>1 DEF Emit
  <1>3. offset' \in [Seeds -> Nat]
    BY DEF Typed, Emit
  <1> QED BY <1>2, <1>3

LEMMA ConfigSeeds == \A i \in 1 .. Len(Configs) : Configs[i] \in SUBSET Seeds
  BY DutAssumption

LEMMA TypedStep == Typed /\ [Next]_vars => Typed'
  <1> SUFFICES ASSUME Typed, [Next]_vars PROVE Typed'
    OBVIOUS
  <1>0. Len(Configs) \in Nat
    BY DutAssumption
  <1>1. CASE SubmitSeeds
    BY <1>1 DEF SubmitSeeds, Typed
  <1>2. CASE NoSeeds \/ ConfigDone
    BY <1>2, <1>0 DEF NoSeeds, ConfigDone, NextConfig, Typed
  <1>3. CASE ConfigLogFails
    BY <1>3 DEF ConfigLogFails, Typed
  <1>4. ASSUME NEW s \in Seeds, CollectResult(s) \/ CollectError(s) PROVE Typed'
    <2>1. Append(results, s) \in Seq(Seeds)
      BY DEF Typed
    <2> QED BY <1>4, <2>1 DEF CollectResult, CollectError, Typed
  <1>5. ASSUME NEW s \in Seeds, OpenLog(s) PROVE Typed'
    <2>1. {t \in Seeds \ {s} : Log[t] = Log[s] /\ stream[t] # "none"} \in SUBSET Seeds
      OBVIOUS
    <2>2. disturbed' \in SUBSET Seeds
      BY <1>5 DEF OpenLog, Typed
    <2> QED BY <1>5, <2>2 DEF OpenLog, Typed
  <1>6. ASSUME NEW s \in Seeds, OpenLogFails(s) \/ Return(s) PROVE Typed'
    BY <1>6 DEF OpenLogFails, Return, Typed
  <1>7. ASSUME NEW s \in Seeds, Cleanup(s) PROVE Typed'
    BY <1>7 DEF Cleanup, CloseAll, Typed
  <1>8. ASSUME NEW s \in Seeds, Launch(s) \/ Output(s) \/ Status(s) \/ Timeout(s) \/ RunError(s)
        PROVE Typed'
    <2>1. file' = [l \in Logs |-> file'[l]] /\ offset' \in [Seeds -> Nat]
      BY <1>8, EmitTyped DEF Launch, Output, Status, Timeout, RunError
    <2>2. pc' \in [Seeds -> {"none", "queued", "open", "begun", "ran", "noted", "cleaned",
                             "returned", "failed", "collected"}]
      <3>1. \E v \in {"begun", "ran", "noted"} : pc' = [pc EXCEPT ![s] = v]
        BY <1>8 DEF Launch, Output, Status, Timeout, RunError
      <3> QED BY <3>1 DEF Typed
    <2>3. outcome' \in [Seeds -> {"none", "SUCCESS", "FAILURE", "TIMEOUT", "ERROR"}]
      BY <1>8 DEF Launch, Output, Status, Timeout, RunError, Typed
    <2>4. UNCHANGED <<turn, phase, attached, stream, results, disturbed>>
      BY <1>8 DEF Launch, Output, Status, Timeout, RunError
    <2> QED BY <2>1, <2>2, <2>3, <2>4 DEF Typed
  <1>9. CASE UNCHANGED vars
    BY <1>9 DEF vars, Typed
  <1> QED BY <1>1, <1>2, <1>3, <1>4, <1>5, <1>6, <1>7, <1>8, <1>9
          DEF Next, Main, Thread, Finished

\* What a thread's step does to everybody else's position and to the counters.
LEMMA ThreadStep ==
  ASSUME Typed, NEW s \in Seeds, Thread(s)
  PROVE  /\ UNCHANGED <<turn, phase, results>>
         /\ \A t \in Seeds : t # s => pc'[t] = pc[t] /\ outcome'[t] = outcome[t]
         /\ pc[s] \notin {"none", "collected"} /\ pc'[s] \notin {"none", "collected"}
  BY DEF Typed, Thread, OpenLog, OpenLogFails, Launch, Output, Status, Timeout, RunError,
     Cleanup, Return

LEMMA Turn == Typed /\ ToCome /\ phase = "prepare"
                => turn \in 1 .. Len(Configs) /\ \A s \in Configs[turn] : pc[s] = "none"
  <1> SUFFICES ASSUME Typed, ToCome, phase = "prepare"
               PROVE turn \in 1 .. Len(Configs) /\ \A s \in Configs[turn] : pc[s] = "none"
    OBVIOUS
  <1>1. Len(Configs) \in Nat
    BY DutAssumption
  <1>2. turn \in 1 .. Len(Configs)
    BY <1>1 DEF Typed
  <1> QED BY <1>2 DEF ToCome

LEMMA ToComeStep == Typed /\ ToCome /\ [Next]_vars => ToCome'
  <1> SUFFICES ASSUME Typed, ToCome, [Next]_vars,
                      NEW i \in 1 .. Len(Configs), NEW s \in Configs[i],
                      i > turn' \/ (i = turn' /\ phase' = "prepare")
               PROVE  pc'[s] = "none"
    BY DEF ToCome, Typed, Next, Main, NoSeeds, ConfigDone, NextConfig
  <1>0. s \in Seeds /\ Len(Configs) \in Nat
    BY ConfigSeeds, DutAssumption
  <1>1. CASE SubmitSeeds
    <2>1. i > turn /\ turn \in 1 .. Len(Configs) /\ i # turn
      BY <1>0, <1>1 DEF SubmitSeeds, Typed
    <2>2. s \notin Configs[turn]
      BY <2>1, DutAssumption
    <2>3. pc[s] = "none"
      BY <2>1 DEF ToCome
    <2> QED BY <1>0, <1>1, <2>2, <2>3 DEF SubmitSeeds
  <1>2. CASE NoSeeds \/ ConfigDone
    <2>1. i > turn /\ pc' = pc
      BY <1>0, <1>2 DEF NoSeeds, ConfigDone, NextConfig, Typed
    <2> QED BY <2>1 DEF ToCome
  <1>3. CASE ConfigLogFails \/ UNCHANGED vars
    BY <1>3 DEF ConfigLogFails, vars, ToCome
  <1>4. CASE \E t \in Seeds : CollectResult(t) \/ CollectError(t)
    BY <1>4, <1>0 DEF CollectResult, CollectError, ToCome, Typed
  <1>5. CASE \E t \in Seeds : Thread(t)
    BY <1>5, <1>0, ThreadStep DEF ToCome
  <1> QED BY <1>1, <1>2, <1>3, <1>4, <1>5 DEF Next, Main, Finished

LEMMA OutcomesStep == Typed /\ ToCome /\ Outcomes /\ [Next]_vars => Outcomes'
  <1> SUFFICES ASSUME Typed, ToCome, Outcomes, [Next]_vars PROVE Outcomes'
    OBVIOUS
  <1>1. CASE SubmitSeeds
    <2>1. \A s \in Configs[turn] : pc[s] = "none"
      BY <1>1, Turn DEF SubmitSeeds
    <2> QED BY <1>1, <2>1 DEF SubmitSeeds, Outcomes, Typed
  <1>2. CASE NoSeeds \/ ConfigDone \/ ConfigLogFails \/ UNCHANGED vars
    BY <1>2 DEF NoSeeds, ConfigDone, ConfigLogFails, vars, Outcomes
  <1>3. CASE \E t \in Seeds : CollectResult(t) \/ CollectError(t)
    BY <1>3 DEF CollectResult, CollectError, Outcomes, Typed
  <1>4. CASE \E t \in Seeds : Thread(t)
    BY <1>4 DEF Outcomes, Typed, Thread, OpenLog, OpenLogFails, Launch, Output, Status, Timeout,
       RunError, Cleanup, Return
  <1> QED BY <1>1, <1>2, <1>3, <1>4 DEF Next, Main, Finished

LEMMA CountedStep == Typed /\ ToCome /\ Outcomes /\ Counted /\ [Next]_vars => Counted'
  <1> SUFFICES ASSUME Typed, ToCome, Outcomes, Counted, [Next]_vars PROVE Counted'
    OBVIOUS
  <1>1. CASE SubmitSeeds
    <2>1. \A s \in Configs[turn] : pc[s] = "none"
      BY <1>1, Turn DEF SubmitSeeds
    <2>2. \A s \in Seeds : Places(s)' = Places(s)
      BY <1>1 DEF SubmitSeeds, Places
    <2>3. \A s \in Seeds : /\ outcome'[s] = outcome[s]
                           /\ pc'[s] = pc[s] \/ (pc[s] = "none" /\ pc'[s] = "queued")
      BY <1>1, <2>1 DEF SubmitSeeds, Typed
    <2> QED BY <2>2, <2>3 DEF Counted
  <1>2. CASE NoSeeds \/ ConfigDone \/ ConfigLogFails \/ UNCHANGED vars
    <2>1. UNCHANGED <<pc, outcome, results>>
      BY <1>2 DEF NoSeeds, ConfigDone, ConfigLogFails, vars
    <2>2. \A s \in Seeds : Places(s)' = Places(s)
      BY <2>1 DEF Places
    <2> QED BY <2>1, <2>2 DEF Counted
  <1>3. ASSUME NEW t \in Seeds, CollectResult(t) PROVE Counted'
    <2>1. /\ results' = Append(results, t) /\ outcome' = outcome
          /\ pc'[t] = "collected" /\ \A s \in Seeds : s # t => pc'[s] = pc[s]
          /\ pc[t] = "returned" /\ outcome[t] # "none"
      BY <1>3 DEF CollectResult, Outcomes, Typed
    <2>2. Places(t) = {}
      BY <2>1 DEF Counted
    <2>3. /\ Len(results') = Len(results) + 1 /\ Len(results) \in Nat
          /\ results'[Len(results) + 1] = t
          /\ \A i \in 1 .. Len(results) : results'[i] = results[i]
      BY <2>1 DEF Typed
    <2>4. Places(t)' = {Len(results) + 1}
      BY <2>2, <2>3 DEF Places
    <2>5. \A s \in Seeds : s # t => Places(s)' = Places(s)
      BY <2>3 DEF Places
    <2> QED BY <2>1, <2>4, <2>5 DEF Counted
  <1>4. ASSUME NEW t \in Seeds, CollectError(t) PROVE Counted'
    <2>1. \A s \in Seeds : Places(s)' = Places(s) /\ outcome'[s] = outcome[s]
      BY <1>4 DEF CollectError, Places
    <2>2. pc[t] = "failed" /\ outcome[t] = "none" /\ \A s \in Seeds : s # t => pc'[s] = pc[s]
      BY <1>4 DEF CollectError, Outcomes, Typed
    <2> QED BY <2>1, <2>2 DEF Counted
  <1>5. ASSUME NEW t \in Seeds, Thread(t) PROVE Counted'
    <2>1. \A s \in Seeds : Places(s)' = Places(s)
      BY <1>5, ThreadStep DEF Places
    <2>2. pc[t] # "collected" /\ pc'[t] # "collected"
          /\ \A s \in Seeds : s # t => pc'[s] = pc[s] /\ outcome'[s] = outcome[s]
      BY <1>5, ThreadStep
    <2> QED BY <2>1, <2>2 DEF Counted
  <1> QED BY <1>1, <1>2, <1>3, <1>4, <1>5 DEF Next, Main, Finished

LEMMA CountInvariant == Spec => [](Typed /\ ToCome /\ Outcomes /\ Counted)
  <1>1. Init => Typed /\ ToCome /\ Outcomes
    BY DutAssumption DEF Init, Typed, ToCome, Outcomes
  <1>2. Init => Counted
    BY DEF Init, Counted, Places
  <1> QED BY <1>1, <1>2, TypedStep, ToComeStep, OutcomesStep, CountedStep, PTL DEF Spec

(* The summary counts every seed that has an outcome once and no other,     *)
(* whatever times out, raises or cannot be opened.                          *)
THEOREM SeedsCountedOnce == Spec => []EverySeedCounted
  <1>1. Counted => EverySeedCounted
    <2> SUFFICES ASSUME Counted, NEW s \in Seeds
                 PROVE Cardinality(Places(s)) =
                         IF pc[s] = "collected" /\ outcome[s] # "none" THEN 1 ELSE 0
      BY DEF EverySeedCounted, Places
    <2> QED BY FS_EmptySet, FS_Singleton DEF Counted
  <1> QED BY <1>1, CountInvariant, PTL

(* While its log is undisturbed a seed is alone with it: of the seeds that  *)
(* share the name none runs or holds a handler.                             *)
Alone(s) == \A t \in Seeds \ {s} : Log[t] = Log[s] => t \notin Busy /\ stream[t] # "open"

\* What a seed's log holds at each point of its run.
SoFar(s) ==
  CASE pc[s] = "open" -> <<>>
    [] pc[s] = "begun" -> <<<<s, "begin">>>>
    [] pc[s] = "ran" -> <<<<s, "begin">>, <<s, "output">>>>
    [] OTHER -> Transcript(s)

Writing(s) == pc[s] \in {"open", "begun", "ran", "noted"}

Opened ==
  \A s \in Seeds :
    /\ pc[s] \in {"none", "queued", "failed"} => stream[s] = "none"
    /\ s \in Busy => stream[s] # "none"
    /\ pc[s] = "returned" => stream[s] # "none"
    /\ pc[s] = "collected" /\ outcome[s] # "none" => stream[s] # "none"
    /\ stream[s] = "open" => s \in attached
    /\ s \in attached => stream[s] # "none"

Undisturbed ==
  \A s \in Seeds : stream[s] # "none" /\ s \notin disturbed =>
    /\ Alone(s)
    /\ Writing(s) => stream[s] = "open"
    /\ Writing(s) => offset[s] = Len(file[Log[s]])
    /\ file[Log[s]] = SoFar(s)

\* A device that ended by itself has a result of its own.
RanCode == \A s \in Seeds : pc[s] = "ran" => outcome[s] \in {"SUCCESS", "FAILURE"}

LEMMA OverlayOfOne ==
  ASSUME NEW s \in Seeds, NEW old, NEW entry, NEW n \in Nat,
         offset[s] = n, Len(old) = n
  PROVE  Overlay(old, {s}, entry) = [i \in 1 .. n + 1 |-> IF i = n + 1 THEN entry ELSE old[i]]
  <1> DEFINE ends == {Len(old)} \cup {offset[h] + 1 : h \in {s}}
             len == CHOOSE k \in ends : \A m \in ends : m <= k
  <1>1. ends = {n, n + 1}
    OBVIOUS
  <1>2. n + 1 \in ends /\ \A m \in ends : m <= n + 1
    BY <1>1
  <1>3. len \in ends /\ \A m \in ends : m <= len
    BY <1>2
  <1>4. len = n + 1
    BY <1>1, <1>3
  <1> HIDE DEF len
  <1>5. Overlay(old, {s}, entry) =
          [i \in 1 .. len |-> IF \E h \in {s} : offset[h] = i - 1 THEN entry
                              ELSE IF i <= Len(old) THEN old[i] ELSE Hole]
    BY DEF Overlay, len
  <1>6. \A i \in 1 .. n + 1 : (\E h \in {s} : offset[h] = i - 1) <=> i = n + 1
    OBVIOUS
  <1>7. \A i \in 1 .. n + 1 : i # n + 1 => i <= Len(old)
    OBVIOUS
  <1> QED BY <1>4, <1>5, <1>6, <1>7

\* What one line more does to the log of a seed that is alone with it.
LEMMA EmitAlone ==
  ASSUME Typed, Opened, Undisturbed, NEW s \in Seeds, Writing(s), NEW line, Emit(s, line),
         s \notin disturbed
  PROVE  /\ offset'[s] = Len(file[Log[s]]) + 1
         /\ file'[Log[s]] = [i \in 1 .. Len(file[Log[s]]) + 1 |->
                               IF i = Len(file[Log[s]]) + 1 THEN <<s, line>> ELSE file[Log[s]][i]]
  <1>1. s \in Busy /\ stream[s] # "none"
    BY DEF Writing, Busy, Opened
  <1>2. stream[s] = "open" /\ s \in attached
    BY <1>1 DEF Opened, Undisturbed
  <1>3. Alone(s) /\ offset[s] = Len(file[Log[s]]) /\ offset[s] \in Nat
    BY <1>1 DEF Undisturbed, Typed
  <1>4. {h \in Handlers(s) : stream[h] = "open"} = {s}
    BY <1>2, <1>3 DEF Handlers, Alone, Typed
  <1>5. file'[Log[s]] = Overlay(file[Log[s]], {s}, <<s, line>>)
    <2>1. Log[s] \in Logs /\ DOMAIN file = Logs
      BY DEF Logs, Typed
    <2> QED BY <1>4, <2>1 DEF Emit
  <1>6. offset'[s] = Len(file[Log[s]]) + 1
    BY <1>3, <1>4 DEF Emit
  <1>7. Overlay(file[Log[s]], {s}, <<s, line>>)
          = [i \in 1 .. offset[s] + 1 |-> IF i = offset[s] + 1 THEN <<s, line>> ELSE file[Log[s]][i]]
    BY <1>3, OverlayOfOne
  <1> QED BY <1>3, <1>5, <1>6, <1>7

\* And to those of the other undisturbed seeds: nothing.
LEMMA EmitOthers ==
  ASSUME Typed, Opened, Undisturbed, NEW s \in Seeds, Writing(s), NEW line, Emit(s, line),
         NEW u \in Seeds, u # s, stream[u] # "none", u \notin disturbed
  PROVE  file'[Log[u]] = file[Log[u]] /\ offset'[u] = offset[u]
  <1>1. Log[u] # Log[s]
    BY DEF Writing, Busy, Undisturbed, Alone
  <1>2. u \notin {h \in Handlers(s) : stream[h] = "open"}
    BY <1>1 DEF Handlers
  <1>3. Log[u] \in Logs /\ DOMAIN file = Logs
    BY DEF Logs, Typed
  <1> QED BY <1>1, <1>2, <1>3 DEF Emit

LEMMA OpenedStep == Typed /\ ToCome /\ Outcomes /\ Opened /\ [Next]_vars => Opened'
  <1> SUFFICES ASSUME Typed, ToCome, Outcomes, Opened, [Next]_vars PROVE Opened'
    OBVIOUS
  <1>1. CASE SubmitSeeds
    <2>1. \A s \in Configs[turn] : pc[s] = "none"
      BY <1>1, Turn DEF SubmitSeeds
    <2> QED BY <1>1, <2>1 DEF SubmitSeeds, Opened, Busy, Typed
  <1>2. CASE NoSeeds \/ ConfigDone \/ ConfigLogFails \/ UNCHANGED vars
    BY <1>2 DEF NoSeeds, ConfigDone, ConfigLogFails, vars, Opened, Busy
  <1>3. CASE \E t \in Seeds : CollectResult(t) \/ CollectError(t)
    BY <1>3 DEF CollectResult, CollectError, Opened, Outcomes, Busy, Typed
  <1>4. ASSUME NEW t \in Seeds, OpenLog(t) PROVE Opened'
    BY <1>4 DEF OpenLog, Opened, Busy, Typed
  <1>5. ASSUME NEW t \in Seeds, OpenLogFails(t) PROVE Opened'
    BY <1>5 DEF OpenLogFails, Opened, Busy, Typed
  <1>6. ASSUME NEW t \in Seeds, Launch(t) \/ Output(t) \/ Status(t) \/ Timeout(t) \/ RunError(t)
        PROVE Opened'
    <2>1. /\ UNCHANGED <<stream, attached>>
          /\ t \in Busy
          /\ \A s \in Seeds : s # t => pc'[s] = pc[s] /\ outcome'[s] = outcome[s]
          /\ pc'[t] \in {"begun", "ran", "noted"}
      BY <1>6 DEF Launch, Output, Status, Timeout, RunError, Busy, Typed
    <2> QED BY <2>1 DEF Opened, Busy
  <1>7. ASSUME NEW t \in Seeds, Cleanup(t) PROVE Opened'
    BY <1>7 DEF Cleanup, CloseAll, Handlers, Opened, Busy, Typed
  <1>8. ASSUME NEW t \in Seeds, Return(t) PROVE Opened'
    BY <1>8 DEF Return, Opened, Busy, Typed
  <1> QED BY <1>1, <1>2, <1>3, <1>4, <1>5, <1>6, <1>7, <1>8 DEF Next, Main, Finished, Thread

LEMMA CodeStep == Typed /\ ToCome /\ RanCode /\ [Next]_vars => RanCode'
  <1> SUFFICES ASSUME Typed, ToCome, RanCode, [Next]_vars PROVE RanCode'
    OBVIOUS
  <1>1. CASE SubmitSeeds \/ NoSeeds \/ ConfigDone \/ ConfigLogFails \/ UNCHANGED vars
    BY <1>1 DEF SubmitSeeds, NoSeeds, ConfigDone, ConfigLogFails, vars, RanCode, Typed
  <1>2. CASE \E t \in Seeds : CollectResult(t) \/ CollectError(t)
    BY <1>2 DEF CollectResult, CollectError, RanCode, Typed
  <1>3. CASE \E t \in Seeds : Thread(t)
    BY <1>3 DEF RanCode, Typed, Thread, OpenLog, OpenLogFails, Launch, Output, Status, Timeout,
       RunError, Cleanup, Return
  <1> QED BY <1>1, <1>2, <1>3 DEF Next, Main, Finished

\* A line of an undisturbed seed goes to the end of its log.
LEMMA EmitUndisturbed ==
  ASSUME Typed, Opened, Undisturbed,
         NEW t \in Seeds, NEW line, Writing(t), Emit(t, line), Writing(t)',
         UNCHANGED <<attached, stream, disturbed>>, Busy' = Busy,
         \A s \in Seeds : s # t => pc'[s] = pc[s] /\ outcome'[s] = outcome[s],
         t \notin disturbed =>
           \A f : Len(f) \in Nat /\ f = SoFar(t)
             => [i \in 1 .. Len(f) + 1 |-> IF i = Len(f) + 1 THEN <<t, line>> ELSE f[i]] = SoFar(t)'
  PROVE  Undisturbed'
  <1>1. t \in Busy /\ stream[t] # "none"
    BY DEF Writing, Busy, Opened
  <1>2. ASSUME NEW s \in Seeds, stream[s] # "none", s \notin disturbed
        PROVE  /\ Alone(s)' /\ (Writing(s)' => stream'[s] = "open")
               /\ (Writing(s)' => offset'[s] = Len(file'[Log[s]])) /\ file'[Log[s]] = SoFar(s)'
    <2>1. /\ Alone(s) /\ file[Log[s]] = SoFar(s)
          /\ Writing(s) => stream[s] = "open"
          /\ Writing(s) => offset[s] = Len(file[Log[s]])
      BY <1>2 DEF Undisturbed
    <2>2. Alone(s)'
      BY <2>1 DEF Alone
    <2>3. CASE s = t
      <3> DEFINE n == Len(file[Log[t]])
                 f == [i \in 1 .. n + 1 |-> IF i = n + 1 THEN <<t, line>> ELSE file[Log[t]][i]]
      <3>1. offset'[t] = n + 1 /\ file'[Log[t]] = f
        BY <1>2, <2>3, EmitAlone
      <3>2. n \in Nat
        BY <2>1, <2>3 DEF Typed
      <3>3. f = SoFar(t)'
        BY <1>2, <2>1, <2>3, <3>2
      <3>4. Len(f) = n + 1
        BY <3>2
      <3> QED BY <2>1, <2>2, <2>3, <3>1, <3>3, <3>4
    <2>4. CASE s # t
      <3>1. file'[Log[s]] = file[Log[s]] /\ offset'[s] = offset[s]
        BY <1>2, <2>4, EmitOthers
      <3>2. SoFar(s)' = SoFar(s) /\ Writing(s)' = Writing(s)
        BY <2>4 DEF SoFar, Transcript, Writing
      <3> QED BY <2>1, <2>2, <3>1, <3>2
    <2> QED BY <2>3, <2>4
  <1> QED BY <1>2 DEF Undisturbed

\* The five lines a seed may write.
LEMMA LineStep ==
  ASSUME Typed, Outcomes, Opened, RanCode, Undisturbed, NEW t \in Seeds,
         Launch(t) \/ Output(t) \/ Status(t) \/ Timeout(t) \/ RunError(t)
  PROVE  Undisturbed'
  <1>0. /\ Writing(t) /\ Writing(t)' /\ UNCHANGED <<attached, stream, disturbed>>
        /\ \A s \in Seeds : s # t => pc'[s] = pc[s] /\ outcome'[s] = outcome[s]
    BY DEF Writing, Launch, Output, Status, Timeout, RunError, Typed
  <1>1. Busy' = Busy
    BY <1>0 DEF Busy, Writing
  <1> DEFINE Next1(line) == \A f : Len(f) \in Nat /\ f = SoFar(t)
               => [i \in 1 .. Len(f) + 1 |-> IF i = Len(f) + 1 THEN <<t, line>> ELSE f[i]] = SoFar(t)'
  <1>2. CASE Launch(t)
    <2>1. pc[t] = "open" /\ pc'[t] = "begun" /\ Emit(t, "begin")
      BY <1>2 DEF Launch, Typed
    <2>2. Next1("begin")
      BY <2>1 DEF SoFar
    <2> QED BY <1>0, <1>1, <2>1, <2>2, EmitUndisturbed
  <1>3. CASE Output(t)
    <2>1. pc[t] = "begun" /\ pc'[t] = "ran" /\ Emit(t, "output")
      BY <1>3 DEF Output, Typed
    <2>2. Next1("output")
      BY <2>1 DEF SoFar
    <2> QED BY <1>0, <1>1, <2>1, <2>2, EmitUndisturbed
  <1>4. CASE Status(t)
    <2>1. pc[t] = "ran" /\ pc'[t] = "noted" /\ Emit(t, "status")
          /\ outcome'[t] \in {"SUCCESS", "FAILURE"}
      BY <1>4 DEF Status, Typed, RanCode
    <2>2. Next1("status")
      BY <2>1 DEF SoFar, Transcript
    <2> QED BY <1>0, <1>1, <2>1, <2>2, EmitUndisturbed
  <1>5. CASE Timeout(t)
    <2>1. pc[t] = "begun" /\ pc'[t] = "noted" /\ Emit(t, "timeout") /\ outcome'[t] = "TIMEOUT"
      BY <1>5 DEF Timeout, Typed
    <2>2. Next1("timeout")
      BY <2>1 DEF SoFar, Transcript
    <2> QED BY <1>0, <1>1, <2>1, <2>2, EmitUndisturbed
  <1>6. CASE RunError(t)
    <2>1. pc[t] = "begun" /\ pc'[t] = "noted" /\ Emit(t, "error") /\ outcome'[t] = "ERROR"
      BY <1>6 DEF RunError, Typed
    <2>2. Next1("error")
      BY <2>1 DEF SoFar, Transcript
    <2> QED BY <1>0, <1>1, <2>1, <2>2, EmitUndisturbed
  <1> QED BY <1>2, <1>3, <1>4, <1>5, <1>6

LEMMA UndisturbedStep ==
  Typed /\ ToCome /\ Outcomes /\ Opened /\ RanCode /\ Undisturbed /\ [Next]_vars => Undisturbed'
  <1> SUFFICES ASSUME Typed, ToCome, Outcomes, Opened, RanCode, Undisturbed, [Next]_vars
               PROVE Undisturbed'
    OBVIOUS
  <1>0. \A l \in Seeds : Log[l] \in Logs
    BY DEF Logs
  <1>1. CASE SubmitSeeds
    <2>1. \A s \in Configs[turn] : pc[s] = "none" /\ s \in Seeds
      BY <1>1, Turn, ConfigSeeds DEF SubmitSeeds
    <2>2. /\ UNCHANGED <<outcome, attached, stream, offset, file, disturbed>>
          /\ \A s \in Seeds : pc'[s] = pc[s] \/ (pc[s] = "none" /\ pc'[s] = "queued")
      BY <1>1, <2>1 DEF SubmitSeeds, Typed
    <2>3. \A s \in Seeds : stream[s] # "none" => pc'[s] = pc[s]
      BY <2>2 DEF Opened
    <2>4. Busy' = Busy
      BY <2>2 DEF Busy
    <2> QED BY <2>2, <2>3, <2>4 DEF Undisturbed, Alone, Writing, SoFar, Transcript
  <1>2. CASE NoSeeds \/ ConfigDone \/ ConfigLogFails \/ UNCHANGED vars
    BY <1>2 DEF NoSeeds, ConfigDone, ConfigLogFails, vars, Undisturbed, Alone, Busy, Writing, SoFar,
         Transcript
  <1>3. ASSUME NEW t \in Seeds, CollectResult(t) \/ CollectError(t) PROVE Undisturbed'
    <2>1. /\ UNCHANGED <<outcome, attached, stream, offset, file, disturbed>>
          /\ pc'[t] = "collected" /\ pc[t] \in {"returned", "failed"}
          /\ \A s \in Seeds : s # t => pc'[s] = pc[s]
      BY <1>3 DEF CollectResult, CollectError, Typed
    <2>2. Busy' = Busy
      BY <2>1 DEF Busy
    <2>3. \A s \in Seeds : SoFar(s)' = SoFar(s) /\ Writing(s)' = Writing(s)
      BY <2>1 DEF SoFar, Transcript, Writing
    <2> QED BY <2>1, <2>2, <2>3 DEF Undisturbed, Alone
  <1>4. ASSUME NEW t \in Seeds, OpenLog(t) PROVE Undisturbed'
    <2>1. /\ pc[t] = "queued" /\ pc'[t] = "open" /\ stream'[t] = "open" /\ offset'[t] = 0
          /\ \A s \in Seeds : s # t => /\ pc'[s] = pc[s] /\ stream'[s] = stream[s]
                                       /\ offset'[s] = offset[s]
          /\ UNCHANGED outcome
          /\ Busy' = Busy \cup {t}
      BY <1>4 DEF OpenLog, Typed, Busy
    <2>2. /\ file'[Log[t]] = <<>>
          /\ \A s \in Seeds : Log[s] # Log[t] => file'[Log[s]] = file[Log[s]]
      BY <1>0, <1>4 DEF OpenLog, Typed
    <2>3. /\ disturbed \subseteq disturbed'
          /\ \A s \in Seeds \ {t} : Log[s] = Log[t] /\ stream[s] # "none" => s \in disturbed'
          /\ t \notin disturbed' => \A s \in Seeds \ {t} : Log[s] = Log[t] /\ stream[s] # "none"
                                                          => stream[s] # "open" /\ s \notin Busy
      BY <1>4 DEF OpenLog
    <2>4. ASSUME NEW s \in Seeds, stream'[s] # "none", s \notin disturbed'
          PROVE  /\ Alone(s)' /\ (Writing(s)' => stream'[s] = "open")
                 /\ (Writing(s)' => offset'[s] = Len(file'[Log[s]])) /\ file'[Log[s]] = SoFar(s)'
      <3>1. CASE s = t
        <4>1. \A u \in Seeds \ {t} : Log[u] = Log[t] => stream[u] # "open" /\ u \notin Busy
          BY <2>3, <2>4, <3>1 DEF Opened
        <4>2. Alone(t)'
          BY <2>1, <4>1 DEF Alone
        <4>3. SoFar(t)' = <<>> /\ Len(<<>>) = 0
          BY <2>1 DEF SoFar
        <4> QED BY <2>1, <2>2, <3>1, <4>2, <4>3
      <3>2. CASE s # t
        <4>1. stream[s] # "none" /\ s \notin disturbed /\ Log[s] # Log[t]
          BY <2>1, <2>3, <2>4, <3>2
        <4>2. Alone(s)'
          BY <2>1, <3>2, <4>1 DEF Undisturbed, Alone
        <4>3. SoFar(s)' = SoFar(s) /\ Writing(s)' = Writing(s)
          BY <2>1, <3>2 DEF SoFar, Transcript, Writing
        <4> QED BY <2>1, <2>2, <3>2, <4>1, <4>2, <4>3 DEF Undisturbed
      <3> QED BY <3>1, <3>2
    <2> QED BY <2>4 DEF Undisturbed
  <1>5. ASSUME NEW t \in Seeds, OpenLogFails(t) PROVE Undisturbed'
    <2>1. /\ UNCHANGED <<outcome, attached, stream, offset, file, disturbed>>
          /\ pc[t] = "queued" /\ pc'[t] = "failed" /\ stream[t] = "none"
          /\ \A s \in Seeds : s # t => pc'[s] = pc[s]
      BY <1>5 DEF OpenLogFails, Typed, Opened
    <2>2. Busy' = Busy
      BY <2>1 DEF Busy
    <2>3. \A s \in Seeds : s # t => SoFar(s)' = SoFar(s) /\ Writing(s)' = Writing(s)
      BY <2>1 DEF SoFar, Transcript, Writing
    <2> QED BY <2>1, <2>2, <2>3 DEF Undisturbed, Alone
  <1>7. ASSUME NEW t \in Seeds, Cleanup(t) PROVE Undisturbed'
    <2>1. /\ UNCHANGED <<outcome, offset, file, disturbed>>
          /\ pc[t] = "noted" /\ pc'[t] = "cleaned"
          /\ \A s \in Seeds : s # t => pc'[s] = pc[s]
      BY <1>7 DEF Cleanup, Typed
    <2>2. Busy' = Busy /\ t \in Busy
      BY <2>1 DEF Busy
    <2>3. \A s \in Seeds : /\ stream'[s] = "open" => stream[s] = "open"
                           /\ stream'[s] # "none" => stream[s] # "none"
                           /\ Log[s] # Log[t] => stream'[s] = stream[s]
      BY <1>7 DEF Cleanup, CloseAll, Handlers, Opened, Typed
    <2>4. \A s \in Seeds : SoFar(s)' = SoFar(s) /\ (s # t => Writing(s)' = Writing(s)) /\ ~Writing(t)'
      BY <2>1 DEF SoFar, Transcript, Writing
    <2>5. ASSUME NEW s \in Seeds, stream'[s] # "none", s \notin disturbed
          PROVE  /\ Alone(s)' /\ (Writing(s)' => stream'[s] = "open")
                 /\ (Writing(s)' => offset'[s] = Len(file'[Log[s]])) /\ file'[Log[s]] = SoFar(s)'
      <3>1. Alone(s) /\ file[Log[s]] = SoFar(s)
        BY <2>3, <2>5 DEF Undisturbed
      <3>2. s # t => Log[s] # Log[t]
        BY <2>2, <3>1 DEF Alone
      <3>3. Alone(s)'
        BY <2>2, <2>3, <3>1 DEF Alone
      <3> QED BY <2>1, <2>3, <2>4, <2>5, <3>1, <3>2, <3>3 DEF Undisturbed
    <2> QED BY <2>1, <2>5 DEF Undisturbed
  <1>8. ASSUME NEW t \in Seeds, Return(t) PROVE Undisturbed'
    <2>1. /\ UNCHANGED <<outcome, offset, file, disturbed>>
          /\ pc[t] = "cleaned" /\ pc'[t] = "returned" /\ stream'[t] = "closed"
          /\ \A s \in Seeds : s # t => pc'[s] = pc[s] /\ stream'[s] = stream[s]
      BY <1>8 DEF Return, Typed
    <2>2. Busy' = Busy \ {t} /\ t \in Busy /\ stream[t] # "none"
      BY <2>1 DEF Busy, Opened
    <2>3. \A s \in Seeds : SoFar(s)' = SoFar(s) /\ (s # t => Writing(s)' = Writing(s)) /\ ~Writing(t)'
      BY <2>1 DEF SoFar, Transcript, Writing
    <2>4. ASSUME NEW s \in Seeds, stream'[s] # "none", s \notin disturbed
          PROVE  /\ Alone(s)' /\ (Writing(s)' => stream'[s] = "open")
                 /\ (Writing(s)' => offset'[s] = Len(file'[Log[s]])) /\ file'[Log[s]] = SoFar(s)'
      <3>1. stream[s] # "none" /\ Alone(s) /\ file[Log[s]] = SoFar(s)
        BY <2>1, <2>2, <2>4 DEF Undisturbed
      <3>2. Alone(s)'
        BY <2>1, <2>2, <3>1 DEF Alone
      <3> QED BY <2>1, <2>3, <2>4, <3>1, <3>2 DEF Undisturbed
    <2> QED BY <2>1, <2>4 DEF Undisturbed
  <1>9. CASE \E t \in Seeds : Launch(t) \/ Output(t) \/ Status(t) \/ Timeout(t) \/ RunError(t)
    BY <1>9, LineStep
  <1> QED BY <1>1, <1>2, <1>3, <1>4, <1>5, <1>7, <1>8, <1>9 DEF Next, Main, Finished, Thread

LEMMA LogInvariant == Spec => [](Typed /\ Opened /\ Undisturbed)
  <1>1. Init => Opened /\ RanCode /\ Undisturbed
    BY DEF Init, Opened, RanCode, Undisturbed, Busy
  <1> QED BY <1>1, CountInvariant, OpenedStep, CodeStep, UndisturbedStep, PTL DEF Spec

(* The log of a seed that ran is whole, and has no foreign line, as long as *)
(* no seed of the same log name runs at the same time or later.             *)
THEOREM UndisturbedLogsWhole == Spec => []UndisturbedLogWhole
  <1>1. Opened /\ Undisturbed => UndisturbedLogWhole
    BY DEF Opened, Undisturbed, UndisturbedLogWhole, Through, SoFar
  <1> QED BY <1>1, LogInvariant, PTL

-----------------------------------------------------------------------------
\* Seeds are in their threads only while their configuration is run, and only those
\* hold a handler.
InTurn ==
  \A s \in Seeds : pc[s] \notin {"none", "collected"} => phase = "run" /\ s \in Configs[turn]
Held == \A s \in Seeds : s \in attached \/ stream[s] = "open" => s \in Busy

LEMMA InTurnStep == Typed /\ ToCome /\ InTurn /\ [Next]_vars => InTurn'
  <1> SUFFICES ASSUME Typed, ToCome, InTurn, [Next]_vars PROVE InTurn'
    OBVIOUS
  <1>1. CASE SubmitSeeds
    BY <1>1 DEF SubmitSeeds, InTurn, Typed
  <1>2. CASE NoSeeds \/ ConfigLogFails
    BY <1>2 DEF NoSeeds, ConfigLogFails, InTurn
  <1>3. CASE ConfigDone
    BY <1>3 DEF ConfigDone, InTurn
  <1>4. CASE UNCHANGED vars
    BY <1>4 DEF vars, InTurn
  <1>5. CASE \E t \in Seeds : CollectResult(t) \/ CollectError(t)
    BY <1>5 DEF CollectResult, CollectError, InTurn, Typed
  <1>6. CASE \E t \in Seeds : Thread(t)
    BY <1>6, ThreadStep DEF InTurn
  <1> QED BY <1>1, <1>2, <1>3, <1>4, <1>5, <1>6 DEF Next, Main, Finished

LEMMA HeldStep == Typed /\ InTurn /\ Held /\ [Next]_vars => Held'
  <1> SUFFICES ASSUME Typed, InTurn, Held, [Next]_vars PROVE Held'
    OBVIOUS
  <1>1. CASE SubmitSeeds
    <2>1. \A s \in Busy : pc'[s] = pc[s]
      BY <1>1 DEF SubmitSeeds, InTurn, Typed, Busy
    <2> QED BY <1>1, <2>1 DEF SubmitSeeds, Held, Busy
  <1>2. CASE NoSeeds \/ ConfigDone \/ ConfigLogFails \/ UNCHANGED vars
    BY <1>2 DEF NoSeeds, ConfigDone, ConfigLogFails, vars, Held, Busy
  <1>3. ASSUME NEW t \in Seeds, CollectResult(t) \/ CollectError(t) PROVE Held'
    BY <1>3 DEF CollectResult, CollectError, Held, Busy, Typed
  <1>4. ASSUME NEW t \in Seeds, OpenLog(t) PROVE Held'
    BY <1>4 DEF OpenLog, Held, Busy, Typed
  <1>5. ASSUME NEW t \in Seeds, OpenLogFails(t) PROVE Held'
    BY <1>5 DEF OpenLogFails, Held, Busy, Typed
  <1>6. ASSUME NEW t \in Seeds, Launch(t) \/ Output(t) \/ Status(t) \/ Timeout(t) \/ RunError(t)
        PROVE  Held'
    <2>1. /\ UNCHANGED <<attached, stream>> /\ pc'[t] \in {"begun", "ran", "noted"}
          /\ \A s \in Seeds : s # t => pc'[s] = pc[s]
      BY <1>6 DEF Launch, Output, Status, Timeout, RunError, Typed
    <2> QED BY <2>1 DEF Held, Busy
  <1>7. ASSUME NEW t \in Seeds, Cleanup(t) PROVE Held'
    BY <1>7 DEF Cleanup, CloseAll, Handlers, Held, Busy, Typed
  <1>8. ASSUME NEW t \in Seeds, Return(t) PROVE Held'
    BY <1>8 DEF Return, Held, Busy, Typed
  <1> QED BY <1>1, <1>2, <1>3, <1>4, <1>5, <1>6, <1>7, <1>8 DEF Next, Main, Finished, Thread

LEMMA HeldInvariant == Spec => [](Typed /\ InTurn /\ Held)
  <1>1. Init => InTurn /\ Held
    BY DEF Init, InTurn, Held
  <1> QED BY <1>1, CountInvariant, InTurnStep, HeldStep, PTL DEF Spec

(* Between the configurations and after the last no handler is attached and *)
(* no log is open: every thread went through the finally block and the with *)
(* block's end, or never opened a log (run_single_seed).                     *)
THEOREM HandlersAreReleased == Spec => []HandlersReleased
  <1>1. Typed /\ InTurn /\ Held => HandlersReleased
    BY DEF Typed, InTurn, Held, Busy, HandlersReleased
  <1> QED BY <1>1, HeldInvariant, PTL
-----------------------------------------------------------------------------
(* Why the run on the device ends: what the threads have ahead of them, and  *)
(* a configuration pays for all its threads' steps when it is begun.         *)
ThreadSteps(s) ==
  CASE pc[s] = "queued" -> 7
    [] pc[s] = "open" -> 6
    [] pc[s] = "begun" -> 5
    [] pc[s] = "ran" -> 4
    [] pc[s] = "noted" -> 3
    [] pc[s] = "cleaned" -> 2
    [] pc[s] \in {"returned", "failed"} -> 1
    [] pc[s] \in {"none", "collected"} -> 0
Ahead == {x \in Seeds \X (1 .. 7) : x[2] <= ThreadSteps(x[1])}
ConfigSteps == 7 * Cardinality(Seeds) + 2
MainSteps ==
  CASE phase = "prepare" -> (Len(Configs) + 1 - turn) * ConfigSteps
    [] phase = "run" -> (Len(Configs) - turn) * ConfigSteps + 1
    [] phase \in {"done", "aborted"} -> 0
StepsLeft == MainSteps + Cardinality(Ahead)

\* Every step of the main thread or of a seed's thread brings the end nearer.
StepsCounted == StepsLeft \in Nat
StepsShrink == [][StepsLeft' < StepsLeft]_vars

LEMMA AheadTyped ==
  ASSUME IsFiniteSet(Seeds)
  PROVE  /\ Cardinality(Seeds) \in Nat
         /\ \A S \in SUBSET (Seeds \X (1 .. 7)) :
              IsFiniteSet(S) /\ Cardinality(S) \in Nat /\ Cardinality(S) <= 7 * Cardinality(Seeds)
         /\ \A S \in SUBSET (Seeds \X (1 .. 7)) : \A T \in SUBSET S :
              T # S => Cardinality(T) < Cardinality(S)
  <1>1. IsFiniteSet(1 .. 7) /\ Cardinality(1 .. 7) = 7
    <2>1. 1 \in Int /\ 7 \in Int /\ (IF 1 > 7 THEN 0 ELSE 7 - 1 + 1) = 7
      OBVIOUS
    <2>2. \A i, j \in Int : IsFiniteSet(i .. j) /\ Cardinality(i .. j) = IF i > j THEN 0 ELSE j - i + 1
      BY FS_Interval
    <2> QED BY <2>1, <2>2
  <1>2. Cardinality(Seeds) \in Nat
    BY FS_CardinalityType
  <1>3. IsFiniteSet(Seeds \X (1 .. 7)) /\ Cardinality(Seeds \X (1 .. 7)) = Cardinality(Seeds) * 7
    BY <1>1, FS_Product
  <1>4. ASSUME NEW S \in SUBSET (Seeds \X (1 .. 7))
        PROVE IsFiniteSet(S) /\ Cardinality(S) \in Nat /\ Cardinality(S) <= 7 * Cardinality(Seeds)
    <2>1. IsFiniteSet(S) /\ Cardinality(S) <= Cardinality(Seeds) * 7
      BY <1>3, FS_Subset
    <2>2. Cardinality(S) \in Nat
      BY <2>1, FS_CardinalityType
    <2> QED BY <1>2, <2>1, <2>2
  <1>5. ASSUME NEW S \in SUBSET (Seeds \X (1 .. 7)), NEW T \in SUBSET S, T # S
        PROVE  Cardinality(T) < Cardinality(S)
    <2>1. IsFiniteSet(S) /\ Cardinality(S) \in Nat
      BY <1>4
    <2>2. Cardinality(T) \in Nat /\ Cardinality(T) <= Cardinality(S) /\ Cardinality(T) # Cardinality(S)
      BY <1>4, <1>5, <2>1, FS_Subset
    <2> QED BY <2>1, <2>2
  <1> QED BY <1>2, <1>4, <1>5

\* A step of a seed's thread, or the collection of its result, is one less ahead.
LEMMA AheadShrinks ==
  ASSUME Typed, IsFiniteSet(Seeds), NEW s \in Seeds,
         Thread(s) \/ CollectResult(s) \/ CollectError(s)
  PROVE  Cardinality(Ahead') < Cardinality(Ahead)
  <1>1. \A t \in Seeds : t # s => pc'[t] = pc[t]
    BY ThreadStep DEF CollectResult, CollectError, Typed
  <1>2. ThreadSteps(s) \in 1 .. 7 /\ ThreadSteps(s)' \in 0 .. 7 /\ ThreadSteps(s)' < ThreadSteps(s)
    <2>1. pc'[s] \in IF pc[s] = "queued" THEN {"open", "failed"}
                     ELSE IF pc[s] = "open" THEN {"begun"}
                     ELSE IF pc[s] = "begun" THEN {"ran", "noted"}
                     ELSE IF pc[s] = "ran" THEN {"noted"}
                     ELSE IF pc[s] = "noted" THEN {"cleaned"}
                     ELSE IF pc[s] = "cleaned" THEN {"returned"}
                     ELSE {"collected"}
      BY DEF Thread, OpenLog, OpenLogFails, Launch, Output, Status, Timeout, RunError, Cleanup,
             Return, CollectResult, CollectError, Typed
    <2>2. pc[s] \notin {"none", "collected"} /\ pc[s] \in {"queued", "open", "begun", "ran",
                      "noted", "cleaned", "returned", "failed"}
      BY ThreadStep DEF CollectResult, CollectError, Typed
    <2> QED BY <2>1, <2>2 DEF ThreadSteps
  <1>3. \A t \in Seeds : t # s => ThreadSteps(t)' = ThreadSteps(t)
    BY <1>1 DEF ThreadSteps
  <1>4. Ahead \in SUBSET (Seeds \X (1 .. 7)) /\ Ahead' \in SUBSET (Seeds \X (1 .. 7))
    BY DEF Ahead
  <1>5. <<s, ThreadSteps(s)>> \in Ahead /\ <<s, ThreadSteps(s)>> \notin Ahead'
    BY <1>2 DEF Ahead
  <1>6. ASSUME NEW x \in Ahead' PROVE x \in Ahead
    <2>1. x \in Seeds \X (1 .. 7) /\ x[1] \in Seeds /\ x[2] \in 1 .. 7 /\ x[2] <= ThreadSteps(x[1])'
      BY <1>6 DEF Ahead
    <2>2. CASE x[1] = s
      BY <1>2, <2>1, <2>2 DEF Ahead
    <2>3. CASE x[1] # s
      BY <1>3, <2>1, <2>3 DEF Ahead
    <2> QED BY <2>2, <2>3
  <1> QED BY <1>4, <1>5, <1>6, AheadTyped

LEMMA ConfigMultiples ==
  ASSUME IsFiniteSet(Seeds)
  PROVE  /\ ConfigSteps \in Nat
         /\ \A a \in Nat : a * ConfigSteps \in Nat /\ (a + 1) * ConfigSteps = a * ConfigSteps + ConfigSteps
  <1>1. ConfigSteps \in Nat
    BY AheadTyped DEF ConfigSteps
  <1>2. \A k \in Nat, a \in Nat : a * k \in Nat /\ (a + 1) * k = a * k + k
    OBVIOUS
  <1> QED BY <1>1, <1>2

\* What the configurations after the current one need, and the current one.
LEMMA ConfigsLeft ==
  ASSUME Typed, IsFiniteSet(Seeds), phase \in {"prepare", "run"}
  PROVE  \E b \in Nat :
           /\ (Len(Configs) - turn) * ConfigSteps = b
           /\ (Len(Configs) + 1 - (turn + 1)) * ConfigSteps = b
           /\ phase = "prepare" => MainSteps = b + ConfigSteps
           /\ phase = "run" => MainSteps = b + 1
  <1>1. Len(Configs) \in Nat
    BY DutAssumption
  <1> DEFINE a == Len(Configs) - turn
  <1>2. a \in Nat /\ Len(Configs) + 1 - turn = a + 1 /\ Len(Configs) + 1 - (turn + 1) = a
    BY <1>1 DEF Typed
  <1>3. a * ConfigSteps \in Nat /\ (a + 1) * ConfigSteps = a * ConfigSteps + ConfigSteps
    BY <1>2, ConfigMultiples
  <1>4. phase = "prepare" => MainSteps = a * ConfigSteps + ConfigSteps
    BY <1>2, <1>3 DEF MainSteps
  <1>5. phase = "run" => MainSteps = a * ConfigSteps + 1
    BY DEF MainSteps
  <1>6. (Len(Configs) + 1 - (turn + 1)) * ConfigSteps = a * ConfigSteps
    BY <1>2
  <1> QED BY <1>3, <1>4, <1>5, <1>6

LEMMA StepsTyped ==
  ASSUME Typed, IsFiniteSet(Seeds)
  PROVE  MainSteps \in Nat /\ Cardinality(Ahead) \in Nat
  <1>1. Cardinality(Ahead) \in Nat
    BY AheadTyped DEF Ahead
  <1>2. CASE phase \in {"prepare", "run"}
    <2>1. PICK b \in Nat : MainSteps \in {b + ConfigSteps, b + 1}
      BY <1>2, ConfigsLeft
    <2>2. ConfigSteps \in Nat
      BY ConfigMultiples
    <2> QED BY <1>1, <2>1, <2>2
  <1>3. CASE phase \in {"done", "aborted"}
    BY <1>1, <1>3 DEF MainSteps
  <1> QED BY <1>1, <1>2, <1>3 DEF Typed

\* A configuration pays for all the steps of its threads.
LEMMA Paid ==
  /\ \A b, c, n, p, q \in Nat : c = 7 * n + 2 /\ q <= 7 * n => (b + 1) + q < (b + c) + p
  /\ \A b, c, n, p \in Nat : c = 7 * n + 2
       => /\ b + p < (b + c) + p /\ b + p < (b + 1) + p
          /\ 0 + p < (b + c) + p /\ 0 + p < (b + 1) + p
  OBVIOUS

LEMMA StepsShrinkStep ==
  ASSUME Typed, IsFiniteSet(Seeds), [Next]_vars, vars' # vars
  PROVE  StepsLeft' < StepsLeft
  <1>0. Typed' /\ MainSteps \in Nat /\ Cardinality(Ahead) \in Nat
        /\ Cardinality(Ahead') \in Nat /\ Cardinality(Ahead') <= 7 * Cardinality(Seeds)
        /\ Cardinality(Seeds) \in Nat
    <2>1. Ahead' \in SUBSET (Seeds \X (1 .. 7))
      BY DEF Ahead
    <2> QED BY <2>1, TypedStep, StepsTyped, AheadTyped
  <1>1. ConfigSteps \in Nat /\ ConfigSteps = 7 * Cardinality(Seeds) + 2
    BY <1>0 DEF ConfigSteps
  <1>2. StepsLeft = MainSteps + Cardinality(Ahead) /\ StepsLeft' = MainSteps' + Cardinality(Ahead')
    BY DEF StepsLeft
  <1>3. ASSUME NEW s \in Seeds, Thread(s) \/ CollectResult(s) \/ CollectError(s)
        PROVE  StepsLeft' < StepsLeft
    <2>1. MainSteps' = MainSteps
      <3>1. phase' = phase /\ turn' = turn
        BY <1>3, ThreadStep DEF CollectResult, CollectError
      <3> QED BY <3>1 DEF MainSteps, ConfigSteps
    <2>2. Cardinality(Ahead') < Cardinality(Ahead)
      BY <1>3, AheadShrinks
    <2> QED BY <1>0, <1>2, <2>1, <2>2
  <1>4. CASE SubmitSeeds
    <2>1. phase = "prepare" /\ phase' = "run" /\ turn' = turn
      BY <1>4 DEF SubmitSeeds
    <2>2. PICK b \in Nat : /\ (Len(Configs) - turn) * ConfigSteps = b
                           /\ MainSteps = b + ConfigSteps
      BY <2>1, ConfigsLeft
    <2>3. MainSteps' = (Len(Configs) - turn') * ConfigSteps + 1
      BY <2>1 DEF MainSteps, ConfigSteps
    <2>4. MainSteps' = b + 1
      BY <2>1, <2>2, <2>3
    <2>5. (b + 1) + Cardinality(Ahead') < (b + ConfigSteps) + Cardinality(Ahead)
      BY <1>0, <1>1, Paid, Zenon
    <2> QED BY <1>2, <2>2, <2>4, <2>5, Zenon
  <1>5. CASE NoSeeds \/ ConfigDone
    <2>1. phase \in {"prepare", "run"} /\ phase' \in {"done", "prepare"} /\ turn' = turn + 1
      BY <1>5 DEF NoSeeds, ConfigDone, NextConfig
    <2>2. PICK b \in Nat : /\ (Len(Configs) + 1 - (turn + 1)) * ConfigSteps = b
                           /\ phase = "prepare" => MainSteps = b + ConfigSteps
                           /\ phase = "run" => MainSteps = b + 1
      BY <2>1, ConfigsLeft
    <2>3. MainSteps' = IF phase' = "prepare" THEN (Len(Configs) + 1 - turn') * ConfigSteps ELSE 0
      BY <2>1 DEF MainSteps, ConfigSteps
    <2>4. MainSteps' \in {0, b}
      BY <2>1, <2>2, <2>3
    <2>5. Ahead' = Ahead
      <3>1. pc' = pc
        BY <1>5 DEF NoSeeds, ConfigDone
      <3> QED BY <3>1 DEF Ahead, ThreadSteps
    <2> DEFINE p == Cardinality(Ahead)
    <2>6. /\ b + p < (b + ConfigSteps) + p /\ b + p < (b + 1) + p
          /\ 0 + p < (b + ConfigSteps) + p /\ 0 + p < (b + 1) + p
      BY <1>0, <1>1, Paid, Zenon
    <2>7. MainSteps \in {b + ConfigSteps, b + 1}
      BY <2>1, <2>2
    <2>8. StepsLeft = MainSteps + p /\ StepsLeft' = MainSteps' + p
      BY <1>2, <2>5
    <2> QED BY <2>4, <2>6, <2>7, <2>8, Zenon
  <1>6. CASE ConfigLogFails
    <2>1. phase = "prepare" /\ phase' = "aborted" /\ pc' = pc
      BY <1>6 DEF ConfigLogFails
    <2>2. MainSteps' = 0
      BY <2>1 DEF MainSteps
    <2>3. Ahead' = Ahead
      BY <2>1 DEF Ahead, ThreadSteps
    <2>4. MainSteps > 0
      BY <1>0, <1>1, <2>1, ConfigsLeft
    <2> QED BY <1>0, <1>2, <2>2, <2>3, <2>4
  <1> QED BY <1>3, <1>4, <1>5, <1>6 DEF Next, Main, Finished

(* No run goes round in circles: whatever fails or times out, every step    *)
(* leaves fewer, a natural number of them.                                   *)
THEOREM DeviceRunIsFinite ==
  ASSUME IsFiniteSet(Seeds)
  PROVE  /\ Init => StepsLeft = Len(Configs) * (7 * Cardinality(Seeds) + 2)
         /\ Spec => []StepsCounted /\ StepsShrink
  <1>1. ASSUME Init PROVE StepsLeft = Len(Configs) * (7 * Cardinality(Seeds) + 2)
    <2>1. Ahead = {} /\ Cardinality({}) = 0
      BY <1>1, FS_EmptySet DEF Init, Ahead, ThreadSteps
    <2>2. Len(Configs) \in Nat /\ (Configs = <<>> => Len(Configs) = 0) /\ ConfigSteps \in Nat
      BY DutAssumption, ConfigMultiples
    <2>3. MainSteps = Len(Configs) * ConfigSteps
      <3>1. Len(Configs) + 1 - 1 = Len(Configs) /\ 0 * ConfigSteps = 0
        BY <2>2
      <3>2. CASE Configs = <<>>
        BY <1>1, <2>2, <3>1, <3>2 DEF Init, MainSteps
      <3>3. CASE Configs # <<>>
        BY <1>1, <3>1, <3>3 DEF Init, MainSteps
      <3> QED BY <3>2, <3>3
    <2>4. Len(Configs) * ConfigSteps \in Nat
      BY <2>2, ConfigMultiples
    <2> QED BY <2>1, <2>3, <2>4 DEF StepsLeft, ConfigSteps
  <1>2. Typed => StepsCounted
    <2> SUFFICES ASSUME Typed PROVE StepsCounted
      OBVIOUS
    <2> QED BY StepsTyped DEF StepsCounted, StepsLeft
  <1>3. Typed /\ [Next]_vars => [StepsLeft' < StepsLeft]_vars
    BY StepsShrinkStep
  <1>4. Spec => []StepsCounted /\ StepsShrink
    BY <1>2, <1>3, CountInvariant, PTL DEF Spec, StepsShrink
  <1> QED BY <1>1, <1>4

-----------------------------------------------------------------------------
(* The images.                                                               *)

Written == [run : Nat, whole : BOOLEAN]

FilesTyped ==
  /\ run \in Nat /\ (stage # "idle" => run # 0)
  /\ stage \in {"idle", "generate", "convert", "list"}
  /\ src \in [Names -> Written] /\ obj \in [Names -> Written]
  /\ elf \in [Names -> Written] /\ img \in [Names -> Written]
  /\ step \in [Names -> {"out", "as", "ld", "objcopy", "rm", "done"}]
  /\ written \in SUBSET Names /\ failed \in SUBSET Names

(* No file is of a run to come.                                             *)
NotAhead ==
  \A n \in Names : src[n].run <= run /\ obj[n].run <= run /\ elf[n].run <= run /\ img[n].run <= run

(* A file whose tools have worked so far is what its source says, up to the *)
(* command process_file is at.                                              *)
ChainFresh ==
  stage \in {"convert", "list"} =>
    \A n \in Names : n \notin failed /\ step[n] # "out" =>
      /\ Exists(src, n)
      /\ step[n] = "ld" => obj[n] = src[n]
      /\ step[n] = "objcopy" => elf[n] = src[n]
      /\ step[n] \in {"rm", "done"} => img[n] = src[n]

(* What this run has written is of this run, and is converted.              *)
WrittenNow ==
  /\ stage # "idle" => \A n \in written : src[n].run = run
  /\ stage \in {"convert", "list"} => \A n \in written : step[n] # "out"
  /\ stage = "list" => Converted

LEMMA TypedInit == ImagesInit => FilesTyped
  BY DEF ImagesInit, FilesTyped, Written, Absent

LEMMA RanTyped ==
  ASSUME NEW n \in Names, NEW in \in [Names -> Written], NEW out \in [Names -> Written],
         NEW new, Ran(n, in, out, new), failed \in SUBSET Names
  PROVE  new \in [Names -> Written] /\ failed' \in SUBSET Names
  <1>1. Absent \in Written
    BY DEF Absent, Written
  <1>2. \A v \in Written : [out EXCEPT ![n] = v] \in [Names -> Written]
    OBVIOUS
  <1> QED BY <1>1, <1>2 DEF Ran

LEMMA FilesTypedStep == FilesTyped /\ [ImagesNext]_imagesVars => FilesTyped'
  <1> SUFFICES ASSUME FilesTyped, [ImagesNext]_imagesVars PROVE FilesTyped'
    OBVIOUS
  <1> USE DEF FilesTyped
  <1>1. CASE StartRun \/ StartConversion \/ ConversionDone \/ ListImages \/ Crash
    BY <1>1 DEF StartRun, StartConversion, ConversionDone, ListImages, Crash, files
  <1>2. CASE ClearDirectory
    BY <1>2 DEF ClearDirectory, Absent, Written
  <1>3. ASSUME NEW n \in Names, WriteSeed(n) PROVE FilesTyped'
    <2>1. \A w \in BOOLEAN : [run |-> run, whole |-> w] \in Written
      BY DEF Written
    <2> QED BY <1>3, <2>1 DEF WriteSeed
  <1>4. ASSUME NEW n \in Names, Assemble(n) PROVE FilesTyped'
    <2>1. obj' \in [Names -> Written] /\ failed' \in SUBSET Names
      BY <1>4, RanTyped DEF Assemble
    <2> QED BY <1>4, <2>1 DEF Assemble
  <1>5. ASSUME NEW n \in Names, Link(n) PROVE FilesTyped'
    <2>1. elf' \in [Names -> Written] /\ failed' \in SUBSET Names
      BY <1>5, RanTyped DEF Link
    <2> QED BY <1>5, <2>1 DEF Link
  <1>6. ASSUME NEW n \in Names, ObjCopy(n) PROVE FilesTyped'
    <2>1. img' \in [Names -> Written] /\ failed' \in SUBSET Names
      BY <1>6, RanTyped DEF ObjCopy
    <2> QED BY <1>6, <2>1 DEF ObjCopy
  <1>7. ASSUME NEW n \in Names, RemoveObject(n) \/ ToolMissing(n) PROVE FilesTyped'
    <2>1. Absent \in Written
      BY DEF Absent, Written
    <2> QED BY <1>7, <2>1 DEF RemoveObject, ToolMissing
  <1>8. CASE UNCHANGED imagesVars
    BY <1>8 DEF imagesVars, files
  <1> QED BY <1>1, <1>2, <1>3, <1>4, <1>5, <1>6, <1>7, <1>8 DEF ImagesNext

(* What a command does to the files: its output is its input, or as before, *)
(* or gone; when nothing failed it is its input.                            *)
LEMMA RanResult ==
  ASSUME NEW n \in Names, NEW in \in [Names -> Written], NEW out \in [Names -> Written],
         NEW new, Ran(n, in, out, new)
  PROVE  /\ \A m \in Names : m # n => new[m] = out[m]
         /\ new[n] = out[n] \/ new[n] = Absent \/ (Exists(in, n) /\ new[n] = in[n])
         /\ n \notin failed' => Exists(in, n) /\ new[n] = in[n]
         /\ failed \subseteq failed' /\ failed' \subseteq failed \cup {n}
  BY DEF Ran

\* Both of the above for one name.
OrderedAt(n) ==
  /\ src[n].run <= run /\ obj[n].run <= run /\ elf[n].run <= run /\ img[n].run <= run
  /\ NotNewer(img, src, n) /\ NotNewer(elf, src, n) /\ NotNewer(obj, src, n)
  /\ NotNewer(elf, obj, n) /\ NotNewer(img, obj, n) /\ NotNewer(img, elf, n)

LEMMA OrderStep ==
  FilesTyped /\ NotAhead /\ StagesOrdered /\ [ImagesNext]_imagesVars => NotAhead' /\ StagesOrdered'
  <1> SUFFICES ASSUME FilesTyped, NotAhead, StagesOrdered, [ImagesNext]_imagesVars, NEW m \in Names
               PROVE OrderedAt(m)'
    BY DEF NotAhead, StagesOrdered, OrderedAt
  <1>a. Absent.run = 0
    BY DEF Absent
  <1>b. /\ src[m].run \in Nat /\ obj[m].run \in Nat
        /\ elf[m].run \in Nat /\ img[m].run \in Nat
    BY DEF FilesTyped, Written
  <1>c. OrderedAt(m)
    BY DEF NotAhead, StagesOrdered, OrderedAt
  <1>d. run \in Nat
    BY DEF FilesTyped
  <1> USE <1>a, <1>b, <1>c, <1>d DEF OrderedAt, NotNewer, Exists
  <1>1. CASE StartRun
    BY <1>1 DEF StartRun, files
  <1>2. CASE StartConversion \/ ConversionDone \/ ListImages \/ Crash
    BY <1>2 DEF StartConversion, ConversionDone, ListImages, Crash, files
  <1>3. CASE ClearDirectory
    BY <1>3 DEF ClearDirectory
  <1>4. ASSUME NEW n \in Names, WriteSeed(n) PROVE OrderedAt(m)'
    <2>1. src'[m] = src[m] \/ src'[m].run = run
      BY <1>4 DEF WriteSeed, FilesTyped
    <2> QED BY <1>4, <2>1 DEF WriteSeed
  <1>5. ASSUME NEW n \in Names, Assemble(n) PROVE OrderedAt(m)'
    <2>1. obj'[m] = obj[m] \/ obj'[m] = Absent \/ (Exists(src, m) /\ obj'[m] = src[m])
      BY <1>5, RanResult DEF Assemble, FilesTyped
    <2>2. UNCHANGED <<run, src, elf, img>>
      BY <1>5 DEF Assemble
    <2> QED BY <2>1, <2>2
  <1>6. ASSUME NEW n \in Names, Link(n) PROVE OrderedAt(m)'
    <2>1. elf'[m] = elf[m] \/ elf'[m] = Absent \/ (Exists(obj, m) /\ elf'[m] = obj[m])
      BY <1>6, RanResult DEF Link, FilesTyped
    <2>2. UNCHANGED <<run, src, obj, img>>
      BY <1>6 DEF Link
    <2> QED BY <2>1, <2>2
  <1>7. ASSUME NEW n \in Names, ObjCopy(n) PROVE OrderedAt(m)'
    <2>1. img'[m] = img[m] \/ img'[m] = Absent \/ (Exists(elf, m) /\ img'[m] = elf[m])
      BY <1>7, RanResult DEF ObjCopy, FilesTyped
    <2>2. UNCHANGED <<run, src, obj, elf>>
      BY <1>7 DEF ObjCopy
    <2> QED BY <2>1, <2>2
  <1>8. ASSUME NEW n \in Names, RemoveObject(n) PROVE OrderedAt(m)'
    <2>1. obj'[m] = obj[m] \/ obj'[m] = Absent
      BY <1>8 DEF RemoveObject, FilesTyped
    <2> QED BY <1>8, <2>1 DEF RemoveObject
  <1>9. CASE (\E n \in Names : ToolMissing(n)) \/ UNCHANGED imagesVars
    BY <1>9 DEF ToolMissing, imagesVars, files
  <1> QED BY <1>1, <1>2, <1>3, <1>4, <1>5, <1>6, <1>7, <1>8, <1>9 DEF ImagesNext

LEMMA ChainStep == FilesTyped /\ ChainFresh /\ [ImagesNext]_imagesVars => ChainFresh'
  <1> SUFFICES ASSUME FilesTyped, ChainFresh, [ImagesNext]_imagesVars PROVE ChainFresh'
    OBVIOUS
  <1> USE DEF FilesTyped, ChainFresh, Exists
  <1>1. CASE StartRun \/ Crash \/ ClearDirectory
    BY <1>1 DEF StartRun, Crash, ClearDirectory, files
  <1>2. CASE StartConversion
    BY <1>2 DEF StartConversion
  <1>3. CASE ConversionDone \/ ListImages
    BY <1>3 DEF ConversionDone, ListImages
  <1>4. ASSUME NEW n \in Names, WriteSeed(n) PROVE ChainFresh'
    BY <1>4 DEF WriteSeed
  <1>5. ASSUME NEW n \in Names, Assemble(n) PROVE ChainFresh'
    <2>1. /\ \A m \in Names : m # n => obj'[m] = obj[m] /\ step'[m] = step[m]
          /\ n \notin failed' => Exists(src, n) /\ obj'[n] = src[n]
          /\ failed \subseteq failed' /\ step'[n] = "ld"
          /\ UNCHANGED <<stage, src, elf, img>>
      BY <1>5, RanResult DEF Assemble
    <2> QED BY <2>1, <1>5 DEF Assemble
  <1>6. ASSUME NEW n \in Names, Link(n) PROVE ChainFresh'
    <2>1. /\ \A m \in Names : m # n => elf'[m] = elf[m] /\ step'[m] = step[m]
          /\ n \notin failed' => Exists(obj, n) /\ elf'[n] = obj[n]
          /\ failed \subseteq failed' /\ step'[n] = "objcopy" /\ step[n] = "ld"
          /\ UNCHANGED <<stage, src, obj, img>>
      BY <1>6, RanResult DEF Link
    <2> QED BY <2>1, <1>6 DEF Link
  <1>7. ASSUME NEW n \in Names, ObjCopy(n) PROVE ChainFresh'
    <2>1. /\ \A m \in Names : m # n => img'[m] = img[m] /\ step'[m] = step[m]
          /\ n \notin failed' => Exists(elf, n) /\ img'[n] = elf[n]
          /\ failed \subseteq failed' /\ step'[n] = "rm" /\ step[n] = "objcopy"
          /\ UNCHANGED <<stage, src, obj, elf>>
      BY <1>7, RanResult DEF ObjCopy
    <2> QED BY <2>1, <1>7 DEF ObjCopy
  <1>8. ASSUME NEW n \in Names, RemoveObject(n) PROVE ChainFresh'
    <2>1. /\ \A m \in Names : m # n => obj'[m] = obj[m] /\ step'[m] = step[m]
          /\ step'[n] = "done" /\ step[n] = "rm"
          /\ UNCHANGED <<stage, src, elf, img, failed>>
      BY <1>8 DEF RemoveObject
    <2> QED BY <2>1
  <1>9. ASSUME NEW n \in Names, ToolMissing(n) PROVE ChainFresh'
    <2>1. /\ \A m \in Names : m # n => step'[m] = step[m]
          /\ failed' = failed \cup {n}
          /\ UNCHANGED <<stage, src, obj, elf, img>>
      BY <1>9 DEF ToolMissing
    <2> QED BY <2>1
  <1>10. CASE UNCHANGED imagesVars
    BY <1>10 DEF imagesVars, files
  <1> QED BY <1>1, <1>2, <1>3, <1>4, <1>5, <1>6, <1>7, <1>8, <1>9, <1>10 DEF ImagesNext

LEMMA WrittenStep == FilesTyped /\ WrittenNow /\ [ImagesNext]_imagesVars => WrittenNow'
  <1> SUFFICES ASSUME FilesTyped, WrittenNow, [ImagesNext]_imagesVars PROVE WrittenNow'
    OBVIOUS
  <1> USE DEF FilesTyped, WrittenNow
  <1>1. CASE StartRun \/ Crash \/ ClearDirectory
    BY <1>1 DEF StartRun, Crash, ClearDirectory, files
  <1>2. CASE StartConversion
    BY <1>2 DEF StartConversion, Exists, Absent
  <1>3. CASE ConversionDone \/ ListImages
    BY <1>3 DEF ConversionDone, ListImages, Converted
  <1>4. ASSUME NEW n \in Names, WriteSeed(n) PROVE WrittenNow'
    BY <1>4 DEF WriteSeed
  <1>5. ASSUME NEW n \in Names, Assemble(n) \/ Link(n) \/ ObjCopy(n) \/ RemoveObject(n) \/ ToolMissing(n)
        PROVE WrittenNow'
    BY <1>5 DEF Assemble, Link, ObjCopy, RemoveObject, ToolMissing
  <1>6. CASE UNCHANGED imagesVars
    BY <1>6 DEF imagesVars, files, Converted
  <1> QED BY <1>1, <1>2, <1>3, <1>4, <1>5, <1>6 DEF ImagesNext

LEMMA ImagesInvariant ==
  ImagesSpec => [](FilesTyped /\ NotAhead /\ StagesOrdered /\ ChainFresh /\ WrittenNow)
  <1>1. ImagesInit => NotAhead /\ StagesOrdered /\ ChainFresh /\ WrittenNow
    BY DEF ImagesInit, NotAhead, StagesOrdered, NotNewer, Exists, ChainFresh, WrittenNow, Absent
  <1> QED BY <1>1, TypedInit, FilesTypedStep, OrderStep, ChainStep, WrittenStep, PTL DEF ImagesSpec

(* No file is older than one made from it, whichever tools failed and       *)
(* wherever earlier runs were killed.                                       *)
THEOREM StagesStayOrdered == ImagesSpec => []StagesOrdered
  BY ImagesInvariant, PTL

(* A seed whose tools all worked in this run is listed as it was written.   *)
THEOREM FreshWhenWorked == ImagesSpec => []WorkedIsFresh
  <1>1. ChainFresh => WorkedIsFresh
    BY DEF ChainFresh, WorkedIsFresh, Exists
  <1> QED BY <1>1, ImagesInvariant, PTL

(* Every seed this run wrote and could convert is among the images tested.  *)
THEOREM EveryNewSeedTested == ImagesSpec => NewSeedsTested
  <1>1. FilesTyped /\ ChainFresh /\ WrittenNow /\ [ImagesNext]_imagesVars
          => [ListImages => \A n \in written \ failed : n \in tested' /\ img[n].run = run]_imagesVars
    BY DEF FilesTyped, ChainFresh, WrittenNow, Converted, ListImages, Exists
  <1> QED BY <1>1, ImagesInvariant, PTL DEF ImagesSpec, NewSeedsTested
=============================================================================
