------------------------------- MODULE DutRun -------------------------------
(* executor/dut_executor.py, with the loggers of config/logger_config.py:   *)
(* the seed configurations run one after the other, the seeds of each in a  *)
(* pool of threads.  A seed's logger is found by its name, and its name is  *)
(* made of the configuration's and the seed file's base name, so that two   *)
(* seeds found in different directories (the search is recursive) share     *)
(* one logger and one log file.                                             *)
EXTENDS Naturals, Sequences, FiniteSets

CONSTANTS
  Seeds,       \* seed files
  Configs,     \* sequence of disjoint sets of seeds: what each configuration finds
  Log,         \* Log[s]: the name of a seed's logger and of its log file
  Threads,     \* dut_target.threads
  Broken       \* calls that may fail: "seedlog", "configlog", "prepare"

ASSUME DutAssumption ==
  /\ Configs \in Seq(SUBSET Seeds)
  /\ \A i, j \in 1..Len(Configs) : i # j => Configs[i] \cap Configs[j] = {}
  /\ DOMAIN Log = Seeds
  /\ Threads \in Nat \ {0}
  /\ Broken \subseteq {"seedlog", "configlog", "prepare"}

VARIABLES
  turn,        \* the configuration run_dut_tests is at
  phase,       \* "prepare", "run", "done" or "aborted"
  pc,          \* where each seed's run_single_seed is
  outcome,     \* its result type
  attached,    \* seeds whose handler is in the list of their logger
  stream,      \* the file of the handler each seed opened
  offset,      \* where that handler writes next, in lines
  file,        \* the log files: sequences of lines
  results,     \* total_results
  disturbed    \* history: seeds whose log another seed opened while or after they wrote it

vars == <<turn, phase, pc, outcome, attached, stream, offset, file, results, disturbed>>

Logs == {Log[s] : s \in Seeds}
Lines == {"begin", "output", "status", "timeout", "error"}
Hole == <<"nobody", "hole">>    \* what a write past the end of a truncated file leaves before it

TypeOK ==
  /\ turn \in 1..(Len(Configs) + 1)
  /\ phase \in {"prepare", "run", "done", "aborted"}
  /\ pc \in [Seeds -> {"none", "queued", "open", "begun", "ran", "noted", "cleaned",
                       "returned", "failed", "collected"}]
  /\ outcome \in [Seeds -> {"none", "SUCCESS", "FAILURE", "TIMEOUT", "ERROR"}]
  /\ attached \subseteq Seeds
  /\ stream \in [Seeds -> {"none", "open", "closed"}]
  /\ offset \in [Seeds -> 0..(3 * Cardinality(Seeds))]
  /\ file \in [Logs -> Seq((Seeds \X Lines) \cup {Hole})]
  /\ results \in Seq(Seeds)
  /\ disturbed \subseteq Seeds

Init ==
  /\ turn = 1
  /\ phase = IF Configs = <<>> THEN "done" ELSE "prepare"
  /\ pc = [s \in Seeds |-> "none"]
  /\ outcome = [s \in Seeds |-> "none"]
  /\ attached = {}
  /\ stream = [s \in Seeds |-> "none"]
  /\ offset = [s \in Seeds |-> 0]
  /\ file = [l \in Logs |-> <<>>]
  /\ results = <<>>
  /\ disturbed = {}

-----------------------------------------------------------------------------
(* Loggers.                                                                 *)

Handlers(s) == {h \in attached : Log[h] = Log[s]}

\* what the handlers in W leave of a file when each writes the entry at its own position
Overlay(old, W, entry) ==
  LET ends == {Len(old)} \cup {offset[h] + 1 : h \in W}
      len == CHOOSE n \in ends : \A m \in ends : m <= n
  IN [i \in 1..len |-> IF \E h \in W : offset[h] = i - 1 THEN entry
                       ELSE IF i <= Len(old) THEN old[i] ELSE Hole]

\* every handler of the logger writes the line
Emit(s, line) ==
  LET W == {h \in Handlers(s) : stream[h] = "open"}
  IN /\ file' = [file EXCEPT ![Log[s]] = Overlay(@, W, <<s, line>>)]
     /\ offset' = [h \in Seeds |-> IF h \in W THEN offset[h] + 1 ELSE offset[h]]

\* Mutant of CloseAll: the cleanup walks over every logger
CloseAllLoggers(s) ==
  /\ attached' = {}
  /\ stream' = [h \in Seeds |-> IF h \in attached THEN "closed" ELSE stream[h]]

\* the finally block: all handlers of the logger, whoever attached them
CloseAll(s) ==
  /\ attached' = attached \ Handlers(s)
  /\ stream' = [h \in Seeds |-> IF h \in Handlers(s) THEN "closed" ELSE stream[h]]

-----------------------------------------------------------------------------
(* The main thread.                                                         *)

NextConfig ==
  /\ turn' = turn + 1
  /\ phase' = IF turn = Len(Configs) THEN "done" ELSE "prepare"

SubmitSeeds ==
  /\ phase = "prepare" /\ Configs[turn] # {}
  /\ pc' = [s \in Seeds |-> IF s \in Configs[turn] THEN "queued" ELSE pc[s]]
  /\ phase' = "run"
  /\ UNCHANGED <<turn, outcome, attached, stream, offset, file, results, disturbed>>

\* no seed file, or an exception while they are collected or generated
NoSeeds ==
  /\ phase = "prepare" /\ (Configs[turn] = {} \/ "prepare" \in Broken)
  /\ NextConfig
  /\ UNCHANGED <<pc, outcome, attached, stream, offset, file, results, disturbed>>

\* the configuration's own logger cannot be opened: nobody catches it
ConfigLogFails ==
  /\ phase = "prepare" /\ "configlog" \in Broken
  /\ phase' = "aborted"
  /\ UNCHANGED <<turn, pc, outcome, attached, stream, offset, file, results, disturbed>>

CollectResult(s) ==
  /\ phase = "run" /\ pc[s] = "returned"
  /\ pc' = [pc EXCEPT ![s] = "collected"]
  /\ results' = Append(results, s)
  /\ UNCHANGED <<turn, phase, outcome, attached, stream, offset, file, disturbed>>

\* Mutant of CollectError: a seed without a result is counted too
CollectErrorCounted(s) ==
  /\ phase = "run" /\ pc[s] = "failed"
  /\ pc' = [pc EXCEPT ![s] = "collected"]
  /\ results' = Append(results, s)
  /\ UNCHANGED <<turn, phase, outcome, attached, stream, offset, file, disturbed>>

\* future.result() raises: the seed has no result
CollectError(s) ==
  /\ phase = "run" /\ pc[s] = "failed"
  /\ pc' = [pc EXCEPT ![s] = "collected"]
  /\ UNCHANGED <<turn, phase, outcome, attached, stream, offset, file, results, disturbed>>

\* Mutant of ConfigDone: the main thread waits for a result of every seed, errors included
ConfigDoneWaits ==
  /\ phase = "run" /\ \A s \in Configs[turn] : pc[s] = "collected" /\ outcome[s] # "none"
  /\ NextConfig
  /\ UNCHANGED <<pc, outcome, attached, stream, offset, file, results, disturbed>>

ConfigDone ==
  /\ phase = "run" /\ \A s \in Configs[turn] : pc[s] = "collected"
  /\ NextConfig
  /\ UNCHANGED <<pc, outcome, attached, stream, offset, file, results, disturbed>>

-----------------------------------------------------------------------------
(* The threads: run_single_seed.                                            *)

Busy == {s \in Seeds : pc[s] \notin {"none", "queued", "returned", "failed", "collected"}}

\* create_test_logger: the file is truncated, the handler appended to the list
OpenLog(s) ==
  /\ pc[s] = "queued" /\ Cardinality(Busy) < Threads
  /\ pc' = [pc EXCEPT ![s] = "open"]
  /\ file' = [file EXCEPT ![Log[s]] = <<>>]
  /\ stream' = [stream EXCEPT ![s] = "open"]
  /\ offset' = [offset EXCEPT ![s] = 0]
  /\ attached' = attached \cup {s}
  /\ LET sharing == {t \in Seeds \ {s} : Log[t] = Log[s] /\ stream[t] # "none"}
     IN disturbed' = disturbed \cup sharing
                       \cup (IF \E t \in sharing : stream[t] = "open" \/ t \in Busy THEN {s} ELSE {})
  /\ UNCHANGED <<turn, phase, outcome, results>>

\* it raises outside the try
OpenLogFails(s) ==
  /\ pc[s] = "queued" /\ Cardinality(Busy) < Threads /\ "seedlog" \in Broken
  /\ pc' = [pc EXCEPT ![s] = "failed"]
  /\ UNCHANGED <<turn, phase, outcome, attached, stream, offset, file, results, disturbed>>

Launch(s) ==
  /\ pc[s] = "open"
  /\ Emit(s, "begin")
  /\ pc' = [pc EXCEPT ![s] = "begun"]
  /\ UNCHANGED <<turn, phase, outcome, attached, stream, results, disturbed>>

\* the device ends: its output and, next, its status are written
Output(s) ==
  /\ pc[s] = "begun"
  /\ \E code \in {"SUCCESS", "FAILURE"} : outcome' = [outcome EXCEPT ![s] = code]
  /\ Emit(s, "output")
  /\ pc' = [pc EXCEPT ![s] = "ran"]
  /\ UNCHANGED <<turn, phase, attached, stream, results, disturbed>>

Status(s) ==
  /\ pc[s] = "ran"
  /\ Emit(s, "status")
  /\ pc' = [pc EXCEPT ![s] = "noted"]
  /\ UNCHANGED <<turn, phase, outcome, attached, stream, results, disturbed>>

\* after 300 seconds run() kills the shell
Timeout(s) ==
  /\ pc[s] = "begun"
  /\ outcome' = [outcome EXCEPT ![s] = "TIMEOUT"]
  /\ Emit(s, "timeout")
  /\ pc' = [pc EXCEPT ![s] = "noted"]
  /\ UNCHANGED <<turn, phase, attached, stream, results, disturbed>>

\* the command cannot be started, or anything else raises
RunError(s) ==
  /\ pc[s] = "begun"
  /\ outcome' = [outcome EXCEPT ![s] = "ERROR"]
  /\ Emit(s, "error")
  /\ pc' = [pc EXCEPT ![s] = "noted"]
  /\ UNCHANGED <<turn, phase, attached, stream, results, disturbed>>

Cleanup(s) ==
  /\ pc[s] = "noted"
  /\ CloseAll(s)
  /\ pc' = [pc EXCEPT ![s] = "cleaned"]
  /\ UNCHANGED <<turn, phase, outcome, offset, file, results, disturbed>>

\* the end of the with block: the seed's own handler
Return(s) ==
  /\ pc[s] = "cleaned"
  /\ attached' = attached \ {s}
  /\ stream' = [stream EXCEPT ![s] = "closed"]
  /\ pc' = [pc EXCEPT ![s] = "returned"]
  /\ UNCHANGED <<turn, phase, outcome, offset, file, results, disturbed>>

Finished == phase \in {"done", "aborted"} /\ UNCHANGED vars

Main == SubmitSeeds \/ NoSeeds \/ ConfigLogFails \/ ConfigDone
        \/ \E s \in Seeds : CollectResult(s) \/ CollectError(s)

Thread(s) == OpenLog(s) \/ OpenLogFails(s) \/ Launch(s) \/ Output(s) \/ Status(s)
             \/ Timeout(s) \/ RunError(s) \/ Cleanup(s) \/ Return(s)

Next == Main \/ (\E s \in Seeds : Thread(s)) \/ Finished

\* a thread goes on when it can, and a device ends or is timed out
Spec == Init /\ [][Next]_vars /\ WF_vars(Main) /\ \A s \in Seeds : WF_vars(Thread(s))

-----------------------------------------------------------------------------
(* Properties.                                                              *)

Transcript(s) ==
  CASE outcome[s] = "TIMEOUT" -> <<<<s, "begin">>, <<s, "timeout">>>>
    [] outcome[s] = "ERROR"   -> <<<<s, "begin">>, <<s, "error">>>>
    [] OTHER                  -> <<<<s, "begin">>, <<s, "output">>, <<s, "status">>>>

Through(s) == pc[s] \in {"returned", "collected"} /\ outcome[s] # "none"

(* The log of a seed that ran is whole and holds nothing else, unless a     *)
(* seed of the same log name ran at the same time or later: what other      *)
(* threads do with their loggers does not touch it.                         *)
UndisturbedLogWhole ==
  \A s \in Seeds : Through(s) /\ s \notin disturbed => file[Log[s]] = Transcript(s)

(* The summary's numbers: when the run is over every seed of a configuration *)
(* that was not skipped has one result, but for those whose logger could    *)
(* not be opened, and nothing else was counted.                             *)
EverySeedCounted ==
  phase = "done" =>
    \A s \in Seeds :
      Cardinality({i \in 1..Len(results) : results[i] = s})
        = IF pc[s] = "collected" /\ outcome[s] # "none" THEN 1 ELSE 0

(* No log of a finished configuration is written again by a thread of it:   *)
(* when a configuration is over all the handlers its seeds opened are       *)
(* closed and none is left in a logger's list for the next one to write to. *)
HandlersReleased ==
  phase # "run" => attached = {} /\ \A s \in Seeds : stream[s] # "open"

(* The run ends, if only with fewer results, whatever fails.                *)
Terminates == <>(phase \in {"done", "aborted"})

(* config/logger_config.py:67 calls the logger "dedicated": when a seed     *)
(* returns, its log is its own and whole.  The code does not keep this.     *)
DedicatedLog ==
  \A s \in Seeds : pc[s] = "returned" => file[Log[s]] = Transcript(s)

=============================================================================
