--------------------------- MODULE BenchmarkCohort ---------------------------
(***************************************************************************)
(* A native benchmark cohort: the engine that runs one cold, then the      *)
(* warmup and then the measured attempts and keeps their journal           *)
(* (pvlc-bench-collector/src/cohort.rs), the collection of one sample      *)
(* (pvlc-bench-collector/src/lib.rs), and the assembler that validates a   *)
(* complete journal once more (pvlc-bench/src/assembly.rs, lib.rs).  The   *)
(* static admission has accepted the plan.                                 *)
(*                                                                         *)
(* Of a sample the model keeps its slot and its durations: the wall time,  *)
(* the queue's part of it and the pair of GPU ticks, of a period of one    *)
(* nanosecond.  Every other fact of a sample agrees with the plan or not.  *)
(***************************************************************************)
EXTENDS Integers, Sequences

CONSTANTS Warmup, Measured,     \* the counts of the protocol
          MaxNs                 \* u64::MAX

ProtocolIsValid ==
    Warmup \in Nat /\ Measured \in Nat /\ MaxNs \in Nat /\ MaxNs > 1

Attempts == 1 + Warmup + Measured
Nanoseconds == 0..MaxNs
NoPair == <<>>

VARIABLES
    pc,             \* where the engine is in the current attempt
    timestampQuery, \* the runtime's capability, which the passport repeats
    journal,        \* attempt_log
    pairs,          \* timestamp_pairs: the pairs of the samples so far
    lastPair,       \* the native runtime's last_timestamp
    execution,      \* the execution being collected: its pair, whether the
                    \* runtime calls the pair fresh, and its wall time
    failure         \* the code that ended the cohort, or "none"

vars == <<pc, timestampQuery, journal, pairs, lastPair, execution, failure>>

Pair == Nanoseconds \X Nanoseconds
NoExecution == [pair |-> NoPair, fresh |-> TRUE, wall |-> 0]

Code == {"environment_probe_failed", "clock_failed", "non_monotonic_clock",
         "execution_failed", "validation_failed", "fact_mismatch",
         "invalid_queue_observation", "invalid_timestamp", "stale_timestamp",
         "assembly_rejected"}

TypeOK ==
    /\ pc \in {"probe", "start", "execute", "validate", "stop", "probe after",
               "admit", "assemble", "succeeded", "failed"}
    /\ timestampQuery \in BOOLEAN
    /\ Len(journal) \in 0..Attempts
    /\ pairs \subseteq Pair
    /\ lastPair \in Pair \cup {NoPair}
    /\ execution.pair \in Pair \cup {NoPair}
    /\ failure \in Code \cup {"none"}

Init ==
    /\ pc = "probe"
    /\ timestampQuery \in BOOLEAN
    /\ journal = <<>>
    /\ pairs = {}
    /\ lastPair = NoPair
    /\ execution = NoExecution
    /\ failure = "none"
-----------------------------------------------------------------------------
(* schedule_identity: the cohort and the slot of a sequence number.        *)
(* Mutant: the last warmup attempt counts as the first measured one.       *)
IdentityEarly(sequence) ==
    IF sequence = 0 THEN [cohort |-> "cold", slot |-> 0]
    ELSE IF sequence < Warmup THEN [cohort |-> "warmup", slot |-> sequence - 1]
    ELSE [cohort |-> "measured", slot |-> sequence - Warmup]
Identity(sequence) ==
    IF sequence = 0 THEN [cohort |-> "cold", slot |-> 0]
    ELSE IF sequence <= Warmup THEN [cohort |-> "warmup", slot |-> sequence - 1]
    ELSE [cohort |-> "measured", slot |-> sequence - Warmup - 1]

Attempt(code, sample) ==
    [sequence |-> Len(journal), cohort |-> Identity(Len(journal)).cohort,
     slot |-> Identity(Len(journal)).slot, code |-> code, sample |-> sample]
NoSample == [index |-> 0, wall |-> 0, queue |-> 0, pair |-> NoPair]

(* A failed attempt ends the cohort.  Mutant: it is not journalled.        *)
FailedUnjournalled(code) ==
    /\ pc' = "failed"
    /\ failure' = code
    /\ UNCHANGED <<timestampQuery, journal, pairs>>
Failed(code) ==
    /\ pc' = "failed"
    /\ failure' = code
    /\ journal' = Append(journal, Attempt(code, NoSample))
    /\ UNCHANGED <<timestampQuery, pairs>>

Continues(stage) ==
    /\ pc' = stage
    /\ UNCHANGED <<timestampQuery, journal, pairs, failure>>

(* collect_native_sample_with_clock: a probe of the environment, the       *)
(* clock, the execution, its validation, the clock and the probe again.    *)
Probe ==
    /\ pc \in {"probe", "probe after"}
    /\ \/ Continues(IF pc = "probe" THEN "start" ELSE "admit")
       \/ Failed("environment_probe_failed")
    /\ UNCHANGED <<lastPair, execution>>

StartClock ==
    /\ pc = "start"
    /\ Continues("execute") \/ Failed("clock_failed")
    /\ UNCHANGED <<lastPair, execution>>

(* An attempt that fails while the clock runs closes the clock first. *)
FailedTimed(code) == Failed(code) \/ Failed("clock_failed")

(* accept_fresh_timestamp: a pair is fresh when it is one and is not the   *)
(* last fresh one.                                                         *)
IsInterval(pair) == pair # NoPair /\ pair[1] # 0 /\ pair[2] > pair[1]
IsFresh(pair) == IsInterval(pair) /\ pair # lastPair

Execute ==
    /\ pc = "execute"
    /\ \/ \E pair \in Pair \cup {NoPair} :
             /\ execution' = [pair |-> pair, fresh |-> IsFresh(pair),
                              wall |-> 0]
             /\ lastPair' = IF IsFresh(pair) THEN pair ELSE lastPair
             /\ Continues("validate")
       \/ FailedTimed("execution_failed") /\ UNCHANGED <<lastPair, execution>>

Validate ==
    /\ pc = "validate"
    /\ Continues("stop") \/ FailedTimed("validation_failed")
    /\ UNCHANGED <<lastPair, execution>>

StopClock(wall) ==
    /\ pc = "stop"
    /\ execution' = [execution EXCEPT !.wall = wall]
    /\ UNCHANGED lastPair
    /\ \/ Failed("clock_failed")
       \/ /\ wall \in {0, MaxNs}
          /\ Failed("non_monotonic_clock")
       \/ /\ wall \notin {0, MaxNs}
          /\ Continues("probe after")

(* exact_gpu_timestamp_duration_ns_v1 and map_timestamp. *)
IsTimed(pair, wall) == IsInterval(pair) /\ pair[2] - pair[1] <= wall
TimestampAdmitted ==
    IF timestampQuery
    THEN /\ execution.fresh
         /\ IsTimed(execution.pair, execution.wall)
    ELSE execution.pair = NoPair

(* The pair was not seen in an earlier sample.  Mutant: only the runtime's *)
(* own test of freshness is made.                                          *)
IsNewUnchecked(pair) == TRUE
IsNew(pair) == pair = NoPair \/ pair \notin pairs

(* Every attempt has been made.  Mutant: one more than planned.            *)
IsLastOpen(count) == count > Attempts
IsLast(count) == count = Attempts

(* admit_sample, and what the engine does with the sample it returns.      *)
Admit(queue) ==
    /\ pc = "admit"
    /\ execution' = NoExecution
    /\ UNCHANGED lastPair
    /\ \/ Failed("fact_mismatch")
       \/ /\ queue \notin 1..execution.wall
          /\ Failed("invalid_queue_observation")
       \/ /\ queue \in 1..execution.wall
          /\ ~TimestampAdmitted
          /\ Failed("invalid_timestamp")
       \/ /\ queue \in 1..execution.wall
          /\ TimestampAdmitted
          /\ IF ~IsNew(execution.pair) THEN Failed("stale_timestamp")
             ELSE
             /\ journal' = Append(journal, Attempt("passed",
                   [index |-> Identity(Len(journal)).slot,
                    wall |-> execution.wall, queue |-> queue,
                    pair |-> execution.pair]))
             /\ pairs' = IF execution.pair = NoPair THEN pairs
                         ELSE pairs \cup {execution.pair}
             /\ pc' = IF IsLast(Len(journal) + 1) THEN "assemble"
                      ELSE "probe"
             /\ UNCHANGED <<timestampQuery, failure>>
-----------------------------------------------------------------------------
(* The assembler: the layout of the journal, then each sample against the  *)
(* plan, and the timestamp pairs of all of them.                           *)
LayoutValid ==
    /\ Len(journal) = Attempts
    /\ \A p \in 0..Attempts - 1 :
          LET attempt == journal[p + 1]
              slot == IF p = 0 THEN 0
                      ELSE IF p <= Warmup THEN p - 1 ELSE p - 1 - Warmup IN
          /\ attempt.code = "passed"
          /\ attempt.sequence = p
          /\ attempt.cohort = IF p = 0 THEN "cold"
                              ELSE IF p <= Warmup THEN "warmup" ELSE "measured"
          /\ attempt.slot = slot
          /\ attempt.sample.index = slot

SamplesValid ==
    \A i \in 1..Len(journal) :
        LET sample == journal[i].sample IN
        /\ sample.wall \notin {0, MaxNs}
        /\ sample.queue \in 1..sample.wall
        /\ IF sample.pair = NoPair THEN ~timestampQuery
           ELSE /\ timestampQuery
                /\ IsTimed(sample.pair, sample.wall)
                /\ \A k \in 1..(i - 1) : journal[k].sample.pair # sample.pair

Assemble ==
    /\ pc = "assemble"
    /\ IF LayoutValid /\ SamplesValid
       THEN pc' = "succeeded" /\ UNCHANGED failure
       ELSE pc' = "failed" /\ failure' = "assembly_rejected"
    /\ UNCHANGED <<timestampQuery, journal, pairs, lastPair, execution>>

Next ==
    \/ Probe
    \/ StartClock
    \/ Execute
    \/ Validate
    \/ \E wall \in Nanoseconds : StopClock(wall)
    \/ \E queue \in Nanoseconds : Admit(queue)
    \/ Assemble

Spec == Init /\ [][Next]_vars
-----------------------------------------------------------------------------
(* The assembler never rejects the journal of a cohort whose attempts have *)
(* all passed: the two validations of samples, schedule and timestamps     *)
(* agree, and no physical work is lost at the end.                         *)
JournalAssembles == failure # "assembly_rejected"

(* A failure carries every attempt that was started, in the order of the   *)
(* schedule: all but the last have passed, and the last one failed with    *)
(* the code of the cohort.                                                 *)
FailureCarriesJournal ==
    /\ \A i \in 1..Len(journal) :
          /\ journal[i].sequence = i - 1
          /\ i < Len(journal) => journal[i].code = "passed"
    /\ pc = "failed" =>
          /\ journal # <<>>
          /\ journal[Len(journal)].code = failure
=============================================================================
