--------------------- MODULE IndependentComponentsProofs ---------------------
(***************************************************************************)
(* Proofs about components of MCIndependentComponents that have no proof   *)
(* module of their own, each as if it were alone and for all values of its *)
(* constants: benchmark cohorts of any length, any number of assets and    *)
(* downloads, any number of runtimes of a page, any number of threads that *)
(* use the native runtime.                                                 *)
(***************************************************************************)
EXTENDS MCIndependentComponents, TLAPS

-----------------------------------------------------------------------------
(* BenchmarkCohort.                                                        *)

LEMMA CohortSteps ==
    NextComponents => Cohort!Next \/ UNCHANGED cohortVars
<1> SUFFICES ASSUME NextComponents PROVE Cohort!Next \/ UNCHANGED cohortVars
  OBVIOUS
<1>1. CASE component = "cohort"
  BY <1>1 DEF NextComponents
<1>2. CASE component # "cohort"
  BY <1>2 DEF NextComponents
<1> QED
  BY <1>1, <1>2

LEMMA CohortRuns == SpecComponents => Cohort!Spec
<1>1. InitComponents => Cohort!Init
  BY DEF InitComponents
<1>2. [NextComponents]_allVars => [Cohort!Next]_(Cohort!vars)
  <2>1. UNCHANGED allVars => UNCHANGED cohortVars
    BY DEF allVars
  <2>2. UNCHANGED cohortVars => UNCHANGED Cohort!vars
    BY DEF cohortVars, Cohort!vars
  <2> QED
    BY <2>1, <2>2, CohortSteps
<1> QED
  BY <1>1, <1>2, PTL DEF SpecComponents, Cohort!Spec

SampleRecord ==
    [index : Int, wall : Int, queue : Int, pair : Cohort!Pair \union {Cohort!NoPair}]
AttemptRecord ==
    [sequence : Nat, cohort : {"cold", "warmup", "measured"}, slot : Int,
     code : Cohort!Code \union {"passed"}, sample : SampleRecord]

(* What the engine admitted passes the assembler's tests of a sample.      *)
SampleHolds(sample) ==
    /\ sample.wall \notin {0, MaxNs}
    /\ sample.queue \in 1..sample.wall
    /\ IF sample.pair = Cohort!NoPair THEN ~timestampQuery
       ELSE timestampQuery /\ Cohort!IsTimed(sample.pair, sample.wall)

AttemptHolds(attempt, n) ==
    /\ attempt.code = "passed"
    /\ attempt.sequence = n
    /\ attempt.cohort = Cohort!Identity(n).cohort
    /\ attempt.slot = Cohort!Identity(n).slot
    /\ attempt.sample.index = Cohort!Identity(n).slot
    /\ SampleHolds(attempt.sample)

(* The pairs kept beside the journal are those of its samples, and no two  *)
(* samples have one pair.                                                  *)
PairsAreKept ==
    /\ pairs \subseteq Cohort!Pair
    /\ \A i \in 1..Len(journal) :
          journal[i].sample.pair # Cohort!NoPair => journal[i].sample.pair \in pairs
    /\ \A i, k \in 1..Len(journal) :
          journal[i].sample.pair = journal[k].sample.pair =>
              i = k \/ journal[i].sample.pair = Cohort!NoPair

(* All attempts of the journal passed, but the last one of a failed cohort.*)
Started == {"probe", "start", "execute", "validate", "stop", "probe after",
            "admit"}
JournalHolds ==
    /\ journal \in Seq(AttemptRecord)
    /\ \A i \in 1..Len(journal) : journal[i].sequence = i - 1
    /\ \A i \in 1..Len(journal) :
          i < Len(journal) \/ pc # "failed" => AttemptHolds(journal[i], i - 1)
    /\ pc = "failed" => /\ journal # <<>>
                        /\ journal[Len(journal)].code = failure
    /\ pc \in Started => Len(journal) < Cohort!Attempts
    /\ pc \in {"assemble", "succeeded"} => Len(journal) = Cohort!Attempts
    /\ Len(journal) <= Cohort!Attempts

ExecutionRecord ==
    [pair : Cohort!Pair \union {Cohort!NoPair}, fresh : BOOLEAN, wall : Nat]
ExecutionHolds ==
    /\ execution \in ExecutionRecord
    /\ pc \in {"probe after", "admit"} => execution.wall \notin {0, MaxNs}
    /\ lastPair \in Cohort!Pair \union {Cohort!NoPair}

CohortInv ==
    /\ pc \in Started \union {"assemble", "succeeded", "failed"}
    /\ timestampQuery \in BOOLEAN
    /\ failure \in (Cohort!Code \ {"assembly_rejected"}) \union {"none"}
    /\ JournalHolds
    /\ PairsAreKept
    /\ ExecutionHolds

LEMMA IdentityTypes ==
    ASSUME NEW n \in Nat
    PROVE  /\ Cohort!Identity(n).cohort \in {"cold", "warmup", "measured"}
           /\ Cohort!Identity(n).slot \in Int
BY CohortProtocol DEF Cohort!ProtocolIsValid, Cohort!Identity

LEMMA AttemptTypes ==
    ASSUME journal \in Seq(AttemptRecord),
           NEW code \in Cohort!Code \union {"passed"}, NEW sample \in SampleRecord
    PROVE  /\ Cohort!Attempt(code, sample) \in AttemptRecord
           /\ Cohort!Attempt(code, sample).code = code
           /\ Cohort!Attempt(code, sample).sequence = Len(journal)
           /\ Cohort!Attempt(code, sample).sample = sample
<1>1. Len(journal) \in Nat
  OBVIOUS
<1> QED
  BY <1>1, IdentityTypes DEF Cohort!Attempt, AttemptRecord

(* A stage of an attempt ends well. *)
LEMMA ContinuesKeepsCohort ==
    ASSUME CohortInv, pc \in Started, NEW next \in Started,
           Cohort!Continues(next), ExecutionHolds'
    PROVE  CohortInv'
<1>1. /\ pc' = next
      /\ UNCHANGED <<timestampQuery, journal, pairs, failure>>
  BY DEF Cohort!Continues
<1>2. pc # "failed" /\ pc' # "failed" /\ pc' \notin {"assemble", "succeeded"}
  BY <1>1 DEF Started
<1>3. JournalHolds'
  BY <1>1, <1>2 DEF CohortInv, JournalHolds, AttemptHolds, SampleHolds
<1> QED
  BY <1>1, <1>3 DEF CohortInv, PairsAreKept

(* A failed attempt is journalled, and is the last one. *)
LEMMA FailedKeepsCohort ==
    ASSUME CohortInv, pc \in Started,
           NEW code \in Cohort!Code \ {"assembly_rejected"},
           Cohort!Failed(code), ExecutionHolds'
    PROVE  CohortInv'
<1> DEFINE a == Cohort!Attempt(code, Cohort!NoSample)
<1>1. /\ pc' = "failed" /\ failure' = code /\ journal' = Append(journal, a)
      /\ UNCHANGED <<timestampQuery, pairs>>
  BY DEF Cohort!Failed
<1>2. Cohort!NoSample \in SampleRecord /\ Cohort!NoSample.pair = Cohort!NoPair
  BY DEF Cohort!NoSample, SampleRecord
<1>3. journal \in Seq(AttemptRecord) /\ pc # "failed"
  BY DEF CohortInv, JournalHolds, Started
<1>4. /\ a \in AttemptRecord /\ a.code = code /\ a.sequence = Len(journal)
      /\ a.sample.pair = Cohort!NoPair
  BY <1>2, <1>3, AttemptTypes
<1> HIDE DEF a
<1>5. /\ journal' \in Seq(AttemptRecord) /\ Len(journal') = Len(journal) + 1
      /\ journal'[Len(journal')] = a
      /\ \A i \in 1..Len(journal) : journal'[i] = journal[i]
      /\ \A i \in 1..Len(journal') : i \in 1..Len(journal) \/ i = Len(journal) + 1
      /\ Len(journal) \in Nat
  BY <1>1, <1>3, <1>4
<1>6. JournalHolds'
  <2>1. \A i \in 1..Len(journal') : journal'[i].sequence = i - 1
    BY <1>4, <1>5 DEF CohortInv, JournalHolds
  <2>2. \A i \in 1..Len(journal') :
           i < Len(journal') => AttemptHolds(journal[i], i - 1)'
    <3> SUFFICES ASSUME NEW i \in 1..Len(journal'), i < Len(journal')
                 PROVE  AttemptHolds(journal[i], i - 1)'
      OBVIOUS
    <3>1. i \in 1..Len(journal)
      BY <1>5
    <3>2. AttemptHolds(journal[i], i - 1) /\ journal'[i] = journal[i]
      BY <1>3, <1>5, <3>1 DEF CohortInv, JournalHolds
    <3> QED
      BY <1>1, <3>2 DEF AttemptHolds, SampleHolds
  <2>3. Len(journal') <= Cohort!Attempts /\ journal' # <<>>
    BY <1>5, CohortProtocol
       DEF CohortInv, JournalHolds, Cohort!Attempts, Cohort!ProtocolIsValid
  <2> QED
    BY <1>1, <1>4, <1>5, <2>1, <2>2, <2>3 DEF JournalHolds, Started
<1>7. PairsAreKept'
  <2>1. \A i \in 1..Len(journal') : \/ i \in 1..Len(journal) /\ journal'[i] = journal[i]
                                    \/ journal'[i].sample.pair = Cohort!NoPair
    BY <1>4, <1>5
  <2> QED
    BY <1>1, <2>1 DEF CohortInv, PairsAreKept
<1> QED
  BY <1>1, <1>6, <1>7 DEF CohortInv

LEMMA FailureCodes ==
    {"environment_probe_failed", "clock_failed", "non_monotonic_clock",
     "execution_failed", "validation_failed", "fact_mismatch",
     "invalid_queue_observation", "invalid_timestamp", "stale_timestamp"}
    = Cohort!Code \ {"assembly_rejected"}
BY DEF Cohort!Code

LEMMA FailedAfter ==
    ASSUME CohortInv, NEW code, Cohort!Failed(code), UNCHANGED <<lastPair, execution>>
    PROVE  ExecutionHolds'
BY DEF CohortInv, ExecutionHolds, Cohort!Failed

LEMMA CohortStagesKeep ==
    ASSUME CohortInv,
           Cohort!Probe \/ Cohort!StartClock \/ Cohort!Execute \/ Cohort!Validate
    PROVE  CohortInv'
<1> USE FailureCodes
<1>1. CASE Cohort!Probe
  <2>1. pc \in Started /\ UNCHANGED <<lastPair, execution>>
    BY <1>1 DEF Cohort!Probe, Started
  <2>2. CASE Cohort!Failed("environment_probe_failed")
    BY <2>1, <2>2, FailedAfter, FailedKeepsCohort
  <2>3. CASE Cohort!Continues(IF pc = "probe" THEN "start" ELSE "admit")
    <3> DEFINE next == IF pc = "probe" THEN "start" ELSE "admit"
    <3>1. next \in Started /\ pc' = next /\ (next = "admit" => pc = "probe after")
          /\ next # "probe after"
      BY <1>1, <2>3 DEF Cohort!Continues, Cohort!Probe, Started
    <3>2. Cohort!Continues(next)
      BY <2>3
    <3> HIDE DEF next
    <3>3. ExecutionHolds'
      BY <2>1, <3>1 DEF CohortInv, ExecutionHolds
    <3> QED
      BY <2>1, <3>1, <3>2, <3>3, ContinuesKeepsCohort
  <2> QED
    BY <1>1, <2>2, <2>3 DEF Cohort!Probe
<1>2. CASE Cohort!StartClock
  <2>1. pc \in Started /\ UNCHANGED <<lastPair, execution>>
    BY <1>2 DEF Cohort!StartClock, Started
  <2>2. CASE Cohort!Failed("clock_failed")
    BY <2>1, <2>2, FailedAfter, FailedKeepsCohort
  <2>3. CASE Cohort!Continues("execute")
    <3>1. ExecutionHolds' /\ "execute" \in Started
      BY <2>1, <2>3 DEF CohortInv, ExecutionHolds, Cohort!Continues, Started
    <3> QED
      BY <2>1, <2>3, <3>1, ContinuesKeepsCohort
  <2> QED
    BY <1>2, <2>2, <2>3 DEF Cohort!StartClock
<1>3. CASE Cohort!Execute
  <2>1. pc \in Started
    BY <1>3 DEF Cohort!Execute, Started
  <2>2. CASE Cohort!FailedTimed("execution_failed") /\ UNCHANGED <<lastPair, execution>>
    BY <2>1, <2>2, FailedAfter, FailedKeepsCohort DEF Cohort!FailedTimed
  <2>3. ASSUME NEW pair \in Cohort!Pair \union {Cohort!NoPair},
               execution' = [pair |-> pair, fresh |-> Cohort!IsFresh(pair), wall |-> 0],
               lastPair' = IF Cohort!IsFresh(pair) THEN pair ELSE lastPair,
               Cohort!Continues("validate")
        PROVE  CohortInv'
    <3> DEFINE fresh == Cohort!IsFresh(pair)
    <3>1. fresh \in BOOLEAN
      BY Zenon DEF Cohort!IsFresh, Cohort!IsInterval
    <3>2. execution' = [pair |-> pair, fresh |-> fresh, wall |-> 0]
      BY <2>3
    <3>3. lastPair' \in Cohort!Pair \union {Cohort!NoPair}
      BY <2>3 DEF CohortInv, ExecutionHolds
    <3> HIDE DEF fresh
    <3>4. ExecutionHolds' /\ "validate" \in Started
      BY <2>3, <3>1, <3>2, <3>3 DEF ExecutionHolds, ExecutionRecord, Cohort!Continues, Started
    <3> QED
      BY <2>1, <2>3, <3>4, ContinuesKeepsCohort
  <2> QED
    BY <1>3, <2>2, <2>3 DEF Cohort!Execute
<1>4. CASE Cohort!Validate
  <2>1. pc \in Started /\ UNCHANGED <<lastPair, execution>>
    BY <1>4 DEF Cohort!Validate, Started
  <2>2. CASE Cohort!FailedTimed("validation_failed")
    BY <2>1, <2>2, FailedAfter, FailedKeepsCohort DEF Cohort!FailedTimed
  <2>3. CASE Cohort!Continues("stop")
    <3>1. ExecutionHolds' /\ "stop" \in Started
      BY <2>1, <2>3 DEF CohortInv, ExecutionHolds, Cohort!Continues, Started
    <3> QED
      BY <2>1, <2>3, <3>1, ContinuesKeepsCohort
  <2> QED
    BY <1>4, <2>2, <2>3 DEF Cohort!Validate
<1> QED
  BY <1>1, <1>2, <1>3, <1>4

LEMMA StopClockKeepsCohort ==
    ASSUME CohortInv, NEW wall \in Cohort!Nanoseconds, Cohort!StopClock(wall)
    PROVE  CohortInv'
<1> USE FailureCodes
<1>1. pc = "stop" /\ pc \in Started /\ lastPair' = lastPair
      /\ execution' = [execution EXCEPT !.wall = wall]
  BY DEF Cohort!StopClock, Started
<1>2. wall \in Nat /\ (wall \notin {0, MaxNs} => execution'.wall \notin {0, MaxNs})
  BY <1>1, CohortProtocol
     DEF CohortInv, ExecutionHolds, ExecutionRecord, Cohort!Nanoseconds,
         Cohort!ProtocolIsValid
<1>3. execution' \in ExecutionRecord /\ lastPair' \in Cohort!Pair \union {Cohort!NoPair}
  BY <1>1, <1>2 DEF CohortInv, ExecutionHolds, ExecutionRecord
<1>4. ASSUME NEW code \in {"clock_failed", "non_monotonic_clock"}, Cohort!Failed(code)
      PROVE  CohortInv'
  <2>1. ExecutionHolds'
    BY <1>3, <1>4 DEF ExecutionHolds, Cohort!Failed
  <2> QED
    BY <1>1, <1>4, <2>1, FailedKeepsCohort
<1>5. CASE wall \notin {0, MaxNs} /\ Cohort!Continues("probe after")
  <2>1. ExecutionHolds' /\ "probe after" \in Started
    BY <1>2, <1>3, <1>5 DEF ExecutionHolds, Started
  <2> QED
    BY <1>1, <1>5, <2>1, ContinuesKeepsCohort
<1> QED
  BY <1>4, <1>5 DEF Cohort!StopClock

(* A sample that is admitted holds, and its pair is new. *)
LEMMA AdmittedHolds ==
    ASSUME CohortInv, pc = "admit", NEW queued \in 1..execution.wall,
           Cohort!TimestampAdmitted, Cohort!IsNew(execution.pair),
           NEW index \in Int
    PROVE  LET sample == [index |-> index, wall |-> execution.wall,
                          queue |-> queued, pair |-> execution.pair]
           IN  /\ sample \in SampleRecord
               /\ sample.index = index /\ sample.pair = execution.pair
               /\ SampleHolds(sample)
<1>1. /\ execution.pair \in Cohort!Pair \union {Cohort!NoPair}
      /\ execution.wall \in Nat \ {0, MaxNs}
  BY DEF CohortInv, ExecutionHolds, ExecutionRecord
<1>2. IF execution.pair = Cohort!NoPair THEN ~timestampQuery
      ELSE timestampQuery /\ Cohort!IsTimed(execution.pair, execution.wall)
  BY DEF Cohort!TimestampAdmitted, Cohort!IsTimed, Cohort!IsInterval
<1>3. queued \in Int
  BY <1>1
<1> QED
  BY <1>1, <1>2, <1>3 DEF SampleRecord, SampleHolds

LEMMA AdmitKeepsCohort ==
    ASSUME CohortInv, NEW queued \in Cohort!Nanoseconds, Cohort!Admit(queued)
    PROVE  CohortInv'
<1> USE FailureCodes
<1>1. pc = "admit" /\ pc \in Started /\ lastPair' = lastPair
      /\ execution' = Cohort!NoExecution
  BY DEF Cohort!Admit, Started
<1>2. execution' \in ExecutionRecord /\ lastPair' \in Cohort!Pair \union {Cohort!NoPair}
  BY <1>1 DEF CohortInv, ExecutionHolds, ExecutionRecord, Cohort!NoExecution
<1>3. ASSUME NEW code \in Cohort!Code \ {"assembly_rejected"}, Cohort!Failed(code)
      PROVE  CohortInv'
  <2>1. ExecutionHolds'
    BY <1>2, <1>3 DEF ExecutionHolds, Cohort!Failed
  <2> QED
    BY <1>1, <1>3, <2>1, FailedKeepsCohort
<1>4. CASE /\ queued \in 1..execution.wall
           /\ Cohort!TimestampAdmitted /\ Cohort!IsNew(execution.pair)
           /\ ~(\E code \in Cohort!Code \ {"assembly_rejected"} : Cohort!Failed(code))
  <2> DEFINE n == Len(journal)
             sample == [index |-> Cohort!Identity(n).slot, wall |-> execution.wall,
                        queue |-> queued, pair |-> execution.pair]
             a == Cohort!Attempt("passed", sample)
  <2>1. /\ journal' = Append(journal, a)
        /\ pairs' = IF execution.pair = Cohort!NoPair THEN pairs
                    ELSE pairs \union {execution.pair}
        /\ pc' = IF Cohort!IsLast(n + 1) THEN "assemble" ELSE "probe"
        /\ timestampQuery' = timestampQuery /\ failure' = failure
    BY <1>4 DEF Cohort!Admit
  <2>2. n \in Nat /\ journal \in Seq(AttemptRecord) /\ pc # "failed"
        /\ n < Cohort!Attempts
    BY <1>1 DEF CohortInv, JournalHolds
  <2>3. Cohort!Attempts \in Nat
    BY CohortProtocol DEF Cohort!Attempts, Cohort!ProtocolIsValid
  <2>4. /\ sample \in SampleRecord
        /\ sample.index = Cohort!Identity(n).slot /\ sample.pair = execution.pair
        /\ SampleHolds(sample)
    BY <1>1, <1>4, <2>2, IdentityTypes, AdmittedHolds
  <2>5. /\ a \in AttemptRecord /\ a.code = "passed" /\ a.sequence = n
        /\ a.sample = sample
        /\ a.cohort = Cohort!Identity(n).cohort /\ a.slot = Cohort!Identity(n).slot
    <3> HIDE DEF sample
    <3>1. a.cohort = Cohort!Identity(n).cohort /\ a.slot = Cohort!Identity(n).slot
      BY DEF Cohort!Attempt
    <3> QED
      BY <2>2, <2>4, <3>1, AttemptTypes
  <2>6. AttemptHolds(a, n) /\ a.sample.pair = execution.pair
    BY <2>4, <2>5 DEF AttemptHolds
  <2> HIDE DEF a, sample
  <2>7. /\ journal' \in Seq(AttemptRecord) /\ Len(journal') = n + 1
        /\ journal'[n + 1] = a
        /\ \A i \in 1..n : journal'[i] = journal[i]
        /\ \A i \in 1..Len(journal') : i \in 1..n \/ i = n + 1
    BY <2>1, <2>2, <2>5
  <2> HIDE DEF n
  <2>8. \A i \in 1..n : AttemptHolds(journal[i], i - 1) /\ journal[i].sequence = i - 1
    BY <2>2 DEF CohortInv, JournalHolds, n
  <2>9. JournalHolds'
    <3>1. \A i \in 1..Len(journal') :
             journal'[i].sequence = i - 1 /\ AttemptHolds(journal[i], i - 1)'
      <4> SUFFICES ASSUME NEW i \in 1..Len(journal')
                   PROVE  /\ journal'[i].sequence = i - 1
                          /\ AttemptHolds(journal[i], i - 1)'
        OBVIOUS
      <4>1. AttemptHolds(journal'[i], i - 1) /\ journal'[i].sequence = i - 1
        BY <2>2, <2>5, <2>6, <2>7, <2>8
      <4> QED
        BY <2>1, <4>1 DEF AttemptHolds, SampleHolds
    <3>2. /\ pc' \in {"assemble", "probe"}
          /\ pc' = "assemble" => Len(journal') = Cohort!Attempts
          /\ pc' = "probe" => Len(journal') # Cohort!Attempts
      BY <2>1, <2>7 DEF Cohort!IsLast
    <3>3. /\ pc' # "failed" /\ (pc' \in Started => pc' = "probe")
          /\ (pc' \in {"assemble", "succeeded"} => pc' = "assemble")
      BY <3>2 DEF Started
    <3>4. Len(journal') <= Cohort!Attempts /\ Len(journal') \in Nat
      BY <2>2, <2>3, <2>7
    <3> QED
      BY <2>3, <2>7, <3>1, <3>2, <3>3, <3>4 DEF JournalHolds
  <2>10. PairsAreKept'
    <3>1. execution.pair \in Cohort!Pair \union {Cohort!NoPair}
      BY DEF CohortInv, ExecutionHolds, ExecutionRecord
    <3>2. pairs \subseteq pairs' /\ pairs' \subseteq Cohort!Pair
          /\ (execution.pair # Cohort!NoPair => execution.pair \in pairs')
      BY <2>1, <3>1 DEF CohortInv, PairsAreKept
    <3>3. execution.pair # Cohort!NoPair => execution.pair \notin pairs
      BY <1>4 DEF Cohort!IsNew
    <3>4. \A i \in 1..n : /\ journal'[i].sample.pair = journal[i].sample.pair
                          /\ \/ journal[i].sample.pair = Cohort!NoPair
                             \/ journal[i].sample.pair \in pairs
      BY <2>7 DEF CohortInv, PairsAreKept, n
    <3>5. \A i, k \in 1..n : journal[i].sample.pair = journal[k].sample.pair =>
              i = k \/ journal[i].sample.pair = Cohort!NoPair
      BY DEF CohortInv, PairsAreKept, n
    <3>6. journal'[n + 1].sample.pair = execution.pair
      BY <2>6, <2>7
    <3>7. \A i \in 1..Len(journal') :
              journal'[i].sample.pair # Cohort!NoPair => journal'[i].sample.pair \in pairs'
      BY <2>7, <3>2, <3>4, <3>6
    <3>8. \A i, k \in 1..Len(journal') :
              journal'[i].sample.pair = journal'[k].sample.pair =>
                  i = k \/ journal'[i].sample.pair = Cohort!NoPair
      BY <2>7, <3>3, <3>4, <3>5, <3>6
    <3> QED
      BY <3>2, <3>7, <3>8 DEF PairsAreKept
  <2>11. ExecutionHolds'
    BY <1>2, <2>1 DEF ExecutionHolds
  <2> QED
    BY <2>1, <2>9, <2>10, <2>11 DEF CohortInv, Started
<1>5. \/ \E code \in Cohort!Code \ {"assembly_rejected"} : Cohort!Failed(code)
      \/ /\ queued \in 1..execution.wall
         /\ Cohort!TimestampAdmitted /\ Cohort!IsNew(execution.pair)
  <2>1. {"fact_mismatch", "invalid_queue_observation", "invalid_timestamp",
         "stale_timestamp"} \subseteq Cohort!Code \ {"assembly_rejected"}
    OBVIOUS
  <2> QED
    BY <2>1 DEF Cohort!Admit
<1> QED
  BY <1>3, <1>4, <1>5

(* A journal whose attempts have all passed is one that the assembler      *)
(* accepts: the engine numbers attempts as the assembler expects them, and *)
(* admitted their samples by the same tests.                               *)
LEMMA CompleteIsAccepted ==
    ASSUME CohortInv, pc = "assemble"
    PROVE  Cohort!LayoutValid /\ Cohort!SamplesValid
<1>1. /\ Len(journal) = Cohort!Attempts
      /\ \A i \in 1..Len(journal) : AttemptHolds(journal[i], i - 1)
  BY DEF CohortInv, JournalHolds
<1>2. /\ Warmup \in Nat /\ Measured \in Nat
      /\ Cohort!Attempts = 1 + Warmup + Measured
  BY CohortProtocol DEF Cohort!Attempts, Cohort!ProtocolIsValid
<1>3. Cohort!LayoutValid
  <2> SUFFICES ASSUME NEW p \in 0..Cohort!Attempts - 1
               PROVE  LET attempt == journal[p + 1]
                          place == IF p = 0 THEN 0
                                   ELSE IF p <= Warmup THEN p - 1 ELSE p - 1 - Warmup
                      IN  /\ attempt.code = "passed"
                          /\ attempt.sequence = p
                          /\ attempt.cohort = IF p = 0 THEN "cold"
                                              ELSE IF p <= Warmup THEN "warmup"
                                              ELSE "measured"
                          /\ attempt.slot = place
                          /\ attempt.sample.index = place
    BY <1>1 DEF Cohort!LayoutValid
  <2>1. p + 1 \in 1..Len(journal) /\ p + 1 - 1 = p /\ p \in Nat
    BY <1>1, <1>2
  <2>2. AttemptHolds(journal[p + 1], p)
    BY <1>1, <2>1
  <2> QED
    BY <1>2, <2>1, <2>2 DEF AttemptHolds, Cohort!Identity
<1>4. Cohort!SamplesValid
  <2> SUFFICES ASSUME NEW i \in 1..Len(journal)
               PROVE  LET sample == journal[i].sample IN
                      /\ sample.wall \notin {0, MaxNs}
                      /\ sample.queue \in 1..sample.wall
                      /\ IF sample.pair = Cohort!NoPair THEN ~timestampQuery
                         ELSE /\ timestampQuery
                              /\ Cohort!IsTimed(sample.pair, sample.wall)
                              /\ \A k \in 1..(i - 1) :
                                    journal[k].sample.pair # sample.pair
    BY DEF Cohort!SamplesValid
  <2>1. SampleHolds(journal[i].sample)
    BY <1>1 DEF AttemptHolds
  <2>2. \A k \in 1..(i - 1) : k \in 1..Len(journal) /\ k # i
    OBVIOUS
  <2>3. journal[i].sample.pair # Cohort!NoPair =>
            \A k \in 1..(i - 1) : journal[k].sample.pair # journal[i].sample.pair
    BY <2>2 DEF CohortInv, PairsAreKept
  <2> QED
    BY <2>1, <2>3 DEF SampleHolds
<1> QED
  BY <1>3, <1>4

LEMMA AssembleKeepsCohort ==
    ASSUME CohortInv, Cohort!Assemble
    PROVE  CohortInv'
<1>1. pc = "assemble" /\ UNCHANGED <<timestampQuery, journal, pairs, lastPair, execution>>
  BY DEF Cohort!Assemble
<1>2. pc' = "succeeded" /\ failure' = failure
  BY <1>1, CompleteIsAccepted DEF Cohort!Assemble
<1>3. JournalHolds'
  BY <1>1, <1>2 DEF CohortInv, JournalHolds, AttemptHolds, SampleHolds, Started
<1> QED
  BY <1>1, <1>2, <1>3 DEF CohortInv, PairsAreKept, ExecutionHolds

LEMMA InitCohort == Cohort!Init => CohortInv
<1> SUFFICES ASSUME Cohort!Init PROVE CohortInv
  OBVIOUS
<1>1. journal = <<>> /\ Len(journal) = 0 /\ journal \in Seq(AttemptRecord)
      /\ pc = "probe" /\ pairs = {} /\ lastPair = Cohort!NoPair
      /\ timestampQuery \in BOOLEAN /\ failure = "none"
      /\ execution = Cohort!NoExecution
  BY DEF Cohort!Init
<1>2. Cohort!Attempts \in Nat \ {0}
  BY CohortProtocol DEF Cohort!Attempts, Cohort!ProtocolIsValid
<1>3. JournalHolds
  BY <1>1, <1>2 DEF JournalHolds
<1>4. PairsAreKept /\ ExecutionHolds
  BY <1>1 DEF PairsAreKept, ExecutionHolds, ExecutionRecord, Cohort!NoExecution
<1> QED
  BY <1>1, <1>3, <1>4 DEF CohortInv, Started

LEMMA NextCohort == CohortInv /\ [Cohort!Next]_(Cohort!vars) => CohortInv'
<1> SUFFICES ASSUME CohortInv, [Cohort!Next]_(Cohort!vars) PROVE CohortInv'
  OBVIOUS
<1>1. CASE UNCHANGED Cohort!vars
  BY <1>1 DEF Cohort!vars, CohortInv, JournalHolds, AttemptHolds, SampleHolds,
              PairsAreKept, ExecutionHolds
<1>2. CASE Cohort!Next
  BY <1>2, CohortStagesKeep, StopClockKeepsCohort, AdmitKeepsCohort,
     AssembleKeepsCohort DEF Cohort!Next
<1> QED
  BY <1>1, <1>2

LEMMA CohortIsTyped == CohortInv => Cohort!TypeOK
<1> SUFFICES ASSUME CohortInv PROVE Cohort!TypeOK
  OBVIOUS
<1>1. Len(journal) \in 0..Cohort!Attempts
  BY CohortProtocol DEF CohortInv, JournalHolds, Cohort!Attempts, Cohort!ProtocolIsValid
<1> QED
  BY <1>1 DEF CohortInv, PairsAreKept, ExecutionHolds, ExecutionRecord, Started,
              Cohort!TypeOK

LEMMA CohortIsSound == CohortInv => JournalsAreSound
BY DEF CohortInv, JournalHolds, AttemptHolds, JournalsAreSound,
       Cohort!JournalAssembles, Cohort!FailureCarriesJournal

(* The assembler accepts every journal whose attempts have all passed, and *)
(* a failure carries the attempts that led to it: for every number of      *)
(* attempts and every clock, the admission of a sample and the schedule of *)
(* the engine (cohort.rs, lib.rs of pvlc-bench-collector) agree with the   *)
(* second validation (assembly.rs, lib.rs of pvlc-bench).                  *)
THEOREM JournalsAlwaysAssemble ==
    SpecComponents => [](Cohort!TypeOK /\ JournalsAreSound)
<1>1. Cohort!Spec => []CohortInv
  BY InitCohort, NextCohort, PTL DEF Cohort!Spec
<1> QED
  BY <1>1, CohortRuns, CohortIsTyped, CohortIsSound, PTL

-----------------------------------------------------------------------------
(* BrowserDevice.                                                          *)

LEMMA DeviceRuns == SpecComponents => Device!Spec
<1>1. InitComponents => Device!Init
  BY DEF InitComponents
<1>2. [NextComponents]_allVars => [Device!Next]_(Device!vars)
  <2>1. UNCHANGED allVars => UNCHANGED deviceVars
    BY DEF allVars
  <2>2. UNCHANGED deviceVars => UNCHANGED Device!vars
    BY DEF deviceVars, Device!vars
  <2>3. NextComponents => Device!Next \/ UNCHANGED deviceVars
    <3> SUFFICES ASSUME NextComponents PROVE Device!Next \/ UNCHANGED deviceVars
      OBVIOUS
    <3>1. CASE component = "device"
      BY <3>1 DEF NextComponents
    <3>2. CASE component # "device"
      BY <3>2 DEF NextComponents
    <3> QED
      BY <3>1, <3>2
  <2> QED
    BY <2>1, <2>2, <2>3
<1> QED
  BY <1>1, <1>2, PTL DEF SpecComponents, Device!Spec

(* OneDevice is inductive: once the slot is filled it never changes, and a *)
(* call that made its runtime has read the slot after it was filled.       *)
DeviceInv == Device!TypeOK /\ Device!OneDevice

LEMMA InitDevice == Device!Init => DeviceInv
  BY DEF Device!Init, DeviceInv, Device!TypeOK, Device!OneDevice, Device!Device

(* An empty slot is told apart from the device of any call.                *)
LEMMA NextDevice == ASSUME NoDevice \notin DeviceUser
                    PROVE  DeviceInv /\ [Device!Next]_(Device!vars) => DeviceInv'
<1> SUFFICES ASSUME DeviceInv, [Device!Next]_(Device!vars) PROVE DeviceInv'
  OBVIOUS
<1> USE DEF DeviceInv, Device!TypeOK, Device!OneDevice, Device!Device
<1>1. CASE UNCHANGED Device!vars
  BY <1>1 DEF Device!vars
<1>2. ASSUME NEW r \in DeviceUser, Device!CreateAtOnce(r) PROVE DeviceInv'
  BY <1>2 DEF Device!CreateAtOnce
<1>3. ASSUME NEW r \in DeviceUser, Device!Create(r) PROVE DeviceInv'
  BY <1>3 DEF Device!Create
<1>4. ASSUME NEW r \in DeviceUser, Device!AdapterGranted(r) PROVE DeviceInv'
  BY <1>4 DEF Device!AdapterGranted
<1>5. ASSUME NEW r \in DeviceUser, Device!DeviceGranted(r) PROVE DeviceInv'
  BY <1>5 DEF Device!DeviceGranted, Device!Filled
<1>6. ASSUME NEW r \in DeviceUser, Device!RequestFails(r) PROVE DeviceInv'
  BY <1>6 DEF Device!RequestFails
<1> QED
  BY <1>1, <1>2, <1>3, <1>4, <1>5, <1>6 DEF Device!Next

(* All runtimes of a page use one device, in whatever order adapters and   *)
(* devices are granted (web.rs, WebRuntime::create).                       *)
THEOREM DeviceIsShared ==
    ASSUME NoDevice \notin DeviceUser
    PROVE  SpecComponents => [](Device!TypeOK /\ Device!OneDevice)
<1>1. Device!Spec => []DeviceInv
  BY InitDevice, NextDevice, PTL DEF Device!Spec
<1>2. DeviceInv => Device!TypeOK /\ Device!OneDevice
  BY DEF DeviceInv
<1> QED
  BY <1>1, <1>2, DeviceRuns, PTL

-----------------------------------------------------------------------------
(* ModelAssets.                                                            *)

LEMMA AssetsRun == SpecComponents => Assets!Spec
<1>1. InitComponents => Assets!Init
  BY DEF InitComponents
<1>2. [NextComponents]_allVars => [Assets!Next]_(Assets!vars)
  <2>1. UNCHANGED allVars => UNCHANGED assetVars
    BY DEF allVars
  <2>2. UNCHANGED assetVars => UNCHANGED Assets!vars
    BY DEF assetVars, Assets!vars
  <2>3. NextComponents => Assets!Next \/ UNCHANGED assetVars
    <3> SUFFICES ASSUME NextComponents PROVE Assets!Next \/ UNCHANGED assetVars
      OBVIOUS
    <3>1. CASE component = "assets"
      BY <3>1 DEF NextComponents
    <3>2. CASE component # "assets"
      BY <3>2 DEF NextComponents
    <3> QED
      BY <3>1, <3>2
  <2> QED
    BY <2>1, <2>2, <2>3
<1> QED
  BY <1>1, <1>2, PTL DEF SpecComponents, Assets!Spec

LoadRecord ==
    [kind : {"bytes", "parsed", "lane"}, asset : Asset,
     stage : {"scheduled", "waiting", "fetching", "reading", "writing", "failing",
              "fulfilled", "rejected"},
     chunks : 0..Size, writes : BOOLEAN, source : Nat]

(* Promises and the map of a BrowserModelAssets: an entry is a promise of  *)
(* its key.  Without it, the deletion of a failed promise's key might leave*)
(* the promise under another key.                                          *)
LoadsHold(list, memo, gone) ==
    /\ list \in Seq(LoadRecord)
    /\ memo \in [Assets!EntryKey -> 0..Len(list)]
    /\ \A i \in 1..Len(list) : list[i].source \in 0..Len(list)
    /\ \A key \in Assets!EntryKey : memo[key] # 0 =>
          /\ Assets!KeyOf(list[memo[key]]) = key
          /\ list[memo[key]].stage # "rejected"
    /\ \A i \in 1..Len(list) :
          /\ list[i].kind # "lane"
          /\ list[i].stage \notin Assets!Settled
          /\ list[i].asset \notin gone
          => memo[Assets!KeyOf(list[i])] = i

(* What was read by chunks was counted before it is written.               *)
DownloadsHold ==
    /\ persistent \subseteq Asset
    /\ downloaded \in [Asset -> 0..Size]
    /\ completed \subseteq Asset
    /\ released \subseteq Asset
    /\ \A i \in 1..Len(loads) : loads[i].stage = "writing" =>
          loads[i].chunks = 0 \/ loads[i].asset \in completed
    /\ Assets!ProgressIsFinal

AssetsInv == LoadsHold(loads, memoized, released) /\ DownloadsHold

(* One promise of a list moves. *)
LEMMA LoadMoves ==
    ASSUME NEW list, NEW memo, NEW gone, LoadsHold(list, memo, gone),
           NEW i \in 1..Len(list), NEW r \in LoadRecord,
           r.kind = list[i].kind, r.asset = list[i].asset,
           r.source \in 0..Len(list), r.stage # "rejected",
           list[i].stage \notin Assets!Settled
    PROVE  LoadsHold([list EXCEPT ![i] = r], memo, gone)
<1> DEFINE moved == [list EXCEPT ![i] = r]
<1>1. /\ moved \in Seq(LoadRecord) /\ Len(moved) = Len(list) /\ moved[i] = r
      /\ \A k \in 1..Len(list) : k # i => moved[k] = list[k]
  BY DEF LoadsHold
<1> HIDE DEF moved
<1>2. \A k \in 1..Len(list) : /\ moved[k].source \in 0..Len(list)
                              /\ moved[k].kind = list[k].kind
                              /\ moved[k].asset = list[k].asset
                              /\ Assets!KeyOf(moved[k]) = Assets!KeyOf(list[k])
                              /\ moved[k].stage = "rejected" => list[k].stage = "rejected"
                              /\ list[k].stage \in Assets!Settled =>
                                     moved[k].stage \in Assets!Settled
  BY <1>1 DEF LoadsHold, Assets!KeyOf
<1>3. \A key \in Assets!EntryKey : memo[key] # 0 => memo[key] \in 1..Len(list)
  BY DEF LoadsHold
<1>4. LoadsHold(moved, memo, gone)
  BY <1>1, <1>2, <1>3 DEF LoadsHold
<1> QED
  BY <1>4 DEF moved

LEMMA NewLoads ==
    ASSUME NEW key \in {"bytes", "parsed", "lane"} \X Asset
    PROVE  LET load == Assets!Load(key[1], key[2]) IN
           /\ load \in LoadRecord /\ load.source = 0
           /\ load.kind = key[1] /\ load.asset = key[2]
           /\ Assets!KeyOf(load) = key
           /\ load.stage = "scheduled"
BY DownloadSizes DEF Assets!AssetsAreValid, Assets!Load, LoadRecord, Assets!KeyOf,
                     Assets!NoLoad

(* A promise that no entry holds, made by a lane for itself. *)
LEMMA LaneLoads ==
    ASSUME LoadsHold(loads, memoized, released), NEW a \in Asset
    PROVE  LoadsHold(Append(loads, Assets!Load("lane", a)), memoized, released)
<1> DEFINE load == Assets!Load("lane", a)
           list == Append(loads, load)
<1>1. load \in LoadRecord /\ load.source = 0 /\ load.kind = "lane"
  <2>1. <<"lane", a>> \in {"bytes", "parsed", "lane"} \X Asset
    OBVIOUS
  <2> QED
    BY <2>1, NewLoads
<1> HIDE DEF load
<1>2. /\ list \in Seq(LoadRecord) /\ Len(list) = Len(loads) + 1 /\ Len(loads) \in Nat
      /\ list[Len(loads) + 1] = load
      /\ \A k \in 1..Len(loads) : list[k] = loads[k]
  BY <1>1 DEF LoadsHold
<1> HIDE DEF list
<1>3. memoized \in [Assets!EntryKey -> 0..Len(list)]
  BY <1>2 DEF LoadsHold
<1>4. \A key \in Assets!EntryKey : memoized[key] # 0 => memoized[key] \in 1..Len(loads)
  BY DEF LoadsHold
<1>5. LoadsHold(list, memoized, released)
  BY <1>1, <1>2, <1>3, <1>4 DEF LoadsHold
<1> QED
  BY <1>5 DEF list, load

(* #once keeps the map, and the entry of the key is there afterwards. *)
LEMMA OnceHolds ==
    ASSUME LoadsHold(loads, memoized, released), NEW key \in Assets!EntryKey
    PROVE  LET once == Assets!Once(key, loads) IN
           /\ LoadsHold(once.loads, once.memoized, released)
           /\ once.memoized[key] \in 1..Len(once.loads)
           /\ Len(once.loads) >= Len(loads)
           /\ \A k \in 1..Len(loads) : once.loads[k] = loads[k]
           /\ \A k \in 1..Len(once.loads) : k \in 1..Len(loads) \/
                 once.loads[k].stage = "scheduled"
<1>1. CASE memoized[key] # 0
  <2>1. Assets!Once(key, loads) = [loads |-> loads, memoized |-> memoized]
    BY <1>1 DEF Assets!Once, Assets!NoLoad
  <2>2. memoized[key] \in 1..Len(loads) /\ Len(loads) \in Nat
    BY <1>1 DEF LoadsHold
  <2> QED
    BY <2>1, <2>2
<1>2. CASE memoized[key] = 0
  <2> DEFINE load == Assets!Load(key[1], key[2])
             list == Append(loads, load)
             memo == [memoized EXCEPT ![key] = Len(loads) + 1]
  <2>1. Assets!Once(key, loads) = [loads |-> list, memoized |-> memo]
    BY <1>2 DEF Assets!Once, Assets!NoLoad
  <2>2. /\ load \in LoadRecord /\ load.source = 0 /\ Assets!KeyOf(load) = key
        /\ load.stage = "scheduled"
    <3>1. key \in {"bytes", "parsed", "lane"} \X Asset
      BY DEF Assets!EntryKey
    <3> QED
      BY <3>1, NewLoads
  <2> HIDE DEF load
  <2>3. /\ list \in Seq(LoadRecord) /\ Len(list) = Len(loads) + 1
        /\ Len(loads) \in Nat /\ list[Len(loads) + 1] = load
        /\ \A k \in 1..Len(loads) : list[k] = loads[k]
    BY <2>2 DEF LoadsHold
  <2>4. /\ memo \in [Assets!EntryKey -> 0..Len(list)] /\ memo[key] = Len(loads) + 1
        /\ \A entry \in Assets!EntryKey : entry # key => memo[entry] = memoized[entry]
    BY <2>3 DEF LoadsHold
  <2> HIDE DEF list, memo
  <2>5. \A k \in 1..Len(list) : list[k].source \in 0..Len(list)
    BY <2>2, <2>3 DEF LoadsHold
  <2>6. \A entry \in Assets!EntryKey : memo[entry] # 0 =>
            /\ Assets!KeyOf(list[memo[entry]]) = entry
            /\ list[memo[entry]].stage # "rejected"
    <3> SUFFICES ASSUME NEW entry \in Assets!EntryKey, memo[entry] # 0
                 PROVE  /\ Assets!KeyOf(list[memo[entry]]) = entry
                        /\ list[memo[entry]].stage # "rejected"
      OBVIOUS
    <3>1. CASE entry = key
      BY <2>2, <2>3, <2>4, <3>1
    <3>2. CASE entry # key
      <4>1. memo[entry] = memoized[entry] /\ memoized[entry] \in 1..Len(loads)
        BY <2>3, <2>4, <3>2 DEF LoadsHold
      <4> QED
        BY <2>3, <4>1 DEF LoadsHold
    <3> QED
      BY <3>1, <3>2
  <2>7. \A i \in 1..Len(list) :
            /\ list[i].kind # "lane" /\ list[i].stage \notin Assets!Settled
            /\ list[i].asset \notin released
            => memo[Assets!KeyOf(list[i])] = i
    <3> SUFFICES ASSUME NEW i \in 1..Len(list), list[i].kind # "lane",
                        list[i].stage \notin Assets!Settled, list[i].asset \notin released
                 PROVE  memo[Assets!KeyOf(list[i])] = i
      OBVIOUS
    <3>1. CASE i = Len(loads) + 1
      BY <2>2, <2>3, <2>4, <3>1
    <3>2. CASE i \in 1..Len(loads)
      <4>1. list[i] = loads[i] /\ memoized[Assets!KeyOf(loads[i])] = i
        BY <2>3, <3>2 DEF LoadsHold
      <4>2. Assets!KeyOf(loads[i]) \in Assets!EntryKey
        <5>1. loads[i] \in LoadRecord /\ loads[i].kind # "lane"
          BY <3>2, <4>1 DEF LoadsHold
        <5>2. loads[i].kind \in {"bytes", "parsed"} /\ loads[i].asset \in Asset
          BY <5>1 DEF LoadRecord
        <5> QED
          BY <5>2 DEF Assets!EntryKey, Assets!KeyOf
      <4> QED
        BY <1>2, <2>4, <3>2, <4>1, <4>2
    <3> QED
      BY <2>3, <3>1, <3>2
  <2>8. LoadsHold(list, memo, released)
    BY <2>3, <2>4, <2>5, <2>6, <2>7 DEF LoadsHold
  <2> QED
    BY <2>1, <2>2, <2>3, <2>4, <2>8
<1> QED
  BY <1>1, <1>2

LEMMA SizesCount == Size \in Nat /\ WeightAsset \in Asset /\ 0 \in 0..Size
BY DownloadSizes DEF Assets!AssetsAreValid

LEMMA LoadsAreTyped ==
    ASSUME AssetsInv, NEW i \in DOMAIN loads
    PROVE  /\ i \in 1..Len(loads) /\ DOMAIN loads = 1..Len(loads)
           /\ loads[i] \in LoadRecord /\ loads[i].source \in 0..Len(loads)
           /\ loads[i].asset \in Asset
           /\ Assets!Settled = {"fulfilled", "rejected"}
<1>1. loads \in Seq(LoadRecord) /\ DOMAIN loads = 1..Len(loads)
  BY DEF AssetsInv, LoadsHold
<1>2. loads[i] \in LoadRecord /\ loads[i].source \in 0..Len(loads)
  BY <1>1 DEF AssetsInv, LoadsHold
<1> QED
  BY <1>1, <1>2 DEF LoadRecord, Assets!Settled

(* The counters are not touched, and nothing new is written.               *)
LEMMA DownloadsStay ==
    ASSUME AssetsInv, UNCHANGED <<persistent, downloaded, completed>>,
           released' \subseteq Asset,
           \A k \in 1..Len(loads') : loads'[k].stage = "writing" =>
               \/ loads'[k].chunks = 0
               \/ k \in 1..Len(loads) /\ loads'[k] = loads[k]
    PROVE  DownloadsHold'
BY DEF AssetsInv, DownloadsHold, Assets!ProgressIsFinal

(* A promise that has not settled moves, and nothing is read or written.   *)
LEMMA MovesKeepAssets ==
    ASSUME AssetsInv, NEW i \in DOMAIN loads, NEW r \in LoadRecord,
           loads' = [loads EXCEPT ![i] = r],
           UNCHANGED <<memoized, persistent, downloaded, completed, released>>,
           r.kind = loads[i].kind, r.asset = loads[i].asset,
           r.source = loads[i].source,
           r.stage # "rejected", r.stage = "writing" => r.chunks = 0,
           loads[i].stage \notin Assets!Settled
    PROVE  AssetsInv'
<1>1. i \in 1..Len(loads) /\ loads \in Seq(LoadRecord) /\ r.source \in 0..Len(loads)
  BY LoadsAreTyped DEF AssetsInv, LoadsHold
<1>2. LoadsHold(loads', memoized', released')
  BY <1>1, LoadMoves DEF AssetsInv
<1>3. Len(loads') = Len(loads) /\ loads'[i] = r
      /\ \A k \in 1..Len(loads) : k # i => loads'[k] = loads[k]
  BY <1>1
<1>4. DownloadsHold'
  <2>1. released' \subseteq Asset
    BY DEF AssetsInv, DownloadsHold
  <2> QED
    BY <1>3, <2>1, DownloadsStay
<1> QED
  BY <1>2, <1>4 DEF AssetsInv

LEMMA StagesKeepAssets ==
    ASSUME AssetsInv, NEW i \in DOMAIN loads,
           NEW next \in {"reading", "writing", "failing", "fulfilled"},
           Assets!MovesTo(i, next), next = "writing" => loads[i].chunks = 0,
           loads[i].stage \notin Assets!Settled
    PROVE  AssetsInv'
<1> DEFINE r == [loads[i] EXCEPT !.stage = next]
<1>1. /\ loads' = [loads EXCEPT ![i] = r]
      /\ UNCHANGED <<memoized, persistent, downloaded, completed, released>>
  BY DEF Assets!MovesTo
<1>2. /\ r \in LoadRecord /\ r.kind = loads[i].kind /\ r.asset = loads[i].asset
      /\ r.source = loads[i].source /\ r.stage = next /\ r.chunks = loads[i].chunks
  BY LoadsAreTyped DEF LoadRecord
<1> HIDE DEF r
<1> QED
  BY <1>1, <1>2, MovesKeepAssets

LEMMA RequestsKeepAssets ==
    ASSUME AssetsInv, NEW a \in Asset, Assets!Request(a) \/ Assets!RequestUnshared(a)
    PROVE  AssetsInv'
<1>1. LoadsHold(loads, memoized, released) /\ released \subseteq Asset
      /\ Len(loads) \in Nat /\ loads \in Seq(LoadRecord)
  BY DEF AssetsInv, DownloadsHold, LoadsHold
<1>2. CASE Assets!Request(a)
  <2> DEFINE once == Assets!Once(<<"parsed", a>>, loads)
  <2>1. /\ loads' = once.loads /\ memoized' = once.memoized
        /\ UNCHANGED <<persistent, downloaded, completed, released>>
    BY <1>2 DEF Assets!Request
  <2>2. <<"parsed", a>> \in Assets!EntryKey
    BY DEF Assets!EntryKey
  <2>3. /\ LoadsHold(once.loads, once.memoized, released)
        /\ \A k \in 1..Len(loads) : once.loads[k] = loads[k]
        /\ \A k \in 1..Len(once.loads) : k \in 1..Len(loads) \/
              once.loads[k].stage = "scheduled"
    BY <1>1, <2>2, OnceHolds
  <2> HIDE DEF once
  <2>4. LoadsHold(loads', memoized', released')
    BY <2>1, <2>3
  <2>5. DownloadsHold'
    BY <1>1, <2>1, <2>3, DownloadsStay
  <2> QED
    BY <2>4, <2>5 DEF AssetsInv
<1>3. CASE Assets!RequestUnshared(a)
  <2> DEFINE load == Assets!Load("lane", a)
  <2>1. /\ loads' = Append(loads, load)
        /\ UNCHANGED <<memoized, persistent, downloaded, completed, released>>
    BY <1>3 DEF Assets!RequestUnshared
  <2>2. load.stage = "scheduled"
    BY DEF Assets!Load
  <2>3. LoadsHold(loads', memoized', released')
    BY <1>1, <2>1, LaneLoads
  <2> HIDE DEF load
  <2>4. /\ Len(loads') = Len(loads) + 1 /\ loads'[Len(loads) + 1] = load
        /\ \A k \in 1..Len(loads) : loads'[k] = loads[k]
        /\ \A k \in 1..Len(loads') : k \in 1..Len(loads) \/ k = Len(loads) + 1
    BY <1>1, <2>1
  <2>5. DownloadsHold'
    BY <1>1, <2>1, <2>2, <2>4, DownloadsStay
  <2> QED
    BY <2>3, <2>5 DEF AssetsInv
<1> QED
  BY <1>2, <1>3

LEMMA ParsingKeepsAssets ==
    ASSUME AssetsInv, NEW i \in DOMAIN loads, Assets!StartParsing(i)
    PROVE  AssetsInv'
<1> DEFINE key == <<"bytes", loads[i].asset>>
           once == Assets!Once(key, loads)
           list == once.loads
           source == once.memoized[key]
           r == [list[i] EXCEPT !.stage = "waiting", !.source = source]
<1>1. /\ i \in 1..Len(loads) /\ loads[i] \in LoadRecord /\ loads[i].asset \in Asset
      /\ loads[i].stage = "scheduled"
      /\ LoadsHold(loads, memoized, released) /\ released \subseteq Asset
      /\ Len(loads) \in Nat
  BY LoadsAreTyped DEF AssetsInv, DownloadsHold, LoadsHold, Assets!StartParsing
<1>2. key \in Assets!EntryKey
  BY <1>1 DEF Assets!EntryKey
<1>3. /\ LoadsHold(list, once.memoized, released)
      /\ source \in 1..Len(list) /\ Len(list) >= Len(loads)
      /\ \A k \in 1..Len(loads) : list[k] = loads[k]
      /\ \A k \in 1..Len(list) : k \in 1..Len(loads) \/ list[k].stage = "scheduled"
  BY <1>1, <1>2, OnceHolds
<1>4. /\ memoized' = once.memoized
      /\ loads' = [list EXCEPT ![i].stage = "waiting", ![i].source = source]
      /\ UNCHANGED <<persistent, downloaded, completed, released>>
  BY DEF Assets!StartParsing
<1> HIDE DEF once, key
<1>5. list[i] = loads[i] /\ i \in 1..Len(list) /\ list \in Seq(LoadRecord)
      /\ Len(list) \in Nat
  BY <1>1, <1>3 DEF LoadsHold
<1> HIDE DEF list, source
<1>6. /\ r \in LoadRecord /\ r.kind = list[i].kind /\ r.asset = list[i].asset
      /\ r.source = source /\ r.stage = "waiting"
  <2>1. source \in Nat /\ list[i] \in LoadRecord
    BY <1>1, <1>3, <1>5
  <2> QED
    BY <2>1, Zenon DEF LoadRecord
<1>7. loads' = [list EXCEPT ![i] = r]
  BY <1>4, <1>5
<1> HIDE DEF r
<1>8. list[i].stage \notin Assets!Settled
  BY <1>1, <1>5 DEF Assets!Settled
<1>9. LoadsHold(loads', memoized', released')
  <2>1. LoadsHold([list EXCEPT ![i] = r], once.memoized, released)
    BY <1>3, <1>5, <1>6, <1>8, LoadMoves
  <2> QED
    BY <2>1, <1>4, <1>7
<1>10. /\ Len(loads') = Len(list) /\ loads'[i] = r
       /\ \A k \in 1..Len(list) : k # i => loads'[k] = list[k]
  BY <1>5, <1>6, <1>7
<1>11. DownloadsHold'
  BY <1>1, <1>3, <1>4, <1>6, <1>10, DownloadsStay
<1> QED
  BY <1>9, <1>11 DEF AssetsInv

LEMMA OpeningKeepsAssets ==
    ASSUME AssetsInv, NEW i \in DOMAIN loads, Assets!Open(i)
    PROVE  AssetsInv'
<1>1. /\ loads[i].stage = "scheduled" /\ loads[i].stage \notin Assets!Settled
      /\ loads[i] \in LoadRecord /\ i \in 1..Len(loads) /\ loads \in Seq(LoadRecord)
  BY LoadsAreTyped DEF Assets!Open, Assets!Settled, AssetsInv, LoadsHold
<1>2. CASE Assets!MovesTo(i, "reading")
  BY <1>1, <1>2, StagesKeepAssets
<1>3. ASSUME NEW writes \in BOOLEAN,
             loads' = [loads EXCEPT ![i].stage = "fetching", ![i].writes = writes],
             UNCHANGED <<memoized, persistent, downloaded, completed, released>>
      PROVE  AssetsInv'
  <2> DEFINE r == [loads[i] EXCEPT !.stage = "fetching", !.writes = writes]
  <2>1. loads' = [loads EXCEPT ![i] = r]
    BY <1>1, <1>3
  <2>2. /\ r \in LoadRecord /\ r.kind = loads[i].kind /\ r.asset = loads[i].asset
        /\ r.source = loads[i].source /\ r.stage = "fetching"
    BY <1>1, Zenon DEF LoadRecord
  <2> HIDE DEF r
  <2> QED
    BY <1>1, <1>3, <2>1, <2>2, MovesKeepAssets
<1> QED
  BY <1>2, <1>3 DEF Assets!Open

(* A chunk is read, or the stream has ended, or the write. *)
LEMMA ReadingKeepsAssets ==
    ASSUME AssetsInv, NEW i \in DOMAIN loads,
           Assets!ReadChunk(i) \/ Assets!EndRead(i) \/ Assets!EndWrite(i)
    PROVE  AssetsInv'
<1>1. /\ i \in 1..Len(loads) /\ loads[i] \in LoadRecord /\ loads[i].asset \in Asset
      /\ loads[i].source \in 0..Len(loads) /\ loads[i].chunks \in 0..Size
      /\ loads[i].stage \notin Assets!Settled
      /\ LoadsHold(loads, memoized, released) /\ loads \in Seq(LoadRecord)
      /\ UNCHANGED <<memoized, released>>
  BY LoadsAreTyped DEF AssetsInv, LoadsHold, LoadRecord, Assets!Settled,
                       Assets!ReadChunk, Assets!EndRead, Assets!EndWrite
<1>2. PICK r \in LoadRecord :
         /\ loads' = [loads EXCEPT ![i] = r]
         /\ r.kind = loads[i].kind /\ r.asset = loads[i].asset
         /\ r.source = loads[i].source
         /\ \/ Assets!ReadChunk(i) /\ r.stage = "reading"
            \/ Assets!EndRead(i) /\ r.stage = "writing"
            \/ Assets!EndWrite(i) /\ r.stage = "fulfilled"
  <2>1. CASE Assets!ReadChunk(i)
    <3> DEFINE r == [loads[i] EXCEPT !.chunks = @ + 1]
    <3>1. r \in LoadRecord
      <4>1. loads[i].chunks + 1 \in 0..Size
        BY <1>1, <2>1, SizesCount DEF Assets!ReadChunk
      <4> QED
        BY <1>1, <4>1 DEF LoadRecord
    <3>2. /\ r.kind = loads[i].kind /\ r.asset = loads[i].asset
          /\ r.source = loads[i].source /\ r.stage = "reading"
      BY <1>1, <2>1 DEF LoadRecord, Assets!ReadChunk
    <3>3. loads' = [loads EXCEPT ![i] = r]
      BY <2>1 DEF Assets!ReadChunk
    <3> QED
      BY <2>1, <3>1, <3>2, <3>3
  <2>2. CASE Assets!EndRead(i)
    <3> DEFINE r == [loads[i] EXCEPT !.stage = "writing"]
    <3>1. /\ r \in LoadRecord /\ r.kind = loads[i].kind /\ r.asset = loads[i].asset
          /\ r.source = loads[i].source /\ r.stage = "writing"
      BY <1>1 DEF LoadRecord
    <3>2. loads' = [loads EXCEPT ![i] = r]
      BY <2>2 DEF Assets!EndRead
    <3> QED
      BY <2>2, <3>1, <3>2
  <2>3. CASE Assets!EndWrite(i)
    <3> DEFINE r == [loads[i] EXCEPT !.stage = "fulfilled"]
    <3>1. /\ r \in LoadRecord /\ r.kind = loads[i].kind /\ r.asset = loads[i].asset
          /\ r.source = loads[i].source /\ r.stage = "fulfilled"
      BY <1>1 DEF LoadRecord
    <3>2. loads' = [loads EXCEPT ![i] = r]
      BY <2>3 DEF Assets!EndWrite
    <3> QED
      BY <2>3, <3>1, <3>2
  <2> QED
    BY <2>1, <2>2, <2>3
<1>3. LoadsHold(loads', memoized', released')
  <2>1. r.stage # "rejected"
    BY <1>2
  <2> QED
    BY <1>1, <1>2, <2>1, LoadMoves
<1>4. /\ Len(loads') = Len(loads) /\ loads'[i] = r
      /\ \A k \in 1..Len(loads) : k # i => loads'[k] = loads[k]
  BY <1>1, <1>2
<1>5. /\ persistent' \subseteq Asset /\ released' \subseteq Asset
      /\ downloaded' \in [Asset -> 0..Size]
      /\ completed' \subseteq Asset /\ completed \subseteq completed'
  <2>1. /\ persistent \subseteq Asset /\ released \subseteq Asset
        /\ downloaded \in [Asset -> 0..Size] /\ completed \subseteq Asset
    BY DEF AssetsInv, DownloadsHold
  <2>2. /\ loads[i].asset \in Asset /\ Size \in Nat
        /\ loads[i].chunks < Size => loads[i].chunks + 1 \in 0..Size
    BY <1>1, SizesCount
  <2>3. CASE Assets!ReadChunk(i)
    BY <2>1, <2>2, <2>3 DEF Assets!ReadChunk
  <2>4. CASE Assets!EndRead(i)
    BY <2>1, <2>2, <2>4 DEF Assets!EndRead
  <2>5. CASE Assets!EndWrite(i)
    BY <2>1, <2>2, <2>5 DEF Assets!EndWrite
  <2> QED
    BY <2>3, <2>4, <2>5
<1>6. \A a \in completed : downloaded[a] = Size
  BY DEF AssetsInv, DownloadsHold, Assets!ProgressIsFinal
<1>7. \A a \in completed : downloaded'[a] = Size
  BY <1>1, <1>6 DEF Assets!Counts, Assets!ReadChunk, Assets!EndRead, Assets!EndWrite,
                    AssetsInv, DownloadsHold
<1>8. \A a \in completed' : a \in completed \/ (a = loads[i].asset /\ ~Assets!ReadChunk(i))
  BY DEF Assets!ReadChunk, Assets!EndRead, Assets!EndWrite
<1>9. ~Assets!ReadChunk(i) /\ loads[i].asset \notin completed =>
          downloaded'[loads[i].asset] = Size
  <2>1. CASE Assets!EndRead(i)
    BY <1>1, <2>1 DEF Assets!Counts, Assets!EndRead, AssetsInv, DownloadsHold
  <2>2. CASE Assets!EndWrite(i)
    BY <1>1, <2>2 DEF Assets!Counts, Assets!EndWrite, AssetsInv, DownloadsHold
  <2> QED
    BY <2>1, <2>2
<1>10. Assets!ProgressIsFinal'
  BY <1>7, <1>8, <1>9 DEF Assets!ProgressIsFinal
<1>11. \A k \in 1..Len(loads') : loads'[k].stage = "writing" =>
           loads'[k].chunks = 0 \/ loads'[k].asset \in completed'
  <2>1. r.stage = "writing" => loads[i].asset \in completed'
    BY <1>2 DEF Assets!EndRead
  <2> QED
    BY <1>2, <1>4, <1>5, <2>1 DEF AssetsInv, DownloadsHold
<1> QED
  BY <1>3, <1>5, <1>10, <1>11 DEF AssetsInv, DownloadsHold

(* The entry of a failed promise is deleted, and no other promise of its   *)
(* key is in flight unless the key was released.                           *)
LEMMA FailingKeepsAssets ==
    ASSUME AssetsInv, NEW i \in DOMAIN loads, Assets!Fail(i)
    PROVE  AssetsInv'
<1> DEFINE r == [loads[i] EXCEPT !.stage = "rejected"]
<1>1. /\ i \in 1..Len(loads) /\ loads[i] \in LoadRecord
      /\ loads[i].source \in 0..Len(loads) /\ loads[i].stage = "failing"
      /\ LoadsHold(loads, memoized, released) /\ loads \in Seq(LoadRecord)
      /\ Assets!Settled = {"fulfilled", "rejected"}
  BY LoadsAreTyped DEF AssetsInv, LoadsHold, Assets!Fail
<1>2. /\ loads' = [loads EXCEPT ![i] = r] /\ memoized' = Assets!Forgotten(loads[i])
      /\ UNCHANGED <<persistent, downloaded, completed, released>>
  BY DEF Assets!Fail
<1>3. /\ r \in LoadRecord /\ r.kind = loads[i].kind /\ r.asset = loads[i].asset
      /\ r.source = loads[i].source /\ r.stage = "rejected"
  BY <1>1 DEF LoadRecord
<1> HIDE DEF r
<1>4. /\ Len(loads') = Len(loads) /\ loads'[i] = r /\ loads' \in Seq(LoadRecord)
      /\ \A k \in 1..Len(loads) : k # i => loads'[k] = loads[k]
  BY <1>1, <1>2, <1>3
<1>5. /\ memoized' \in [Assets!EntryKey -> 0..Len(loads)]
      /\ \A key \in Assets!EntryKey :
            \/ memoized'[key] = memoized[key] /\ memoized[key] # i
            \/ memoized'[key] = 0
  <2>1. \A key \in Assets!EntryKey : memoized[key] = i => key = Assets!KeyOf(loads[i])
    BY <1>1 DEF LoadsHold
  <2>2. CASE loads[i].kind = "lane"
    <3>1. memoized' = memoized
      BY <1>2, <2>2 DEF Assets!Forgotten
    <3>2. \A key \in Assets!EntryKey : memoized[key] # i
      BY <2>1, <2>2 DEF Assets!EntryKey, Assets!KeyOf
    <3> QED
      BY <1>1, <3>1, <3>2 DEF LoadsHold
  <2>3. CASE loads[i].kind # "lane"
    <3>1. memoized' = [memoized EXCEPT ![Assets!KeyOf(loads[i])] = 0]
      BY <1>2, <2>3 DEF Assets!Forgotten, Assets!NoLoad
    <3>2. memoized \in [Assets!EntryKey -> 0..Len(loads)] /\ 0 \in 0..Len(loads)
      BY <1>1 DEF LoadsHold
    <3>3. memoized' \in [Assets!EntryKey -> 0..Len(loads)]
      BY <3>1, <3>2
    <3>4. \A key \in Assets!EntryKey :
              memoized'[key] = IF key = Assets!KeyOf(loads[i]) THEN 0 ELSE memoized[key]
      BY <3>1, <3>2, Zenon
    <3> QED
      BY <2>1, <3>3, <3>4
  <2> QED
    BY <2>2, <2>3
<1>6. \A k \in 1..Len(loads) :
          /\ loads[k].kind # "lane" /\ loads[k].stage \notin Assets!Settled
          /\ loads[k].asset \notin released /\ k # i
          => memoized'[Assets!KeyOf(loads[k])] = k
  <2> SUFFICES ASSUME NEW k \in 1..Len(loads), loads[k].kind # "lane",
                      loads[k].stage \notin Assets!Settled,
                      loads[k].asset \notin released, k # i
               PROVE  memoized'[Assets!KeyOf(loads[k])] = k
    OBVIOUS
  <2>1. memoized[Assets!KeyOf(loads[k])] = k
    BY <1>1 DEF LoadsHold
  <2>2. Assets!KeyOf(loads[k]) # Assets!KeyOf(loads[i]) \/ loads[i].kind = "lane"
    <3>1. loads[i].kind # "lane" /\ loads[i].asset \notin released =>
              memoized[Assets!KeyOf(loads[i])] = i
      BY <1>1 DEF LoadsHold
    <3> QED
      BY <2>1, <3>1 DEF Assets!KeyOf
  <2>3. Assets!KeyOf(loads[k]) \in Assets!EntryKey
    <3>1. loads[k] \in LoadRecord
      BY <1>1
    <3>2. loads[k].kind \in {"bytes", "parsed"} /\ loads[k].asset \in Asset
      BY <3>1 DEF LoadRecord
    <3> QED
      BY <3>2 DEF Assets!EntryKey, Assets!KeyOf
  <2> QED
    BY <1>1, <1>2, <2>1, <2>2, <2>3 DEF Assets!Forgotten, LoadsHold
<1>7. LoadsHold(loads', memoized', released')
  <2>1. \A k \in 1..Len(loads') : loads'[k].source \in 0..Len(loads')
    BY <1>1, <1>3, <1>4 DEF LoadsHold
  <2>2. \A key \in Assets!EntryKey : memoized'[key] # 0 =>
            /\ Assets!KeyOf(loads'[memoized'[key]]) = key
            /\ loads'[memoized'[key]].stage # "rejected"
    <3> SUFFICES ASSUME NEW key \in Assets!EntryKey, memoized'[key] # 0
                 PROVE  /\ Assets!KeyOf(loads'[memoized'[key]]) = key
                        /\ loads'[memoized'[key]].stage # "rejected"
      OBVIOUS
    <3>1. memoized'[key] = memoized[key] /\ memoized[key] # i
      BY <1>5
    <3>2. memoized[key] \in 1..Len(loads)
      BY <1>1, <3>1 DEF LoadsHold
    <3> QED
      BY <1>1, <1>4, <3>1, <3>2 DEF LoadsHold
  <2>3. \A k \in 1..Len(loads') :
            /\ loads'[k].kind # "lane" /\ loads'[k].stage \notin Assets!Settled
            /\ loads'[k].asset \notin released'
            => memoized'[Assets!KeyOf(loads'[k])] = k
    BY <1>1, <1>2, <1>3, <1>4, <1>6
  <2> QED
    BY <1>4, <1>5, <2>1, <2>2, <2>3 DEF LoadsHold
<1>8. DownloadsHold'
  BY <1>2, <1>3, <1>4, DownloadsStay DEF AssetsInv, DownloadsHold
<1> QED
  BY <1>7, <1>8 DEF AssetsInv

LEMMA ReleasesKeepAssets ==
    ASSUME AssetsInv, NEW assets \in SUBSET Asset, Assets!Releases(assets)
    PROVE  AssetsInv'
<1>1. /\ memoized' = [key \in Assets!EntryKey |-> IF key[2] \in assets THEN 0
                                                  ELSE memoized[key]]
      /\ released' = released \union assets
      /\ UNCHANGED <<loads, persistent, downloaded, completed>>
      /\ LoadsHold(loads, memoized, released)
  BY DEF Assets!Releases, Assets!NoLoad, AssetsInv
<1>2. memoized' \in [Assets!EntryKey -> 0..Len(loads)]
  <2>1. 0 \in 0..Len(loads)
    BY <1>1 DEF LoadsHold
  <2> QED
    BY <1>1, <2>1 DEF LoadsHold
<1>3. \A i \in 1..Len(loads) :
          /\ loads[i].kind # "lane" /\ loads[i].stage \notin Assets!Settled
          /\ loads[i].asset \notin released'
          => memoized'[Assets!KeyOf(loads[i])] = i
  <2> SUFFICES ASSUME NEW i \in 1..Len(loads), loads[i].kind # "lane",
                      loads[i].stage \notin Assets!Settled,
                      loads[i].asset \notin released'
               PROVE  memoized'[Assets!KeyOf(loads[i])] = i
    OBVIOUS
  <2>1. memoized[Assets!KeyOf(loads[i])] = i /\ loads[i].asset \notin assets
    BY <1>1 DEF LoadsHold
  <2>2. Assets!KeyOf(loads[i]) \in Assets!EntryKey
        /\ Assets!KeyOf(loads[i])[2] = loads[i].asset
    <3>1. loads[i] \in LoadRecord
      BY <1>1 DEF LoadsHold
    <3>2. loads[i].kind \in {"bytes", "parsed"} /\ loads[i].asset \in Asset
      BY <3>1 DEF LoadRecord
    <3> QED
      BY <3>2 DEF Assets!EntryKey, Assets!KeyOf
  <2> QED
    BY <1>1, <2>1, <2>2
<1>4. LoadsHold(loads', memoized', released')
  BY <1>1, <1>2, <1>3 DEF LoadsHold
<1>5. DownloadsHold'
  BY <1>1 DEF AssetsInv, DownloadsHold, Assets!ProgressIsFinal
<1> QED
  BY <1>4, <1>5 DEF AssetsInv

LEMMA InitAssets == Assets!Init => AssetsInv
<1> SUFFICES ASSUME Assets!Init PROVE AssetsInv
  OBVIOUS
<1>1. /\ loads = <<>> /\ memoized = [key \in Assets!EntryKey |-> 0]
      /\ persistent \subseteq Asset /\ downloaded = [a \in Asset |-> 0]
      /\ completed = {} /\ released = {}
  BY DEF Assets!Init, Assets!NoLoad
<1>2. LoadsHold(loads, memoized, released)
  BY <1>1 DEF LoadsHold
<1>3. DownloadsHold
  BY <1>1, SizesCount DEF DownloadsHold, Assets!ProgressIsFinal
<1> QED
  BY <1>2, <1>3 DEF AssetsInv

LEMMA NextAssets == AssetsInv /\ [Assets!Next]_(Assets!vars) => AssetsInv'
<1> SUFFICES ASSUME AssetsInv, [Assets!Next]_(Assets!vars) PROVE AssetsInv'
  OBVIOUS
<1>1. CASE UNCHANGED Assets!vars
  BY <1>1 DEF Assets!vars, AssetsInv, LoadsHold, DownloadsHold, Assets!ProgressIsFinal
<1>2. ASSUME NEW i \in DOMAIN loads,
             \/ Assets!Parse(i) \/ Assets!Fetch(i)
             \/ Assets!ReadWhole(i) \/ Assets!BreakOff(i)
      PROVE  AssetsInv'
  <2>1. loads[i].stage \in {"waiting", "fetching", "reading"}
    BY <1>2 DEF Assets!Parse, Assets!Fetch, Assets!ReadWhole, Assets!BreakOff
  <2>2. loads[i].stage \notin Assets!Settled
    BY <2>1 DEF Assets!Settled
  <2>3. \E next \in {"reading", "writing", "failing", "fulfilled"} :
            Assets!MovesTo(i, next) /\ (next = "writing" => loads[i].chunks = 0)
    BY <1>2 DEF Assets!Parse, Assets!Fetch, Assets!ReadWhole, Assets!BreakOff
  <2> QED
    BY <2>2, <2>3, StagesKeepAssets
<1>3. CASE Assets!ReleaseDecoderShards \/ Assets!Release
  <2>1. {WeightAsset} \in SUBSET Asset
    BY SizesCount
  <2> QED
    BY <1>3, <2>1, ReleasesKeepAssets DEF Assets!ReleaseDecoderShards, Assets!Release
<1> QED
  BY <1>1, <1>2, <1>3, RequestsKeepAssets, ParsingKeepsAssets, OpeningKeepsAssets,
     ReadingKeepsAssets, FailingKeepsAssets DEF Assets!Next

LEMMA AssetsAreTyped == AssetsInv => Assets!TypeOK
<1> SUFFICES ASSUME AssetsInv PROVE Assets!TypeOK
  OBVIOUS
<1>1. \A i \in DOMAIN loads : /\ loads[i].asset \in Asset
                              /\ loads[i].chunks \in 0..Size
                              /\ loads[i].source \in 0..Len(loads)
  BY LoadsAreTyped DEF LoadRecord
<1> QED
  BY <1>1 DEF AssetsInv, LoadsHold, DownloadsHold, Assets!TypeOK

LEMMA EntriesSound == AssetsInv => AssetsAreSound
<1> SUFFICES ASSUME AssetsInv PROVE AssetsAreSound
  OBVIOUS
<1>1. LoadsHold(loads, memoized, released) /\ DOMAIN loads = 1..Len(loads)
  BY DEF AssetsInv, LoadsHold
<1>2. Assets!EntriesAreSound
  BY <1>1 DEF LoadsHold, Assets!EntriesAreSound, Assets!NoLoad
<1> QED
  BY <1>2 DEF AssetsInv, DownloadsHold, AssetsAreSound

(* Lanes share one download of an asset until it is released, a failure is *)
(* retried, and the progress of an asset is final once it was downloaded   *)
(* (browser_ocr_runtime.mjs), for any number of assets, of lanes and of    *)
(* chunks of a download.                                                   *)
THEOREM EntriesAreShared == SpecComponents => [](Assets!TypeOK /\ AssetsAreSound)
<1>1. Assets!Spec => []AssetsInv
  BY InitAssets, NextAssets, PTL DEF Assets!Spec
<1> QED
  BY <1>1, AssetsRun, AssetsAreTyped, EntriesSound, PTL

-----------------------------------------------------------------------------
(* NativeRuntime.                                                          *)

LEMMA NativeRuns == SpecComponents => Native!Spec
<1>1. InitComponents => Native!Init
  BY DEF InitComponents
<1>2. [NextComponents]_allVars => [Native!Next]_(Native!nativeVars)
  <2>1. UNCHANGED allVars => UNCHANGED nativeVars
    BY DEF allVars
  <2>2. UNCHANGED nativeVars => UNCHANGED Native!nativeVars
    BY DEF nativeVars, Native!nativeVars, Native!callVars, Native!gpuVars,
           Native!kvVars, Native!captureVars
  <2>3. NextComponents => Native!Next \/ UNCHANGED nativeVars
    <3> SUFFICES ASSUME NextComponents PROVE Native!Next \/ UNCHANGED nativeVars
      OBVIOUS
    <3>1. CASE component = "native runtime"
      BY <3>1 DEF NextComponents
    <3>2. CASE component # "native runtime"
      BY <3>2 DEF NextComponents
    <3> QED
      BY <3>1, <3>2
  <2> QED
    BY <2>1, <2>2, <2>3
<1> QED
  BY <1>1, <1>2, PTL DEF SpecComponents, Native!Spec

NativeKind == Native!Creating \union Native!Submitting
CallRecord ==
    [pc : {"idle", "scoped", "created", "submitted", "mapped", "closing"},
     kind : NativeKind \union {"none"}, attempt : Nat, before : Nat,
     submission : Nat, valid : BOOLEAN, mapping : BOOLEAN,
     why : {"none", "timeout", "mapping", "stale", "canary"},
     values : Seq(Nat), pair : Nat, fresh : BOOLEAN]
KvRecord ==
    [state : {"none", "healthy", "poisoned"}, id : Nat, tokens : Nat,
     rows : Seq(Nat), attention : Seq(Nat), mapped : BOOLEAN]
WorkRecord ==
    [number : Nat, by : Thread, kind : NativeKind \union {"none"}, session : Nat,
     tokens : Nat]

NativeTypes ==
    /\ calls \in [Thread -> CallRecord]
    /\ kvSessions \in [Thread -> KvRecord]
    /\ committed \in [Thread -> Seq(Nat)]
    /\ queue \in Seq(WorkRecord)
    /\ submissions \in Nat /\ resolved \in Nat /\ lastTimestamp \in Nat
    /\ reported \subseteq Nat
    /\ readbackMapped \in BOOLEAN

(* One call at a time is past the lock, and the scopes are its own.        *)
LockHolds ==
    /\ executionLock \in Thread \union {NoThread}
    /\ \A t \in Thread : calls[t].pc # "idle" <=> executionLock = t
    /\ \A t \in Thread : calls[t].pc = "idle" => calls[t] = Native!Idle
    /\ \A t \in Thread : calls[t].pc # "closing" => calls[t].why = "none"
    /\ executionLock = NoThread => errorScopes = <<>>
    /\ executionLock # NoThread => errorScopes \in [1..3 -> BOOLEAN]

CaptureHolds ==
    /\ captureLock \in Thread \union {NoThread}
    /\ metalCapturing <=> captureLock # NoThread
    /\ document = "partial" => captureLock # NoThread
    /\ document \in {"absent", "partial", "returned", "abandoned"}
    /\ pipeline \in {"absent", "valid", "invalid"}

(* Submissions run in the order of their numbers, and what is pending is   *)
(* later than any pair that was resolved or accepted; a pending submission *)
(* of a call is what the call submitted.  A session is younger than the    *)
(* submissions before it: work of an earlier session of the same thread    *)
(* never bears its name.                                                   *)
QueueHolds ==
    /\ \A i \in 1..Len(queue) :
          /\ queue[i].number <= submissions
          /\ queue[i].number > resolved
          /\ queue[i].number > lastTimestamp
          /\ queue[i].kind = "step" => queue[i].session < queue[i].number
    /\ \A i, k \in 1..Len(queue) : i < k => queue[i].number < queue[k].number
    /\ \A i \in 1..Len(queue), t \in Thread :
          queue[i].number = calls[t].submission =>
              /\ queue[i].by = t
              /\ queue[i].kind = calls[t].kind
              /\ queue[i].session = kvSessions[t].id
              /\ queue[i].tokens = kvSessions[t].tokens
    /\ \A t \in Thread : /\ calls[t].submission <= submissions
                         /\ kvSessions[t].id <= submissions

(* Pairs are reported in the order of the submissions that measured them.  *)
TimestampsHold ==
    /\ resolved = 0 \/ resolved >= lastTimestamp
    /\ resolved <= submissions /\ lastTimestamp <= submissions
    /\ \A pair \in reported : pair <= lastTimestamp
    /\ \A t \in Thread : calls[t].fresh /\ calls[t].why = "none" =>
          calls[t].pair = lastTimestamp /\ calls[t].pair \notin reported
    /\ \A t \in Thread : calls[t].why = "canary" => ~readbackMapped

NoErrors == \A i \in DOMAIN errorScopes : ~errorScopes[i]

(* What a call that will succeed has read, once its submission has run.    *)
ValuesOf(t) ==
    CASE calls[t].kind = "step" -> Append(committed[t], calls[t].submission)
      [] calls[t].kind = "finish" -> committed[t]
      [] OTHER -> <<calls[t].submission>>

(* A call submits once, but for the attempts of a single kernel, and what  *)
(* was not refused runs before the call goes on.                           *)
CallHolds(t) ==
    calls[t].pc # "idle" /\ calls[t].kind \in Native!Submitting =>
        /\ calls[t].kind # "kernel" =>
              submissions = IF calls[t].pc \in {"scoped", "created"}
                            THEN calls[t].before ELSE calls[t].before + 1
        /\ /\ calls[t].pc \in {"submitted", "mapped", "closing"}
           /\ NoErrors /\ calls[t].why = "none"
           => /\ calls[t].pc # "submitted" => ~Native!Pending(calls[t].submission)
              /\ ~Native!Pending(calls[t].submission) =>
                    /\ calls[t].values = ValuesOf(t)
                    /\ calls[t].kind = "step" => kvSessions[t].rows = ValuesOf(t)
              /\ Native!Pending(calls[t].submission) /\ calls[t].kind = "step" =>
                    kvSessions[t].rows = committed[t]

(* A healthy session has its committed rows and no step pending; the       *)
(* session of a step is poisoned, with no other step of it pending.        *)
SessionHolds(t) ==
    /\ kvSessions[t].tokens <= Len(kvSessions[t].rows)
    /\ kvSessions[t].state = "healthy" =>
          /\ kvSessions[t].tokens = Len(committed[t])
          /\ kvSessions[t].rows = committed[t]
    /\ calls[t].kind = "begin" => kvSessions[t].state = "none"
    /\ calls[t].kind = "finish" => kvSessions[t].state = "healthy"
    /\ calls[t].kind = "step" =>
          /\ kvSessions[t].state = "poisoned"
          /\ kvSessions[t].tokens = Len(committed[t])
          /\ calls[t].pc \in {"scoped", "created"} =>
                kvSessions[t].rows = committed[t] /\ calls[t].submission = 0
    /\ \A i \in 1..Len(queue) :
          /\ queue[i].kind = "step" /\ queue[i].by = t
          /\ queue[i].session = kvSessions[t].id
          /\ kvSessions[t].state # "none"
          => /\ kvSessions[t].state = "poisoned"
             /\ queue[i].tokens = kvSessions[t].tokens
             /\ calls[t].kind = "step" => queue[i].number = calls[t].submission

ResultHolds ==
    /\ ~result.repeats
    /\ result.ok => result.by \in Thread
    /\ Native!ResultsAreOwn
    /\ result.ok /\ result.kind \in {"step", "finish"} =>
           result.values = committed[result.by]

NativeInv ==
    /\ NativeTypes /\ LockHolds /\ CaptureHolds /\ QueueHolds /\ TimestampsHold
    /\ \A t \in Thread : CallHolds(t) /\ SessionHolds(t)
    /\ ResultHolds

LEMMA IdleIsTyped ==
    /\ Native!Idle \in CallRecord /\ Native!Idle.pc = "idle"
    /\ Native!Idle.kind = "none" /\ Native!Idle.submission = 0
    /\ Native!Idle.why = "none" /\ Native!Idle.fresh = FALSE
<1>1. <<>> \in Seq(Nat)
  OBVIOUS
<1> QED
  BY <1>1 DEF Native!Idle, CallRecord

LEMMA NativeKinds ==
    /\ Native!Submitting \subseteq NativeKind /\ Native!Creating \subseteq NativeKind
    /\ "none" \notin NativeKind
    /\ Native!Timed \subseteq Native!Submitting
    /\ "kernel" \in Native!Timed
    /\ \A k \in {"step", "finish", "fused qkv", "cached gqa"} :
          k \in Native!Submitting /\ k \notin Native!Timed
    /\ "begin" \notin Native!Submitting /\ "pipeline" \notin Native!Submitting
BY DEF NativeKind, Native!Submitting, Native!Creating, Native!Timed

(* While a call is past the lock all others are idle. *)
LEMMA OthersIdle ==
    ASSUME NativeInv, NEW t \in Thread, calls[t].pc # "idle"
    PROVE  /\ executionLock = t
           /\ \A u \in Thread : u # t =>
                 /\ calls[u] = Native!Idle
                 /\ calls[u].pc = "idle" /\ calls[u].kind = "none"
                 /\ calls[u].submission = 0 /\ calls[u].why = "none"
                 /\ calls[u].fresh = FALSE
BY IdleIsTyped DEF NativeInv, LockHolds

(* A call past the lock moves on without a submission: it creates, waits,  *)
(* times out, fails to map or reads.                                       *)
LEMMA CallMoves ==
    ASSUME NativeInv, NoThread \notin Thread,
           NEW t \in Thread, calls[t].pc # "idle",
           NEW c \in CallRecord, calls' = [calls EXCEPT ![t] = c], c.pc # "idle",
           c.kind = calls[t].kind, c.submission = calls[t].submission,
           c.values = calls[t].values, c.before = calls[t].before,
           c.pc # "closing" => c.why = "none",
           UNCHANGED <<executionLock, queue, submissions, resolved, result,
                       reported, committed>>,
           c.pc \in {"scoped", "created"} =>
               calls[t].pc \in {"scoped", "created"} \/ c.kind = "kernel",
           c.pc \in {"submitted", "mapped", "closing"} =>
               \/ calls[t].pc \in {"submitted", "mapped", "closing"}
               \/ c.kind \notin Native!Submitting,
           c.pc \in {"submitted", "mapped", "closing"} /\ c.why = "none" =>
               \/ /\ calls[t].why = "none"
                  /\ calls[t].pc # "submitted" \/ ~Native!Pending(calls[t].submission)
               \/ c.kind \notin Native!Submitting,
           errorScopes' \in [1..3 -> BOOLEAN], NoErrors' => NoErrors,
           kvSessions' \in [Thread -> KvRecord],
           \A u \in Thread : /\ kvSessions'[u].state = kvSessions[u].state
                             /\ kvSessions'[u].id = kvSessions[u].id
                             /\ kvSessions'[u].tokens = kvSessions[u].tokens
                             /\ kvSessions'[u].rows = kvSessions[u].rows,
           lastTimestamp' \in {lastTimestamp, resolved}, readbackMapped' \in BOOLEAN,
           TimestampsHold', CaptureHolds'
    PROVE  NativeInv'
<1>1. /\ executionLock = t
      /\ \A u \in Thread : u # t => /\ calls[u].kind = "none" /\ calls[u].pc = "idle"
                                    /\ calls'[u] = calls[u]
      /\ calls'[t] = c /\ calls' \in [Thread -> CallRecord]
  BY OthersIdle DEF NativeInv, NativeTypes
<1>2. NativeTypes'
  BY <1>1 DEF NativeInv, NativeTypes
<1>3. LockHolds'
  BY <1>1 DEF NativeInv, LockHolds
<1>4. \A u \in Thread : /\ calls'[u].submission = calls[u].submission
                        /\ calls'[u].kind = calls[u].kind
  BY <1>1
<1>5. QueueHolds'
  <2>1. \A i \in 1..Len(queue) : queue[i].number > lastTimestamp'
    BY DEF NativeInv, QueueHolds
  <2> QED
    BY <1>4, <2>1 DEF NativeInv, QueueHolds
<1>6. \A u \in Thread : CallHolds(u)'
  <2> SUFFICES ASSUME NEW u \in Thread PROVE CallHolds(u)'
    OBVIOUS
  <2>1. CASE u # t
    <3>1. calls'[u].pc = "idle"
      BY <1>1, <2>1
    <3> QED
      BY <3>1 DEF CallHolds
  <2>2. CASE u = t
    <3> SUFFICES ASSUME c.kind \in Native!Submitting PROVE CallHolds(t)'
      BY <1>1, <2>2 DEF CallHolds
    <3>1. CallHolds(t) /\ calls[t].kind \in Native!Submitting
      BY DEF NativeInv
    <3>2. Native!Pending(calls[t].submission)' <=> Native!Pending(calls[t].submission)
      BY <1>4 DEF Native!Pending
    <3>3. ValuesOf(t)' = ValuesOf(t)
      BY <1>1 DEF ValuesOf
    <3>4. c.kind # "kernel" =>
              submissions' = IF c.pc \in {"scoped", "created"} THEN c.before ELSE c.before + 1
      <4>1. c.pc \in {"scoped", "created"} \/ c.pc \in {"submitted", "mapped", "closing"}
        BY DEF CallRecord
      <4> QED
        BY <3>1, <4>1 DEF CallHolds
    <3>5. ASSUME c.pc \in {"submitted", "mapped", "closing"}, NoErrors', c.why = "none"
          PROVE  /\ ~Native!Pending(calls[t].submission)
                 /\ c.values = ValuesOf(t)
                 /\ c.kind = "step" => kvSessions[t].rows = ValuesOf(t)
      BY <3>1, <3>5 DEF CallHolds
    <3> QED
      BY <1>1, <3>2, <3>3, <3>4, <3>5 DEF CallHolds
  <2> QED
    BY <2>1, <2>2
<1>7. \A u \in Thread : SessionHolds(u)'
  <2> SUFFICES ASSUME NEW u \in Thread PROVE SessionHolds(u)'
    OBVIOUS
  <2>1. SessionHolds(u)
    BY DEF NativeInv
  <2>2. calls[u].kind = "step" /\ calls'[u].pc \in {"scoped", "created"} =>
            calls[u].pc \in {"scoped", "created"}
    BY <1>1, <1>4
  <2> QED
    BY <1>4, <2>1, <2>2 DEF SessionHolds
<1>8. ResultHolds'
  BY DEF NativeInv, ResultHolds, Native!ResultsAreOwn
<1> QED
  BY <1>2, <1>3, <1>5, <1>6, <1>7, <1>8 DEF NativeInv

LEMMA CreatesKeeps ==
    ASSUME NativeInv, NoThread \notin Thread, NEW t \in Thread,
           NEW lost \in {"nothing", "pipeline", "buffer"}, NEW cached \in BOOLEAN,
           Native!Creates(t, lost, cached)
    PROVE  NativeInv'
<1> DEFINE caching == cached /\ calls[t].kind \in Native!Creating
           invalid == lost # "nothing" \/ (caching /\ pipeline = "invalid")
           next == IF calls[t].kind \in Native!Submitting THEN "created" ELSE "closing"
           c == [calls[t] EXCEPT !.pc = next, !.valid = ~invalid]
<1>1. /\ calls[t].pc = "scoped"
      /\ calls' = [calls EXCEPT ![t].pc = next, ![t].valid = ~invalid]
      /\ \E scope \in 1..3 : errorScopes' = IF invalid THEN Native!Captured(scope)
                                            ELSE errorScopes
      /\ pipeline' = IF caching /\ pipeline = "absent"
                     THEN IF lost = "pipeline" THEN "invalid" ELSE "valid"
                     ELSE pipeline
      /\ UNCHANGED <<program, executionLock, succeeded, result, reported, queue,
                     submissions, resolved, readbackMapped, lastTimestamp,
                     kvSessions, committed, captureLock, metalCapturing, document>>
  BY DEF Native!Creates, Native!kvVars, Native!captureVars
<1>2. /\ calls \in [Thread -> CallRecord] /\ calls[t] \in CallRecord
      /\ kvSessions \in [Thread -> KvRecord]
      /\ lastTimestamp \in {lastTimestamp, resolved} /\ readbackMapped \in BOOLEAN
      /\ executionLock = t /\ errorScopes \in [1..3 -> BOOLEAN]
      /\ calls[t].why = "none"
  BY <1>1, OthersIdle DEF NativeInv, NativeTypes, LockHolds
<1>3. invalid \in BOOLEAN /\ next \in {"created", "closing"}
      /\ (next = "closing" <=> calls[t].kind \notin Native!Submitting)
  OBVIOUS
<1>4. CaptureHolds'
  BY <1>1 DEF NativeInv, CaptureHolds
<1> HIDE DEF invalid, next
<1>5. /\ c \in CallRecord /\ c.pc = next /\ c.kind = calls[t].kind
      /\ c.submission = calls[t].submission /\ c.values = calls[t].values
      /\ c.before = calls[t].before /\ c.why = calls[t].why
      /\ c.fresh = calls[t].fresh /\ c.pair = calls[t].pair
  BY <1>2, <1>3, Zenon DEF CallRecord
<1>6. calls' = [calls EXCEPT ![t] = c]
  BY <1>1, <1>2, Zenon
<1> HIDE DEF c
<1>7. errorScopes' \in [1..3 -> BOOLEAN] /\ (NoErrors' => NoErrors)
  BY <1>1, <1>2 DEF Native!Captured, NoErrors
<1>8. TimestampsHold'
  <2>1. \A u \in Thread : /\ calls'[u].fresh = calls[u].fresh
                          /\ calls'[u].why = calls[u].why
                          /\ calls'[u].pair = calls[u].pair
    BY <1>2, <1>5, <1>6
  <2>2. \A u \in Thread : calls[u].fresh /\ calls[u].why = "none" =>
            calls[u].pair = lastTimestamp /\ calls[u].pair \notin reported
    BY DEF NativeInv, TimestampsHold
  <2>3. \A u \in Thread : calls'[u].fresh /\ calls'[u].why = "none" =>
            calls'[u].pair = lastTimestamp /\ calls'[u].pair \notin reported
    BY <2>1, <2>2, Zenon
  <2>4. \A u \in Thread : calls'[u].why = "canary" => ~readbackMapped
    BY <2>1 DEF NativeInv, TimestampsHold
  <2> QED
    BY <1>1, <2>3, <2>4 DEF NativeInv, TimestampsHold
<1> QED
  BY <1>1, <1>2, <1>3, <1>4, <1>5, <1>6, <1>7, <1>8, CallMoves

(* Call c is that of thread t further on. *)
MovedCall(c, t, next, reason) ==
    /\ c \in CallRecord /\ c.pc = next /\ c.why = reason
    /\ c.kind = calls[t].kind /\ c.submission = calls[t].submission
    /\ c.values = calls[t].values /\ c.before = calls[t].before
    /\ c.fresh = calls[t].fresh /\ c.pair = calls[t].pair

(* The call moves and nothing else does, but what went wrong.              *)
LEMMA CallOnlyMoves ==
    ASSUME NativeInv, NoThread \notin Thread, NEW t \in Thread,
           NEW c \in CallRecord, calls' = [calls EXCEPT ![t] = c],
           c.kind = calls[t].kind, c.submission = calls[t].submission,
           c.values = calls[t].values, c.before = calls[t].before,
           c.fresh = calls[t].fresh, c.pair = calls[t].pair,
           c.pc \in {"mapped", "closing"}, c.why \in {"none", "timeout", "mapping"},
           calls[t].pc \in {"submitted", "mapped"},
           c.pc = "mapped" => c.why = "none",
           c.why = "none" => ~Native!Pending(calls[t].submission),
           UNCHANGED <<executionLock, succeeded, result, reported, errorScopes,
                       Native!gpuVars, lastTimestamp, Native!kvVars,
                       Native!captureVars>>
    PROVE  NativeInv'
<1>1. UNCHANGED <<executionLock, result, reported, errorScopes, pipeline, queue,
                  submissions, resolved, readbackMapped, lastTimestamp,
                  kvSessions, committed, captureLock, metalCapturing, document>>
  BY DEF Native!gpuVars, Native!kvVars, Native!captureVars
<1>2. /\ calls \in [Thread -> CallRecord] /\ calls[t] \in CallRecord
      /\ kvSessions \in [Thread -> KvRecord]
      /\ lastTimestamp \in {lastTimestamp, resolved} /\ readbackMapped \in BOOLEAN
      /\ executionLock = t /\ errorScopes \in [1..3 -> BOOLEAN]
      /\ calls[t].why = "none" /\ calls[t].pc # "idle"
  BY OthersIdle DEF NativeInv, NativeTypes, LockHolds
<1>3. CaptureHolds'
  BY <1>1 DEF NativeInv, CaptureHolds
<1>4. TimestampsHold'
  <2>1. \A u \in Thread : /\ calls'[u].fresh = calls[u].fresh
                          /\ calls'[u].why \in {calls[u].why, "timeout", "mapping"}
                          /\ calls'[u].pair = calls[u].pair
    BY <1>2
  <2> QED
    BY <1>1, <2>1 DEF NativeInv, TimestampsHold
<1>5. NoErrors' = NoErrors /\ errorScopes' \in [1..3 -> BOOLEAN]
  BY <1>1, <1>2 DEF NoErrors
<1> QED
  BY <1>1, <1>2, <1>3, <1>4, <1>5, CallMoves

LEMMA WaitingKeeps ==
    ASSUME NativeInv, NoThread \notin Thread, NEW t \in Thread,
           Native!Waits(t) \/ Native!TimesOut(t) \/ Native!MappingFails(t)
    PROVE  NativeInv'
<1>1. calls \in [Thread -> CallRecord] /\ calls[t] \in CallRecord
  BY DEF NativeInv, NativeTypes
<1>2. CASE Native!Waits(t)
  <2> DEFINE c == [calls[t] EXCEPT !.pc = "mapped"]
  <2>1. /\ calls' = [calls EXCEPT ![t] = c]
        /\ calls[t].pc = "submitted" /\ ~Native!Pending(calls[t].submission)
    BY <1>2 DEF Native!Waits
  <2>2. calls[t].why = "none"
    BY <2>1 DEF NativeInv, LockHolds
  <2>3. MovedCall(c, t, "mapped", "none")
    BY <1>1, <2>2, Zenon DEF CallRecord, MovedCall
  <2> HIDE DEF c
  <2>4. /\ UNCHANGED <<executionLock, succeeded, result, reported, errorScopes,
                       Native!gpuVars, lastTimestamp, Native!kvVars,
                       Native!captureVars>>
        /\ calls[t].pc \in {"submitted", "mapped"}
    BY <1>2 DEF Native!Waits
  <2> QED
    BY <2>1, <2>3, <2>4, CallOnlyMoves DEF MovedCall
<1>3. CASE Native!TimesOut(t)
  <2> DEFINE c == [calls[t] EXCEPT !.pc = "closing", !.why = "timeout"]
  <2>1. calls' = [calls EXCEPT ![t] = c]
    BY <1>1, <1>3, Zenon DEF Native!TimesOut
  <2>3. MovedCall(c, t, "closing", "timeout")
    BY <1>1, Zenon DEF CallRecord, MovedCall
  <2> HIDE DEF c
  <2>4. /\ UNCHANGED <<executionLock, succeeded, result, reported, errorScopes,
                       Native!gpuVars, lastTimestamp, Native!kvVars,
                       Native!captureVars>>
        /\ calls[t].pc \in {"submitted", "mapped"}
    BY <1>3 DEF Native!TimesOut
  <2> QED
    BY <2>1, <2>3, <2>4, CallOnlyMoves DEF MovedCall
<1>4. CASE Native!MappingFails(t)
  <2> DEFINE c == [calls[t] EXCEPT !.pc = "closing", !.why = "mapping"]
  <2>1. calls' = [calls EXCEPT ![t] = c]
    BY <1>1, <1>4, Zenon DEF Native!MappingFails
  <2>3. MovedCall(c, t, "closing", "mapping")
    BY <1>1, Zenon DEF CallRecord, MovedCall
  <2> HIDE DEF c
  <2>4. /\ UNCHANGED <<executionLock, succeeded, result, reported, errorScopes,
                       Native!gpuVars, lastTimestamp, Native!kvVars,
                       Native!captureVars>>
        /\ calls[t].pc \in {"submitted", "mapped"}
    BY <1>4 DEF Native!MappingFails
  <2> QED
    BY <2>1, <2>3, <2>4, CallOnlyMoves DEF MovedCall
<1> QED
  BY <1>2, <1>3, <1>4

LEMMA UnmapsKeeps ==
    ASSUME NativeInv, NEW t \in Thread, Native!Unmaps(t)
    PROVE  /\ readbackMapped' \in BOOLEAN
           /\ kvSessions' \in [Thread -> KvRecord]
           /\ \A u \in Thread : /\ kvSessions'[u].state = kvSessions[u].state
                                /\ kvSessions'[u].id = kvSessions[u].id
                                /\ kvSessions'[u].tokens = kvSessions[u].tokens
                                /\ kvSessions'[u].rows = kvSessions[u].rows
<1> DEFINE s == [kvSessions[t] EXCEPT !.mapped = FALSE]
<1>1. kvSessions \in [Thread -> KvRecord] /\ kvSessions[t] \in KvRecord
      /\ readbackMapped \in BOOLEAN
  BY DEF NativeInv, NativeTypes
<1>2. /\ s \in KvRecord /\ s.state = kvSessions[t].state /\ s.id = kvSessions[t].id
      /\ s.tokens = kvSessions[t].tokens /\ s.rows = kvSessions[t].rows
  BY <1>1, Zenon DEF KvRecord
<1>3. kvSessions' = kvSessions \/ kvSessions' = [kvSessions EXCEPT ![t] = s]
  BY Zenon DEF Native!Unmaps
<1> HIDE DEF s
<1>4. readbackMapped' \in BOOLEAN
  BY <1>1, Zenon DEF Native!Unmaps
<1> QED
  BY <1>1, <1>2, <1>3, <1>4

(* The readback buffers are read: what was accepted is later than any pair *)
(* reported, for a pair that is resolved late is zero or the last one.     *)
LEMMA ReadsMove ==
    ASSUME NativeInv, NoThread \notin Thread, NEW t \in Thread,
           calls[t].pc = "mapped",
           NEW c \in CallRecord, calls' = [calls EXCEPT ![t] = c],
           c.kind = calls[t].kind, c.submission = calls[t].submission,
           c.values = calls[t].values, c.before = calls[t].before,
           c.pc \in {"scoped", "closing"}, c.why \in {"none", "stale", "canary"},
           c.pc = "scoped" => c.kind = "kernel" /\ c.why = "none",
           c.why = "canary" => c.kind \in Native!Timed,
           Native!Unmaps(t),
           \/ /\ lastTimestamp' = lastTimestamp
              /\ c.fresh = calls[t].fresh /\ c.pair = calls[t].pair
           \/ /\ c.fresh = Native!Fresh(resolved) /\ c.pair = resolved
              /\ lastTimestamp' = IF c.why = "none" /\ Native!Fresh(resolved)
                                  THEN resolved ELSE lastTimestamp,
           UNCHANGED <<program, executionLock, succeeded, result, reported,
                       errorScopes, pipeline, queue, submissions, resolved,
                       committed, Native!captureVars>>
    PROVE  NativeInv'
<1>1. /\ calls \in [Thread -> CallRecord] /\ calls[t] \in CallRecord
      /\ executionLock = t /\ errorScopes \in [1..3 -> BOOLEAN]
      /\ calls[t].why = "none" /\ calls[t].pc # "idle"
      /\ \A u \in Thread : u # t => calls[u].fresh = FALSE /\ calls[u].why = "none"
      /\ submissions \in Nat /\ resolved \in Nat /\ lastTimestamp \in Nat
      /\ reported \subseteq Nat
  BY OthersIdle DEF NativeInv, NativeTypes, LockHolds
<1>2. UNCHANGED <<captureLock, metalCapturing, document>>
  BY DEF Native!captureVars
<1>3. CaptureHolds'
  BY <1>2 DEF NativeInv, CaptureHolds
<1>4. NoErrors' = NoErrors /\ errorScopes' \in [1..3 -> BOOLEAN]
  BY <1>1 DEF NoErrors
<1>5. calls'[t] = c /\ \A u \in Thread : u # t => calls'[u] = calls[u]
  BY <1>1
<1>6. lastTimestamp' \in {lastTimestamp, resolved}
  OBVIOUS
<1>7. TimestampsHold'
  <2> USE DEF TimestampsHold
  <2>1. TimestampsHold
    BY DEF NativeInv
  <2>2. lastTimestamp' = resolved /\ lastTimestamp' # lastTimestamp =>
            /\ resolved > lastTimestamp
            /\ resolved \notin reported
    BY <1>1, <2>1 DEF Native!Fresh
  <2>3. \A pair \in reported' : pair <= lastTimestamp'
    BY <1>1, <1>6, <2>1, <2>2
  <2>4. c.fresh /\ c.why = "none" => c.pair = lastTimestamp' /\ c.pair \notin reported
    <3> SUFFICES ASSUME c.fresh, c.why = "none"
                 PROVE  c.pair = lastTimestamp' /\ c.pair \notin reported
      OBVIOUS
    <3>1. CASE lastTimestamp' = lastTimestamp /\ calls[t].fresh /\ c.pair = calls[t].pair
      BY <1>1, <2>1, <3>1
    <3>2. CASE Native!Fresh(resolved) /\ lastTimestamp' = resolved /\ c.pair = resolved
      BY <2>2, <3>2 DEF Native!Fresh
    <3> QED
      BY <3>1, <3>2, Zenon
  <2>5. \A u \in Thread : calls'[u].fresh /\ calls'[u].why = "none" =>
            calls'[u].pair = lastTimestamp' /\ calls'[u].pair \notin reported'
    BY <1>1, <1>5, <2>4, Zenon
  <2>6. \A u \in Thread : calls'[u].why = "canary" => ~readbackMapped'
    BY <1>1, <1>5 DEF Native!Unmaps
  <2> QED
    BY <1>1, <1>6, <2>1, <2>2, <2>3, <2>5, <2>6
<1>8. /\ readbackMapped' \in BOOLEAN
      /\ kvSessions' \in [Thread -> KvRecord]
      /\ \A u \in Thread : /\ kvSessions'[u].state = kvSessions[u].state
                           /\ kvSessions'[u].id = kvSessions[u].id
                           /\ kvSessions'[u].tokens = kvSessions[u].tokens
                           /\ kvSessions'[u].rows = kvSessions[u].rows
  BY UnmapsKeeps
<1> QED
  BY <1>1, <1>3, <1>4, <1>6, <1>7, <1>8, CallMoves

LEMMA ReadsKeeps ==
    ASSUME NativeInv, NoThread \notin Thread, NEW t \in Thread, Native!Reads(t)
    PROVE  NativeInv'
<1>1. /\ calls \in [Thread -> CallRecord] /\ calls[t] \in CallRecord
      /\ calls[t].pc = "mapped" /\ calls[t].attempt + 1 \in Nat /\ resolved \in Nat
      /\ calls[t].why = "none"
      /\ UNCHANGED <<program, executionLock, succeeded, result, reported,
                     errorScopes, pipeline, queue, submissions, resolved,
                     committed, Native!captureVars>>
  <2>1. calls[t].attempt \in Nat
    BY DEF NativeInv, NativeTypes, CallRecord
  <2> QED
    BY <2>1 DEF NativeInv, NativeTypes, LockHolds, Native!Reads
<1>2. CASE Native!ReadsKernel(t) /\ Native!Fresh(resolved) /\ lastTimestamp' = resolved
           /\ calls' = [calls EXCEPT ![t].pc = "closing", ![t].pair = resolved,
                                     ![t].fresh = TRUE]
  <2> DEFINE c == [calls[t] EXCEPT !.pc = "closing", !.pair = resolved, !.fresh = TRUE]
  <2>1. calls' = [calls EXCEPT ![t] = c]
    BY <1>1, <1>2, Zenon
  <2>2. /\ c \in CallRecord /\ c.pc = "closing" /\ c.why = "none"
        /\ c.kind = calls[t].kind /\ c.submission = calls[t].submission
        /\ c.values = calls[t].values /\ c.before = calls[t].before
        /\ c.fresh = TRUE /\ c.pair = resolved
    BY <1>1, Zenon DEF CallRecord
  <2>3. Native!Unmaps(t) /\ Native!Fresh(resolved) = TRUE
    BY <1>2, Zenon DEF Native!ReadsKernel, Native!Fresh
  <2> HIDE DEF c
  <2> QED
    BY <1>1, <1>2, <2>1, <2>2, <2>3, ReadsMove
<1>3. CASE /\ Native!ReadsKernel(t)
           /\ ~(/\ Native!Fresh(resolved) /\ lastTimestamp' = resolved
                /\ calls' = [calls EXCEPT ![t].pc = "closing", ![t].pair = resolved,
                                          ![t].fresh = TRUE])
  <2> DEFINE last == calls[t].attempt + 1 = TimestampAttempts
             next == IF last THEN "closing" ELSE "scoped"
             reason == IF last THEN "stale" ELSE "none"
             c == [calls[t] EXCEPT !.attempt = calls[t].attempt + 1, !.pc = next,
                                   !.why = reason]
  <2>1. /\ calls' = [calls EXCEPT ![t].attempt = @ + 1, ![t].pc = next, ![t].why = reason]
        /\ lastTimestamp' = lastTimestamp /\ Native!Unmaps(t)
        /\ calls[t].kind = "kernel"
    BY <1>3, Zenon DEF Native!ReadsKernel
  <2>2. calls' = [calls EXCEPT ![t] = c]
    BY <1>1, <2>1, Zenon
  <2>3. /\ next \in {"closing", "scoped"} /\ reason \in {"none", "stale"}
        /\ (next = "scoped" => reason = "none")
    OBVIOUS
  <2> HIDE DEF next, reason
  <2>4. /\ c \in CallRecord /\ c.pc = next /\ c.why = reason
        /\ c.kind = calls[t].kind /\ c.submission = calls[t].submission
        /\ c.values = calls[t].values /\ c.before = calls[t].before
        /\ c.fresh = calls[t].fresh /\ c.pair = calls[t].pair
    BY <1>1, <2>3, Zenon DEF CallRecord
  <2> HIDE DEF c
  <2>5. /\ c.pc \in {"scoped", "closing"} /\ c.why \in {"none", "stale", "canary"}
        /\ c.pc = "scoped" => c.kind = "kernel" /\ c.why = "none"
        /\ c.why # "canary"
    BY <2>1, <2>3, <2>4
  <2> QED
    BY <1>1, <2>1, <2>2, <2>4, <2>5, ReadsMove
<1>4. ASSUME NEW canary \in BOOLEAN, Native!ReadsResident(t, canary)
      PROVE  NativeInv'
  <2> DEFINE reason == IF canary THEN "canary"
                       ELSE IF resolved = 0 THEN "stale" ELSE "none"
             fresh == Native!Fresh(resolved)
             c == [calls[t] EXCEPT !.pc = "closing", !.why = reason,
                                   !.pair = resolved, !.fresh = fresh]
  <2>1. /\ calls' = [calls EXCEPT ![t].pc = "closing", ![t].why = reason,
                                  ![t].pair = resolved, ![t].fresh = fresh]
        /\ lastTimestamp' = IF reason = "none" /\ fresh THEN resolved ELSE lastTimestamp
        /\ calls[t].kind \in Native!Timed /\ Native!Unmaps(t)
    BY <1>4, Zenon DEF Native!ReadsResident
  <2>2. calls' = [calls EXCEPT ![t] = c]
    BY <1>1, <2>1, Zenon
  <2>3. reason \in {"none", "stale", "canary"} /\ fresh \in BOOLEAN
    BY Zenon DEF Native!Fresh
  <2>4. fresh = Native!Fresh(resolved)
    OBVIOUS
  <2> HIDE DEF reason, fresh
  <2>5. /\ c \in CallRecord /\ c.pc = "closing" /\ c.why = reason
        /\ c.kind = calls[t].kind /\ c.submission = calls[t].submission
        /\ c.values = calls[t].values /\ c.before = calls[t].before
        /\ c.fresh = fresh /\ c.pair = resolved
    BY <1>1, <2>3, Zenon DEF CallRecord
  <2> HIDE DEF c
  <2>6. c.fresh = Native!Fresh(resolved)
        /\ lastTimestamp' = IF c.why = "none" /\ Native!Fresh(resolved)
                            THEN resolved ELSE lastTimestamp
    BY <2>1, <2>4, <2>5, Zenon
  <2> QED
    BY <1>1, <2>1, <2>2, <2>3, <2>5, <2>6, ReadsMove
<1>5. CASE Native!ReadsUntimed(t)
  <2> DEFINE c == [calls[t] EXCEPT !.pc = "closing"]
  <2>1. /\ calls' = [calls EXCEPT ![t] = c]
        /\ lastTimestamp' = lastTimestamp /\ Native!Unmaps(t)
    BY <1>5 DEF Native!ReadsUntimed
  <2>2. /\ c \in CallRecord /\ c.pc = "closing" /\ c.why = "none"
        /\ c.kind = calls[t].kind /\ c.submission = calls[t].submission
        /\ c.values = calls[t].values /\ c.before = calls[t].before
        /\ c.fresh = calls[t].fresh /\ c.pair = calls[t].pair
    BY <1>1, Zenon DEF CallRecord
  <2> HIDE DEF c
  <2> QED
    BY <1>1, <2>1, <2>2, ReadsMove
<1> QED
  BY <1>2, <1>3, <1>4, <1>5 DEF Native!Reads

(* A submission is pending that was not refused, and it is the only one of *)
(* its number.                                                             *)
LEMMA SubmitsKeeps ==
    ASSUME NativeInv, NoThread \notin Thread, NEW t \in Thread, Native!Submits(t)
    PROVE  NativeInv'
<1> DEFINE step == calls[t].kind = "step"
           timed == calls[t].kind \in Native!Timed
           held == IF step THEN kvSessions[t].mapped ELSE FALSE
           stuck == timed /\ readbackMapped
           accepted == calls[t].valid /\ ~held /\ ~stuck
           number == submissions + 1
           values == IF step THEN kvSessions[t].attention ELSE <<>>
           free == ~held /\ ~stuck
           work == [number |-> number, by |-> t, kind |-> calls[t].kind,
                    session |-> kvSessions[t].id, tokens |-> kvSessions[t].tokens]
           c == [calls[t] EXCEPT !.pc = "submitted", !.submission = number,
                                 !.mapping = free, !.values = values]
           s == [kvSessions[t] EXCEPT !.mapped = TRUE]
<1>1. /\ calls[t].pc = "created"
      /\ submissions' = number
      /\ queue' = IF accepted THEN Append(queue, work) ELSE queue
      /\ errorScopes' = IF accepted THEN errorScopes ELSE Native!Captured(3)
      /\ readbackMapped' = (readbackMapped \/ timed)
      /\ kvSessions' = IF step THEN [kvSessions EXCEPT ![t].mapped = TRUE]
                       ELSE kvSessions
      /\ calls' = [calls EXCEPT ![t].pc = "submitted", ![t].submission = number,
                                ![t].mapping = free, ![t].values = values]
      /\ UNCHANGED <<program, executionLock, succeeded, result, reported,
                     pipeline, resolved, lastTimestamp, committed,
                     captureLock, metalCapturing, document>>
  BY Zenon DEF Native!Submits, Native!captureVars
<1>2. /\ calls \in [Thread -> CallRecord] /\ calls[t] \in CallRecord
      /\ kvSessions \in [Thread -> KvRecord] /\ kvSessions[t] \in KvRecord
      /\ queue \in Seq(WorkRecord)
      /\ submissions \in Nat /\ number \in Nat
      /\ readbackMapped \in BOOLEAN
      /\ executionLock = t /\ errorScopes \in [1..3 -> BOOLEAN]
      /\ calls[t].why = "none"
  BY <1>1, OthersIdle DEF NativeInv, NativeTypes, LockHolds
<1>3. calls[t].kind \in NativeKind \union {"none"} /\ kvSessions[t].attention \in Seq(Nat)
      /\ kvSessions[t].id \in Nat /\ kvSessions[t].tokens \in Nat
  BY <1>2 DEF CallRecord, KvRecord
<1>4. values \in Seq(Nat) /\ free \in BOOLEAN /\ timed \in BOOLEAN /\ step \in BOOLEAN
  <2>1. <<>> \in Seq(Nat)
    OBVIOUS
  <2>2. kvSessions[t].mapped \in BOOLEAN
    BY <1>2, Zenon DEF KvRecord
  <2>3. values \in Seq(Nat)
    BY <1>3, <2>1
  <2>4. free \in BOOLEAN
    OBVIOUS
  <2>5. timed \in BOOLEAN /\ step \in BOOLEAN
    OBVIOUS
  <2> QED
    BY <2>3, <2>4, <2>5
<1>5. \A u \in Thread : u # t => /\ calls[u].pc = "idle" /\ calls[u].kind = "none"
                                 /\ calls[u].submission = 0 /\ calls[u].why = "none"
                                 /\ calls[u].fresh = FALSE
  BY <1>1, OthersIdle
<1>6. work \in WorkRecord /\ work.number = number /\ work.by = t
      /\ work.kind = calls[t].kind /\ work.session = kvSessions[t].id
      /\ work.tokens = kvSessions[t].tokens
  BY <1>2, <1>3 DEF WorkRecord
<1>7. accepted => calls[t].valid /\ ~held /\ ~stuck
  OBVIOUS
<1> HIDE DEF values, free, timed, step, accepted, work
<1>8. /\ c \in CallRecord /\ c.pc = "submitted" /\ c.submission = number
      /\ c.kind = calls[t].kind /\ c.values = values /\ c.before = calls[t].before
      /\ c.why = calls[t].why /\ c.fresh = calls[t].fresh /\ c.pair = calls[t].pair
  <2>1. number \in Nat /\ values \in Seq(Nat) /\ free \in BOOLEAN /\ calls[t] \in CallRecord
    BY <1>2, <1>4
  <2> HIDE DEF number
  <2> QED
    BY <2>1, Zenon DEF CallRecord
<1>9. calls' = [calls EXCEPT ![t] = c]
  BY <1>1, <1>2, Zenon
<1> HIDE DEF c
<1>10. /\ s \in KvRecord /\ s.state = kvSessions[t].state /\ s.id = kvSessions[t].id
       /\ s.tokens = kvSessions[t].tokens /\ s.rows = kvSessions[t].rows
  BY <1>2, Zenon DEF KvRecord
<1>11. kvSessions' = kvSessions \/ kvSessions' = [kvSessions EXCEPT ![t] = s]
  BY <1>1, Zenon
<1> HIDE DEF s
<1>12. /\ kvSessions' \in [Thread -> KvRecord]
       /\ \A u \in Thread : /\ kvSessions'[u].state = kvSessions[u].state
                            /\ kvSessions'[u].id = kvSessions[u].id
                            /\ kvSessions'[u].tokens = kvSessions[u].tokens
                            /\ kvSessions'[u].rows = kvSessions[u].rows
  BY <1>2, <1>10, <1>11
<1>13. /\ calls' \in [Thread -> CallRecord] /\ calls'[t] = c
       /\ \A u \in Thread : u # t => calls'[u] = calls[u]
  BY <1>2, <1>8, <1>9
<1>14. /\ queue' \in Seq(WorkRecord) /\ Len(queue) \in Nat
       /\ Len(queue') = IF accepted THEN Len(queue) + 1 ELSE Len(queue)
       /\ \A i \in 1..Len(queue) : queue'[i] = queue[i]
       /\ accepted => queue'[Len(queue) + 1] = work
       /\ \A i \in 1..Len(queue') :
             i \in 1..Len(queue) \/ (i = Len(queue) + 1 /\ accepted)
  BY <1>1, <1>2, <1>6
<1>15. \A i \in 1..Len(queue) : /\ queue[i].number \in Nat /\ queue[i].number > 0
                                /\ queue[i].number <= submissions
                                /\ queue[i].number # number
  <2>1. \A i \in 1..Len(queue) : queue[i].number \in Nat
    <3>1. \A i \in 1..Len(queue) : queue[i] \in WorkRecord
      BY <1>2
    <3> QED
      BY <3>1 DEF WorkRecord
  <2>2. resolved \in Nat
    BY DEF NativeInv, NativeTypes
  <2> QED
    BY <1>2, <2>1, <2>2 DEF NativeInv, QueueHolds
<1>16. NativeTypes'
  <2>1. readbackMapped' \in BOOLEAN
    BY <1>1, <1>2, <1>4, Zenon
  <2> QED
    BY <1>1, <1>2, <1>12, <1>13, <1>14, <2>1 DEF NativeInv, NativeTypes
<1>17. errorScopes' \in [1..3 -> BOOLEAN] /\ (NoErrors' => accepted)
  BY <1>1, <1>2 DEF Native!Captured, NoErrors
<1>18. LockHolds'
  <2>1. LockHolds /\ executionLock' = t /\ t # NoThread
    BY <1>1, <1>2 DEF NativeInv
  <2>2. \A u \in Thread : /\ calls'[u].pc = "idle" <=> calls[u].pc = "idle"
                          /\ calls'[u].pc = "idle" => calls'[u] = calls[u]
                          /\ calls'[u].why = calls[u].why
                          /\ calls'[u].why = "none"
    BY <1>1, <1>2, <1>5, <1>8, <1>13
  <2>3. \A u \in Thread : calls[u].pc # "idle" <=> executionLock = u
    BY <2>1 DEF LockHolds
  <2>4. \A u \in Thread : calls[u].pc = "idle" => calls[u] = Native!Idle
    BY <2>1 DEF LockHolds
  <2>5. \A u \in Thread : calls'[u].pc # "idle" <=> executionLock' = u
    BY <1>1, <2>2, <2>3
  <2>6. \A u \in Thread : calls'[u].pc = "idle" => calls'[u] = Native!Idle
    BY <2>2, <2>4
  <2> QED
    BY <1>17, <2>1, <2>2, <2>5, <2>6 DEF LockHolds
<1>19. CaptureHolds'
  BY <1>1 DEF NativeInv, CaptureHolds
<1>20. TimestampsHold'
  <2> USE DEF TimestampsHold
  <2>1. TimestampsHold /\ resolved \in Nat /\ lastTimestamp \in Nat
    BY DEF NativeInv, NativeTypes
  <2>2. \A u \in Thread : calls'[u].fresh /\ calls'[u].why = "none" =>
            calls'[u].pair = lastTimestamp' /\ calls'[u].pair \notin reported'
    <3>1. \A u \in Thread : calls[u].fresh /\ calls[u].why = "none" =>
              calls[u].pair = lastTimestamp /\ calls[u].pair \notin reported
      BY <2>1
    <3>2. \A u \in Thread : /\ calls'[u].fresh = calls[u].fresh
                            /\ calls'[u].why = calls[u].why
                            /\ calls'[u].pair = calls[u].pair
      BY <1>8, <1>13
    <3>3. lastTimestamp' = lastTimestamp /\ reported' = reported
      BY <1>1
    <3> QED
      BY <3>1, <3>2, <3>3, Zenon
  <2>3. \A u \in Thread : calls'[u].why # "canary"
    BY <1>2, <1>5, <1>8, <1>13
  <2> QED
    BY <1>1, <1>2, <2>1, <2>2, <2>3
<1>21. QueueHolds'
  <2> USE DEF QueueHolds
  <2>1. QueueHolds /\ resolved \in Nat /\ lastTimestamp \in Nat
        /\ resolved <= submissions /\ lastTimestamp <= submissions
    BY DEF NativeInv, NativeTypes, TimestampsHold
  <2>2. \A i \in 1..Len(queue') :
            /\ queue'[i].number <= submissions'
            /\ queue'[i].number > resolved'
            /\ queue'[i].number > lastTimestamp'
            /\ queue'[i].kind = "step" => queue'[i].session < queue'[i].number
    <3> SUFFICES ASSUME NEW i \in 1..Len(queue')
                 PROVE  /\ queue'[i].number <= submissions'
                        /\ queue'[i].number > resolved'
                        /\ queue'[i].number > lastTimestamp'
                        /\ queue'[i].kind = "step" => queue'[i].session < queue'[i].number
      OBVIOUS
    <3>1. CASE i \in 1..Len(queue)
      BY <1>1, <1>2, <1>14, <1>15, <2>1, <3>1
    <3>2. CASE i = Len(queue) + 1 /\ accepted
      BY <1>1, <1>2, <1>3, <1>6, <1>14, <2>1, <3>2
    <3> QED
      BY <1>14, <3>1, <3>2
  <2>3. \A i, k \in 1..Len(queue') : i < k => queue'[i].number < queue'[k].number
    <3> SUFFICES ASSUME NEW i \in 1..Len(queue'), NEW k \in 1..Len(queue'), i < k
                 PROVE  queue'[i].number < queue'[k].number
      OBVIOUS
    <3>1. i \in 1..Len(queue)
      BY <1>14
    <3>2. CASE k \in 1..Len(queue)
      BY <1>14, <2>1, <3>1, <3>2
    <3>3. CASE k = Len(queue) + 1 /\ accepted
      BY <1>2, <1>6, <1>14, <1>15, <3>1, <3>3
    <3> QED
      BY <1>14, <3>2, <3>3
  <2>4. \A i \in 1..Len(queue'), u \in Thread :
            queue'[i].number = calls'[u].submission =>
                /\ queue'[i].by = u
                /\ queue'[i].kind = calls'[u].kind
                /\ queue'[i].session = kvSessions'[u].id
                /\ queue'[i].tokens = kvSessions'[u].tokens
    <3> SUFFICES ASSUME NEW i \in 1..Len(queue'), NEW u \in Thread,
                        queue'[i].number = calls'[u].submission
                 PROVE  /\ queue'[i].by = u
                        /\ queue'[i].kind = calls'[u].kind
                        /\ queue'[i].session = kvSessions'[u].id
                        /\ queue'[i].tokens = kvSessions'[u].tokens
      OBVIOUS
    <3>1. CASE u = t
      <4>1. queue'[i].number = number
        BY <1>8, <1>13, <3>1
      <4>2. i = Len(queue) + 1 /\ accepted
        BY <1>14, <1>15, <4>1
      <4> QED
        BY <1>6, <1>8, <1>12, <1>13, <1>14, <3>1, <4>2
    <3>2. CASE u # t
      <4>1. queue'[i].number = 0
        BY <1>5, <1>13, <3>2
      <4> QED
        BY <1>2, <1>6, <1>14, <1>15, <4>1
    <3> QED
      BY <3>1, <3>2
  <2>5. \A u \in Thread : /\ calls'[u].submission <= submissions'
                          /\ kvSessions'[u].id <= submissions'
    <3>1. \A u \in Thread : kvSessions[u].id \in Nat /\ kvSessions[u].id <= submissions
      BY <1>2, <2>1 DEF KvRecord
    <3> QED
      BY <1>1, <1>2, <1>5, <1>8, <1>12, <1>13, <3>1
  <2> QED
    BY <2>2, <2>3, <2>4, <2>5
<1>22. SessionHolds(t)
  BY DEF NativeInv
<1>23. CallHolds(t)'
  <2> SUFFICES ASSUME c.kind \in Native!Submitting PROVE CallHolds(t)'
    BY <1>13 DEF CallHolds
  <2>1. c.kind # "kernel" => submissions' = c.before + 1
    <3>1. CallHolds(t)
      BY DEF NativeInv
    <3> QED
      BY <1>1, <1>8, <3>1 DEF CallHolds
  <2>2. accepted => Native!Pending(calls[t].submission)'
    <3> SUFFICES ASSUME accepted PROVE Native!Pending(calls[t].submission)'
      OBVIOUS
    <3>1. Len(queue) + 1 \in DOMAIN queue' /\ queue'[Len(queue) + 1].number = number
      BY <1>6, <1>14
    <3> QED
      BY <1>8, <1>13, <3>1 DEF Native!Pending
  <2>3. c.kind = "step" => kvSessions[t].rows = committed[t]
    BY <1>1, <1>8, <1>22 DEF SessionHolds
  <2>4. kvSessions'[t].rows = kvSessions[t].rows /\ committed'[t] = committed[t]
    BY <1>1, <1>12
  <2>5. calls'[t] = c /\ c.pc = "submitted"
    BY <1>8, <1>13
  <2> QED
    BY <1>17, <2>1, <2>2, <2>3, <2>4, <2>5 DEF CallHolds
<1>24. SessionHolds(t)'
  <2>1. \A i \in 1..Len(queue) :
           /\ queue[i].kind = "step" /\ queue[i].by = t
           /\ queue[i].session = kvSessions[t].id /\ kvSessions[t].state # "none"
           => /\ kvSessions[t].state = "poisoned"
              /\ queue[i].tokens = kvSessions[t].tokens
              /\ calls[t].kind # "step"
    BY <1>1, <1>15, <1>22 DEF SessionHolds
  <2>2. \A i \in 1..Len(queue') :
           /\ queue'[i].kind = "step" /\ queue'[i].by = t
           /\ queue'[i].session = kvSessions'[t].id /\ kvSessions'[t].state # "none"
           => /\ kvSessions'[t].state = "poisoned"
              /\ queue'[i].tokens = kvSessions'[t].tokens
              /\ c.kind = "step" => queue'[i].number = c.submission
    <3> SUFFICES ASSUME NEW i \in 1..Len(queue'),
                        queue'[i].kind = "step", queue'[i].by = t,
                        queue'[i].session = kvSessions'[t].id, kvSessions'[t].state # "none"
                 PROVE  /\ kvSessions'[t].state = "poisoned"
                        /\ queue'[i].tokens = kvSessions'[t].tokens
                        /\ c.kind = "step" => queue'[i].number = c.submission
      OBVIOUS
    <3>1. CASE i \in 1..Len(queue)
      BY <1>8, <1>12, <1>14, <2>1, <3>1
    <3>2. CASE i = Len(queue) + 1 /\ accepted
      BY <1>6, <1>8, <1>12, <1>14, <1>22, <3>2 DEF SessionHolds
    <3> QED
      BY <1>14, <3>1, <3>2
  <2>3. c.pc \notin {"scoped", "created"} /\ committed' = committed
    BY <1>1, <1>8
  <2> QED
    BY <1>8, <1>12, <1>13, <1>22, <2>2, <2>3 DEF SessionHolds
<1>25. \A u \in Thread : u # t => CallHolds(u)'
  BY <1>5, <1>13 DEF CallHolds
<1>26. \A u \in Thread : u # t => SessionHolds(u)'
  <2> SUFFICES ASSUME NEW u \in Thread, u # t PROVE SessionHolds(u)'
    OBVIOUS
  <2>1. SessionHolds(u) /\ calls'[u] = calls[u] /\ calls[u].kind = "none"
        /\ committed' = committed
    BY <1>1, <1>5, <1>13 DEF NativeInv
  <2>2. \A i \in 1..Len(queue') : queue'[i].by = u =>
            i \in 1..Len(queue) /\ queue'[i] = queue[i]
    BY <1>6, <1>14
  <2> QED
    BY <1>12, <2>1, <2>2 DEF SessionHolds
<1>27. ResultHolds'
  BY <1>1 DEF NativeInv, ResultHolds, Native!ResultsAreOwn
<1> QED
  BY <1>16, <1>18, <1>19, <1>20, <1>21, <1>23, <1>24, <1>25, <1>26, <1>27
     DEF NativeInv

LEMMA AppendedRows ==
    ASSUME NEW rows \in Seq(Nat), NEW n \in Nat, NEW number \in Nat, n <= Len(rows)
    PROVE  /\ Native!Appended(rows, n, number) \in Seq(Nat)
           /\ Len(Native!Appended(rows, n, number)) = n + 1
           /\ n = Len(rows) =>
                 Native!Appended(rows, n, number) = Append(rows, number)
<1> DEFINE part == SubSeq(rows, 1, n)
<1>1. /\ part \in Seq(Nat) /\ Len(part) = n
      /\ \A i \in 1..n : part[i] = rows[i]
  OBVIOUS
<1>2. n = Len(rows) => part = rows
  BY <1>1
<1> HIDE DEF part
<1>3. Native!Appended(rows, n, number) = part \o <<number>>
  BY DEF Native!Appended, part
<1>4. part \o <<number>> = Append(part, number)
  BY <1>1
<1> QED
  BY <1>1, <1>2, <1>3, <1>4

(* The oldest submission runs: it is a call's own, and then the call gets  *)
(* its values, or that of a call which gave up waiting.                    *)
LEMMA RunsKeeps ==
    ASSUME NativeInv, NoThread \notin Thread, NEW pair, Native!Runs(pair)
    PROVE  NativeInv'
<1> DEFINE w == Head(queue)
           b == w.by
           session == kvSessions[b]
           named == session.id = w.session /\ session.state # "none"
           rows == IF w.kind = "step"
                   THEN Native!Appended(session.rows, w.tokens, w.number)
                   ELSE session.rows
           values == IF w.kind \in {"step", "finish"} THEN rows ELSE <<w.number>>
           writes == named /\ w.kind = "step"
           owned == calls[b].submission = w.number
           c == [calls[b] EXCEPT !.values = values]
           s == [kvSessions[b] EXCEPT !.rows = rows, !.attention = rows]
<1>1. /\ queue # <<>> /\ queue' = Tail(queue)
      /\ pair \in {w.number, 0, resolved} /\ resolved' = pair
      /\ kvSessions' = IF writes THEN [kvSessions EXCEPT ![b].rows = rows,
                                                         ![b].attention = rows]
                       ELSE kvSessions
      /\ calls' = IF owned THEN [calls EXCEPT ![b].values = values] ELSE calls
      /\ UNCHANGED <<program, executionLock, succeeded, result, reported,
                     errorScopes, pipeline, submissions, readbackMapped,
                     lastTimestamp, committed, captureLock, metalCapturing,
                     document>>
  BY DEF Native!Runs, Native!captureVars
<1>2. /\ calls \in [Thread -> CallRecord] /\ kvSessions \in [Thread -> KvRecord]
      /\ committed \in [Thread -> Seq(Nat)]
      /\ queue \in Seq(WorkRecord)
      /\ submissions \in Nat /\ resolved \in Nat /\ lastTimestamp \in Nat
  BY DEF NativeInv, NativeTypes
<1>3. /\ Len(queue) \in Nat \ {0} /\ w = queue[1] /\ w \in WorkRecord
      /\ queue' \in Seq(WorkRecord) /\ Len(queue') = Len(queue) - 1
      /\ \A i \in 1..Len(queue') : i + 1 \in 1..Len(queue) /\ queue'[i] = queue[i + 1]
      /\ \A i \in 1..Len(queue) : queue[i] \in WorkRecord
      /\ \A i \in 1..Len(queue) : i # 1 => i - 1 \in 1..Len(queue') /\ queue'[i - 1] = queue[i]
  BY <1>1, <1>2
<1>4. /\ b \in Thread /\ w.number \in Nat /\ w.tokens \in Nat /\ w.session \in Nat
      /\ calls[b] \in CallRecord /\ kvSessions[b] \in KvRecord
      /\ calls[b].submission \in Nat
      /\ session.rows \in Seq(Nat) /\ session.tokens \in Nat
      /\ \A i \in 1..Len(queue) : queue[i].number \in Nat
  BY <1>2, <1>3 DEF WorkRecord, CallRecord, KvRecord
<1>5. /\ 1 \in 1..Len(queue)
      /\ w.number <= submissions /\ w.number > resolved /\ w.number > lastTimestamp
      /\ \A i \in 1..Len(queue') : queue'[i].number > w.number
      /\ owned => /\ w.kind = calls[b].kind
                  /\ w.session = session.id /\ w.tokens = session.tokens
  BY <1>3, <1>4 DEF NativeInv, QueueHolds
<1>6. \A u \in Thread : calls[u].submission = w.number => u = b
  BY <1>3, <1>5 DEF NativeInv, QueueHolds
<1>7. writes => session.state = "poisoned" /\ w.tokens = session.tokens
  BY <1>3, <1>4, <1>5 DEF NativeInv, SessionHolds
<1>8. session.tokens <= Len(session.rows)
  BY <1>4 DEF NativeInv, SessionHolds
<1>9. owned /\ calls[b].kind = "step" => writes
  <2>1. calls[b].kind = "step" => session.state = "poisoned"
    BY <1>4 DEF NativeInv, SessionHolds
  <2> QED
    BY <1>5, <2>1
<1>10. writes => rows \in Seq(Nat) /\ Len(rows) = session.tokens + 1
  BY <1>4, <1>7, <1>8, AppendedRows
<1>11. owned => values \in Seq(Nat)
  BY <1>4, <1>5, <1>9, <1>10
<1>12. /\ owned => c \in CallRecord
       /\ c.pc = calls[b].pc /\ c.kind = calls[b].kind /\ c.before = calls[b].before
       /\ c.submission = calls[b].submission /\ c.why = calls[b].why
       /\ c.fresh = calls[b].fresh /\ c.pair = calls[b].pair
       /\ c.values = values
  <2> HIDE DEF values, owned
  <2> QED
    BY <1>4, <1>11, Zenon DEF CallRecord
<1>13. /\ writes => s \in KvRecord
       /\ s.state = session.state /\ s.id = session.id /\ s.tokens = session.tokens
       /\ s.rows = rows
  <2> HIDE DEF rows, writes
  <2> QED
    BY <1>4, <1>10, Zenon DEF KvRecord
<1>14. calls' = IF owned THEN [calls EXCEPT ![b] = c] ELSE calls
  <2> HIDE DEF values, owned, b
  <2> QED
    BY <1>1, <1>2, Zenon
<1>15. kvSessions' = IF writes THEN [kvSessions EXCEPT ![b] = s] ELSE kvSessions
  <2>1. [kvSessions EXCEPT ![b].rows = rows, ![b].attention = rows]
            = [kvSessions EXCEPT ![b] = s]
    <3> HIDE DEF rows, b
    <3> QED
      BY <1>2, <1>4
  <2> QED
    BY <1>1, <2>1, Zenon
<1>16. values = IF w.kind \in {"step", "finish"} THEN rows ELSE <<w.number>>
  OBVIOUS
<1>17. rows = IF w.kind = "step"
              THEN Native!Appended(session.rows, w.tokens, w.number)
              ELSE session.rows
  OBVIOUS
<1>18. owned <=> calls[b].submission = w.number
  OBVIOUS
<1>19. writes <=> w.kind = "step" /\ kvSessions[b].id = w.session
                  /\ kvSessions[b].state # "none"
  OBVIOUS
<1> HIDE DEF c, s, values, rows, owned, writes, w, b
<1>20. /\ calls' \in [Thread -> CallRecord]
       /\ \A u \in Thread : /\ calls'[u].pc = calls[u].pc
                            /\ calls'[u].kind = calls[u].kind
                            /\ calls'[u].before = calls[u].before
                            /\ calls'[u].submission = calls[u].submission
                            /\ calls'[u].why = calls[u].why
                            /\ calls'[u].fresh = calls[u].fresh
                            /\ calls'[u].pair = calls[u].pair
       /\ owned => calls'[b].values = values
       /\ \A u \in Thread : u # b \/ ~owned => calls'[u] = calls[u]
  BY <1>2, <1>4, <1>12, <1>14
<1>21. /\ kvSessions' \in [Thread -> KvRecord]
       /\ \A u \in Thread : /\ kvSessions'[u].state = kvSessions[u].state
                            /\ kvSessions'[u].id = kvSessions[u].id
                            /\ kvSessions'[u].tokens = kvSessions[u].tokens
       /\ writes => kvSessions'[b].rows = rows
       /\ \A u \in Thread : u # b \/ ~writes => kvSessions'[u] = kvSessions[u]
  BY <1>2, <1>4, <1>13, <1>15
<1>22. NativeTypes'
  <2>1. resolved' \in Nat
    BY <1>1, <1>2, <1>4
  <2> QED
    BY <1>1, <1>2, <1>3, <1>20, <1>21, <2>1 DEF NativeInv, NativeTypes
<1>23. CaptureHolds'
  BY <1>1 DEF NativeInv, CaptureHolds
<1>24. LockHolds'
  <2>1. \A u \in Thread : calls[u].pc = "idle" => calls'[u] = calls[u]
    <3>1. \A u \in Thread : calls[u].pc = "idle" => calls[u].submission = 0
      BY IdleIsTyped DEF NativeInv, LockHolds
    <3>2. owned => calls[b].pc # "idle"
      BY <1>2, <1>4, <1>5, <1>18, <3>1
    <3> QED
      BY <1>20, <3>2
  <2> QED
    BY <1>1, <1>20, <2>1 DEF NativeInv, LockHolds
<1>25. TimestampsHold'
  <2> USE DEF TimestampsHold
  <2>1. TimestampsHold
    BY DEF NativeInv
  <2>2. \A u \in Thread : calls'[u].fresh /\ calls'[u].why = "none" =>
            calls'[u].pair = lastTimestamp' /\ calls'[u].pair \notin reported'
    <3>1. \A u \in Thread : calls[u].fresh /\ calls[u].why = "none" =>
              calls[u].pair = lastTimestamp /\ calls[u].pair \notin reported
      BY <2>1
    <3>2. lastTimestamp' = lastTimestamp /\ reported' = reported
      BY <1>1
    <3> QED
      BY <1>20, <3>1, <3>2, Zenon
  <2> QED
    BY <1>1, <1>2, <1>4, <1>5, <1>20, <2>1, <2>2
<1>26. QueueHolds'
  <2> USE DEF QueueHolds
  <2>1. QueueHolds
    BY DEF NativeInv
  <2>2. \A i \in 1..Len(queue') :
            /\ queue'[i].number <= submissions'
            /\ queue'[i].number > resolved'
            /\ queue'[i].number > lastTimestamp'
            /\ queue'[i].kind = "step" => queue'[i].session < queue'[i].number
    <3> SUFFICES ASSUME NEW i \in 1..Len(queue')
                 PROVE  /\ queue'[i].number <= submissions'
                        /\ queue'[i].number > resolved'
                        /\ queue'[i].number > lastTimestamp'
                        /\ queue'[i].kind = "step" =>
                              queue'[i].session < queue'[i].number
      OBVIOUS
    <3>1. i + 1 \in 1..Len(queue) /\ queue'[i] = queue[i + 1]
      BY <1>3
    <3>2. /\ queue[i + 1].number <= submissions
          /\ queue[i + 1].number > lastTimestamp
          /\ queue[i + 1].kind = "step" =>
                queue[i + 1].session < queue[i + 1].number
          /\ queue[i + 1].number \in Nat
          /\ queue[i + 1].number > resolved
      BY <1>4, <2>1, <3>1
    <3>3. queue'[i].number > w.number
      BY <1>5
    <3>4. /\ submissions' = submissions /\ lastTimestamp' = lastTimestamp
          /\ resolved' = w.number \/ resolved' = 0 \/ resolved' = resolved
      BY <1>1
    <3>5. queue[i + 1].number > 0
      BY <1>2, <3>2
    <3> HIDE DEF QueueHolds, w
    <3>6. queue[i + 1].number > resolved'
      BY <3>1, <3>2, <3>3, <3>4, <3>5
    <3> QED
      BY <3>1, <3>2, <3>4, <3>6
  <2>3. \A i, k \in 1..Len(queue') : i < k => queue'[i].number < queue'[k].number
    <3> SUFFICES ASSUME NEW i \in 1..Len(queue'), NEW k \in 1..Len(queue'), i < k
                 PROVE  queue'[i].number < queue'[k].number
      OBVIOUS
    <3>1. /\ i + 1 \in 1..Len(queue) /\ queue'[i] = queue[i + 1]
          /\ k + 1 \in 1..Len(queue) /\ queue'[k] = queue[k + 1]
      BY <1>3
    <3>2. \A j, l \in 1..Len(queue) : j < l => queue[j].number < queue[l].number
      BY <2>1
    <3> HIDE DEF QueueHolds, w
    <3>3. i + 1 < k + 1
      BY <1>3
    <3> QED
      BY <3>1, <3>2, <3>3
  <2>4. \A i \in 1..Len(queue'), u \in Thread :
            queue'[i].number = calls'[u].submission =>
                /\ queue'[i].by = u
                /\ queue'[i].kind = calls'[u].kind
                /\ queue'[i].session = kvSessions'[u].id
                /\ queue'[i].tokens = kvSessions'[u].tokens
    BY <1>3, <1>20, <1>21, <2>1
  <2> QED
    BY <1>1, <1>20, <1>21, <2>1, <2>2, <2>3, <2>4
<1>27. \A number \in Nat : Native!Pending(number)' =>
           Native!Pending(number) /\ number # w.number
  <2> SUFFICES ASSUME NEW number \in Nat, NEW i \in 1..Len(queue'),
                      queue'[i].number = number
               PROVE  Native!Pending(number) /\ number # w.number
    BY <1>3 DEF Native!Pending
  <2>1. number > w.number
    BY <1>5
  <2>2. i + 1 \in DOMAIN queue /\ queue[i + 1].number = number
    BY <1>3
  <2> QED
    BY <1>4, <2>1, <2>2 DEF Native!Pending
<1>28. \A number \in Nat : Native!Pending(number) /\ number # w.number =>
           Native!Pending(number)'
  <2> SUFFICES ASSUME NEW number \in Nat, NEW i \in 1..Len(queue),
                      queue[i].number = number, number # w.number
               PROVE  Native!Pending(number)'
    BY <1>3 DEF Native!Pending
  <2>1. i # 1
    BY <1>3
  <2>2. i - 1 \in DOMAIN queue' /\ queue'[i - 1].number = number
    BY <1>3, <2>1
  <2> QED
    BY <2>2 DEF Native!Pending
<1>29. Native!Pending(w.number)
  BY <1>3, <1>5 DEF Native!Pending
<1>30. \A u \in Thread : SessionHolds(u)'
  <2> SUFFICES ASSUME NEW u \in Thread PROVE SessionHolds(u)'
    OBVIOUS
  <2>1. SessionHolds(u) /\ committed' = committed
    BY <1>1 DEF NativeInv
  <2>2. kvSessions'[u].tokens <= Len(kvSessions'[u].rows)
    <3>1. CASE u = b /\ writes
      <4>1. kvSessions'[u].rows = rows /\ kvSessions'[u].tokens = kvSessions[b].tokens
        BY <1>21, <3>1
      <4> QED
        BY <1>4, <1>10, <3>1, <4>1
    <3>2. CASE u # b \/ ~writes
      BY <1>21, <2>1, <3>2 DEF SessionHolds
    <3> QED
      BY <3>1, <3>2
  <2>3. kvSessions'[u].rows = kvSessions[u].rows \/ kvSessions[u].state = "poisoned"
    BY <1>7, <1>21
  <2>4. \A i \in 1..Len(queue') :
           /\ queue'[i].kind = "step" /\ queue'[i].by = u
           /\ queue'[i].session = kvSessions'[u].id /\ kvSessions'[u].state # "none"
           => /\ kvSessions'[u].state = "poisoned"
              /\ queue'[i].tokens = kvSessions'[u].tokens
              /\ calls'[u].kind = "step" => queue'[i].number = calls'[u].submission
    BY <1>3, <1>20, <1>21, <2>1 DEF SessionHolds
  <2>5. calls[u].kind = "step" /\ calls[u].pc \in {"scoped", "created"} =>
            kvSessions'[u].rows = kvSessions[u].rows
    <3> SUFFICES ASSUME calls[u].kind = "step", calls[u].pc \in {"scoped", "created"},
                        u = b, writes
                 PROVE  FALSE
      BY <1>21
    <3>1. w.number = calls[u].submission /\ calls[u].submission = 0
      BY <1>3, <1>5, <1>19, <2>1 DEF SessionHolds, b
    <3> QED
      BY <1>2, <1>4, <1>5, <3>1
  <2> QED
    BY <1>20, <1>21, <2>1, <2>2, <2>3, <2>4, <2>5 DEF SessionHolds
<1>31. \A u \in Thread : CallHolds(u)'
  <2> SUFFICES ASSUME NEW u \in Thread, calls[u].pc # "idle",
                      calls[u].kind \in Native!Submitting
               PROVE  CallHolds(u)'
    BY <1>20 DEF CallHolds
  <2>1. CallHolds(u) /\ SessionHolds(u) /\ committed' = committed
        /\ submissions' = submissions /\ NoErrors' = NoErrors
        /\ calls[u].submission \in Nat
    BY <1>1, <1>2 DEF NativeInv, NoErrors, CallRecord
  <2>2. ValuesOf(u)' = ValuesOf(u)
    BY <1>20, <2>1 DEF ValuesOf
  <2> SUFFICES ASSUME calls[u].pc \in {"submitted", "mapped", "closing"},
                      NoErrors, calls[u].why = "none"
               PROVE  /\ calls[u].pc # "submitted" =>
                             ~Native!Pending(calls[u].submission)'
                      /\ ~Native!Pending(calls[u].submission)' =>
                            /\ calls'[u].values = ValuesOf(u)
                            /\ calls[u].kind = "step" =>
                                  kvSessions'[u].rows = ValuesOf(u)
                      /\ Native!Pending(calls[u].submission)' /\ calls[u].kind = "step" =>
                            kvSessions'[u].rows = committed[u]
    BY <1>20, <2>1, <2>2 DEF CallHolds
  <2>3. /\ calls[u].pc # "submitted" => ~Native!Pending(calls[u].submission)
        /\ ~Native!Pending(calls[u].submission) =>
              /\ calls[u].values = ValuesOf(u)
              /\ calls[u].kind = "step" => kvSessions[u].rows = ValuesOf(u)
        /\ Native!Pending(calls[u].submission) /\ calls[u].kind = "step" =>
              kvSessions[u].rows = committed[u]
    BY <2>1 DEF CallHolds
  <2>4. CASE calls[u].submission = w.number
    <3>1. u = b /\ owned
      BY <1>6, <1>18, <2>4
    <3>2. /\ Native!Pending(calls[u].submission)
          /\ ~Native!Pending(calls[u].submission)'
          /\ calls'[u].values = values
      BY <1>4, <1>20, <1>27, <1>29, <2>4, <3>1
    <3>3. CASE calls[u].kind = "step"
      <4>1. /\ kvSessions[u].rows = committed[u] /\ committed[u] \in Seq(Nat)
            /\ kvSessions[u].tokens = Len(committed[u])
        BY <1>2, <2>1, <2>3, <3>2, <3>3 DEF SessionHolds
      <4>2. rows = Append(committed[u], w.number) /\ values = rows
        <5>1. w.kind = "step" /\ w.tokens = kvSessions[u].tokens
          BY <1>5, <3>1, <3>3
        <5>2. rows = Native!Appended(committed[u], w.tokens, w.number)
          BY <1>17, <3>1, <4>1, <5>1
        <5>3. w.tokens = Len(committed[u]) /\ w.tokens <= Len(committed[u])
          BY <1>4, <4>1, <5>1
        <5>4. Native!Appended(committed[u], w.tokens, w.number)
                  = Append(committed[u], w.number)
          BY <1>4, <4>1, <5>3, AppendedRows
        <5> QED
          BY <1>16, <5>1, <5>2, <5>4
      <4>3. writes /\ kvSessions'[u].rows = rows
        BY <1>9, <1>21, <3>1, <3>3
      <4> QED
        BY <2>4, <3>2, <3>3, <4>2, <4>3 DEF ValuesOf
    <3>4. CASE calls[u].kind = "finish"
      <4>1. w.kind = "finish"
        BY <1>5, <3>1, <3>4
      <4>2. values = kvSessions[u].rows
        BY <1>16, <1>17, <3>1, <4>1
      <4>3. kvSessions[u].rows = committed[u]
        BY <2>1, <3>4 DEF SessionHolds
      <4> QED
        BY <3>2, <3>4, <4>2, <4>3 DEF ValuesOf
    <3>5. CASE calls[u].kind \notin {"step", "finish"}
      <4>1. values = <<w.number>>
        BY <1>5, <1>16, <3>1, <3>5
      <4> QED
        BY <2>4, <3>2, <3>5, <4>1 DEF ValuesOf
    <3> QED
      BY <3>3, <3>4, <3>5
  <2>5. CASE calls[u].submission # w.number
    <3>1. Native!Pending(calls[u].submission)' <=> Native!Pending(calls[u].submission)
      BY <1>20, <1>27, <1>28, <2>1, <2>5 DEF Native!Pending
    <3>2. calls'[u] = calls[u]
      BY <1>18, <1>20, <2>5
    <3>3. calls[u].kind = "step" => kvSessions'[u] = kvSessions[u]
      <4> SUFFICES ASSUME calls[u].kind = "step", u = b, writes PROVE FALSE
        BY <1>21
      <4>1. w.number = calls[u].submission
        BY <1>3, <1>5, <1>19, <2>1 DEF SessionHolds, b
      <4> QED
        BY <2>5, <4>1
    <3> QED
      BY <2>3, <3>1, <3>2, <3>3
  <2> QED
    BY <2>4, <2>5
<1>32. ResultHolds'
  BY <1>1 DEF NativeInv, ResultHolds, Native!ResultsAreOwn
<1> QED
  BY <1>22, <1>23, <1>24, <1>25, <1>26, <1>30, <1>31, <1>32 DEF NativeInv

(* A call ends: its thread is idle, the scopes are popped and the lock is  *)
(* free.  Nothing of the other threads changes, and no submission bears    *)
(* the name of an idle call.                                               *)
LEMMA CallEnds ==
    ASSUME NativeInv, NoThread \notin Thread, NEW t \in Thread,
           calls[t].pc # "idle",
           calls' = [calls EXCEPT ![t] = Native!Idle],
           executionLock' = NoThread, errorScopes' = <<>>,
           UNCHANGED <<pipeline, queue, submissions, resolved, readbackMapped,
                       lastTimestamp>>,
           reported' \subseteq Nat,
           \A pair \in reported' : pair <= lastTimestamp,
           NEW s \in KvRecord, kvSessions' = [kvSessions EXCEPT ![t] = s],
           s.id <= submissions,
           NEW steps \in Seq(Nat), committed' = [committed EXCEPT ![t] = steps],
           s.tokens <= Len(s.rows),
           s.state = "healthy" => s.tokens = Len(steps) /\ s.rows = steps,
           \A i \in 1..Len(queue) :
              /\ queue[i].kind = "step" /\ queue[i].by = t
              /\ queue[i].session = s.id /\ s.state # "none"
              => s.state = "poisoned" /\ queue[i].tokens = s.tokens,
           CaptureHolds', ResultHolds'
    PROVE  NativeInv'
<1>1. /\ calls \in [Thread -> CallRecord] /\ kvSessions \in [Thread -> KvRecord]
      /\ committed \in [Thread -> Seq(Nat)] /\ queue \in Seq(WorkRecord)
      /\ submissions \in Nat /\ resolved \in Nat /\ lastTimestamp \in Nat
  BY DEF NativeInv, NativeTypes
<1>2. /\ calls' \in [Thread -> CallRecord]
      /\ \A u \in Thread : /\ calls'[u] = Native!Idle /\ calls'[u].pc = "idle"
                           /\ calls'[u].kind = "none" /\ calls'[u].submission = 0
                           /\ calls'[u].why = "none" /\ calls'[u].fresh = FALSE
  BY <1>1, OthersIdle, IdleIsTyped
<1>3. NativeTypes'
  BY <1>1, <1>2 DEF NativeInv, NativeTypes
<1>4. LockHolds'
  BY <1>2 DEF LockHolds
<1>5. TimestampsHold'
  <2>1. \A u \in Thread : calls'[u].fresh /\ calls'[u].why = "none" =>
            calls'[u].pair = lastTimestamp' /\ calls'[u].pair \notin reported'
    BY <1>2, Zenon
  <2> QED
    BY <1>2, <2>1 DEF NativeInv, TimestampsHold
<1>6. QueueHolds'
  <2> USE DEF QueueHolds
  <2>1. QueueHolds
    BY DEF NativeInv
  <2>2. \A i \in 1..Len(queue) : queue[i].number # 0
    <3>1. \A i \in 1..Len(queue) : queue[i] \in WorkRecord
      BY <1>1
    <3>2. \A i \in 1..Len(queue) : queue[i].number \in Nat
      BY <3>1 DEF WorkRecord
    <3> QED
      BY <1>1, <2>1, <3>2
  <2>3. \A u \in Thread : kvSessions'[u].id <= submissions'
    BY <1>1, <2>1
  <2> QED
    BY <1>1, <1>2, <2>1, <2>2, <2>3
<1>7. \A u \in Thread : CallHolds(u)'
  BY <1>2 DEF CallHolds
<1>8. \A u \in Thread : SessionHolds(u)'
  <2> SUFFICES ASSUME NEW u \in Thread PROVE SessionHolds(u)'
    OBVIOUS
  <2>1. CASE u = t
    <3>1. kvSessions'[u] = s /\ committed'[u] = steps
      BY <1>1, <2>1
    <3> QED
      BY <1>2, <2>1, <3>1 DEF SessionHolds
  <2>2. CASE u # t
    <3>1. kvSessions'[u] = kvSessions[u] /\ committed'[u] = committed[u]
      BY <1>1, <2>2
    <3>2. SessionHolds(u)
      BY DEF NativeInv
    <3> QED
      BY <1>2, <3>1, <3>2 DEF SessionHolds
  <2> QED
    BY <2>1, <2>2
<1> QED
  BY <1>3, <1>4, <1>5, <1>6, <1>7, <1>8 DEF NativeInv

LEMMA NoSessionIsTyped ==
    /\ Native!NoKvSession \in KvRecord /\ Native!NoKvSession.state = "none"
    /\ Native!NoKvSession.id = 0 /\ Native!NoKvSession.tokens = 0
    /\ Native!NoKvSession.rows = <<>> /\ <<>> \in Seq(Nat) /\ Len(<<>>) = 0
<1>1. <<>> \in Seq(Nat) /\ Len(<<>>) = 0
  OBVIOUS
<1> QED
  BY <1>1 DEF Native!NoKvSession, KvRecord

LEMMA EmptyRows == <<>> \in Seq(Nat) /\ Len(<<>>) = 0
OBVIOUS

(* The session that a call which ends leaves, and its committed steps.     *)
SessionLeft(t) == Native!SessionAfter(t, Native!Succeeds(t))
StepsLeft(t) ==
    CASE calls[t].kind = "step" /\ Native!Succeeds(t) ->
             Append(committed[t], calls[t].submission)
      [] calls[t].kind = "begin" -> <<>>
      [] OTHER -> committed[t]

LEMMA SessionAfterCall ==
    ASSUME NativeInv, NEW t \in Thread, calls[t].pc = "closing"
    PROVE  /\ SessionLeft(t) \in KvRecord /\ SessionLeft(t).id <= submissions
           /\ StepsLeft(t) \in Seq(Nat)
           /\ SessionLeft(t).tokens <= Len(SessionLeft(t).rows)
           /\ SessionLeft(t).state = "healthy" =>
                 /\ SessionLeft(t).tokens = Len(StepsLeft(t))
                 /\ SessionLeft(t).rows = StepsLeft(t)
           /\ \A i \in 1..Len(queue) :
                 /\ queue[i].kind = "step" /\ queue[i].by = t
                 /\ queue[i].session = SessionLeft(t).id
                 /\ SessionLeft(t).state # "none"
                 => /\ SessionLeft(t).state = "poisoned"
                    /\ queue[i].tokens = SessionLeft(t).tokens
           /\ Native!Succeeds(t) /\ calls[t].kind \in Native!Submitting =>
                 calls[t].values = IF calls[t].kind \in {"step", "finish"}
                                   THEN StepsLeft(t) ELSE <<calls[t].submission>>
<1> DEFINE ok == Native!Succeeds(t)
           s == SessionLeft(t)
           steps == StepsLeft(t)
<1>s. s = Native!SessionAfter(t, ok)
  BY DEF SessionLeft
<1>n. steps = CASE calls[t].kind = "step" /\ ok ->
                       Append(committed[t], calls[t].submission)
                [] calls[t].kind = "begin" -> <<>>
                [] OTHER -> committed[t]
  BY DEF StepsLeft
<1>2. ok => calls[t].why = "none" /\ NoErrors
  BY DEF Native!Succeeds, NoErrors
<1> SUFFICES
        /\ s \in KvRecord /\ s.id <= submissions
        /\ steps \in Seq(Nat)
        /\ s.tokens <= Len(s.rows)
        /\ s.state = "healthy" => s.tokens = Len(steps) /\ s.rows = steps
        /\ \A i \in 1..Len(queue) :
              /\ queue[i].kind = "step" /\ queue[i].by = t
              /\ queue[i].session = s.id /\ s.state # "none"
              => s.state = "poisoned" /\ queue[i].tokens = s.tokens
        /\ ok /\ calls[t].kind \in Native!Submitting =>
              calls[t].values = IF calls[t].kind \in {"step", "finish"}
                                THEN steps ELSE <<calls[t].submission>>
  OBVIOUS
<1> HIDE DEF ok, s, steps
<1> DEFINE c == calls[t]
<1>1. /\ c \in CallRecord /\ kvSessions[t] \in KvRecord /\ committed[t] \in Seq(Nat)
      /\ submissions \in Nat /\ queue \in Seq(WorkRecord)
      /\ c.submission \in Nat
      /\ kvSessions[t].id \in Nat /\ kvSessions[t].tokens \in Nat
      /\ kvSessions[t].rows \in Seq(Nat) /\ kvSessions[t].id <= submissions
      /\ SessionHolds(t) /\ CallHolds(t)
  BY DEF NativeInv, NativeTypes, QueueHolds, CallRecord, KvRecord
<1>3. ok /\ c.kind \in Native!Submitting =>
          /\ ~Native!Pending(c.submission)
          /\ c.values = ValuesOf(t)
          /\ c.kind = "step" => kvSessions[t].rows = ValuesOf(t)
  BY <1>1, <1>2 DEF CallHolds
<1>4. \A i \in 1..Len(queue) :
          /\ queue[i].number <= submissions
          /\ queue[i].kind = "step" => queue[i].session < queue[i].number
          /\ queue[i].number \in Nat /\ queue[i].session \in Nat
  <2>1. \A i \in 1..Len(queue) : queue[i] \in WorkRecord
    BY <1>1
  <2> QED
    BY <2>1 DEF NativeInv, QueueHolds, WorkRecord
<1>5. CASE c.kind = "begin"
  <2>1. steps = <<>>
    BY <1>n, <1>5
  <2>2. kvSessions[t].state = "none"
    BY <1>1, <1>5 DEF SessionHolds
  <2>3. CASE ok
    <3>1. s = [Native!NoKvSession EXCEPT !.state = "healthy", !.id = submissions]
      BY <1>s, <1>5, <2>3 DEF Native!SessionAfter
    <3>2. /\ s \in KvRecord /\ s.state = "healthy" /\ s.id = submissions
          /\ s.tokens = 0 /\ s.rows = <<>>
      <4>1. submissions \in Nat
        BY <1>1
      <4> HIDE DEF c
      <4> QED
        BY <3>1, <4>1, NoSessionIsTyped, Zenon DEF KvRecord
    <3>3. c.kind \notin Native!Submitting
      BY <1>5 DEF Native!Submitting, Native!Timed
    <3>4. \A i \in 1..Len(queue) :
             ~(queue[i].kind = "step" /\ queue[i].session = s.id)
      <4> SUFFICES ASSUME NEW i \in 1..Len(queue), queue[i].kind = "step",
                          queue[i].session = s.id
                   PROVE  FALSE
        OBVIOUS
      <4>1. /\ queue[i].number <= submissions /\ submissions < queue[i].number
            /\ queue[i].number \in Nat
        BY <1>4, <3>2
      <4> QED
        BY <1>1, <4>1
    <3>5. /\ steps \in Seq(Nat) /\ s.tokens <= Len(s.rows)
          /\ s.tokens = Len(steps) /\ s.rows = steps /\ s.id <= submissions
      BY <1>1, <2>1, <3>2, EmptyRows
    <3> QED
      BY <3>2, <3>3, <3>4, <3>5
  <2>4. CASE ~ok
    <3>1. s = kvSessions[t]
      BY <1>s, <1>5, <2>4 DEF Native!SessionAfter
    <3> QED
      BY <1>1, <2>1, <2>2, <2>4, <3>1 DEF SessionHolds
  <2> QED
    BY <2>3, <2>4
<1>6. CASE c.kind = "finish"
  <2>1. s = Native!NoKvSession /\ steps = committed[t]
    BY <1>s, <1>n, <1>6 DEF Native!SessionAfter
  <2> QED
    <3>1. /\ s \in KvRecord /\ s.state = "none" /\ s.id = 0 /\ s.tokens = 0
          /\ s.rows = <<>>
      BY <2>1, NoSessionIsTyped
    <3>2. ok /\ c.kind \in Native!Submitting => c.values = committed[t]
      BY <1>3, <1>6 DEF ValuesOf
    <3>3. s.tokens <= Len(s.rows)
      BY <3>1
    <3> QED
      BY <1>1, <1>6, <2>1, <3>1, <3>2, <3>3
<1>7. CASE c.kind = "step" /\ ok
  <2>1. /\ s = [kvSessions[t] EXCEPT !.state = "healthy", !.tokens = @ + 1]
        /\ steps = Append(committed[t], c.submission)
    BY <1>s, <1>n, <1>7 DEF Native!SessionAfter
  <2>2. /\ kvSessions[t].rows = steps /\ c.values = steps
        /\ ~Native!Pending(c.submission)
    <3>1. "step" \in Native!Submitting
      BY DEF Native!Submitting
    <3> QED
      BY <1>3, <1>7, <2>1, <3>1 DEF ValuesOf
  <2>3. kvSessions[t].tokens = Len(committed[t]) /\ kvSessions[t].state = "poisoned"
    BY <1>1, <1>7 DEF SessionHolds
  <2>4. steps \in Seq(Nat) /\ Len(steps) = kvSessions[t].tokens + 1
    BY <1>1, <2>1, <2>3
  <2>5. /\ s \in KvRecord /\ s.state = "healthy" /\ s.id = kvSessions[t].id
        /\ s.tokens = kvSessions[t].tokens + 1 /\ s.rows = steps
    <3>1. kvSessions[t].tokens + 1 \in Nat
      BY <1>1
    <3>2. kvSessions[t].rows = steps /\ kvSessions[t] \in KvRecord
      BY <1>1, <2>2
    <3> HIDE DEF c
    <3> QED
      BY <2>1, <3>1, <3>2, Zenon DEF KvRecord
  <2>6. \A i \in 1..Len(queue) :
           ~(queue[i].kind = "step" /\ queue[i].by = t /\ queue[i].session = s.id)
    <3> SUFFICES ASSUME NEW i \in 1..Len(queue), queue[i].kind = "step",
                        queue[i].by = t, queue[i].session = s.id
                 PROVE  FALSE
      OBVIOUS
    <3>1. queue[i].number = c.submission
      BY <1>1, <1>7, <2>3, <2>5 DEF SessionHolds
    <3>2. i \in DOMAIN queue
      BY <1>1
    <3> QED
      BY <2>2, <3>1, <3>2 DEF Native!Pending
  <2> QED
    <3>1. s.tokens = Len(steps) /\ s.rows = steps /\ s.tokens <= Len(s.rows)
      BY <1>1, <2>4, <2>5
    <3> QED
      BY <1>1, <1>7, <2>2, <2>4, <2>5, <2>6, <3>1
<1>8. CASE c.kind \notin {"begin", "finish"} /\ ~(c.kind = "step" /\ ok)
  <2>1. s = kvSessions[t] /\ steps = committed[t]
    BY <1>s, <1>n, <1>8 DEF Native!SessionAfter
  <2>2. ok /\ c.kind \in Native!Submitting => c.values = <<c.submission>>
    BY <1>3, <1>8 DEF ValuesOf
  <2> QED
    BY <1>1, <1>8, <2>1, <2>2 DEF SessionHolds
<1> QED
  BY <1>5, <1>6, <1>7, <1>8

LEMMA ClosesKeeps ==
    ASSUME NativeInv, NoThread \notin Thread, NEW t \in Thread, Native!Closes(t)
    PROVE  NativeInv'
<1> DEFINE c == calls[t]
           ok == Native!Succeeds(t)
           s == SessionLeft(t)
           steps == StepsLeft(t)
           values == IF c.kind \in {"step", "finish"} THEN steps
                     ELSE <<c.submission>>
<1>1. /\ c.pc = "closing"
      /\ executionLock' = NoThread /\ errorScopes' = <<>>
      /\ result' = IF ok
                   THEN [by |-> t, kind |-> c.kind, ok |-> TRUE,
                         submission |-> c.submission, values |-> c.values,
                         repeats |-> c.fresh /\ c.pair \in reported,
                         counted |-> submissions - c.before]
                   ELSE [Native!NoResult EXCEPT !.kind = c.kind]
      /\ reported' = IF ok /\ c.fresh THEN reported \union {c.pair} ELSE reported
      /\ kvSessions' = [kvSessions EXCEPT ![t] = s]
      /\ committed' = [committed EXCEPT ![t] = steps]
      /\ calls' = [calls EXCEPT ![t] = Native!Idle]
      /\ UNCHANGED <<pipeline, queue, submissions, resolved, readbackMapped,
                     lastTimestamp, captureLock, metalCapturing, document>>
  BY DEF Native!Closes, Native!gpuVars, Native!captureVars, SessionLeft, StepsLeft
<1>2. /\ s \in KvRecord /\ s.id <= submissions /\ steps \in Seq(Nat)
      /\ s.tokens <= Len(s.rows)
      /\ s.state = "healthy" => s.tokens = Len(steps) /\ s.rows = steps
      /\ \A i \in 1..Len(queue) :
            /\ queue[i].kind = "step" /\ queue[i].by = t
            /\ queue[i].session = s.id /\ s.state # "none"
            => s.state = "poisoned" /\ queue[i].tokens = s.tokens
      /\ ok /\ c.kind \in Native!Submitting => c.values = values
  BY <1>1, SessionAfterCall
<1>3. ok => c.why = "none"
  BY DEF Native!Succeeds
<1>4. c.kind \in Native!Submitting /\ c.kind # "kernel" => submissions - c.before = 1
  <2>1. CallHolds(t) /\ c.before \in Nat
    BY DEF NativeInv, NativeTypes, CallRecord
  <2> QED
    BY <1>1, <2>1 DEF CallHolds
<1>5. values = IF c.kind \in {"step", "finish"} THEN steps ELSE <<c.submission>>
  OBVIOUS
<1>6. committed \in [Thread -> Seq(Nat)] /\ calls[t] \in CallRecord
      /\ reported \subseteq Nat /\ c.pair \in Nat /\ lastTimestamp \in Nat
  BY DEF NativeInv, NativeTypes, CallRecord
<1>7. c.fresh /\ c.why = "none" => c.pair = lastTimestamp /\ c.pair \notin reported
  BY DEF NativeInv, TimestampsHold
<1> HIDE DEF ok, s, steps, values
<1>8. reported' \subseteq Nat /\ \A pair \in reported' : pair <= lastTimestamp
  <2>1. \A pair \in reported : pair <= lastTimestamp
    BY DEF NativeInv, TimestampsHold
  <2> QED
    BY <1>1, <1>3, <1>6, <1>7, <2>1
<1>9. CaptureHolds'
  BY <1>1 DEF NativeInv, CaptureHolds
<1>10. ResultHolds'
  <2>1. CASE ok
    <3>1. /\ result'.by = t /\ result'.kind = c.kind /\ result'.submission = c.submission
          /\ result'.values = c.values
          /\ result'.counted = submissions - c.before
          /\ result'.repeats = (c.fresh /\ c.pair \in reported)
      BY <1>1, <2>1
    <3>2. ~result'.repeats
      BY <1>3, <1>7, <2>1, <3>1, Zenon
    <3>3. committed'[t] = steps
      BY <1>1, <1>6
    <3>4. Native!ResultsAreOwn'
      BY <1>2, <1>4, <1>5, <2>1, <3>1 DEF Native!ResultsAreOwn
    <3>5. c.kind \in {"step", "finish"} => c.kind \in Native!Submitting
      <4>1. "step" \in Native!Submitting /\ "finish" \in Native!Submitting
        BY Zenon DEF Native!Submitting
      <4> QED
        BY <4>1
    <3> QED
      BY <1>2, <1>5, <2>1, <3>1, <3>2, <3>3, <3>4, <3>5 DEF ResultHolds
  <2>2. CASE ~ok
    <3>1. result'.ok = FALSE /\ result'.repeats = FALSE
      BY <1>1, <2>2, Zenon DEF Native!NoResult
    <3> QED
      BY <3>1 DEF ResultHolds, Native!ResultsAreOwn
  <2> QED
    BY <2>1, <2>2
<1> QED
  BY <1>1, <1>2, <1>8, <1>9, <1>10, CallEnds

LEMMA PanicsKeeps ==
    ASSUME NativeInv, NoThread \notin Thread, NEW t \in Thread, Native!Panics(t)
    PROVE  NativeInv'
<1> DEFINE s == IF calls[t].kind = "finish" THEN Native!NoKvSession ELSE kvSessions[t]
           steps == committed[t]
<1>1. /\ executionLock = t
      /\ executionLock' = NoThread /\ errorScopes' = <<>>
      /\ calls' = [calls EXCEPT ![t] = Native!Idle]
      /\ UNCHANGED <<result, reported, pipeline, queue, submissions, resolved,
                     readbackMapped, lastTimestamp, committed>>
      /\ kvSessions' = IF calls[t].kind = "finish"
                       THEN [kvSessions EXCEPT ![t] = Native!NoKvSession]
                       ELSE kvSessions
  BY DEF Native!Panics, Native!gpuVars
<1>2. /\ kvSessions \in [Thread -> KvRecord] /\ committed \in [Thread -> Seq(Nat)]
      /\ submissions \in Nat /\ reported \subseteq Nat /\ SessionHolds(t)
      /\ calls[t].pc # "idle" /\ kvSessions[t].id <= submissions
      /\ \A pair \in reported : pair <= lastTimestamp
  BY <1>1 DEF NativeInv, NativeTypes, LockHolds, QueueHolds, TimestampsHold
<1>3. kvSessions' = [kvSessions EXCEPT ![t] = s]
      /\ committed' = [committed EXCEPT ![t] = steps]
  BY <1>1, <1>2
<1>4. /\ s \in KvRecord /\ s.id <= submissions /\ steps \in Seq(Nat)
      /\ s.tokens <= Len(s.rows)
      /\ s.state = "healthy" => s.tokens = Len(steps) /\ s.rows = steps
      /\ \A i \in 1..Len(queue) :
            /\ queue[i].kind = "step" /\ queue[i].by = t
            /\ queue[i].session = s.id /\ s.state # "none"
            => s.state = "poisoned" /\ queue[i].tokens = s.tokens
  <2>1. CASE calls[t].kind = "finish"
    <3>1. /\ s \in KvRecord /\ s.state = "none" /\ s.id = 0 /\ s.tokens = 0
          /\ s.rows = <<>>
      BY <2>1, NoSessionIsTyped
    <3> HIDE DEF s
    <3> QED
      BY <1>2, <3>1
  <2>2. CASE calls[t].kind # "finish"
    <3>1. s = kvSessions[t] /\ s \in KvRecord
      BY <1>2, <2>2
    <3> HIDE DEF s
    <3> QED
      BY <1>2, <3>1 DEF SessionHolds
  <2> QED
    BY <2>1, <2>2
<1> HIDE DEF s, steps
<1>5. CaptureHolds'
  <2>1. CASE captureLock = t
    BY <1>1, <2>1 DEF NativeInv, CaptureHolds, Native!Panics
  <2>2. CASE captureLock # t
    BY <1>1, <2>2 DEF NativeInv, CaptureHolds, Native!Panics, Native!captureVars
  <2> QED
    BY <2>1, <2>2
<1>6. ResultHolds'
  BY <1>1 DEF NativeInv, ResultHolds, Native!ResultsAreOwn
<1> QED
  BY <1>1, <1>2, <1>3, <1>4, <1>5, <1>6, CallEnds

(* The session of a thread whose call is idle goes.                        *)
LEMMA SessionGoes ==
    ASSUME NativeInv, NEW t \in Thread, calls[t].pc = "idle",
           UNCHANGED <<calls, executionLock, errorScopes, pipeline, queue,
                       submissions, resolved, readbackMapped, lastTimestamp,
                       reported, captureLock, metalCapturing, document>>,
           kvSessions' = [kvSessions EXCEPT ![t] = Native!NoKvSession],
           NEW steps \in Seq(Nat), committed' = [committed EXCEPT ![t] = steps],
           ResultHolds'
    PROVE  NativeInv'
<1> DEFINE s == Native!NoKvSession
<1>1. /\ s \in KvRecord /\ s.state = "none" /\ s.id = 0 /\ s.tokens = 0
      /\ s.rows = <<>> /\ Len(<<>>) = 0
  BY NoSessionIsTyped
<1> HIDE DEF s
<1>2. /\ calls \in [Thread -> CallRecord] /\ kvSessions \in [Thread -> KvRecord]
      /\ committed \in [Thread -> Seq(Nat)] /\ queue \in Seq(WorkRecord)
      /\ submissions \in Nat /\ resolved \in Nat /\ lastTimestamp \in Nat
  BY DEF NativeInv, NativeTypes
<1>3. kvSessions' = [kvSessions EXCEPT ![t] = s]
  BY DEF s
<1>4. /\ kvSessions'[t] = s /\ committed'[t] = steps
      /\ \A u \in Thread : u # t => /\ kvSessions'[u] = kvSessions[u]
                                    /\ committed'[u] = committed[u]
  BY <1>2, <1>3
<1>5. calls[t].kind = "none" /\ calls[t].submission = 0
  BY IdleIsTyped DEF NativeInv, LockHolds
<1>6. NativeTypes'
  BY <1>1, <1>2, <1>3 DEF NativeInv, NativeTypes
<1>7. QueueHolds'
  <2>1. QueueHolds
    BY DEF NativeInv
  <2>2. \A i \in 1..Len(queue) : queue[i].number # 0
    <3>1. \A i \in 1..Len(queue) : queue[i] \in WorkRecord
      BY <1>2
    <3>2. \A i \in 1..Len(queue) : queue[i].number \in Nat
      BY <3>1 DEF WorkRecord
    <3> QED
      BY <1>2, <2>1, <3>2 DEF QueueHolds
  <2>3. \A i \in 1..Len(queue), u \in Thread :
            queue[i].number = calls[u].submission => u # t
    BY <1>5, <2>2
  <2>4. \A u \in Thread : kvSessions'[u].id <= submissions
    BY <1>1, <1>2, <1>4, <2>1 DEF QueueHolds
  <2> QED
    BY <1>4, <2>1, <2>3, <2>4 DEF QueueHolds
<1>8. \A u \in Thread : CallHolds(u)'
  <2> SUFFICES ASSUME NEW u \in Thread PROVE CallHolds(u)'
    OBVIOUS
  <2>1. CASE u = t
    BY <2>1 DEF CallHolds
  <2>2. CASE u # t
    <3>1. CallHolds(u)
      BY DEF NativeInv
    <3>2. ValuesOf(u)' = ValuesOf(u) /\ (NoErrors' <=> NoErrors)
      BY <1>4, <2>2 DEF ValuesOf, NoErrors
    <3>3. Native!Pending(calls[u].submission)' <=> Native!Pending(calls[u].submission)
      BY DEF Native!Pending
    <3> QED
      BY <1>4, <2>2, <3>1, <3>2, <3>3 DEF CallHolds
  <2> QED
    BY <2>1, <2>2
<1>9. \A u \in Thread : SessionHolds(u)'
  <2> SUFFICES ASSUME NEW u \in Thread PROVE SessionHolds(u)'
    OBVIOUS
  <2>1. CASE u = t
    BY <1>1, <1>4, <1>5, <2>1 DEF SessionHolds
  <2>2. CASE u # t
    BY <1>4, <2>2 DEF NativeInv, SessionHolds
  <2> QED
    BY <2>1, <2>2
<1>10. LockHolds' /\ CaptureHolds' /\ TimestampsHold'
  BY DEF NativeInv, LockHolds, CaptureHolds, TimestampsHold
<1> QED
  BY <1>6, <1>7, <1>8, <1>9, <1>10 DEF NativeInv

LEMMA NoResultHolds ==
    ASSUME NEW k, result' \in {Native!NoResult, [Native!NoResult EXCEPT !.kind = k]}
    PROVE  ResultHolds'
<1>1. result'.ok = FALSE /\ result'.repeats = FALSE
  <2>1. CASE result' = Native!NoResult
    BY <2>1, Zenon DEF Native!NoResult
  <2>2. CASE result' = [Native!NoResult EXCEPT !.kind = k]
    BY <2>2, Zenon DEF Native!NoResult
  <2> QED
    BY <2>1, <2>2
<1> QED
  BY <1>1 DEF ResultHolds, Native!ResultsAreOwn

LEMMA DropsKeeps ==
    ASSUME NativeInv, NEW t \in Thread, Native!Drops(t) PROVE NativeInv'
<1>1. ResultHolds'
  BY NoResultHolds DEF Native!Drops
<1>2. <<>> \in Seq(Nat)
  OBVIOUS
<1> QED
  BY <1>1, <1>2, SessionGoes DEF Native!Drops, Native!gpuVars, Native!captureVars

LEMMA RefusesKeeps ==
    ASSUME NativeInv, NEW t \in Thread, NEW k, Native!Refuses(t, k)
    PROVE  NativeInv'
<1>1. ResultHolds'
  BY NoResultHolds DEF Native!Refuses
<1>2. /\ calls[t].pc = "idle"
      /\ UNCHANGED <<calls, executionLock, errorScopes, pipeline, queue,
                     submissions, resolved, readbackMapped, lastTimestamp,
                     reported, captureLock, metalCapturing, document, committed>>
  BY DEF Native!Refuses, Native!Calls, Native!gpuVars, Native!captureVars
<1>3. CASE kvSessions' = [kvSessions EXCEPT ![t] = Native!NoKvSession]
  <2>1. committed[t] \in Seq(Nat) /\ committed' = [committed EXCEPT ![t] = committed[t]]
    BY <1>2 DEF NativeInv, NativeTypes
  <2> QED
    BY <1>1, <1>2, <1>3, <2>1, SessionGoes
<1>4. CASE kvSessions' = kvSessions
  <2>1. \A u \in Thread : CallHolds(u)' /\ SessionHolds(u)'
    BY <1>2, <1>4 DEF NativeInv, CallHolds, SessionHolds, ValuesOf, NoErrors,
                      Native!Pending
  <2>2. NativeTypes' /\ QueueHolds'
    BY <1>2, <1>4 DEF NativeInv, NativeTypes, QueueHolds
  <2>3. LockHolds' /\ CaptureHolds' /\ TimestampsHold'
    BY <1>2 DEF NativeInv, LockHolds, CaptureHolds, TimestampsHold
  <2> QED
    BY <1>1, <2>1, <2>2, <2>3 DEF NativeInv
<1> QED
  BY <1>3, <1>4 DEF Native!Refuses

LEMMA CapturesKeep ==
    ASSUME NativeInv, NEW t \in Thread, NoThread \notin Thread,
           NEW written \in {"document", "empty", "late"},
           \/ Native!StartsCapture(t) \/ Native!RefusesCapture(t)
           \/ Native!StopsCapture(t, written)
    PROVE  NativeInv'
<1>1. /\ UNCHANGED <<calls, executionLock, errorScopes, pipeline, queue,
                     submissions, resolved, readbackMapped, lastTimestamp,
                     reported, result, kvSessions, committed>>
  BY DEF Native!StartsCapture, Native!RefusesCapture, Native!StopsCapture,
         Native!gpuVars, Native!kvVars
<1>2. CaptureHolds'
  <2>1. CASE Native!StartsCapture(t)
    BY <1>1, <2>1 DEF NativeInv, CaptureHolds, Native!StartsCapture
  <2>2. CASE Native!RefusesCapture(t)
    BY <1>1, <2>2 DEF NativeInv, CaptureHolds, Native!RefusesCapture,
                      Native!captureVars
  <2>3. CASE Native!StopsCapture(t, written)
    BY <1>1, <2>3 DEF NativeInv, CaptureHolds, Native!StopsCapture
  <2> QED
    BY <2>1, <2>2, <2>3
<1>3. \A u \in Thread : CallHolds(u)' /\ SessionHolds(u)'
  BY <1>1 DEF NativeInv, CallHolds, SessionHolds, ValuesOf, NoErrors, Native!Pending
<1>4. NativeTypes' /\ QueueHolds' /\ LockHolds' /\ TimestampsHold' /\ ResultHolds'
  BY <1>1 DEF NativeInv, NativeTypes, QueueHolds, LockHolds, TimestampsHold,
              ResultHolds, Native!ResultsAreOwn
<1> QED
  BY <1>2, <1>3, <1>4 DEF NativeInv

LEMMA ThreeScopes ==
    ASSUME NEW S, NEW error \in S PROVE <<error, error, error>> \in [1..3 -> S]
OBVIOUS

(* A call takes the lock, with every other call idle; a step finds its     *)
(* session healthy, so that no step of it is pending.                      *)
LEMMA AcquiresKeeps ==
    ASSUME NativeInv, NoThread \notin Thread, NEW t \in Thread,
           NEW k \in Native!Creating \union Native!Submitting,
           Native!Acquires(t, k)
    PROVE  NativeInv'
<1> DEFINE c == [Native!Idle EXCEPT !.pc = "scoped", !.kind = k,
                                    !.before = submissions]
<1>1. /\ calls[t].pc = "idle" /\ Native!Admits(t, k)
      /\ executionLock = NoThread /\ executionLock' = t
      /\ errorScopes' = <<FALSE, FALSE, FALSE>>
      /\ calls' = [calls EXCEPT ![t] = c]
      /\ kvSessions' = IF k = "step"
                       THEN [kvSessions EXCEPT ![t].state = "poisoned"]
                       ELSE kvSessions
      /\ result' = Native!NoResult
      /\ UNCHANGED <<reported, pipeline, queue, submissions, resolved,
                     readbackMapped, lastTimestamp, committed, captureLock,
                     metalCapturing, document>>
  BY DEF Native!Acquires, Native!Calls, Native!gpuVars, Native!captureVars
<1>2. /\ calls \in [Thread -> CallRecord] /\ kvSessions \in [Thread -> KvRecord]
      /\ committed \in [Thread -> Seq(Nat)] /\ queue \in Seq(WorkRecord)
      /\ submissions \in Nat /\ resolved \in Nat /\ lastTimestamp \in Nat
  BY DEF NativeInv, NativeTypes
<1>3. /\ c \in CallRecord /\ c.pc = "scoped" /\ c.kind = k
      /\ c.before = submissions /\ c.submission = 0 /\ c.why = "none"
      /\ c.fresh = FALSE
  <2>1. k \in NativeKind \union {"none"}
    BY DEF NativeKind
  <2>2. Native!Idle \in CallRecord
    BY IdleIsTyped
  <2>3. submissions \in Nat
    BY <1>2
  <2>4. c \in CallRecord
    BY <2>1, <2>2, <2>3, Zenon DEF CallRecord
  <2> QED
    BY <2>4, Zenon DEF Native!Idle
<1> HIDE DEF c
<1>4. \A u \in Thread : /\ calls[u].pc = "idle" /\ calls[u].why = "none"
                        /\ calls[u].submission = 0 /\ calls[u].fresh = FALSE
                        /\ calls[u].kind = "none"
  <2>1. \A u \in Thread : calls[u] = Native!Idle
    BY <1>1 DEF NativeInv, LockHolds
  <2> QED
    BY <2>1, IdleIsTyped
<1>5. /\ calls'[t] = c /\ calls' \in [Thread -> CallRecord]
      /\ \A u \in Thread : u # t => calls'[u] = calls[u]
  BY <1>1, <1>2, <1>3
<1>6. /\ kvSessions' \in [Thread -> KvRecord]
      /\ \A u \in Thread : /\ kvSessions'[u].id = kvSessions[u].id
                           /\ kvSessions'[u].tokens = kvSessions[u].tokens
                           /\ kvSessions'[u].rows = kvSessions[u].rows
                           /\ kvSessions'[u].state =
                                 IF u = t /\ k = "step" THEN "poisoned"
                                 ELSE kvSessions[u].state
  <2>1. CASE k = "step"
    <3> DEFINE s == [kvSessions[t] EXCEPT !.state = "poisoned"]
    <3>1. kvSessions[t] \in KvRecord
      BY <1>2
    <3>2. /\ s \in KvRecord /\ s.state = "poisoned" /\ s.id = kvSessions[t].id
          /\ s.tokens = kvSessions[t].tokens /\ s.rows = kvSessions[t].rows
      BY <3>1, Zenon DEF KvRecord
    <3>3. kvSessions' = [kvSessions EXCEPT ![t] = s]
      BY <1>1, <2>1, Zenon
    <3> HIDE DEF s
    <3> QED
      BY <1>2, <2>1, <3>2, <3>3
  <2>2. CASE k # "step"
    BY <1>1, <1>2, <2>2
  <2> QED
    BY <2>1, <2>2
<1>7. \A i \in 1..Len(queue) : queue[i].number # 0
  <2>1. \A i \in 1..Len(queue) : queue[i] \in WorkRecord
    BY <1>2
  <2>2. \A i \in 1..Len(queue) : queue[i].number \in Nat
    BY <2>1 DEF WorkRecord
  <2> QED
    BY <1>2, <2>2 DEF NativeInv, QueueHolds
<1>8. NativeTypes'
  BY <1>1, <1>2, <1>5, <1>6 DEF NativeInv, NativeTypes
<1>9. LockHolds'
  <2>1. errorScopes' \in [1..3 -> BOOLEAN]
    <3>1. FALSE \in BOOLEAN
      OBVIOUS
    <3> QED
      BY <1>1, <3>1, ThreeScopes, Zenon
  <2>2. \A u \in Thread : calls'[u].pc # "idle" <=> u = t
    BY <1>3, <1>4, <1>5
  <2>3. \A u \in Thread : /\ calls'[u].pc = "idle" => calls'[u] = Native!Idle
                          /\ calls'[u].pc # "closing" => calls'[u].why = "none"
    BY <1>3, <1>4, <1>5 DEF NativeInv, LockHolds
  <2> QED
    BY <1>1, <2>1, <2>2, <2>3 DEF LockHolds
<1>10. QueueHolds'
  <2>1. \A u \in Thread : calls'[u].submission = 0
    BY <1>3, <1>4, <1>5
  <2> QED
    BY <1>1, <1>2, <1>6, <1>7, <2>1 DEF NativeInv, QueueHolds
<1>11. TimestampsHold'
  <2>1. \A u \in Thread : calls'[u].fresh = FALSE /\ calls'[u].why = "none"
    BY <1>3, <1>4, <1>5
  <2>2. \A u \in Thread : calls'[u].fresh /\ calls'[u].why = "none" =>
            calls'[u].pair = lastTimestamp' /\ calls'[u].pair \notin reported'
    BY <2>1, Zenon
  <2> QED
    BY <1>1, <2>1, <2>2 DEF NativeInv, TimestampsHold
<1>12. \A u \in Thread : CallHolds(u)'
  <2> SUFFICES ASSUME NEW u \in Thread PROVE CallHolds(u)'
    OBVIOUS
  <2>1. CASE u = t
    BY <1>1, <1>3, <1>5, <2>1 DEF CallHolds
  <2>2. CASE u # t
    BY <1>4, <1>5, <2>2 DEF CallHolds
  <2> QED
    BY <2>1, <2>2
<1>13. \A u \in Thread : SessionHolds(u)'
  <2> SUFFICES ASSUME NEW u \in Thread PROVE SessionHolds(u)'
    OBVIOUS
  <2>1. SessionHolds(u)
    BY DEF NativeInv
  <2>2. CASE u # t
    BY <1>1, <1>5, <1>6, <2>1, <2>2 DEF SessionHolds
  <2>3. CASE u = t /\ k = "step"
    <3>1. kvSessions[t].state = "healthy"
      BY <1>1, <2>3 DEF Native!Admits
    <3> QED
      BY <1>1, <1>3, <1>5, <1>6, <2>1, <2>3, <3>1 DEF SessionHolds
  <2>4. CASE u = t /\ k # "step"
    <3>1. /\ k = "begin" => kvSessions[t].state = "none"
          /\ k = "finish" => kvSessions[t].state = "healthy"
      BY <1>1 DEF Native!Admits
    <3> QED
      BY <1>1, <1>3, <1>5, <1>6, <2>1, <2>4, <3>1 DEF SessionHolds
  <2> QED
    BY <2>2, <2>3, <2>4
<1>14. CaptureHolds' /\ ResultHolds'
  BY <1>1, NoResultHolds DEF NativeInv, CaptureHolds
<1> QED
  BY <1>8, <1>9, <1>10, <1>11, <1>12, <1>13, <1>14 DEF NativeInv

LEMMA InitNative == ASSUME NoThread \notin Thread PROVE Native!Init => NativeInv
<1> SUFFICES ASSUME Native!Init PROVE NativeInv
  OBVIOUS
<1>1. /\ executionLock = NoThread /\ calls = [t \in Thread |-> Native!Idle]
      /\ result = Native!NoResult /\ reported = {} /\ errorScopes = <<>>
      /\ pipeline = "absent" /\ queue = <<>> /\ submissions = 0 /\ resolved = 0
      /\ readbackMapped = FALSE /\ lastTimestamp = 0
      /\ kvSessions = [t \in Thread |-> Native!NoKvSession]
      /\ committed = [t \in Thread |-> <<>>]
      /\ captureLock = NoThread /\ metalCapturing = FALSE /\ document = "absent"
  BY DEF Native!Init
<1>2. \A t \in Thread :
          /\ calls[t] = Native!Idle /\ calls[t] \in CallRecord
          /\ calls[t].pc = "idle" /\ calls[t].kind = "none"
          /\ calls[t].submission = 0 /\ calls[t].why = "none"
          /\ calls[t].fresh = FALSE
  BY <1>1, IdleIsTyped
<1>3. \A t \in Thread :
          /\ kvSessions[t] \in KvRecord /\ kvSessions[t].state = "none"
          /\ kvSessions[t].id = 0 /\ kvSessions[t].tokens = 0
          /\ kvSessions[t].rows = <<>> /\ committed[t] = <<>>
  BY <1>1, NoSessionIsTyped
<1>4. <<>> \in Seq(Nat) /\ <<>> \in Seq(WorkRecord) /\ Len(<<>>) = 0
  OBVIOUS
<1>5. NativeTypes
  <2>1. /\ calls \in [Thread -> CallRecord] /\ kvSessions \in [Thread -> KvRecord]
        /\ committed \in [Thread -> Seq(Nat)]
    BY <1>1, <1>4, IdleIsTyped, NoSessionIsTyped
  <2> QED
    BY <1>1, <1>4, <2>1 DEF NativeTypes
<1>6. LockHolds
  <2>1. /\ executionLock \in Thread \union {NoThread}
        /\ NoThread \notin Thread =>
              \A t \in Thread : calls[t].pc # "idle" <=> executionLock = t
    BY <1>1, <1>2
  <2> QED
    BY <1>1, <1>2, <2>1 DEF LockHolds
<1>7. CaptureHolds /\ QueueHolds
  BY <1>1, <1>2, <1>3, <1>4 DEF CaptureHolds, QueueHolds
<1>8. TimestampsHold
  <2>1. \A t \in Thread : calls[t].fresh /\ calls[t].why = "none" =>
            calls[t].pair = lastTimestamp /\ calls[t].pair \notin reported
    BY <1>2, Zenon
  <2> QED
    BY <1>1, <1>2, <2>1 DEF TimestampsHold
<1>9. \A t \in Thread : CallHolds(t) /\ SessionHolds(t)
  BY <1>1, <1>2, <1>3, <1>4 DEF CallHolds, SessionHolds
<1>10. ResultHolds
  <2>1. result.ok = FALSE /\ result.repeats = FALSE
    BY <1>1, Zenon DEF Native!NoResult
  <2> QED
    BY <2>1 DEF ResultHolds, Native!ResultsAreOwn
<1> QED
  BY <1>5, <1>6, <1>7, <1>8, <1>9, <1>10 DEF NativeInv

LEMMA StutterNative == NativeInv /\ UNCHANGED Native!nativeVars => NativeInv'
<1> SUFFICES ASSUME NativeInv, UNCHANGED Native!nativeVars PROVE NativeInv'
  OBVIOUS
<1>1. UNCHANGED <<executionLock, calls, result, reported, errorScopes, pipeline,
                  queue, submissions, resolved, readbackMapped, lastTimestamp,
                  kvSessions, committed, captureLock, metalCapturing, document>>
  BY DEF Native!nativeVars, Native!callVars, Native!gpuVars, Native!kvVars,
         Native!captureVars
<1>2. \A u \in Thread : CallHolds(u)' /\ SessionHolds(u)'
  BY <1>1 DEF NativeInv, CallHolds, SessionHolds, ValuesOf, NoErrors, Native!Pending
<1> QED
  BY <1>1, <1>2 DEF NativeInv, NativeTypes, QueueHolds, LockHolds, TimestampsHold,
                    CaptureHolds, ResultHolds, Native!ResultsAreOwn

LEMMA NextNative ==
    ASSUME NoThread \notin Thread
    PROVE  NativeInv /\ [Native!Next]_(Native!nativeVars) => NativeInv'
<1> SUFFICES ASSUME NativeInv, [Native!Next]_(Native!nativeVars) PROVE NativeInv'
  OBVIOUS
<1>1. CASE UNCHANGED Native!nativeVars
  BY <1>1, StutterNative
<1>2. ASSUME NEW t \in Thread, NEW k \in Native!Creating \union Native!Submitting,
             Native!Refuses(t, k) \/ Native!Acquires(t, k)
      PROVE  NativeInv'
  BY <1>2, RefusesKeeps, AcquiresKeeps
<1>3. ASSUME NEW t \in Thread, NEW lost \in {"nothing", "pipeline", "buffer"},
             NEW cached \in BOOLEAN, Native!Creates(t, lost, cached)
      PROVE  NativeInv'
  BY <1>3, CreatesKeeps
<1>4. ASSUME NEW t \in Thread, Native!Submits(t) PROVE NativeInv'
  BY <1>4, SubmitsKeeps
<1>5. ASSUME NEW pair, Native!Runs(pair) PROVE NativeInv'
  BY <1>5, RunsKeeps
<1>6. ASSUME NEW t \in Thread, Native!Waits(t) \/ Native!TimesOut(t)
      PROVE  NativeInv'
  BY <1>6, WaitingKeeps
<1>7. ASSUME NEW t \in Thread, Native!MappingFails(t) PROVE NativeInv'
  BY <1>7, WaitingKeeps
<1>8. ASSUME NEW t \in Thread, Native!Reads(t) PROVE NativeInv'
  BY <1>8, ReadsKeeps
<1>9. ASSUME NEW t \in Thread, Native!Closes(t) PROVE NativeInv'
  BY <1>9, ClosesKeeps
<1>10. ASSUME NEW t \in Thread, Native!Panics(t) PROVE NativeInv'
  BY <1>10, PanicsKeeps
<1>11. ASSUME NEW t \in Thread, Native!Drops(t) PROVE NativeInv'
  BY <1>11, DropsKeeps
<1>12. ASSUME NEW t \in Thread, NEW written \in {"document", "empty", "late"},
              \/ Native!StartsCapture(t) \/ Native!RefusesCapture(t)
              \/ Native!StopsCapture(t, written)
       PROVE  NativeInv'
  BY <1>12, CapturesKeep
<1> QED
  BY <1>1, <1>2, <1>3, <1>4, <1>5, <1>6, <1>7, <1>8, <1>9, <1>10, <1>11, <1>12
  DEF Native!Next

LEMMA NativeIsTyped == NativeInv => Native!TypeOK
<1> SUFFICES ASSUME NativeInv PROVE Native!TypeOK
  OBVIOUS
<1>1. \A t \in Thread : calls[t] \in CallRecord /\ kvSessions[t] \in KvRecord
  BY DEF NativeInv, NativeTypes
<1>2. \A t \in Thread :
          /\ calls[t].pc \in {"idle", "scoped", "created",
                              "submitted", "mapped", "closing"}
          /\ kvSessions[t].state \in {"none", "healthy", "poisoned"}
  BY <1>1 DEF CallRecord, KvRecord
<1>3. lastTimestamp \in 0..submissions /\ submissions \in Nat
  BY DEF NativeInv, NativeTypes, TimestampsHold
<1> QED
  BY <1>2, <1>3 DEF NativeInv, LockHolds, CaptureHolds, Native!TypeOK

LEMMA NativeIsSound == NativeInv => Native!NativeCallsAreSound
<1> SUFFICES ASSUME NativeInv PROVE Native!NativeCallsAreSound
  OBVIOUS
<1>1. Native!ResultsAreOwn /\ Native!PairsAreTakenOnce
  BY DEF NativeInv, ResultHolds, Native!PairsAreTakenOnce
<1>2. Native!SessionsHoldTheirSteps
  BY DEF NativeInv, SessionHolds, ResultHolds, Native!SessionsHoldTheirSteps
<1>3. Native!CallsLeaveNothingBehind
  <2>1. errorScopes \in [1..3 -> BOOLEAN] => errorScopes # <<>>
    <3>1. DOMAIN <<>> = {} /\ 1 \in 1..3
      OBVIOUS
    <3> QED
      BY <3>1
  <2>2. executionLock = NoThread <=> errorScopes = <<>>
    BY <2>1 DEF NativeInv, LockHolds
  <2> QED
    BY <2>2 DEF NativeInv, CaptureHolds, TimestampsHold,
                Native!CallsLeaveNothingBehind
<1> QED
  BY <1>1, <1>2, <1>3 DEF Native!NativeCallsAreSound

(* All runtimes of a page use one device, and a call of a native runtime   *)
(* that succeeds returns what is its own, whatever the device was late     *)
(* with, refused or lost and whatever panicked before it: no timestamp     *)
(* pair is reported twice, a session that may be stepped holds the steps   *)
(* that returned, and nothing of a call outlives it (pvlc-runtime-native,  *)
(* drive_error_scopes, accept_fresh_timestamp, the key-value session).     *)
(* None is told apart from the threads and the users of a device.          *)
THEOREM NativeCallsAreOwn ==
    ASSUME NoThread \notin Thread, NoDevice \notin DeviceUser
    PROVE  SpecComponents => [](Native!TypeOK /\ RuntimesAreSound)
<1>1. Native!Spec => []NativeInv
  BY InitNative, NextNative, PTL DEF Native!Spec
<1>2. NativeInv => Native!TypeOK /\ Native!NativeCallsAreSound
  BY NativeIsTyped, NativeIsSound
<1>3. (Native!TypeOK /\ Native!NativeCallsAreSound) /\ (Device!TypeOK /\ Device!OneDevice)
      => Native!TypeOK /\ RuntimesAreSound
  BY DEF RuntimesAreSound
<1> QED
  BY <1>1, <1>2, <1>3, NativeRuns, DeviceIsShared, PTL
=============================================================================
