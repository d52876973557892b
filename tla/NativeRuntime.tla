---------------------------- MODULE NativeRuntime ----------------------------
(***************************************************************************)
(* The native runtime, shared by the threads of a process.  Every call     *)
(* plans and validates before it takes the execution lock; under the lock  *)
(* it pushes three error scopes, creates what it needs, submits, waits for *)
(* the GPU, reads back, and pops the scopes: an error captured by one of   *)
(* them fails the call whatever it returned.  A timestamp query of the     *)
(* runtime's own is shared by all timed calls, and a single kernel is      *)
(* submitted again while the pair it reads is not a fresh one.  A          *)
(* key-value session keeps its cache on the device between calls and is    *)
(* poisoned before each step.  Calls may be made inside a Metal capture.   *)
(*                                                                         *)
(* The device is external: it runs submissions in order, may be late, may  *)
(* refuse to create a resource, refuses a submission that uses an invalid  *)
(* resource or a mapped buffer, and may resolve a timestamp query to zeros *)
(* or to the pair of the submission before.  A pair is named by the        *)
(* submission that measured it, zeros by 0.  A row of a cache, and a       *)
(* result, are named by the submission that wrote them.                    *)
(***************************************************************************)
EXTENDS Naturals, Sequences

CONSTANTS
    Thread, NoThread,
    Programs,          \* the calls the threads make, by thread, in order
    TimestampAttempts, \* TIMESTAMP_ATTEMPTS
    CacheCapacity,     \* rows of a session's cache
    MaxFaults          \* bound on what goes wrong: refusals, timeouts, panics

VARIABLES
    program,           \* the calls each thread has still to make
    executionLock,     \* the thread that holds it
    calls,             \* each thread's call
    succeeded,         \* did each thread's last call?
    result,            \* what the call that has just returned did
    reported,          \* the pairs calls returned as fresh
    errorScopes,       \* has each scope pushed captured an error?
    pipeline,          \* the cached pipeline of the kernel in use
    queue,             \* submissions the GPU has not run yet
    submissions,       \* counters.submissions
    resolved,          \* the pair in the timestamp readback buffer
    readbackMapped,    \* is the timestamp readback buffer mapped or pending?
    lastTimestamp,     \* the last pair accepted
    kvSessions,        \* each thread's key-value session
    committed,         \* the steps of it that returned, in order
    captureLock,       \* the thread that captures
    metalCapturing,    \* MTLCaptureManager.isCapturing
    document,          \* the file at the capture's target
    faultsLeft

callVars == <<program, executionLock, calls, succeeded, result, reported,
              errorScopes>>
gpuVars == <<pipeline, queue, submissions, resolved, readbackMapped>>
kvVars == <<kvSessions, committed>>
captureVars == <<captureLock, metalCapturing, document>>
nativeVars == <<callVars, gpuVars, lastTimestamp, kvVars, captureVars,
                faultsLeft>>

Timed == {"kernel", "projector", "vision layer", "vision stack"}
Creating == Timed \union {"pipeline", "fused qkv", "cached gqa", "begin"}
Submitting == (Timed \union {"fused qkv", "cached gqa", "step", "finish"})

Idle == [pc |-> "idle", kind |-> "none", attempt |-> 0, before |-> 0,
         submission |-> 0, valid |-> TRUE, mapping |-> TRUE, why |-> "none",
         values |-> <<>>, pair |-> 0, fresh |-> FALSE]
NoResult == [by |-> NoThread, kind |-> "none", ok |-> FALSE, submission |-> 0,
             values |-> <<>>, repeats |-> FALSE, counted |-> 0]
NoKvSession == [state |-> "none", id |-> 0, tokens |-> 0, rows |-> <<>>,
                attention |-> <<>>, mapped |-> FALSE]

Init ==
    /\ program \in Programs
    /\ executionLock = NoThread
    /\ calls = [t \in Thread |-> Idle]
    /\ succeeded = [t \in Thread |-> FALSE]
    /\ result = NoResult
    /\ reported = {}
    /\ errorScopes = <<>>
    /\ pipeline = "absent"
    /\ queue = <<>>
    /\ submissions = 0
    /\ resolved = 0
    /\ readbackMapped = FALSE
    /\ lastTimestamp = 0
    /\ kvSessions = [t \in Thread |-> NoKvSession]
    /\ committed = [t \in Thread |-> <<>>]
    /\ captureLock = NoThread
    /\ metalCapturing = FALSE
    /\ document = "absent"
    /\ faultsLeft = MaxFaults
-----------------------------------------------------------------------------
(* A call that needs a session has one; a step has room in its cache.      *)
Admits(t, k) ==
    CASE k = "begin" -> kvSessions[t].state = "none"
      [] k = "step" -> /\ kvSessions[t].state = "healthy"
                       /\ kvSessions[t].tokens < CacheCapacity
      [] k = "finish" -> kvSessions[t].state = "healthy"
      [] OTHER -> TRUE

Calls(t, k) ==
    /\ calls[t].pc = "idle"
    /\ program[t] # <<>>
    /\ k = Head(program[t])
    /\ k \in Creating \union Submitting
    /\ program' = [program EXCEPT ![t] = Tail(@)]

(* A call is refused before it takes the lock, without an effect: its      *)
(* plan, its sources or the device's limits do not allow it, or its        *)
(* session does not.  finish takes a poisoned session with it.             *)
Refuses(t, k) ==
    /\ Calls(t, k)
    /\ result' = [NoResult EXCEPT !.kind = k]
    /\ succeeded' = [succeeded EXCEPT ![t] = FALSE]
    /\ kvSessions' = IF k = "finish" /\ kvSessions[t].state = "poisoned"
                     THEN [kvSessions EXCEPT ![t] = NoKvSession]
                     ELSE kvSessions
    /\ UNCHANGED <<executionLock, calls, reported, errorScopes, gpuVars,
                   lastTimestamp, committed, captureVars, faultsLeft>>

(* A call is planned and validated, which reads nothing the calls of other *)
(* threads change, and takes the lock when it is free: the three scopes,   *)
(* the counters as they are.  A step poisons its session first.            *)
Acquires(t, k) ==
    /\ Calls(t, k)
    /\ Admits(t, k)
    /\ executionLock = NoThread
    /\ executionLock' = t
    /\ errorScopes' = <<FALSE, FALSE, FALSE>>
    /\ calls' = [calls EXCEPT ![t] = [Idle EXCEPT !.pc = "scoped", !.kind = k,
                                                  !.before = submissions]]
    /\ kvSessions' = IF k = "step"
                     THEN [kvSessions EXCEPT ![t].state = "poisoned"]
                     ELSE kvSessions
    /\ result' = NoResult
    /\ UNCHANGED <<succeeded, reported, gpuVars, lastTimestamp, committed,
                   captureVars, faultsLeft>>

(* An error goes to the innermost scope that filters it.                   *)
Captured(scope) == [errorScopes EXCEPT ![scope] = TRUE]

(* Pipelines and buffers.  A pipeline not cached yet is created and cached *)
(* before its scope is popped, valid or not; a kernel whose source is the  *)
(* caller's own is not cached.  What could not be created is an invalid    *)
(* resource: its creation, and the use of an invalid pipeline from the     *)
(* cache, each raise an error.                                             *)
Creates(t, lost, cached) ==
    /\ calls[t].pc = "scoped"
    /\ lost = "pipeline" => calls[t].kind \in Creating
                            /\ (cached => pipeline = "absent")
    /\ lost = "buffer" => calls[t].kind \notin {"pipeline", "step"}
    /\ lost # "nothing" => faultsLeft > 0
    /\ calls[t].kind = "pipeline" => ~cached
    /\ LET caching == cached /\ calls[t].kind \in Creating
           invalid == lost # "nothing" \/ (caching /\ pipeline = "invalid")
       IN  /\ pipeline' = IF caching /\ pipeline = "absent"
                          THEN IF lost = "pipeline" THEN "invalid" ELSE "valid"
                          ELSE pipeline
           /\ \E scope \in 1..3 :
                  errorScopes' = IF invalid THEN Captured(scope)
                                 ELSE errorScopes
           /\ calls' = [calls EXCEPT
                            ![t].pc = IF calls[t].kind \in Submitting
                                      THEN "created" ELSE "closing",
                            ![t].valid = ~invalid]
    /\ faultsLeft' = IF lost = "nothing" THEN faultsLeft ELSE faultsLeft - 1
    /\ UNCHANGED <<program, executionLock, succeeded, result, reported, queue,
                   submissions, resolved, readbackMapped, lastTimestamp,
                   kvVars, captureVars>>

(* One command buffer, and the requests to map what it is read back        *)
(* through.  The device refuses a submission that uses an invalid resource *)
(* or copies into a mapped buffer; the mapping of a buffer that is mapped  *)
(* already is refused too.  The values of a refused submission are what    *)
(* its readback buffer held: nothing, or the session's last attention.     *)
Submits(t) ==
    LET c == calls[t]
        step == c.kind = "step"
        timed == c.kind \in Timed
        held == IF step THEN kvSessions[t].mapped ELSE FALSE
        stuck == timed /\ readbackMapped
        accepted == c.valid /\ ~held /\ ~stuck
        number == submissions + 1
    IN  /\ c.pc = "created"
        /\ submissions' = number
        /\ queue' = IF accepted
                    THEN Append(queue, [number |-> number, by |-> t,
                                        kind |-> c.kind,
                                        session |-> kvSessions[t].id,
                                        tokens |-> kvSessions[t].tokens])
                    ELSE queue
        /\ errorScopes' = IF accepted THEN errorScopes ELSE Captured(3)
        /\ readbackMapped' = (readbackMapped \/ timed)
        /\ kvSessions' = IF step THEN [kvSessions EXCEPT ![t].mapped = TRUE]
                         ELSE kvSessions
        /\ calls' = [calls EXCEPT
                         ![t].pc = "submitted", ![t].submission = number,
                         ![t].mapping = ~held /\ ~stuck,
                         ![t].values = IF step THEN kvSessions[t].attention
                                       ELSE <<>>]
        /\ UNCHANGED <<program, executionLock, succeeded, result, reported,
                       pipeline, resolved, lastTimestamp, committed,
                       captureVars, faultsLeft>>

(* The rows of a session after a step at its place.                        *)
Appended(rows, place, number) ==
    SubSeq(rows, 1, place) \o <<number>>

(* The GPU runs the oldest submission: a step appends its row at the place *)
(* its uniform names and attends to the rows up to it, a finish copies the *)
(* rows, a timed call resolves its query.                                  *)
Runs(pair) ==
    /\ queue # <<>>
    /\ LET w == Head(queue)
           session == kvSessions[w.by]
           current == session.id = w.session /\ session.state # "none"
           rows == IF w.kind = "step"
                   THEN Appended(session.rows, w.tokens, w.number)
                   ELSE session.rows
           values == IF w.kind \in {"step", "finish"} THEN rows
                     ELSE <<w.number>>
       IN  /\ pair \in IF w.kind \in Timed THEN {w.number, 0, resolved}
                       ELSE {resolved}
           /\ resolved' = pair
           /\ kvSessions' = IF current /\ w.kind = "step"
                            THEN [kvSessions EXCEPT ![w.by].rows = rows,
                                                    ![w.by].attention = rows]
                            ELSE kvSessions
           /\ calls' = IF calls[w.by].submission = w.number
                       THEN [calls EXCEPT ![w.by].values = values] ELSE calls
    /\ queue' = Tail(queue)
    /\ UNCHANGED <<program, executionLock, succeeded, result, reported,
                   errorScopes, pipeline, submissions, readbackMapped,
                   lastTimestamp, committed, captureVars, faultsLeft>>

Pending(number) == \E i \in DOMAIN queue : queue[i].number = number

(* The wait for the GPU ends with the submission, or at its timeout, with  *)
(* what was to be mapped left as it is.                                    *)
Waits(t) ==
    /\ calls[t].pc = "submitted"
    /\ ~Pending(calls[t].submission)
    /\ calls' = [calls EXCEPT ![t].pc = "mapped"]
    /\ UNCHANGED <<program, executionLock, succeeded, result, reported,
                   errorScopes, gpuVars, lastTimestamp, kvVars, captureVars,
                   faultsLeft>>

TimesOut(t) ==
    /\ calls[t].pc = "submitted"
    /\ faultsLeft > 0
    /\ faultsLeft' = faultsLeft - 1
    /\ calls' = [calls EXCEPT ![t].pc = "closing", ![t].why = "timeout"]
    /\ UNCHANGED <<program, executionLock, succeeded, result, reported,
                   errorScopes, gpuVars, lastTimestamp, kvVars, captureVars>>
-----------------------------------------------------------------------------

(* The mapping of the output or of the timestamps failed: what is mapped   *)
(* stays so.                                                               *)
MappingFails(t) ==
    /\ calls[t].pc = "mapped"
    /\ calls[t].mapping => faultsLeft > 0
    /\ faultsLeft' = IF calls[t].mapping THEN faultsLeft - 1 ELSE faultsLeft
    /\ calls' = [calls EXCEPT ![t].pc = "closing", ![t].why = "mapping"]
    /\ UNCHANGED <<program, executionLock, succeeded, result, reported,
                   errorScopes, gpuVars, lastTimestamp, kvVars, captureVars>>

(* Mutant: a pair is fresh that is not zero.                               *)
FreshUnlessZero(pair) == pair # 0

(* accept_fresh_timestamp: neither zero nor the last pair accepted.        *)
Fresh(pair) == pair # 0 /\ pair # lastTimestamp

(* The readback buffers are read and unmapped.                             *)
Unmaps(t) ==
    /\ readbackMapped' = IF calls[t].kind \in Timed THEN FALSE
                         ELSE readbackMapped
    /\ kvSessions' = IF calls[t].kind = "step"
                     THEN [kvSessions EXCEPT ![t].mapped = FALSE]
                     ELSE kvSessions

(* A single kernel takes a fresh pair, or is submitted again.              *)
ReadsKernel(t) ==
    /\ calls[t].kind = "kernel"
    /\ Unmaps(t)
    /\ \/ /\ Fresh(resolved)
          /\ lastTimestamp' = resolved
          /\ calls' = [calls EXCEPT ![t].pc = "closing", ![t].pair = resolved,
                                    ![t].fresh = TRUE]
       \/ /\ ~Fresh(resolved)
          /\ LET last == calls[t].attempt + 1 = TimestampAttempts
             IN  calls' = [calls EXCEPT
                              ![t].attempt = @ + 1,
                              ![t].pc = IF last THEN "closing" ELSE "scoped",
                              ![t].why = IF last THEN "stale" ELSE "none"]
          /\ UNCHANGED lastTimestamp
    /\ UNCHANGED faultsLeft

(* A projector, a layer or a stack is submitted once: a pair of zeros fails*)
(* it and a pair read before is reported as such.  A stack whose canary    *)
(* was modified fails after its buffers are unmapped.                      *)
ReadsResident(t, canary) ==
    /\ calls[t].kind \in Timed \ {"kernel"}
    /\ canary => calls[t].kind = "vision stack" /\ faultsLeft > 0
    /\ faultsLeft' = IF canary THEN faultsLeft - 1 ELSE faultsLeft
    /\ Unmaps(t)
    /\ LET why == IF canary THEN "canary"
                  ELSE IF resolved = 0 THEN "stale" ELSE "none"
       IN  /\ calls' = [calls EXCEPT
                            ![t].pc = "closing", ![t].why = why,
                            ![t].pair = resolved, ![t].fresh = Fresh(resolved)]
           /\ lastTimestamp' = IF why = "none" /\ Fresh(resolved)
                               THEN resolved ELSE lastTimestamp

ReadsUntimed(t) ==
    /\ calls[t].kind \notin Timed
    /\ Unmaps(t)
    /\ calls' = [calls EXCEPT ![t].pc = "closing"]
    /\ UNCHANGED <<lastTimestamp, faultsLeft>>

Reads(t) ==
    /\ calls[t].pc = "mapped"
    /\ calls[t].mapping
    /\ \/ ReadsKernel(t)
       \/ \E canary \in BOOLEAN : ReadsResident(t, canary)
       \/ ReadsUntimed(t)
    /\ UNCHANGED <<program, executionLock, succeeded, result, reported,
                   errorScopes, pipeline, queue, submissions, resolved,
                   committed, captureVars>>

(* Mutant: what a scope captured does not fail an operation that returned. *)
SucceedsUnscoped(t) == calls[t].why = "none"

(* drive_error_scopes: an operation succeeds that returned and of which no *)
(* scope captured an error.                                                *)
Succeeds(t) ==
    calls[t].why = "none" /\ \A i \in DOMAIN errorScopes : ~errorScopes[i]

(* What the call makes of its session.                                     *)
SessionAfter(t, ok) ==
    CASE calls[t].kind = "begin" /\ ok ->
             [NoKvSession EXCEPT !.state = "healthy", !.id = submissions]
      [] calls[t].kind = "step" /\ ok ->
             [kvSessions[t] EXCEPT !.state = "healthy", !.tokens = @ + 1]
      [] calls[t].kind = "finish" -> NoKvSession
      [] OTHER -> kvSessions[t]

(* The scopes are popped, the lock is released and the call returns.       *)
Closes(t) ==
    /\ calls[t].pc = "closing"
    /\ executionLock' = NoThread
    /\ errorScopes' = <<>>
    /\ LET c == calls[t]
           ok == Succeeds(t)
       IN  /\ succeeded' = [succeeded EXCEPT ![t] = ok]
           /\ result' = IF ok
                         THEN [by |-> t, kind |-> c.kind, ok |-> TRUE,
                               submission |-> c.submission,
                               values |-> c.values,
                               repeats |-> c.fresh /\ c.pair \in reported,
                               counted |-> submissions - c.before]
                         ELSE [NoResult EXCEPT !.kind = c.kind]
           /\ reported' = IF ok /\ c.fresh THEN reported \union {c.pair}
                          ELSE reported
           /\ kvSessions' = [kvSessions EXCEPT ![t] = SessionAfter(t, ok)]
           /\ committed' = [committed EXCEPT ![t] =
                                CASE c.kind = "step" /\ ok ->
                                         Append(@, c.submission)
                                  [] c.kind = "begin" -> <<>>
                                  [] OTHER -> @]
    /\ calls' = [calls EXCEPT ![t] = Idle]
    /\ UNCHANGED <<program, gpuVars, lastTimestamp, captureVars, faultsLeft>>

(* An operation panics, in the caller's observer for one: the guards pop   *)
(* the scopes, the lock is released and its poison ignored by the next     *)
(* call; a capture around it stops, and leaves its document.               *)
Panics(t) ==
    /\ executionLock = t
    /\ faultsLeft > 0
    /\ faultsLeft' = faultsLeft - 1
    /\ executionLock' = NoThread
    /\ errorScopes' = <<>>
    /\ succeeded' = [succeeded EXCEPT ![t] = FALSE]
    /\ kvSessions' = IF calls[t].kind = "finish"
                     THEN [kvSessions EXCEPT ![t] = NoKvSession]
                     ELSE kvSessions
    /\ calls' = [calls EXCEPT ![t] = Idle]
    /\ IF captureLock = t
       THEN /\ captureLock' = NoThread
            /\ metalCapturing' = FALSE
            /\ document' = "abandoned"
            /\ program' = [program EXCEPT ![t] = Tail(@)]
       ELSE UNCHANGED <<captureVars, program>>
    /\ UNCHANGED <<result, reported, gpuVars, lastTimestamp, committed>>

(* A session may be dropped between calls.                                 *)
Drops(t) ==
    /\ calls[t].pc = "idle"
    /\ kvSessions[t].state # "none"
    /\ kvSessions' = [kvSessions EXCEPT ![t] = NoKvSession]
    /\ result' = NoResult
    /\ committed' = [committed EXCEPT ![t] = <<>>]
    /\ UNCHANGED <<program, executionLock, calls, succeeded, reported,
                   errorScopes, gpuVars, lastTimestamp, captureVars,
                   faultsLeft>>
-----------------------------------------------------------------------------
(* A capture is of the next call of its thread.  Its target is checked     *)
(* before the capture lock is taken; under it Metal starts one capture of  *)
(* the process, and refuses a target that exists by then.                  *)
StartsCapture(t) ==
    /\ calls[t].pc = "idle"
    /\ program[t] # <<>>
    /\ Head(program[t]) = "capture"
    /\ captureLock = NoThread
    /\ ~metalCapturing /\ document = "absent"
    /\ captureLock' = t
    /\ metalCapturing' = TRUE
    /\ document' = "partial"
    /\ program' = [program EXCEPT ![t] = Tail(@)]
    /\ UNCHANGED <<executionLock, calls, succeeded, result, reported,
                   errorScopes, gpuVars, lastTimestamp, kvVars, faultsLeft>>

(* A target that exists or the device's backend refuses the capture, with  *)
(* its operation not made.                                                 *)
RefusesCapture(t) ==
    /\ calls[t].pc = "idle"
    /\ program[t] # <<>>
    /\ Head(program[t]) = "capture"
    /\ program' = [program EXCEPT ![t] = SubSeq(@, 4, Len(@))]
    /\ UNCHANGED <<executionLock, calls, succeeded, result, reported,
                   errorScopes, gpuVars, lastTimestamp, kvVars, captureVars,
                   faultsLeft>>

(* The capture stops after the operation.  A document is returned when it  *)
(* appears in time and is not empty; an empty one, and that of an operation*)
(* that failed, is removed; one that appears after                         *)
(* CAPTURE_ARTIFACT_TIMEOUT is left.                                       *)
StopsCapture(t, written) ==
    /\ captureLock = t
    /\ calls[t].pc = "idle"
    /\ Head(program[t]) = "stop"
    /\ program' = [program EXCEPT ![t] = Tail(@)]
    /\ captureLock' = NoThread
    /\ metalCapturing' = FALSE
    /\ document' = IF ~succeeded[t] \/ written = "empty" THEN "absent"
                   ELSE IF written = "late" THEN "abandoned" ELSE "returned"
    /\ UNCHANGED <<executionLock, calls, succeeded, result, reported,
                   errorScopes, gpuVars, lastTimestamp, kvVars, faultsLeft>>

Next ==
    \/ \E t \in Thread, k \in Creating \union Submitting :
           Refuses(t, k) \/ Acquires(t, k)
    \/ \E t \in Thread, lost \in {"nothing", "pipeline", "buffer"},
           cached \in BOOLEAN : Creates(t, lost, cached)
    \/ \E t \in Thread : Submits(t)
    \/ \E pair \in 0..submissions : Runs(pair)
    \/ \E t \in Thread : Waits(t) \/ TimesOut(t)
    \/ \E t \in Thread : MappingFails(t) \/ Reads(t)
    \/ \E t \in Thread : Closes(t) \/ Panics(t) \/ Drops(t)
    \/ \E t \in Thread : StartsCapture(t) \/ RefusesCapture(t)
    \/ \E t \in Thread, written \in {"document", "empty", "late"} :
           StopsCapture(t, written)

Spec == Init /\ [][Next]_nativeVars
-----------------------------------------------------------------------------
TypeOK ==
    /\ executionLock \in Thread \union {NoThread}
    /\ pipeline \in {"absent", "valid", "invalid"}
    /\ errorScopes \in {<<>>} \union [1..3 -> BOOLEAN]
    /\ submissions \in Nat
    /\ lastTimestamp \in 0..submissions
    /\ document \in {"absent", "partial", "returned", "abandoned"}
    /\ \A t \in Thread :
          /\ calls[t].pc \in {"idle", "scoped", "created",
                              "submitted", "mapped", "closing"}
          /\ kvSessions[t].state \in {"none", "healthy", "poisoned"}

(* What a call that succeeds returns is of its own submission, whatever    *)
(* was late, refused or panicked before it: its values, and the number of  *)
(* submissions it counts.                                                  *)
ResultsAreOwn ==
    result.ok =>
        /\ result.kind \in Submitting \ {"step", "finish"} =>
               result.values = <<result.submission>>
        /\ result.kind \in Submitting \ {"kernel"} => result.counted = 1

(* Two calls never report one timestamp pair as fresh.                     *)
PairsAreTakenOnce == ~result.repeats

(* The cache of a session that may be stepped holds the rows of the steps  *)
(* that returned, in order; a step attends to those and its own, and       *)
(* finish returns them.                                                    *)
SessionsHoldTheirSteps ==
    /\ \A t \in Thread :
           kvSessions[t].state = "healthy" =>
               /\ kvSessions[t].tokens = Len(committed[t])
               /\ kvSessions[t].rows = committed[t]
    /\ result.ok /\ result.kind \in {"step", "finish"} =>
           result.values = committed[result.by]

(* Nothing of a call outlives it: no scope is left pushed, the runtime's   *)
(* readback buffer is left mapped only by a call that did not see its      *)
(* submission end, and Metal captures only while a capture holds its lock. *)
CallsLeaveNothingBehind ==
    /\ executionLock = NoThread <=> errorScopes = <<>>
    /\ metalCapturing <=> captureLock # NoThread
    /\ document = "partial" => captureLock # NoThread
    /\ \A t \in Thread : calls[t].why = "canary" => ~readbackMapped

NativeCallsAreSound ==
    /\ ResultsAreOwn /\ PairsAreTakenOnce
    /\ SessionsHoldTheirSteps /\ CallsLeaveNothingBehind
=============================================================================
