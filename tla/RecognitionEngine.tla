------------------------- MODULE RecognitionEngine -------------------------
(***************************************************************************)
(* The recognition engine of the browser package: PaddleOcrVlEngine and    *)
(* runCanvasInference (web/engine/browser_ocr_runtime.mjs), the pool of    *)
(* runtimes (ocr_concurrency.mjs) and the greedy generation loop           *)
(* (greedy_generation.mjs).  Several recognitions run at once, each on a   *)
(* runtime of its own, but all runtimes share one WebGPU device (web.rs,   *)
(* BROWSER_DEVICE), hence one stack of error scopes and one cache of       *)
(* resident decoder weights.                                               *)
(*                                                                         *)
(* A decoder operation is the awaited operation of DecoderStackSession,    *)
(* with its piece after each await: it pushes its scopes and submits, and  *)
(* then pops them one by one.  A recognition awaits each operation.        *)
(***************************************************************************)
EXTENDS Integers, Sequences, FiniteSets

CONSTANTS RuntimeCount,     \* profile.maxParallelism
          Job,              \* calls of recognizeCanvas
          PromptTokens,
          MaxSteps          \* maxGeneratedTokens

ASSUME RuntimeCountIsPositive == RuntimeCount \in Nat \ {0}
ASSUME PromptTokensIsPositive == PromptTokens \in Nat \ {0}
ASSUME MaxStepsIsPositive == MaxSteps \in Nat \ {0}

(* Runtimes in the order of their creation. *)
Runtime == 1..RuntimeCount

VARIABLES
    available,  \* the pool's free runtimes, a stack
    waiters,    \* jobs waiting for a runtime, in order
    disposed,   \* the engine is disposed
    dead,       \* runtimes whose free() was called
    jobs,       \* the recognitions
    session,    \* the decoder session authority of each runtime
    resident,   \* the shared decoder weights: none, sound or unsound
    scopes      \* the device's error scopes: has this scope an error?

vars == <<available, waiters, disposed, dead, jobs, session, resident, scopes>>

Checked == 3
Hit == 0..Checked

NoRuntime == 0

(* A recognition: the runtime it holds; whether its begin uploads weights  *)
(* that may become resident; the generation loop's cacheTokens and number  *)
(* of selected tokens; and, of the decoder operation it awaits, the scopes *)
(* left to pop and whether a pop captured an error or failed.              *)
NewJob == [pc |-> "new", op |-> "none", runtime |-> NoRuntime,
           candidate |-> FALSE, cacheTokens |-> 0, selected |-> 0,
           left |-> 0, dirty |-> FALSE]

Operation == {"begin", "prefill", "select", "step"}
Held == {"vision", "call", "gpu", "drain", "cleanup"}
PC == {"new", "waiting", "done", "failed"} \cup Held

(* An authority without a session, and one with: not yet ready, ready, or  *)
(* poisoned; `sound` is history: no GPU error was raised by its operations *)
(* and its weights are sound.                                              *)
Free == [phase |-> "free", tokens |-> 0, sound |-> TRUE]

Init ==
    /\ available = [i \in Runtime |-> i]
    /\ waiters = <<>>
    /\ disposed = FALSE
    /\ dead = {}
    /\ jobs = [j \in Job |-> NewJob]
    /\ session = [r \in Runtime |-> Free]
    /\ resident = "none"
    /\ scopes = <<>>
-----------------------------------------------------------------------------
(* The pool.                                                               *)

Last(s) == s[Len(s)]
Front(s) == SubSeq(s, 1, Len(s) - 1)

(* recognizeCanvas: acquire pops a free runtime or queues the caller. *)
Recognize(j) ==
    /\ jobs[j].pc = "new"
    /\ UNCHANGED <<disposed, dead, session, resident, scopes>>
    /\ IF disposed
       THEN /\ jobs' = [jobs EXCEPT ![j].pc = "failed"]
            /\ UNCHANGED <<available, waiters>>
       ELSE IF available # <<>>
       THEN /\ available' = Front(available)
            /\ jobs' = [jobs EXCEPT ![j].pc = "vision",
                                    ![j].runtime = Last(available)]
            /\ UNCHANGED waiters
       ELSE /\ waiters' = Append(waiters, j)
            /\ jobs' = [jobs EXCEPT ![j].pc = "waiting"]
            /\ UNCHANGED available

(* Job j ends with outcome `end` and releases its runtime to the first     *)
(* waiter, or to the free ones.  Mutant: the runtime is made free before   *)
(* the waiters are looked at.  Mutant: nobody is woken.                    *)
ReleasedTwice(j, end) ==
    /\ available' = Append(available, jobs[j].runtime)
    /\ IF waiters # <<>>
       THEN /\ waiters' = Tail(waiters)
            /\ jobs' = [jobs EXCEPT
                          ![j] = [NewJob EXCEPT !.pc = end],
                          ![Head(waiters)].pc = "vision",
                          ![Head(waiters)].runtime = jobs[j].runtime]
       ELSE /\ jobs' = [jobs EXCEPT ![j] = [NewJob EXCEPT !.pc = end]]
            /\ UNCHANGED waiters
ReleasedUnnoticed(j, end) ==
    /\ available' = Append(available, jobs[j].runtime)
    /\ jobs' = [jobs EXCEPT ![j] = [NewJob EXCEPT !.pc = end]]
    /\ UNCHANGED waiters
Released(j, end) ==
    IF waiters # <<>>
    THEN /\ waiters' = Tail(waiters)
         /\ jobs' = [jobs EXCEPT ![j] = [NewJob EXCEPT !.pc = end],
                                 ![Head(waiters)].pc = "vision",
                                 ![Head(waiters)].runtime = jobs[j].runtime]
         /\ UNCHANGED available
    ELSE /\ available' = Append(available, jobs[j].runtime)
         /\ jobs' = [jobs EXCEPT ![j] = [NewJob EXCEPT !.pc = end]]
         /\ UNCHANGED waiters

(* dispose frees the runtimes in order.  wasm-bindgen's free() clears the  *)
(* pointer and then throws when an asynchronous method has borrowed the    *)
(* runtime, as one of the vision stage may have: the runtimes after it are *)
(* not freed and the pool is not emptied.  Otherwise the pool is emptied,  *)
(* and the promises of its waiters are forgotten.                          *)
Dispose ==
    /\ ~disposed
    /\ disposed' = TRUE
    /\ \E borrowed \in SUBSET {jobs[j].runtime : j \in
                                  {k \in Job : jobs[k].pc = "vision"}} :
          IF borrowed = {}
          THEN /\ dead' = Runtime
               /\ available' = <<>>
               /\ waiters' = <<>>
          ELSE /\ \E b \in borrowed :
                     /\ \A c \in borrowed : b <= c
                     /\ dead' = 1..b
               /\ UNCHANGED <<available, waiters>>
    /\ UNCHANGED <<jobs, session, resident, scopes>>
-----------------------------------------------------------------------------
(* runCanvasInference.                                                     *)

At(j, pc) == jobs[j].pc = pc
In(j, o, pc) == jobs[j].op = o /\ jobs[j].pc = pc
Alive(j) == jobs[j].runtime \notin dead
SessionOf(j) == session[jobs[j].runtime]
Capacity == PromptTokens + MaxSteps

Goto(j, pc) == jobs' = [jobs EXCEPT ![j].pc = pc]
GotoIn(j, o, pc) == jobs' = [jobs EXCEPT ![j].op = o, ![j].pc = pc]

(* Preprocessing, the vision stack and the projector, with their downloads *)
(* and their calls of the runtime (none of the decoder).                   *)
Vision(j) ==
    /\ At(j, "vision")
    /\ Alive(j)
    /\ GotoIn(j, "begin", "call")
    /\ UNCHANGED <<available, waiters, disposed, dead, session, resident,
                   scopes>>

(* Any of this throws, and a call of a dead runtime does.  No decoder      *)
(* session was started: it is not aborted, and the runtime is released.    *)
FailUnstarted(j) ==
    /\ \/ At(j, "vision")
       \/ In(j, "begin", "call") /\ (~Alive(j) \/ SessionOf(j).phase # "free")
    /\ Released(j, "failed")
    /\ UNCHANGED <<disposed, dead, session, resident, scopes>>

(* A call of a dead runtime, or of a session that is not ready, throws. *)
FailStarted(j) ==
    /\ \E o \in Operation \ {"begin"} : In(j, o, "call")
    /\ ~Alive(j) \/ SessionOf(j).phase # "ready"
    /\ Goto(j, "cleanup")
    /\ UNCHANGED <<available, waiters, disposed, dead, session, resident,
                   scopes>>

(* The recognition pops the innermost scope of `stack`, as job x.          *)
(* Mutant: what a pop captures is dropped.                                 *)
PoppingUncaptured(j, x, left, stack) ==
    /\ scopes' = IF stack = <<>> THEN <<>> ELSE Front(stack)
    /\ jobs' = [jobs EXCEPT ![j] = [x EXCEPT !.left = left]]
Popping(j, x, left, stack) ==
    /\ scopes' = IF stack = <<>> THEN <<>> ELSE Front(stack)
    /\ jobs' = [jobs EXCEPT ![j] =
                  [x EXCEPT !.left = left,
                            !.dirty = @ \/ stack = <<>> \/
                                      (stack # <<>> /\ Last(stack))]]

Pushed(hit) == scopes \o [i \in 1..Checked |-> i = hit]

(* begin, or begin_resident when the weights were resident at the start:   *)
(* either uses the weights that are resident now.                          *)
Begin(j, hit) ==
    /\ In(j, "begin", "call")
    /\ Alive(j)
    /\ SessionOf(j).phase = "free"
    /\ session' = [session EXCEPT ![jobs[j].runtime] =
                      [phase |-> "begun", tokens |-> 0,
                       sound |-> hit = 0 /\ resident # "unsound"]]
    /\ Popping(j, [jobs[j] EXCEPT !.op = "begin", !.pc = "drain",
                                  !.candidate = resident = "none"],
               Checked - 1, Pushed(hit))
    /\ UNCHANGED <<available, waiters, disposed, dead, resident>>

(* prefill, top1 and step: the session is poisoned while the GPU works.    *)
(* The capacity test of the generation loop precedes a selection.          *)
Submit(j, o, hit) ==
    /\ In(j, o, "call") /\ o # "begin"
    /\ Alive(j)
    /\ SessionOf(j).phase = "ready"
    /\ session' = [session EXCEPT ![jobs[j].runtime].phase = "poisoned",
                                  ![jobs[j].runtime].sound = @ /\ hit = 0]
    /\ scopes' = Pushed(hit)
    /\ GotoIn(j, o, "gpu")
    /\ UNCHANGED <<available, waiters, disposed, dead, resident>>

(* The GPU is done, and the transition is committed. *)
Read(j, o) ==
    LET committed == [begin |-> 0, prefill |-> PromptTokens,
                      select |-> SessionOf(j).tokens,
                      step |-> SessionOf(j).tokens + 1] IN
    /\ In(j, o, "gpu")
    /\ session' = [session EXCEPT ![jobs[j].runtime].tokens = committed[o]]
    /\ Popping(j, [jobs[j] EXCEPT !.op = o, !.pc = "drain"], Checked - 1, scopes)
    /\ UNCHANGED <<available, waiters, disposed, dead, resident>>

(* The GPU work is rejected. *)
Lose(j, o) ==
    /\ In(j, o, "gpu")
    /\ Popping(j, [jobs[j] EXCEPT !.op = o, !.pc = "drain", !.dirty = TRUE],
               Checked - 1, scopes)
    /\ UNCHANGED <<available, waiters, disposed, dead, session, resident>>

Pop(j, o) ==
    /\ In(j, o, "drain") /\ jobs[j].left > 0
    /\ Popping(j, jobs[j], jobs[j].left - 1, scopes)
    /\ UNCHANGED <<available, waiters, disposed, dead, session, resident>>

Drained(j, o) == In(j, o, "drain") /\ jobs[j].left = 0

(* An error was captured: the operation rejects, the session stays         *)
(* poisoned.  After a begin, decoderSessionStarted is not yet set.         *)
RejectBegin(j) ==
    /\ Drained(j, "begin")
    /\ jobs[j].dirty
    /\ session' = [session EXCEPT ![jobs[j].runtime].phase = "poisoned"]
    /\ Released(j, "failed")
    /\ UNCHANGED <<disposed, dead, resident, scopes>>

Reject(j, o) ==
    /\ Drained(j, o) /\ o # "begin"
    /\ jobs[j].dirty
    /\ Goto(j, "cleanup")
    /\ UNCHANGED <<available, waiters, disposed, dead, session, resident,
                   scopes>>

Ready(j) == session' = [session EXCEPT ![jobs[j].runtime].phase = "ready"]

(* A begin that uploaded weights makes them resident for every runtime. *)
Begun(j) ==
    /\ Drained(j, "begin")
    /\ ~jobs[j].dirty
    /\ Ready(j)
    /\ resident' = IF ~jobs[j].candidate THEN resident
                   ELSE IF SessionOf(j).sound THEN "sound" ELSE "unsound"
    /\ GotoIn(j, "prefill", "call")
    /\ UNCHANGED <<available, waiters, disposed, dead, scopes>>

(* The generation loop goes on to its next iteration unless MaxSteps       *)
(* tokens are selected or the cache is full.  Mutant: one iteration more,  *)
(* on a full cache.                                                        *)
IteratesUntested(x) == x.selected <= MaxSteps
Iterates(x) == x.selected < MaxSteps /\ x.cacheTokens < Capacity

Iterate(j, x) ==
    jobs' = [jobs EXCEPT ![j] = IF Iterates(x)
                                THEN [x EXCEPT !.op = "select", !.pc = "call"]
                                ELSE [x EXCEPT !.pc = "cleanup"]]

Prefilled(j) ==
    /\ Drained(j, "prefill")
    /\ ~jobs[j].dirty
    /\ Ready(j)
    /\ Iterate(j, [jobs[j] EXCEPT !.cacheTokens = PromptTokens])
    /\ UNCHANGED <<available, waiters, disposed, dead, resident, scopes>>

(* Any token may be the best; the end-of-sequence token ends the loop. *)
Selected(j) ==
    /\ Drained(j, "select")
    /\ ~jobs[j].dirty
    /\ Ready(j)
    /\ \E pc \in {"cleanup", "call"} :
          jobs' = [jobs EXCEPT ![j].selected = @ + 1, ![j].op = "step",
                               ![j].pc = pc]
    /\ UNCHANGED <<available, waiters, disposed, dead, resident, scopes>>

Stepped(j) ==
    /\ Drained(j, "step")
    /\ ~jobs[j].dirty
    /\ Ready(j)
    /\ Iterate(j, [jobs[j] EXCEPT !.cacheTokens = @ + 1])
    /\ UNCHANGED <<available, waiters, disposed, dead, resident, scopes>>

(* The finally clauses: the decoder session is aborted (a dead runtime has *)
(* none any more) and the runtime released.  Mutant: no abort.             *)
CleanupUnaborted(j) ==
    /\ At(j, "cleanup")
    /\ Released(j, "done")
    /\ UNCHANGED <<disposed, dead, session, resident, scopes>>
Cleanup(j) ==
    /\ At(j, "cleanup")
    /\ session' = [session EXCEPT ![jobs[j].runtime] = Free]
    /\ Released(j, "done")
    /\ UNCHANGED <<disposed, dead, resident, scopes>>
-----------------------------------------------------------------------------
Runs(j) ==
    \/ Vision(j) \/ FailUnstarted(j) \/ FailStarted(j)
    \/ \E hit \in Hit : Begin(j, hit)
    \/ \E o \in Operation, hit \in Hit : Submit(j, o, hit)
    \/ \E o \in Operation : Read(j, o) \/ Lose(j, o) \/ Pop(j, o) \/ Reject(j, o)
    \/ RejectBegin(j) \/ Begun(j) \/ Prefilled(j) \/ Selected(j) \/ Stepped(j)
    \/ Cleanup(j)

Next == Dispose \/ \E j \in Job : Recognize(j) \/ Runs(j)

Spec == Init /\ [][Next]_vars

(* Promises settle: those of the GPU and of the downloads. *)
FairSpec == Spec /\ \A j \in Job : WF_vars(Runs(j))
-----------------------------------------------------------------------------
Holders(r) == {j \in Job : jobs[j].runtime = r}
Times(s, x) == Cardinality({i \in DOMAIN s : s[i] = x})

TypeOK ==
    /\ available \in Seq(Runtime)
    /\ waiters \in Seq(Job)
    /\ disposed \in BOOLEAN
    /\ dead \subseteq Runtime
    /\ \A j \in Job :
          /\ jobs[j].pc \in PC
          /\ jobs[j].runtime # NoRuntime <=> jobs[j].pc \in Held
          /\ jobs[j].cacheTokens \in 0..Capacity
          /\ jobs[j].selected \in 0..MaxSteps
          /\ jobs[j].left \in 0..Checked
    /\ \A r \in Runtime :
          /\ session[r].phase \in {"free", "begun", "ready", "poisoned"}
          /\ session[r].tokens \in 0..Capacity
    /\ resident \in {"none", "sound", "unsound"}
    /\ scopes \in Seq(BOOLEAN)

(* "runtime pool never lends one runtime to two simultaneous jobs"         *)
(* (browser_ocr_parallelism_contract.test.mjs:64), nor keeps one it lends, *)
(* also when it is disposed while jobs run.                                *)
LentOnce ==
    \A r \in Runtime : Cardinality(Holders(r)) + Times(available, r) <= 1

(* No runtime is idle while a job waits for one. *)
NoLostWakeup == waiters # <<>> => available = <<>>

(* A runtime no job holds has no decoder session that could be stepped or  *)
(* read: the next recognition cannot continue an earlier one.  (It may     *)
(* have a poisoned one, left by a begin that failed.)                      *)
NoSessionOutlivesItsJob ==
    \A r \in Runtime \ dead :
        Holders(r) = {} => session[r].phase \in {"free", "poisoned"}

(* Whenever the loop calls the decoder, the cache_tokens it tracks are     *)
(* those of the session and leave room for the next token: neither the     *)
(* drift tests of the loop nor the capacity test of the session ever fire. *)
TrackedTokensFit ==
    \A j \in Job :
        In(j, "select", "call") \/ In(j, "step", "call") =>
            /\ Alive(j) => SessionOf(j).tokens = jobs[j].cacheTokens
            /\ jobs[j].cacheTokens < Capacity

(* Every recognition ends, and so does every waiting one unless the engine *)
(* is disposed: dispose forgets its waiters.                               *)
EveryRecognitionSettles ==
    \A j \in Job :
        /\ (jobs[j].pc \in Held) ~> (jobs[j].pc \in {"done", "failed"})
        /\ (jobs[j].pc = "waiting") ~> (jobs[j].pc # "waiting" \/ disposed)

(* "Any post-effect failure poisons the stored session terminally"         *)
(* (decoder_stack_session.rs:8-9): a session that is ready for use raised  *)
(* no GPU error.                                                           *)
ReadyIsSound ==
    \A r \in Runtime : session[r].phase = "ready" => session[r].sound
=============================================================================
