----------------------- MODULE RecognitionEngineProofs -----------------------
(***************************************************************************)
(* Proofs about the pool of RecognitionEngine, for any number of runtimes  *)
(* and recognitions and prompts of any length.                             *)
(***************************************************************************)
EXTENDS RecognitionEngine, FiniteSetTheorems, TLAPS

(* Counters may be any integers: that they stay in their range is not      *)
(* needed here.                                                            *)
JobState ==
    [pc : PC, op : Operation \union {"none"}, runtime : Runtime \union {NoRuntime},
     candidate : BOOLEAN, cacheTokens : Int, selected : Int, left : Int,
     dirty : BOOLEAN]
SessionState ==
    [phase : {"free", "begun", "ready", "poisoned"}, tokens : Int,
     sound : BOOLEAN]

Types ==
    /\ available \in Seq(Runtime)
    /\ waiters \in Seq(Job)
    /\ jobs \in [Job -> JobState]
    /\ session \in [Runtime -> SessionState]
    /\ disposed \in BOOLEAN
    /\ ~disposed => dead = {}

(* A job holds a runtime exactly while it is at work, its own one.         *)
HoldersAreDistinct ==
    /\ \A j \in Job : jobs[j].runtime # NoRuntime <=> jobs[j].pc \in Held
    /\ \A i, j \in Job :
          jobs[i].runtime = jobs[j].runtime /\ jobs[j].runtime # NoRuntime => i = j

(* What is free is free once, and nobody's.                                *)
FreeIsFree ==
    /\ \A i, k \in DOMAIN available : available[i] = available[k] => i = k
    /\ \A i \in DOMAIN available, j \in Job : jobs[j].runtime # available[i]

WaitersWait ==
    /\ \A i, k \in DOMAIN waiters : waiters[i] = waiters[k] => i = k
    /\ \A i \in DOMAIN waiters : jobs[waiters[i]].pc = "waiting"

(* A runtime whose holder has not begun its decoder session yet, or that   *)
(* has no holder, has none that could be used.                             *)
Early(x) == x.pc = "vision" \/ (x.op = "begin" /\ x.pc = "call")
Idle(s) == s.phase \in {"free", "poisoned"}
SessionsEnd ==
    \A r \in Runtime \ dead :
        (\A j \in Job : jobs[j].runtime = r => Early(jobs[j])) => Idle(session[r])

Inv == Types /\ HoldersAreDistinct /\ FreeIsFree /\ WaitersWait /\ NoLostWakeup
         /\ SessionsEnd
-----------------------------------------------------------------------------
(* Steps of one recognition that keep its runtime.                         *)

LEMMA RuntimesAreNumbers == NoRuntime \notin Runtime
  BY RuntimeCountIsPositive DEF NoRuntime, Runtime

LEMMA StepOfAHolder ==
    ASSUME Inv, NEW j \in Job, jobs[j].pc \in Held,
           NEW x \in JobState, x.runtime = jobs[j].runtime, x.pc \in Held,
           NEW s \in SessionState,
           jobs' = [jobs EXCEPT ![j] = x],
           session' = [session EXCEPT ![jobs[j].runtime] = s],
           \/ ~Early(x)
           \/ Early(jobs[j]) /\ s = session[jobs[j].runtime],
           UNCHANGED <<available, waiters, disposed, dead>>
    PROVE  Inv'
<1> USE DEF Inv
<1>1. Types'
  BY DEF Types
<1>2. /\ \A i \in Job : i # j => jobs'[i] = jobs[i]
      /\ jobs'[j] = x
      /\ \A i \in Job : jobs'[i].runtime = jobs[i].runtime
  BY DEF Types
<1>3. HoldersAreDistinct'
  BY <1>2 DEF HoldersAreDistinct
<1>4. FreeIsFree'
  BY <1>2 DEF FreeIsFree
<1>5. WaitersWait'
  <2>1. \A i \in DOMAIN waiters : waiters[i] \in Job
    BY DEF Types
  <2>2. "waiting" \notin Held
    BY DEF Held
  <2> QED
    BY <1>2, <2>1, <2>2 DEF WaitersWait
<1>6. NoLostWakeup'
  BY DEF NoLostWakeup
<1>7. SessionsEnd'
  <2> SUFFICES ASSUME NEW r \in Runtime \ dead,
                      \A i \in Job : jobs'[i].runtime = r => Early(jobs'[i])
               PROVE  Idle(session'[r])
    BY DEF SessionsEnd
  <2>1. CASE r # jobs[j].runtime
    <3>1. session'[r] = session[r]
      BY <2>1 DEF Types
    <3>2. \A i \in Job : jobs[i].runtime = r => Early(jobs[i])
      BY <1>2, <2>1
    <3> QED
      BY <3>1, <3>2 DEF SessionsEnd
  <2>2. CASE r = jobs[j].runtime
    <3>1. Early(x) /\ Early(jobs[j]) /\ s = session[r]
      BY <1>2, <2>2
    <3>2. session'[r] = session[r]
      BY <2>2, <3>1 DEF Types
    <3>3. \A i \in Job : jobs[i].runtime = r => Early(jobs[i])
      BY <1>2, <3>1
    <3> QED
      BY <3>2, <3>3 DEF SessionsEnd
  <2> QED
    BY <2>1, <2>2
<1> QED
  BY <1>1, <1>3, <1>4, <1>5, <1>6, <1>7
-----------------------------------------------------------------------------
(* Steps that lend a runtime or take it back.                              *)

LEMMA Ended ==
    ASSUME NEW end \in {"done", "failed"}
    PROVE  LET x == [NewJob EXCEPT !.pc = end]
           IN  /\ x \in JobState /\ x.runtime = NoRuntime /\ x.pc = end
               /\ end \notin Held /\ end # "waiting" /\ ~Early(x)
<1> DEFINE x == [NewJob EXCEPT !.pc = end]
<1>1. NewJob \in JobState /\ NewJob.runtime = NoRuntime /\ NewJob.op = "none"
  BY DEF NewJob, JobState, PC
<1>2. end \in PC /\ end \notin Held /\ end # "waiting"
  BY DEF PC, Held
<1>3. /\ x \in JobState /\ x.runtime = NewJob.runtime
      /\ x.op = NewJob.op /\ x.pc = end
  <2> HIDE DEF NewJob
  <2> QED
    BY <1>1, <1>2 DEF JobState
<1> QED
  BY <1>1, <1>2, <1>3 DEF Early

LEMMA Lent ==
    ASSUME NEW x \in JobState, NEW r \in Runtime
    PROVE  LET y == [x EXCEPT !.pc = "vision", !.runtime = r]
           IN  /\ y \in JobState /\ y.runtime = r /\ y.pc = "vision"
               /\ y.pc \in Held /\ Early(y)
  BY DEF JobState, PC, Held, Early

(* The first waiter gets the runtime.                                      *)
LEMMA HandedOver ==
    ASSUME Inv, NEW j \in Job, jobs[j].pc \in Held,
           NEW end \in {"done", "failed"},
           waiters # <<>>, Released(j, end),
           UNCHANGED <<disposed, dead>>,
           NEW s \in SessionState,
           session' = [session EXCEPT ![jobs[j].runtime] = s],
           jobs[j].runtime \notin dead => Idle(s)
    PROVE  Inv'
<1> USE DEF Inv
<1> DEFINE w == Head(waiters)
           r == jobs[j].runtime
           x == [NewJob EXCEPT !.pc = end]
           y == [jobs[w] EXCEPT !.pc = "vision", !.runtime = r]
<1>1. /\ Len(waiters) > 0 /\ w = waiters[1] /\ w \in Job
      /\ Tail(waiters) \in Seq(Job)
      /\ Len(Tail(waiters)) = Len(waiters) - 1
      /\ \A i \in DOMAIN Tail(waiters) :
            /\ Tail(waiters)[i] = waiters[i + 1]
            /\ i + 1 \in DOMAIN waiters
      /\ 1 \in DOMAIN waiters
  BY DEF Types
<1>2. jobs[w].pc = "waiting" /\ w # j /\ r \in Runtime
  <2>1. jobs[w].pc = "waiting"
    BY <1>1 DEF WaitersWait
  <2>2. "waiting" \notin Held
    BY DEF Held
  <2>3. jobs[j].runtime # NoRuntime /\ jobs[j] \in JobState
    BY DEF HoldersAreDistinct, Types
  <2> QED
    BY <2>1, <2>2, <2>3 DEF JobState
<1>3. /\ x \in JobState /\ x.runtime = NoRuntime /\ x.pc = end
      /\ end \notin Held /\ end # "waiting" /\ ~Early(x)
  BY Ended
<1>4. /\ y \in JobState /\ y.runtime = r /\ y.pc = "vision"
      /\ y.pc \in Held /\ Early(y)
  <2>1. jobs[w] \in JobState
    BY <1>1 DEF Types
  <2> QED
    BY <1>2, <2>1, Lent
<1>5. /\ jobs' = [jobs EXCEPT ![j] = x, ![w] = y]
      /\ waiters' = Tail(waiters)
      /\ UNCHANGED available
  <2>1. jobs' = [jobs EXCEPT ![j] = x, ![w].pc = "vision", ![w].runtime = r]
    BY DEF Released
  <2> DEFINE a == [jobs EXCEPT ![j] = x]
             b == [a EXCEPT ![w].pc = "vision"]
  <2>2. a \in [Job -> JobState] /\ a[w] = jobs[w] /\ jobs[w] \in JobState
    <3> HIDE DEF x, w
    <3> QED
      BY <1>1, <1>2, <1>3 DEF Types
  <2>3. jobs' = [b EXCEPT ![w].runtime = r]
    BY <2>1, Zenon
  <2> HIDE DEF a
  <2>4. b \in [Job -> JobState] /\ b[w] = [jobs[w] EXCEPT !.pc = "vision"]
    <3>1. [jobs[w] EXCEPT !.pc = "vision"] \in JobState
      BY <2>2 DEF JobState, PC, Held
    <3> HIDE DEF w
    <3> QED
      BY <1>1, <2>2, <3>1
  <2>5. b = [a EXCEPT ![w] = [jobs[w] EXCEPT !.pc = "vision"]]
    BY <2>2, Zenon
  <2>6. jobs' = [b EXCEPT ![w] = y]
    BY <2>3, <2>4, Zenon
  <2>7. [b EXCEPT ![w] = y] = [a EXCEPT ![w] = y]
    <3> HIDE DEF y, w
    <3> QED
      BY <1>1, <2>2, <2>4, <2>5
  <2> QED
    BY <2>6, <2>7, Zenon DEF Released, a
<1> HIDE DEF x, y, w
<1>6. /\ jobs'[j] = x /\ jobs'[w] = y
      /\ \A i \in Job \ {j, w} : jobs'[i] = jobs[i]
      /\ jobs' \in [Job -> JobState]
  BY <1>1, <1>2, <1>3, <1>4, <1>5 DEF Types
<1>7. Types'
  BY <1>1, <1>5, <1>6 DEF Types
<1>8. HoldersAreDistinct'
  <2>1. jobs[w].runtime = NoRuntime
    BY <1>1, <1>2 DEF HoldersAreDistinct, Held
  <2>2. \A i \in Job : jobs'[i].runtime # NoRuntime <=> jobs'[i].pc \in Held
    BY <1>2, <1>3, <1>4, <1>6, RuntimesAreNumbers DEF HoldersAreDistinct
  <2>3. \A i \in Job : jobs'[i].runtime # NoRuntime =>
            \/ i = w /\ jobs'[i].runtime = r
            \/ i # w /\ i # j /\ jobs'[i].runtime = jobs[i].runtime
    BY <1>2, <1>3, <1>4, <1>6
  <2>4. \A i \in Job : i # j => jobs[i].runtime # r
    BY <1>2, RuntimesAreNumbers DEF HoldersAreDistinct
  <2> QED
    BY <2>2, <2>3, <2>4 DEF HoldersAreDistinct
<1>9. FreeIsFree'
  <2>1. available = <<>>
    BY DEF NoLostWakeup
  <2> QED
    BY <2>1, <1>5 DEF FreeIsFree
<1>10. WaitersWait'
  <2>1. \A i \in DOMAIN Tail(waiters) :
            /\ Tail(waiters)[i] # w
            /\ jobs[Tail(waiters)[i]].pc = "waiting"
            /\ Tail(waiters)[i] \in Job
    <3>1. \A i \in DOMAIN Tail(waiters) : i + 1 # 1
      BY <1>1
    <3> QED
      BY <1>1, <3>1 DEF WaitersWait
  <2>2. \A i \in DOMAIN Tail(waiters) : Tail(waiters)[i] # j
    BY <2>1 DEF Held
  <2>3. \A i, k \in DOMAIN Tail(waiters) :
            Tail(waiters)[i] = Tail(waiters)[k] => i = k
    <3> SUFFICES ASSUME NEW i \in DOMAIN Tail(waiters),
                        NEW k \in DOMAIN Tail(waiters),
                        Tail(waiters)[i] = Tail(waiters)[k]
                 PROVE  i = k
      OBVIOUS
    <3>1. i + 1 = k + 1
      BY <1>1 DEF WaitersWait
    <3>2. i \in Int /\ k \in Int
      BY <1>1
    <3> QED
      BY <3>1, <3>2
  <2>4. \A i \in DOMAIN Tail(waiters) : jobs'[Tail(waiters)[i]].pc = "waiting"
    BY <2>1, <2>2, <1>6
  <2> QED
    BY <2>3, <2>4, <1>5 DEF WaitersWait
<1>11. NoLostWakeup'
  BY <1>5 DEF NoLostWakeup
<1>12. SessionsEnd'
  <2> SUFFICES ASSUME NEW q \in Runtime \ dead,
                      \A i \in Job : jobs'[i].runtime = q => Early(jobs'[i])
               PROVE  Idle(session'[q])
    BY DEF SessionsEnd
  <2>1. CASE q = r
    <3>1. session'[q] = s
      BY <2>1 DEF Types
    <3> QED
      BY <2>1, <3>1
  <2>2. CASE q # r
    <3>1. session'[q] = session[q]
      BY <2>2 DEF Types
    <3>2. jobs[w].runtime = NoRuntime
      BY <1>1, <1>2 DEF HoldersAreDistinct, Held
    <3>3. \A i \in Job : jobs[i].runtime = q => Early(jobs[i])
      BY <1>6, <2>2, <3>2, RuntimesAreNumbers
    <3> QED
      BY <3>1, <3>3 DEF SessionsEnd
  <2> QED
    BY <2>1, <2>2
<1> QED
  BY <1>7, <1>8, <1>9, <1>10, <1>11, <1>12

(* Nobody waits: the runtime is free again.                                *)
LEMMA PutBack ==
    ASSUME Inv, NEW j \in Job, jobs[j].pc \in Held,
           NEW end \in {"done", "failed"},
           waiters = <<>>, Released(j, end),
           UNCHANGED <<disposed, dead>>,
           NEW s \in SessionState,
           session' = [session EXCEPT ![jobs[j].runtime] = s],
           jobs[j].runtime \notin dead => Idle(s)
    PROVE  Inv'
<1> USE DEF Inv
<1> DEFINE r == jobs[j].runtime
           x == [NewJob EXCEPT !.pc = end]
<1>1. /\ available' = Append(available, r) /\ jobs' = [jobs EXCEPT ![j] = x]
      /\ UNCHANGED waiters
  BY DEF Released
<1>2. /\ x \in JobState /\ x.runtime = NoRuntime /\ x.pc = end
      /\ end \notin Held
  BY Ended
<1>3. r \in Runtime /\ r # NoRuntime
  <2>1. jobs[j].runtime # NoRuntime /\ jobs[j] \in JobState
    BY DEF HoldersAreDistinct, Types
  <2> QED
    BY <2>1 DEF JobState
<1> HIDE DEF x
<1>4. jobs'[j] = x /\ \A i \in Job \ {j} : jobs'[i] = jobs[i]
  BY <1>1 DEF Types
<1>5. Types'
  <2>1. available' \in Seq(Runtime)
    BY <1>1, <1>3 DEF Types
  <2> QED
    BY <1>1, <1>2, <2>1 DEF Types
<1>6. HoldersAreDistinct'
  BY <1>2, <1>4 DEF HoldersAreDistinct
<1>7. \A i \in Job : i # j => jobs[i].runtime # r
  BY <1>3 DEF HoldersAreDistinct
<1>8. FreeIsFree'
  <2>1. /\ \A i \in DOMAIN Append(available, r) :
              \/ i \in DOMAIN available /\ Append(available, r)[i] = available[i]
              \/ i = Len(available) + 1 /\ Append(available, r)[i] = r
    BY <1>3 DEF Types
  <2>2. \A i \in DOMAIN available : available[i] # r
    BY DEF FreeIsFree
  <2>3. \A i, k \in DOMAIN Append(available, r) :
            Append(available, r)[i] = Append(available, r)[k] => i = k
    BY <2>1, <2>2 DEF FreeIsFree
  <2>4. \A i \in DOMAIN available : available[i] \in Runtime
    BY DEF Types
  <2>5. \A i \in DOMAIN Append(available, r), k \in Job :
            jobs'[k].runtime # Append(available, r)[i]
    <3> SUFFICES ASSUME NEW i \in DOMAIN Append(available, r), NEW k \in Job
                 PROVE  jobs'[k].runtime # Append(available, r)[i]
      OBVIOUS
    <3>1. CASE k = j
      BY <3>1, <2>1, <2>4, <1>2, <1>3, <1>4, RuntimesAreNumbers
    <3>2. CASE k # j
      BY <3>2, <2>1, <1>4, <1>7 DEF FreeIsFree
    <3> QED
      BY <3>1, <3>2
  <2> QED
    BY <2>3, <2>5, <1>1 DEF FreeIsFree
<1>9. WaitersWait' /\ NoLostWakeup'
  BY <1>1 DEF WaitersWait, NoLostWakeup
<1>10. SessionsEnd'
  <2> SUFFICES ASSUME NEW q \in Runtime \ dead,
                      \A i \in Job : jobs'[i].runtime = q => Early(jobs'[i])
               PROVE  Idle(session'[q])
    BY DEF SessionsEnd
  <2>1. CASE q = r
    <3>1. session'[q] = s
      BY <2>1 DEF Types
    <3> QED
      BY <2>1, <3>1
  <2>2. CASE q # r
    <3>1. session'[q] = session[q]
      BY <2>2 DEF Types
    <3>2. \A i \in Job : jobs[i].runtime = q => Early(jobs[i])
      BY <1>4, <2>2
    <3> QED
      BY <3>1, <3>2 DEF SessionsEnd
  <2> QED
    BY <2>1, <2>2
<1> QED
  BY <1>5, <1>6, <1>8, <1>9, <1>10

LEMMA ReleasedKeepsInv ==
    ASSUME Inv, NEW j \in Job, jobs[j].pc \in Held,
           NEW end \in {"done", "failed"}, Released(j, end),
           UNCHANGED <<disposed, dead>>,
           NEW s \in SessionState,
           session' = [session EXCEPT ![jobs[j].runtime] = s],
           jobs[j].runtime \notin dead => Idle(s)
    PROVE  Inv'
  BY HandedOver, PutBack

(* A recognition that starts gets a free runtime, waits, or is refused.    *)
LEMMA LendsAFreeRuntime ==
    ASSUME Inv, NEW j \in Job, jobs[j].pc = "new", available # <<>>,
           available' = Front(available),
           NEW y \in JobState, y.runtime = Last(available), y.pc = "vision",
           jobs' = [jobs EXCEPT ![j] = y],
           UNCHANGED <<waiters, disposed, dead, session>>
    PROVE  Inv'
<1> USE DEF Inv
<1> DEFINE r == Last(available)
           n == Len(available)
<1>1. /\ n \in Nat /\ n > 0 /\ n \in DOMAIN available
      /\ r = available[n] /\ r \in Runtime
      /\ Front(available) \in Seq(Runtime)
      /\ \A i \in DOMAIN Front(available) :
            i \in DOMAIN available /\ i # n /\ Front(available)[i] = available[i]
  BY DEF Types, Front, Last
<1>2. y.runtime = r
  OBVIOUS
<1> HIDE DEF r, n
<1>3. y.pc \in Held /\ Early(y)
  BY DEF Held, Early
<1>5. jobs'[j] = y /\ \A i \in Job \ {j} : jobs'[i] = jobs[i]
  BY DEF Types
<1>6. Types'
  BY <1>1 DEF Types
<1>7. jobs[j].runtime = NoRuntime
  BY DEF HoldersAreDistinct, Held
<1>8. \A i \in Job : jobs[i].runtime # r
  BY <1>1 DEF FreeIsFree
<1>9. HoldersAreDistinct'
  <2>1. \A i \in Job : jobs'[i].runtime # NoRuntime <=> jobs'[i].pc \in Held
    <3>1. jobs'[j].runtime # NoRuntime /\ jobs'[j].pc \in Held
      BY <1>1, <1>2, <1>3, <1>5, RuntimesAreNumbers
    <3> QED
      BY <3>1, <1>5 DEF HoldersAreDistinct
  <2>2. \A i \in Job : jobs'[i].runtime = IF i = j THEN r ELSE jobs[i].runtime
    BY <1>2, <1>3, <1>5
  <2> QED
    BY <2>1, <2>2, <1>8 DEF HoldersAreDistinct
<1>10. FreeIsFree'
  <2>1. \A i \in DOMAIN Front(available) : Front(available)[i] # r
    BY <1>1 DEF FreeIsFree
  <2>2. \A i, k \in DOMAIN Front(available) :
            Front(available)[i] = Front(available)[k] => i = k
    BY <1>1 DEF FreeIsFree
  <2>3. \A i \in DOMAIN Front(available), k \in Job :
            jobs'[k].runtime # Front(available)[i]
    <3> SUFFICES ASSUME NEW i \in DOMAIN Front(available), NEW k \in Job
                 PROVE  jobs'[k].runtime # Front(available)[i]
      OBVIOUS
    <3>1. CASE k = j
      BY <3>1, <1>2, <1>3, <1>5, <2>1
    <3>2. CASE k # j
      <4>1. i \in DOMAIN available /\ Front(available)[i] = available[i]
        BY <1>1
      <4> QED
        BY <3>2, <4>1, <1>5 DEF FreeIsFree
    <3> QED
      BY <3>1, <3>2
  <2>4. available' = Front(available)
    OBVIOUS
  <2> QED
    BY <2>2, <2>3, <2>4, Zenon DEF FreeIsFree
<1>11. waiters = <<>>
  BY DEF NoLostWakeup
<1>12. WaitersWait' /\ NoLostWakeup'
  BY <1>11 DEF WaitersWait, NoLostWakeup
<1>13. SessionsEnd'
  <2> SUFFICES ASSUME NEW q \in Runtime \ dead,
                      \A i \in Job : jobs'[i].runtime = q => Early(jobs'[i])
               PROVE  Idle(session[q])
    BY DEF SessionsEnd
  <2>1. \A i \in Job : jobs[i].runtime = q => Early(jobs[i])
    BY <1>5, <1>7, RuntimesAreNumbers
  <2> QED
    BY <2>1 DEF SessionsEnd
<1> QED
  BY <1>6, <1>9, <1>10, <1>12, <1>13

(* One that neither gets a runtime nor has one.                            *)
LEMMA StepWithoutRuntime ==
    ASSUME Inv, NEW j \in Job, jobs[j].pc = "new",
           NEW pc \in {"waiting", "failed"},
           NEW y \in JobState, y.runtime = jobs[j].runtime, y.pc = pc,
           jobs' = [jobs EXCEPT ![j] = y],
           UNCHANGED <<available, disposed, dead, session>>,
           \/ UNCHANGED waiters
           \/ /\ pc = "waiting" /\ waiters' = Append(waiters, j)
              /\ available = <<>>
    PROVE  Inv'
<1> USE DEF Inv
<1>1. pc \notin Held
  BY DEF Held
<1>3. jobs'[j] = y /\ \A i \in Job \ {j} : jobs'[i] = jobs[i]
  BY DEF Types
<1>4. jobs[j].runtime = NoRuntime
  BY DEF HoldersAreDistinct, Held
<1>5. waiters' \in Seq(Job) /\ jobs' \in [Job -> JobState]
  <2>1. waiters' \in Seq(Job)
    BY DEF Types
  <2>2. jobs' \in [Job -> JobState]
    BY DEF Types
  <2> QED
    BY <2>1, <2>2
<1>6. Types'
  <2>1. /\ available' = available /\ session' = session
        /\ disposed' = disposed /\ dead' = dead
    OBVIOUS
  <2> QED
    BY <1>5, <2>1 DEF Types
<1>7. HoldersAreDistinct' /\ FreeIsFree'
  BY <1>1, <1>3, <1>4 DEF HoldersAreDistinct, FreeIsFree
<1>8. NoLostWakeup'
  BY DEF NoLostWakeup
<1>9. WaitersWait'
  <2>1. /\ waiters \in Seq(Job)
        /\ \A i \in DOMAIN waiters : waiters[i] \in Job /\ waiters[i] # j
    BY DEF WaitersWait, Types
  <2>2. CASE UNCHANGED waiters
    BY <2>1, <2>2, <1>3 DEF WaitersWait
  <2>3. CASE pc = "waiting" /\ waiters' = Append(waiters, j)
    <3>1. \A i \in DOMAIN waiters' :
              \/ i \in DOMAIN waiters /\ waiters'[i] = waiters[i]
              \/ i = Len(waiters) + 1 /\ waiters'[i] = j
      BY <2>1, <2>3
    <3>2. \A i, k \in DOMAIN waiters' : waiters'[i] = waiters'[k] => i = k
      BY <2>1, <3>1 DEF WaitersWait
    <3>3. \A i \in DOMAIN waiters' : jobs'[waiters'[i]].pc = "waiting"
      BY <2>1, <2>3, <3>1, <1>1, <1>3 DEF WaitersWait
    <3> QED
      BY <3>2, <3>3 DEF WaitersWait
  <2> QED
    BY <2>2, <2>3
<1>10. SessionsEnd'
  <2> SUFFICES ASSUME NEW q \in Runtime \ dead,
                      \A i \in Job : jobs'[i].runtime = q => Early(jobs'[i])
               PROVE  Idle(session[q])
    BY DEF SessionsEnd
  <2>1. \A i \in Job : jobs[i].runtime = q => Early(jobs[i])
    BY <1>3, <1>4, RuntimesAreNumbers
  <2> QED
    BY <2>1 DEF SessionsEnd
<1> QED
  BY <1>6, <1>7, <1>8, <1>9, <1>10

(* Two fields of a record change, one after the other.                     *)
LEMMA Twice ==
    ASSUME NEW S, NEW T, NEW f \in [S -> T], NEW i \in S, NEW x \in T, NEW y \in T
    PROVE  /\ [f EXCEPT ![i] = x] \in [S -> T]
           /\ [f EXCEPT ![i] = x][i] = x
           /\ [[f EXCEPT ![i] = x] EXCEPT ![i] = y] = [f EXCEPT ![i] = y]
  OBVIOUS

LEMMA RecognizeKeepsInv ==
    ASSUME Inv, NEW j \in Job, Recognize(j) PROVE Inv'
<1>1. jobs[j].pc = "new" /\ UNCHANGED <<disposed, dead, session>>
  BY DEF Recognize
<1>2. jobs \in [Job -> JobState] /\ jobs[j] \in JobState
  BY DEF Inv, Types
<1>3. \A pc \in PC : /\ [jobs[j] EXCEPT !.pc = pc] \in JobState
                    /\ [jobs[j] EXCEPT !.pc = pc].pc = pc
                    /\ [jobs[j] EXCEPT !.pc = pc].runtime = jobs[j].runtime
  BY <1>2 DEF JobState
<1>4. {"waiting", "failed", "vision"} \subseteq PC
  BY DEF PC, Held
<1>5. CASE disposed
  <2>1. /\ jobs' = [jobs EXCEPT ![j] = [jobs[j] EXCEPT !.pc = "failed"]]
        /\ UNCHANGED <<available, waiters>>
    BY <1>5 DEF Recognize
  <2> QED
    BY <1>1, <1>3, <1>4, <2>1, StepWithoutRuntime
<1>6. CASE ~disposed /\ available = <<>>
  <2>1. /\ waiters' = Append(waiters, j) /\ UNCHANGED available
        /\ jobs' = [jobs EXCEPT ![j] = [jobs[j] EXCEPT !.pc = "waiting"]]
    BY <1>6 DEF Recognize
  <2> QED
    BY <1>1, <1>3, <1>4, <1>6, <2>1, StepWithoutRuntime
<1>7. CASE ~disposed /\ available # <<>>
  <2> DEFINE r == Last(available)
             x == [jobs[j] EXCEPT !.pc = "vision"]
             y == [jobs[j] EXCEPT !.pc = "vision", !.runtime = r]
             b == [jobs EXCEPT ![j] = x]
  <2>1. available' = Front(available) /\ UNCHANGED waiters
    BY <1>7 DEF Recognize
  <2>2. jobs' = [b EXCEPT ![j].runtime = r]
    BY <1>7, Zenon DEF Recognize
  <2>3. r \in Runtime
    BY <1>7 DEF Inv, Types, Last
  <2> HIDE DEF r
  <2>4. y \in JobState /\ y.runtime = r /\ y.pc = "vision"
    BY <1>2, <2>3, Lent
  <2>5. x \in JobState
    BY <1>3, <1>4
  <2>6. b[j] = x /\ [b EXCEPT ![j] = y] = [jobs EXCEPT ![j] = y]
    BY <1>2, <2>4, <2>5, Twice, Zenon
  <2>7. jobs' = [b EXCEPT ![j] = y]
    BY <2>2, <2>6, Zenon
  <2>8. jobs' = [jobs EXCEPT ![j] = y]
    BY <2>6, <2>7, Zenon
  <2> HIDE DEF y
  <2> QED
    BY <1>1, <1>7, <2>1, <2>4, <2>8, LendsAFreeRuntime DEF r
<1> QED
  BY <1>5, <1>6, <1>7

(* The pool is emptied or stays as it is; more runtimes are dead.          *)
LEMMA DisposeKeepsInv == ASSUME Inv, Dispose PROVE Inv'
<1> USE DEF Inv
<1>1. /\ dead = {} /\ disposed' = TRUE /\ UNCHANGED <<jobs, session>>
      /\ \/ UNCHANGED <<available, waiters>>
         \/ available' = <<>> /\ waiters' = <<>>
  BY DEF Dispose, Types
<1>2. Types'
  <2>1. available' \in Seq(Runtime) /\ waiters' \in Seq(Job)
    <3>1. CASE UNCHANGED <<available, waiters>>
      BY <3>1 DEF Types
    <3>2. CASE available' = <<>> /\ waiters' = <<>>
      BY <3>2
    <3> QED
      BY <1>1, <3>1, <3>2
  <2> QED
    BY <1>1, <2>1 DEF Types
<1>3. HoldersAreDistinct'
  BY <1>1 DEF HoldersAreDistinct
<1>4. FreeIsFree' /\ WaitersWait' /\ NoLostWakeup'
  BY <1>1 DEF FreeIsFree, WaitersWait, NoLostWakeup
<1>5. SessionsEnd'
  BY <1>1 DEF SessionsEnd
<1> QED
  BY <1>2, <1>3, <1>4, <1>5
-----------------------------------------------------------------------------
(* The actions.                                                            *)

(* What a holder holds.                                                    *)
LEMMA Holding ==
    ASSUME Inv, NEW j \in Job, jobs[j].pc \in Held
    PROVE  /\ jobs[j] \in JobState /\ jobs[j].runtime \in Runtime
           /\ session[jobs[j].runtime] \in SessionState
           /\ [session EXCEPT ![jobs[j].runtime] = session[jobs[j].runtime]]
                = session
<1>1. jobs[j] \in JobState /\ jobs[j].runtime # NoRuntime
  BY DEF Inv, Types, HoldersAreDistinct
<1>2. jobs[j].runtime \in Runtime
  BY <1>1 DEF JobState
<1> QED
  BY <1>1, <1>2 DEF Inv, Types

(* Only the record of the recognition changes.                             *)
LEMMA JobStep ==
    ASSUME Inv, NEW j \in Job, jobs[j].pc \in Held,
           NEW x \in JobState, x.runtime = jobs[j].runtime, x.pc \in Held,
           Early(x) => Early(jobs[j]), jobs' = [jobs EXCEPT ![j] = x],
           UNCHANGED <<available, waiters, disposed, dead, session>>
    PROVE  Inv'
<1> DEFINE s == session[jobs[j].runtime]
<1>1. s \in SessionState /\ session' = [session EXCEPT ![jobs[j].runtime] = s]
  BY Holding
<1> HIDE DEF s
<1>2. Early(jobs[j]) => s = session[jobs[j].runtime]
  BY DEF s
<1> QED
  BY <1>1, <1>2, StepOfAHolder

LEMMA GotoMoves ==
    ASSUME NEW x \in JobState, NEW pc \in Held
    PROVE  LET y == [x EXCEPT !.pc = pc]
           IN  y \in JobState /\ y.runtime = x.runtime /\ y.pc = pc /\ y.op = x.op
  BY DEF JobState, PC

LEMMA GotoInMoves ==
    ASSUME jobs \in [Job -> JobState], NEW j \in Job, NEW o \in Operation,
           NEW pc \in Held, GotoIn(j, o, pc)
    PROVE  \E y \in JobState :
              /\ jobs' = [jobs EXCEPT ![j] = y]
              /\ y.runtime = jobs[j].runtime /\ y.pc = pc /\ y.op = o
<1> DEFINE x == [jobs[j] EXCEPT !.op = o]
           y == [x EXCEPT !.pc = pc]
           b == [jobs EXCEPT ![j] = x]
<1>1. jobs[j] \in JobState
  OBVIOUS
<1>2. x \in JobState /\ x.runtime = jobs[j].runtime /\ x.op = o
  BY <1>1 DEF JobState
<1>3. jobs' = [b EXCEPT ![j].pc = pc]
  BY Zenon DEF GotoIn
<1> HIDE DEF x
<1>4. y \in JobState /\ y.runtime = x.runtime /\ y.pc = pc /\ y.op = x.op
  BY <1>2, GotoMoves
<1>5. b[j] = x /\ [b EXCEPT ![j] = y] = [jobs EXCEPT ![j] = y]
  BY <1>2, <1>4, Twice, Zenon
<1>6. jobs' = [b EXCEPT ![j] = y]
  BY <1>3, <1>5, Zenon
<1>7. jobs' = [jobs EXCEPT ![j] = y]
  BY <1>5, <1>6, Zenon
<1> HIDE DEF y
<1> QED
  BY <1>2, <1>4, <1>7

LEMMA PoppingMoves ==
    ASSUME NEW j \in Job, NEW x \in JobState, NEW left \in Int, NEW stack,
           Popping(j, x, left, stack)
    PROVE  \E y \in JobState :
              /\ jobs' = [jobs EXCEPT ![j] = y]
              /\ y.runtime = x.runtime /\ y.pc = x.pc /\ y.op = x.op
<1> DEFINE dirty == x.dirty \/ stack = <<>> \/ (stack # <<>> /\ Last(stack))
           y == [x EXCEPT !.left = left, !.dirty = dirty]
<1>1. dirty \in BOOLEAN
  BY Zenon
<1>2. jobs' = [jobs EXCEPT ![j] = y]
  BY Zenon DEF Popping
<1> HIDE DEF dirty
<1>3. y \in JobState /\ y.runtime = x.runtime /\ y.pc = x.pc /\ y.op = x.op
  BY <1>1 DEF JobState
<1> HIDE DEF y
<1> QED
  BY <1>2, <1>3

(* A pop changes only the record of the recognition.                       *)
LEMMA PoppingStep ==
    ASSUME Inv, NEW j \in Job, jobs[j].pc \in Held,
           NEW x \in JobState, x.runtime = jobs[j].runtime, x.pc = "drain",
           NEW left \in Int, NEW stack, Popping(j, x, left, stack),
           NEW s \in SessionState,
           session' = [session EXCEPT ![jobs[j].runtime] = s],
           UNCHANGED <<available, waiters, disposed, dead>>
    PROVE  Inv'
<1>1. PICK y \in JobState : /\ jobs' = [jobs EXCEPT ![j] = y]
                            /\ y.runtime = x.runtime /\ y.pc = x.pc
  BY PoppingMoves
<1>2. y.pc \in Held /\ ~Early(y)
  BY <1>1 DEF Held, Early
<1> QED
  BY <1>1, <1>2, StepOfAHolder

LEMMA VisionKeepsInv == ASSUME Inv, NEW j \in Job, Vision(j) PROVE Inv'
<1>1. /\ jobs[j].pc = "vision" /\ GotoIn(j, "begin", "call")
      /\ UNCHANGED <<available, waiters, disposed, dead, session>>
  BY DEF Vision, At
<1>2. "begin" \in Operation /\ "call" \in Held /\ "vision" \in Held
  BY DEF Operation, Held
<1>3. PICK y \in JobState : /\ jobs' = [jobs EXCEPT ![j] = y]
                            /\ y.runtime = jobs[j].runtime /\ y.pc = "call"
  BY <1>1, <1>2, GotoInMoves DEF Inv, Types
<1>4. Early(jobs[j])
  BY <1>1 DEF Early
<1> QED
  BY <1>1, <1>2, <1>3, <1>4, JobStep

(* It had no usable session: none is left behind.                          *)
LEMMA FailUnstartedKeepsInv ==
    ASSUME Inv, NEW j \in Job, FailUnstarted(j) PROVE Inv'
<1>1. /\ Early(jobs[j]) /\ Released(j, "failed")
      /\ UNCHANGED <<disposed, dead, session>>
  BY DEF FailUnstarted, At, In, Early
<1>2. jobs[j].pc \in Held
  BY <1>1 DEF Early, Held
<1> DEFINE r == jobs[j].runtime
           s == session[r]
<1>3. r \in Runtime /\ s \in SessionState /\ session' = [session EXCEPT ![r] = s]
  BY <1>1, <1>2, Holding
<1>4. r \notin dead => Idle(s)
  <2>1. \A i \in Job : jobs[i].runtime = r => i = j
    BY <1>3, RuntimesAreNumbers DEF Inv, HoldersAreDistinct
  <2> QED
    BY <2>1, <1>1, <1>3 DEF Inv, SessionsEnd
<1> HIDE DEF s
<1> QED
  BY <1>1, <1>2, <1>3, <1>4, ReleasedKeepsInv

(* The recognition goes to its cleanup.                                    *)
LEMMA ToCleanup ==
    ASSUME Inv, NEW j \in Job, jobs[j].pc \in Held, Goto(j, "cleanup"),
           UNCHANGED <<available, waiters, disposed, dead, session>>
    PROVE  Inv'
<1> DEFINE y == [jobs[j] EXCEPT !.pc = "cleanup"]
<1>1. "cleanup" \in Held
  BY DEF Held
<1>2. y \in JobState /\ y.runtime = jobs[j].runtime /\ y.pc = "cleanup"
  BY <1>1, Holding, GotoMoves
<1>3. jobs' = [jobs EXCEPT ![j] = y]
  BY DEF Goto
<1> HIDE DEF y
<1>4. ~Early(y)
  BY <1>2 DEF Early
<1> QED
  BY <1>1, <1>2, <1>3, <1>4, JobStep

LEMMA FailStartedKeepsInv ==
    ASSUME Inv, NEW j \in Job, FailStarted(j) PROVE Inv'
<1>1. jobs[j].pc \in Held
  BY DEF FailStarted, In, Held
<1> QED
  BY <1>1, ToCleanup DEF FailStarted

LEMMA RejectKeepsInv ==
    ASSUME Inv, NEW j \in Job, NEW o \in Operation, Reject(j, o) PROVE Inv'
<1>1. jobs[j].pc \in Held
  BY DEF Reject, Drained, In, Held
<1> QED
  BY <1>1, ToCleanup DEF Reject

LEMMA PhaseMoves ==
    ASSUME NEW s \in SessionState, NEW p \in {"free", "begun", "ready", "poisoned"}
    PROVE  LET z == [s EXCEPT !.phase = p] IN z \in SessionState /\ z.phase = p
  BY DEF SessionState

LEMMA BeginKeepsInv ==
    ASSUME Inv, NEW j \in Job, NEW hit \in Hit, Begin(j, hit) PROVE Inv'
<1> DEFINE sound == hit = 0 /\ resident # "unsound"
           s == [phase |-> "begun", tokens |-> 0, sound |-> sound]
           candidate == resident = "none"
           x == [jobs[j] EXCEPT !.op = "begin", !.pc = "drain",
                                !.candidate = candidate]
           stack == Pushed(hit)
<1>1. /\ jobs[j].pc = "call"
      /\ session' = [session EXCEPT ![jobs[j].runtime] = s]
      /\ Popping(j, x, Checked - 1, stack)
      /\ UNCHANGED <<available, waiters, disposed, dead>>
  BY DEF Begin, In
<1>2. jobs[j].pc \in Held
  BY <1>1 DEF Held
<1>3. s \in SessionState
  <2>1. sound \in BOOLEAN
    BY Zenon
  <2> HIDE DEF sound
  <2> QED
    BY <2>1 DEF SessionState
<1>4. x \in JobState /\ x.runtime = jobs[j].runtime /\ x.pc = "drain"
  <2>1. jobs[j] \in JobState
    BY <1>2, Holding
  <2>2. "begin" \in Operation /\ "drain" \in PC /\ candidate \in BOOLEAN
    BY DEF Operation, PC, Held
  <2> HIDE DEF candidate
  <2> QED
    BY <2>1, <2>2 DEF JobState
<1>5. Checked - 1 \in Int
  BY DEF Checked
<1> HIDE DEF s, x, stack
<1> QED
  BY <1>1, <1>2, <1>3, <1>4, <1>5, PoppingStep

(* The session is poisoned while the GPU works.                            *)
LEMMA SubmitKeepsInv ==
    ASSUME Inv, NEW j \in Job, NEW o \in Operation, NEW hit \in Hit,
           Submit(j, o, hit)
    PROVE  Inv'
<1> DEFINE r == jobs[j].runtime
           z == [session[r] EXCEPT !.phase = "poisoned"]
           b == [session EXCEPT ![r] = z]
           sound == z.sound /\ hit = 0
           s == [z EXCEPT !.sound = sound]
<1>1. /\ jobs[j].pc = "call" /\ GotoIn(j, o, "gpu")
      /\ UNCHANGED <<available, waiters, disposed, dead>>
  BY DEF Submit, In
<1>2. jobs[j].pc \in Held /\ "gpu" \in Held
  BY <1>1 DEF Held
<1>3. PICK y \in JobState : /\ jobs' = [jobs EXCEPT ![j] = y]
                            /\ y.runtime = r /\ y.pc = "gpu"
  BY <1>1, <1>2, GotoInMoves DEF Inv, Types
<1>4. ~Early(y) /\ y.pc \in Held
  BY <1>2, <1>3 DEF Early
<1>5. session' = [b EXCEPT ![r].sound = @ /\ hit = 0]
  BY Zenon DEF Submit
<1>6. r \in Runtime /\ session[r] \in SessionState
  BY <1>2, Holding
<1>7. z \in SessionState
  BY <1>6, PhaseMoves
<1> HIDE DEF z
<1>8. s \in SessionState
  <2>1. sound \in BOOLEAN
    BY Zenon
  <2> HIDE DEF sound
  <2> QED
    BY <1>7, <2>1 DEF SessionState
<1> HIDE DEF r
<1>9. b[r] = z /\ [b EXCEPT ![r] = s] = [session EXCEPT ![r] = s]
  BY <1>6, <1>7, <1>8, Twice, Zenon DEF Inv, Types
<1>10. session' = [b EXCEPT ![r] = s]
  BY <1>5, <1>9, Zenon
<1>11. session' = [session EXCEPT ![r] = s]
  BY <1>9, <1>10, Zenon
<1> HIDE DEF s
<1> QED
  BY <1>1, <1>2, <1>3, <1>4, <1>8, <1>11, StepOfAHolder DEF r

(* Read, Lose and Pop pop the first or the next scope.                     *)
LEMMA Drains ==
    ASSUME Inv, NEW j \in Job, jobs[j].pc \in Held, NEW o \in Operation,
           NEW dirty \in BOOLEAN
    PROVE  LET x == [jobs[j] EXCEPT !.op = o, !.pc = "drain", !.dirty = dirty]
               y == [jobs[j] EXCEPT !.op = o, !.pc = "drain"]
           IN  /\ x \in JobState /\ x.runtime = jobs[j].runtime /\ x.pc = "drain"
               /\ y \in JobState /\ y.runtime = jobs[j].runtime /\ y.pc = "drain"
<1>1. jobs[j] \in JobState /\ "drain" \in PC
  BY Holding DEF PC, Held
<1> QED
  BY <1>1 DEF JobState

LEMMA ReadKeepsInv ==
    ASSUME Inv, NEW j \in Job, NEW o \in Operation, Read(j, o) PROVE Inv'
<1> DEFINE r == jobs[j].runtime
           committed == [begin |-> 0, prefill |-> PromptTokens,
                         select |-> SessionOf(j).tokens,
                         step |-> SessionOf(j).tokens + 1]
           s == [session[r] EXCEPT !.tokens = committed[o]]
           x == [jobs[j] EXCEPT !.op = o, !.pc = "drain"]
<1>1. /\ jobs[j].pc = "gpu"
      /\ session' = [session EXCEPT ![r] = s]
      /\ Popping(j, x, Checked - 1, scopes)
      /\ UNCHANGED <<available, waiters, disposed, dead>>
  BY DEF Read, In
<1>2. jobs[j].pc \in Held
  BY <1>1 DEF Held
<1>3. s \in SessionState
  <2>1. session[r] \in SessionState
    BY <1>2, Holding
  <2>2. session[r].tokens \in Int
    BY <2>1 DEF SessionState
  <2>3. committed[o] \in Int
    BY <2>2, PromptTokensIsPositive DEF Operation, SessionOf
  <2> HIDE DEF committed
  <2> QED
    BY <2>1, <2>3 DEF SessionState
<1>4. x \in JobState /\ x.runtime = r /\ x.pc = "drain"
  BY <1>2, Drains
<1>5. Checked - 1 \in Int
  BY DEF Checked
<1> HIDE DEF s, x
<1> QED
  BY <1>1, <1>2, <1>3, <1>4, <1>5, PoppingStep

(* The session is left as it is.                                           *)
LEMMA PoppingOnly ==
    ASSUME Inv, NEW j \in Job, jobs[j].pc \in Held,
           NEW x \in JobState, x.runtime = jobs[j].runtime, x.pc = "drain",
           NEW left \in Int, NEW stack, Popping(j, x, left, stack),
           UNCHANGED <<available, waiters, disposed, dead, session>>
    PROVE  Inv'
<1> DEFINE s == session[jobs[j].runtime]
<1>1. s \in SessionState /\ session' = [session EXCEPT ![jobs[j].runtime] = s]
  BY Holding
<1> HIDE DEF s
<1> QED
  BY <1>1, PoppingStep

LEMMA LoseKeepsInv ==
    ASSUME Inv, NEW j \in Job, NEW o \in Operation, Lose(j, o) PROVE Inv'
<1> DEFINE x == [jobs[j] EXCEPT !.op = o, !.pc = "drain", !.dirty = TRUE]
<1>1. /\ jobs[j].pc = "gpu" /\ Popping(j, x, Checked - 1, scopes)
      /\ UNCHANGED <<available, waiters, disposed, dead, session>>
  BY DEF Lose, In
<1>2. jobs[j].pc \in Held
  BY <1>1 DEF Held
<1>3. x \in JobState /\ x.runtime = jobs[j].runtime /\ x.pc = "drain"
  BY <1>2, Drains
<1>4. Checked - 1 \in Int
  BY DEF Checked
<1> HIDE DEF x
<1> QED
  BY <1>1, <1>2, <1>3, <1>4, PoppingOnly

LEMMA PopKeepsInv ==
    ASSUME Inv, NEW j \in Job, NEW o \in Operation, Pop(j, o) PROVE Inv'
<1>1. /\ jobs[j].pc = "drain" /\ Popping(j, jobs[j], jobs[j].left - 1, scopes)
      /\ UNCHANGED <<available, waiters, disposed, dead, session>>
  BY DEF Pop, In
<1>2. jobs[j].pc \in Held
  BY <1>1 DEF Held
<1>3. jobs[j] \in JobState
  BY <1>2, Holding
<1>4. jobs[j].left - 1 \in Int
  BY <1>3 DEF JobState
<1> QED
  BY <1>1, <1>2, <1>3, <1>4, PoppingOnly

(* The session that was begun stays behind, poisoned.                      *)
LEMMA RejectBeginKeepsInv ==
    ASSUME Inv, NEW j \in Job, RejectBegin(j) PROVE Inv'
<1> DEFINE r == jobs[j].runtime
           s == [session[r] EXCEPT !.phase = "poisoned"]
<1>1. /\ jobs[j].pc = "drain" /\ Released(j, "failed")
      /\ session' = [session EXCEPT ![r] = s]
      /\ UNCHANGED <<disposed, dead>>
  BY DEF RejectBegin, Drained, In
<1>2. jobs[j].pc \in Held
  BY <1>1 DEF Held
<1>3. s \in SessionState /\ s.phase = "poisoned"
  BY <1>2, Holding, PhaseMoves
<1> HIDE DEF s
<1>4. Idle(s)
  BY <1>3 DEF Idle
<1> QED
  BY <1>1, <1>2, <1>3, <1>4, ReleasedKeepsInv

LEMMA CleanupKeepsInv ==
    ASSUME Inv, NEW j \in Job, Cleanup(j) PROVE Inv'
<1>1. jobs[j].pc \in Held
  BY DEF Cleanup, At, Held
<1>2. Free \in SessionState /\ Idle(Free)
  BY DEF Free, SessionState, Idle
<1> QED
  BY <1>1, <1>2, ReleasedKeepsInv DEF Cleanup

(* The operation is done: its session is ready and the recognition goes on.*)
LEMMA ReadyStep ==
    ASSUME Inv, NEW j \in Job, jobs[j].pc \in Held, Ready(j),
           NEW x \in JobState, x.runtime = jobs[j].runtime, x.pc \in Held,
           ~Early(x), jobs' = [jobs EXCEPT ![j] = x],
           UNCHANGED <<available, waiters, disposed, dead>>
    PROVE  Inv'
<1> DEFINE s == [session[jobs[j].runtime] EXCEPT !.phase = "ready"]
<1>1. s \in SessionState
  BY Holding, PhaseMoves
<1>2. session' = [session EXCEPT ![jobs[j].runtime] = s]
  BY DEF Ready
<1> HIDE DEF s
<1> QED
  BY <1>1, <1>2, StepOfAHolder

LEMMA BegunKeepsInv == ASSUME Inv, NEW j \in Job, Begun(j) PROVE Inv'
<1>1. /\ jobs[j].pc = "drain" /\ Ready(j) /\ GotoIn(j, "prefill", "call")
      /\ UNCHANGED <<available, waiters, disposed, dead>>
  BY DEF Begun, Drained, In
<1>2. jobs[j].pc \in Held /\ "call" \in Held /\ "prefill" \in Operation
  BY <1>1 DEF Held, Operation
<1>3. PICK y \in JobState : /\ jobs' = [jobs EXCEPT ![j] = y]
                            /\ y.runtime = jobs[j].runtime /\ y.pc = "call"
                            /\ y.op = "prefill"
  BY <1>1, <1>2, GotoInMoves DEF Inv, Types
<1>4. ~Early(y)
  BY <1>3 DEF Early
<1> QED
  BY <1>1, <1>2, <1>3, <1>4, ReadyStep

LEMMA IterateMoves ==
    ASSUME NEW j \in Job, NEW x \in JobState, Iterate(j, x)
    PROVE  \E y \in JobState :
              /\ jobs' = [jobs EXCEPT ![j] = y]
              /\ y.runtime = x.runtime /\ y.pc \in Held /\ ~Early(y)
<1> DEFINE on == [x EXCEPT !.op = "select", !.pc = "call"]
           end == [x EXCEPT !.pc = "cleanup"]
<1>1. /\ on \in JobState /\ on.runtime = x.runtime
      /\ on.pc = "call" /\ on.op = "select"
  BY DEF JobState, Operation, PC, Held
<1>2. end \in JobState /\ end.runtime = x.runtime /\ end.pc = "cleanup"
  BY DEF JobState, PC, Held
<1>3. \/ jobs' = [jobs EXCEPT ![j] = on]
      \/ jobs' = [jobs EXCEPT ![j] = end]
  BY Zenon DEF Iterate
<1> HIDE DEF on, end
<1>4. on.pc \in Held /\ ~Early(on) /\ end.pc \in Held /\ ~Early(end)
  BY <1>1, <1>2 DEF Held, Early
<1> QED
  BY <1>1, <1>2, <1>3, <1>4

LEMMA IterationKeepsInv ==
    ASSUME Inv, NEW j \in Job, jobs[j].pc \in Held, Ready(j),
           NEW tokens \in Int,
           Iterate(j, [jobs[j] EXCEPT !.cacheTokens = tokens]),
           UNCHANGED <<available, waiters, disposed, dead>>
    PROVE  Inv'
<1> DEFINE x == [jobs[j] EXCEPT !.cacheTokens = tokens]
<1>1. x \in JobState /\ x.runtime = jobs[j].runtime
  BY Holding DEF JobState
<1>2. Iterate(j, x)
  OBVIOUS
<1> HIDE DEF x
<1>3. PICK y \in JobState : /\ jobs' = [jobs EXCEPT ![j] = y]
                            /\ y.runtime = x.runtime /\ y.pc \in Held
                            /\ ~Early(y)
  BY <1>1, <1>2, IterateMoves
<1> QED
  BY <1>1, <1>3, ReadyStep

LEMMA PrefilledKeepsInv == ASSUME Inv, NEW j \in Job, Prefilled(j) PROVE Inv'
<1>1. jobs[j].pc \in Held
  BY DEF Prefilled, Drained, In, Held
<1>2. PromptTokens \in Int
  BY PromptTokensIsPositive
<1> QED
  BY <1>1, <1>2, IterationKeepsInv DEF Prefilled

LEMMA SteppedKeepsInv == ASSUME Inv, NEW j \in Job, Stepped(j) PROVE Inv'
<1> DEFINE tokens == jobs[j].cacheTokens + 1
<1>1. jobs[j].pc \in Held
  BY DEF Stepped, Drained, In, Held
<1>2. tokens \in Int
  <2>1. jobs[j] \in JobState
    BY <1>1, Holding
  <2> QED
    BY <2>1 DEF JobState
<1>3. /\ Ready(j) /\ Iterate(j, [jobs[j] EXCEPT !.cacheTokens = tokens])
      /\ UNCHANGED <<available, waiters, disposed, dead>>
  BY DEF Stepped
<1> HIDE DEF tokens
<1> QED
  BY <1>1, <1>2, <1>3, IterationKeepsInv

LEMMA SelectedKeepsInv == ASSUME Inv, NEW j \in Job, Selected(j) PROVE Inv'
<1>1. /\ jobs[j].pc = "drain" /\ Ready(j)
      /\ UNCHANGED <<available, waiters, disposed, dead>>
  BY DEF Selected, Drained, In
<1>2. jobs[j].pc \in Held
  BY <1>1 DEF Held
<1>3. PICK pc \in {"cleanup", "call"} :
         jobs' = [jobs EXCEPT ![j].selected = @ + 1, ![j].op = "step", ![j].pc = pc]
  BY DEF Selected
<1> DEFINE x == [jobs[j] EXCEPT !.selected = @ + 1]
           y == [x EXCEPT !.op = "step"]
           z == [y EXCEPT !.pc = pc]
           b == [jobs EXCEPT ![j] = x]
           c == [b EXCEPT ![j] = y]
<1>4. jobs[j] \in JobState
  BY <1>2, Holding
<1>5. x \in JobState /\ x.runtime = jobs[j].runtime
  BY <1>4 DEF JobState
<1>6. jobs' = [[b EXCEPT ![j].op = "step"] EXCEPT ![j].pc = pc]
  BY <1>3, Zenon
<1> HIDE DEF x
<1>7. y \in JobState /\ y.runtime = x.runtime /\ y.op = "step"
  BY <1>5 DEF JobState, Operation
<1>8. b \in [Job -> JobState] /\ b[j] = x
  BY <1>5, Twice DEF Inv, Types
<1>9. jobs' = [c EXCEPT ![j].pc = pc]
  BY <1>6, <1>8, Zenon
<1> HIDE DEF y
<1>10. z \in JobState /\ z.runtime = y.runtime /\ z.op = y.op /\ z.pc = pc
  <2>1. pc \in Held
    BY DEF Held
  <2> QED
    BY <1>7, <2>1, GotoMoves
<1>11. c[j] = y /\ c = [jobs EXCEPT ![j] = y]
  BY <1>5, <1>7, <1>8, Twice, Zenon DEF Inv, Types
<1> HIDE DEF z
<1>12. [c EXCEPT ![j] = z] = [jobs EXCEPT ![j] = z]
  BY <1>7, <1>10, <1>11, Twice, Zenon DEF Inv, Types
<1>13. jobs' = [c EXCEPT ![j] = z]
  BY <1>9, <1>11, Zenon DEF z
<1>14. jobs' = [jobs EXCEPT ![j] = z]
  BY <1>12, <1>13, Zenon
<1>15. z.runtime = jobs[j].runtime /\ z.pc \in Held /\ ~Early(z)
  BY <1>5, <1>7, <1>10 DEF Held, Early
<1> QED
  BY <1>1, <1>2, <1>10, <1>14, <1>15, ReadyStep
-----------------------------------------------------------------------------
(* The invariant.                                                          *)

LEMMA InitInv == Init => Inv
<1> SUFFICES ASSUME Init PROVE Inv
  OBVIOUS
<1>1. /\ NewJob \in JobState /\ NewJob.runtime = NoRuntime
      /\ NewJob.pc \notin Held
  BY DEF NewJob, JobState, PC, Held
<1>2. Free \in SessionState /\ Idle(Free)
  BY DEF Free, SessionState, Idle
<1>3. jobs \in [Job -> JobState] /\ \A j \in Job : jobs[j] = NewJob
  BY <1>1 DEF Init
<1>4. session \in [Runtime -> SessionState] /\ \A r \in Runtime : session[r] = Free
  BY <1>2 DEF Init
<1>5. available = [i \in Runtime |-> i] /\ available \in Seq(Runtime)
  BY RuntimeCountIsPositive DEF Init, Runtime
<1>6. waiters = <<>> /\ waiters \in Seq(Job) /\ dead = {} /\ disposed \in BOOLEAN
  <2>1. waiters = <<>> /\ dead = {} /\ disposed = FALSE
    BY DEF Init
  <2>2. <<>> \in Seq(Job)
    OBVIOUS
  <2> QED
    BY <2>1, <2>2
<1>7. Types
  BY <1>3, <1>4, <1>5, <1>6 DEF Types
<1>8. HoldersAreDistinct
  BY <1>1, <1>3 DEF HoldersAreDistinct
<1>9. FreeIsFree
  BY <1>1, <1>3, <1>5, RuntimesAreNumbers DEF FreeIsFree
<1>10. WaitersWait /\ NoLostWakeup
  BY <1>6 DEF WaitersWait, NoLostWakeup
<1>11. SessionsEnd
  BY <1>2, <1>4 DEF SessionsEnd
<1> QED
  BY <1>7, <1>8, <1>9, <1>10, <1>11 DEF Inv

LEMMA NextInv == Inv /\ [Next]_vars => Inv'
<1> SUFFICES ASSUME Inv, [Next]_vars PROVE Inv'
  OBVIOUS
<1>1. CASE Dispose
  BY <1>1, DisposeKeepsInv
<1>2. ASSUME NEW j \in Job, Recognize(j) PROVE Inv'
  BY <1>2, RecognizeKeepsInv
<1>3. ASSUME NEW j \in Job, Runs(j) PROVE Inv'
  <2>1. CASE Vision(j) \/ FailUnstarted(j) \/ FailStarted(j)
    BY <2>1, VisionKeepsInv, FailUnstartedKeepsInv, FailStartedKeepsInv
  <2>2. ASSUME NEW hit \in Hit, Begin(j, hit) PROVE Inv'
    BY <2>2, BeginKeepsInv
  <2>3. ASSUME NEW o \in Operation, NEW hit \in Hit, Submit(j, o, hit) PROVE Inv'
    BY <2>3, SubmitKeepsInv
  <2>4. ASSUME NEW o \in Operation,
               Read(j, o) \/ Lose(j, o) \/ Pop(j, o) \/ Reject(j, o)
        PROVE  Inv'
    BY <2>4, ReadKeepsInv, LoseKeepsInv, PopKeepsInv, RejectKeepsInv
  <2>5. CASE RejectBegin(j) \/ Begun(j) \/ Prefilled(j) \/ Selected(j)
    BY <2>5, RejectBeginKeepsInv, BegunKeepsInv, PrefilledKeepsInv,
       SelectedKeepsInv
  <2>6. CASE Stepped(j) \/ Cleanup(j)
    BY <2>6, SteppedKeepsInv, CleanupKeepsInv
  <2> QED
    BY <1>3, <2>1, <2>2, <2>3, <2>4, <2>5, <2>6, Zenon DEF Runs
<1>4. CASE UNCHANGED vars
  <2>1. UNCHANGED <<available, waiters, disposed, dead, jobs, session>>
    BY <1>4 DEF vars
  <2>2. Types'
    BY <2>1, Zenon DEF Inv, Types
  <2> QED
    BY <2>1, <2>2, Zenon DEF Inv, HoldersAreDistinct, FreeIsFree, WaitersWait,
       NoLostWakeup, SessionsEnd
<1> QED
  BY <1>1, <1>2, <1>3, <1>4, Zenon DEF Next

LEMMA InvHolds == Spec => []Inv
  BY InitInv, NextInv, PTL DEF Spec
-----------------------------------------------------------------------------
(* The pool never lends one runtime to two recognitions, nor keeps one it  *)
(* lends, also when the engine is disposed while recognitions run          *)
(* (ocr_concurrency.mjs, createRuntimePool).                               *)
THEOREM RuntimesAreLentOnce == Spec => []LentOnce
<1>1. Inv => LentOnce
  <2> SUFFICES ASSUME Inv, NEW r \in Runtime
               PROVE  Cardinality(Holders(r)) + Times(available, r) <= 1
    BY DEF LentOnce
  <2> DEFINE free == {i \in DOMAIN available : available[i] = r}
  <2>1. \A i, j \in Holders(r) : i = j
    BY RuntimesAreNumbers DEF Inv, HoldersAreDistinct, Holders
  <2>2. \A i, k \in free : i = k
    BY DEF Inv, FreeIsFree
  <2>3. Holders(r) = {} \/ free = {}
    BY DEF Inv, FreeIsFree, Holders
  <2>4. ASSUME NEW S, \A i, j \in S : i = j
        PROVE  (S = {} /\ Cardinality(S) = 0) \/ Cardinality(S) = 1
    <3>1. CASE S = {}
      BY <3>1, FS_EmptySet
    <3>2. CASE S # {}
      <4>1. PICK i : i \in S
        BY <3>2
      <4>2. S = {i}
        BY <2>4, <4>1
      <4> QED
        BY <4>2, FS_Singleton
    <3> QED
      BY <3>1, <3>2
  <2>5. \/ Holders(r) = {} /\ Cardinality(Holders(r)) = 0
        \/ Cardinality(Holders(r)) = 1
    BY <2>1, <2>4
  <2>6. (free = {} /\ Cardinality(free) = 0) \/ Cardinality(free) = 1
    BY <2>2, <2>4
  <2>7. Cardinality({}) = 0
    BY FS_EmptySet
  <2>8. Times(available, r) = Cardinality(free)
    BY DEF Times
  <2> HIDE DEF free
  <2> QED
    BY <2>3, <2>5, <2>6, <2>7, <2>8
<1> QED
  BY <1>1, InvHolds, PTL

(* No runtime is idle while a recognition waits for one: release looks for *)
(* a waiter first, and acquire waits only if nothing is free.              *)
THEOREM NoWakeupIsLost == Spec => []NoLostWakeup
<1>1. Inv => NoLostWakeup
  BY DEF Inv
<1> QED
  BY <1>1, InvHolds, PTL

(* A recognition never finds a usable decoder session of an earlier one on *)
(* its runtime, whichever operation of the earlier one failed              *)
(* (browser_ocr_runtime.mjs, the finally clauses of runCanvasInference).   *)
THEOREM SessionsEndWithTheirJob == Spec => []NoSessionOutlivesItsJob
<1>1. Inv => NoSessionOutlivesItsJob
  BY DEF Inv, SessionsEnd, Idle, Holders, NoSessionOutlivesItsJob
<1> QED
  BY <1>1, InvHolds, PTL
-----------------------------------------------------------------------------
(* The loop's cacheTokens and the session's own count.                     *)

(* What a recognition knows of the session it works on: from its prefill on*)
(* its count is the session's, and a step in flight is one ahead of it.    *)
Tracks(x, s) ==
    /\ x.pc = "drain" /\ x.op = "prefill" /\ ~x.dirty => s.tokens = PromptTokens
    /\ x.op \in {"select", "step"} /\ x.pc \in {"call", "gpu", "drain"} =>
          x.cacheTokens < Capacity
    /\ \/ x.op = "select" /\ x.pc \in {"call", "gpu", "drain"}
       \/ x.op = "step" /\ x.pc \in {"call", "gpu"}
       => s.tokens = x.cacheTokens
    /\ x.op = "step" /\ x.pc = "drain" /\ ~x.dirty =>
          s.tokens = x.cacheTokens + 1

TracksSession == \A j \in Job : Tracks(jobs[j], SessionOf(j))

LEMMA TracksNothing ==
    ASSUME NEW x, NEW s, x.pc \notin {"call", "gpu", "drain"}
    PROVE  Tracks(x, s)
  BY DEF Tracks

(* A recognition works on no other one's session.                          *)
LEMMA TracksStep ==
    ASSUME Inv, TracksSession, NEW j \in Job, jobs[j].pc \in Held,
           \A i \in Job \ {j} : jobs'[i] = jobs[i] \/ jobs'[i].pc = "vision",
           \A r \in Runtime \ {jobs[j].runtime} : session'[r] = session[r],
           Tracks(jobs'[j], session'[jobs'[j].runtime])
    PROVE  TracksSession'
<1> SUFFICES ASSUME NEW i \in Job
             PROVE  Tracks(jobs'[i], session'[jobs'[i].runtime])
  BY DEF TracksSession, SessionOf
<1>1. CASE i = j
  BY <1>1
<1>2. CASE jobs'[i].pc \notin {"call", "gpu", "drain"}
  BY <1>2, TracksNothing
<1>3. CASE i # j /\ jobs'[i].pc \in {"call", "gpu", "drain"}
  <2>1. jobs'[i] = jobs[i] /\ jobs[i].pc \in Held
    BY <1>3 DEF Held
  <2>2. jobs[i].runtime \in Runtime
    BY <2>1, Holding
  <2>3. jobs[i].runtime # jobs[j].runtime
    BY <1>3, <2>2, RuntimesAreNumbers DEF Inv, HoldersAreDistinct
  <2>4. session'[jobs[i].runtime] = session[jobs[i].runtime]
    BY <2>2, <2>3
  <2> QED
    BY <2>1, <2>4 DEF TracksSession, SessionOf
<1> QED
  BY <1>1, <1>2, <1>3

(* The session is left as it is, or its record is replaced.                *)
LEMMA TracksRecord ==
    ASSUME Inv, TracksSession, NEW j \in Job, jobs[j].pc \in Held,
           NEW x, x.runtime = jobs[j].runtime, jobs' = [jobs EXCEPT ![j] = x],
           NEW s, session' = [session EXCEPT ![jobs[j].runtime] = s],
           Tracks(x, s)
    PROVE  TracksSession'
<1>1. /\ jobs'[j] = x /\ \A i \in Job \ {j} : jobs'[i] = jobs[i]
      /\ jobs[j].runtime \in Runtime
  BY Holding DEF Inv, Types
<1>2. /\ session'[jobs[j].runtime] = s
      /\ \A r \in Runtime \ {jobs[j].runtime} : session'[r] = session[r]
  BY <1>1 DEF Inv, Types
<1> QED
  BY <1>1, <1>2, TracksStep

(* Who releases a runtime is done, and who gets it starts anew.            *)
LEMMA ReleasedMoves ==
    ASSUME Inv, NEW j \in Job, jobs[j].pc \in Held,
           NEW end \in {"done", "failed"}, Released(j, end)
    PROVE  /\ jobs'[j].pc = end
           /\ \A i \in Job \ {j} : jobs'[i] = jobs[i] \/ jobs'[i].pc = "vision"
<1> DEFINE x == [NewJob EXCEPT !.pc = end]
           w == Head(waiters)
<1>1. x.pc = end
  BY Ended
<1>2. jobs \in [Job -> JobState]
  BY DEF Inv, Types
<1> HIDE DEF x
<1>3. CASE waiters = <<>>
  <2>1. jobs' = [jobs EXCEPT ![j] = x]
    BY <1>3 DEF Released, x
  <2>2. jobs'[j] = x /\ \A i \in Job \ {j} : jobs'[i] = jobs[i]
    BY <1>2, <2>1
  <2> QED
    BY <1>1, <2>2
<1>4. CASE waiters # <<>>
  <2>1. w \in Job /\ jobs[w].pc = "waiting"
    BY <1>4 DEF Inv, Types, WaitersWait
  <2>2. w # j
    BY <2>1 DEF Held
  <2> DEFINE a == [jobs EXCEPT ![j] = x]
             b == [a EXCEPT ![w].pc = "vision"]
  <2>3. jobs' = [b EXCEPT ![w].runtime = jobs[j].runtime]
    BY <1>4, Zenon DEF Released, x
  <2> HIDE DEF w
  <2>4. /\ DOMAIN a = Job /\ a[j] = x
        /\ \A i \in Job \ {j} : a[i] = jobs[i]
    BY <1>2
  <2>5. jobs[w] \in JobState
    BY <1>2, <2>1
  <2> HIDE DEF a
  <2>6. /\ DOMAIN b = Job /\ b[w] = [a[w] EXCEPT !.pc = "vision"]
        /\ \A i \in Job \ {w} : b[i] = a[i]
    BY <2>1, <2>4
  <2>7. b[w].pc = "vision" /\ DOMAIN b[w] = DOMAIN jobs[w]
    BY <2>1, <2>2, <2>4, <2>5, <2>6 DEF JobState
  <2> HIDE DEF b
  <2>8. /\ jobs'[w] = [b[w] EXCEPT !.runtime = jobs[j].runtime]
        /\ \A i \in Job \ {w} : jobs'[i] = b[i]
    BY <2>1, <2>3, <2>6
  <2>9. jobs'[w].pc = "vision"
    BY <2>5, <2>7, <2>8 DEF JobState
  <2> QED
    BY <1>1, <2>1, <2>2, <2>4, <2>6, <2>8, <2>9
<1> QED
  BY <1>3, <1>4

(* Whoever releases a runtime works no more.                               *)
LEMMA TracksReleased ==
    ASSUME Inv, TracksSession, NEW j \in Job, jobs[j].pc \in Held,
           NEW end \in {"done", "failed"}, Released(j, end),
           \A r \in Runtime \ {jobs[j].runtime} : session'[r] = session[r]
    PROVE  TracksSession'
<1>1. /\ jobs'[j].pc = end
      /\ \A i \in Job \ {j} : jobs'[i] = jobs[i] \/ jobs'[i].pc = "vision"
  BY ReleasedMoves
<1>2. Tracks(jobs'[j], session'[jobs'[j].runtime])
  BY <1>1, TracksNothing
<1> QED
  BY <1>1, <1>2, TracksStep

(* Nothing is known of a session before its prefill is submitted.          *)
LEMMA TracksEarly ==
    ASSUME NEW x, NEW s,
           \/ x.op = "begin"
           \/ x.op = "prefill" /\ x.pc \in {"call", "gpu"}
    PROVE  Tracks(x, s)
  BY DEF Tracks

(* What a pop and a change of op and pc keep.                              *)
LEMMA PoppingKeeps ==
    ASSUME NEW j \in Job, NEW x \in JobState, NEW left \in Int, NEW stack,
           Popping(j, x, left, stack)
    PROVE  \E y \in JobState :
              /\ jobs' = [jobs EXCEPT ![j] = y]
              /\ y.runtime = x.runtime /\ y.pc = x.pc /\ y.op = x.op
              /\ y.cacheTokens = x.cacheTokens
              /\ ~y.dirty => ~x.dirty
<1> DEFINE dirty == x.dirty \/ stack = <<>> \/ (stack # <<>> /\ Last(stack))
           y == [x EXCEPT !.left = left, !.dirty = dirty]
<1>1. dirty \in BOOLEAN /\ (~dirty => ~x.dirty)
  BY Zenon
<1>2. jobs' = [jobs EXCEPT ![j] = y]
  BY Zenon DEF Popping
<1> HIDE DEF dirty
<1>3. /\ y \in JobState /\ y.runtime = x.runtime /\ y.pc = x.pc /\ y.op = x.op
      /\ y.cacheTokens = x.cacheTokens /\ y.dirty = dirty
  BY <1>1 DEF JobState
<1> HIDE DEF y
<1>4. ~y.dirty => ~x.dirty
  BY <1>1, <1>3, Zenon
<1> QED
  BY <1>2, <1>3, <1>4

LEMMA GotoInKeeps ==
    ASSUME jobs \in [Job -> JobState], NEW j \in Job, NEW o \in Operation,
           NEW pc \in Held, GotoIn(j, o, pc)
    PROVE  \E y \in JobState :
              /\ jobs' = [jobs EXCEPT ![j] = y]
              /\ y.runtime = jobs[j].runtime /\ y.pc = pc /\ y.op = o
              /\ y.cacheTokens = jobs[j].cacheTokens
<1> DEFINE x == [jobs[j] EXCEPT !.op = o]
           y == [x EXCEPT !.pc = pc]
           b == [jobs EXCEPT ![j] = x]
<1>1. jobs[j] \in JobState
  OBVIOUS
<1>2. /\ x \in JobState /\ x.runtime = jobs[j].runtime /\ x.op = o
      /\ x.cacheTokens = jobs[j].cacheTokens
  BY <1>1 DEF JobState
<1>3. jobs' = [b EXCEPT ![j].pc = pc]
  BY Zenon DEF GotoIn
<1> HIDE DEF x
<1>4. y \in JobState /\ y.runtime = x.runtime /\ y.pc = pc /\ y.op = x.op
  BY <1>2, GotoMoves
<1>5. y.cacheTokens = x.cacheTokens
  BY <1>2 DEF JobState
<1>6. b[j] = x /\ [b EXCEPT ![j] = y] = [jobs EXCEPT ![j] = y]
  BY <1>2, <1>4, Twice, Zenon
<1>7. jobs' = [b EXCEPT ![j] = y]
  BY <1>3, <1>6, Zenon
<1>8. jobs' = [jobs EXCEPT ![j] = y]
  BY <1>6, <1>7, Zenon
<1> HIDE DEF y
<1> QED
  BY <1>2, <1>4, <1>5, <1>8

(* The recognition goes on with the session it has.                        *)
LEMMA TracksJob ==
    ASSUME Inv, TracksSession, NEW j \in Job, jobs[j].pc \in Held,
           NEW x, x.runtime = jobs[j].runtime, jobs' = [jobs EXCEPT ![j] = x],
           UNCHANGED session, Tracks(x, SessionOf(j))
    PROVE  TracksSession'
<1> DEFINE s == session[jobs[j].runtime]
<1>1. session' = [session EXCEPT ![jobs[j].runtime] = s]
  BY Holding
<1> HIDE DEF s
<1> QED
  BY <1>1, TracksRecord DEF s, SessionOf

LEMMA RecognizeMoves ==
    ASSUME Inv, NEW j \in Job, Recognize(j)
    PROVE  /\ jobs[j].pc = "new" /\ UNCHANGED session
           /\ \/ jobs'[j].pc \in {"failed", "waiting"}
              \/ jobs'[j].pc = "vision" /\ available # <<>>
           /\ \A i \in Job \ {j} : jobs'[i] = jobs[i]
<1>1. jobs \in [Job -> JobState] /\ jobs[j].pc = "new" /\ UNCHANGED session
  BY DEF Recognize, Inv, Types
<1>2. /\ \/ jobs'[j].pc \in {"failed", "waiting"}
         \/ jobs'[j].pc = "vision" /\ available # <<>>
      /\ \A i \in Job \ {j} : jobs'[i] = jobs[i]
  <2>1. CASE disposed
    BY <1>1, <2>1 DEF Recognize, JobState
  <2>2. CASE ~disposed /\ available = <<>>
    BY <1>1, <2>2 DEF Recognize, JobState
  <2>3. CASE ~disposed /\ available # <<>>
    <3> DEFINE b == [jobs EXCEPT ![j].pc = "vision"]
    <3>1. jobs' = [b EXCEPT ![j].runtime = Last(available)]
      BY <2>3, Zenon DEF Recognize
    <3>2. /\ DOMAIN b = Job /\ b[j] = [jobs[j] EXCEPT !.pc = "vision"]
          /\ \A i \in Job \ {j} : b[i] = jobs[i]
      BY <1>1
    <3> HIDE DEF b
    <3>3. b[j].pc = "vision" /\ DOMAIN b[j] = DOMAIN jobs[j]
      BY <1>1, <3>2 DEF JobState
    <3>4. /\ jobs'[j] = [b[j] EXCEPT !.runtime = Last(available)]
          /\ \A i \in Job \ {j} : jobs'[i] = jobs[i]
      BY <3>1, <3>2
    <3>5. jobs[j] \in JobState
      BY <1>1
    <3>6. jobs'[j].pc = "vision"
      BY <3>3, <3>4, <3>5 DEF JobState
    <3> QED
      BY <2>3, <3>4, <3>6
  <2> QED
    BY <2>1, <2>2, <2>3
<1> QED
  BY <1>1, <1>2

LEMMA RecognizeTracks ==
    ASSUME Inv, TracksSession, NEW j \in Job, Recognize(j) PROVE TracksSession'
<1>1. UNCHANGED session /\ jobs'[j].pc \in {"failed", "vision", "waiting"}
      /\ \A i \in Job \ {j} : jobs'[i] = jobs[i]
  BY RecognizeMoves
<1>2. Tracks(jobs'[j], session'[jobs'[j].runtime])
  BY <1>1, TracksNothing
<1>3. \A i \in Job \ {j} : Tracks(jobs'[i], session'[jobs'[i].runtime])
  BY <1>1 DEF TracksSession, SessionOf
<1> QED
  BY <1>2, <1>3 DEF TracksSession, SessionOf

LEMMA VisionTracks ==
    ASSUME Inv, TracksSession, NEW j \in Job, Vision(j) PROVE TracksSession'
<1>1. jobs[j].pc = "vision" /\ GotoIn(j, "begin", "call") /\ UNCHANGED session
  BY DEF Vision, At
<1>2. "begin" \in Operation /\ "call" \in Held /\ "vision" \in Held
  BY DEF Operation, Held
<1>3. PICK y \in JobState : /\ jobs' = [jobs EXCEPT ![j] = y]
                            /\ y.runtime = jobs[j].runtime /\ y.op = "begin"
  BY <1>1, <1>2, GotoInMoves DEF Inv, Types
<1> QED
  BY <1>1, <1>2, <1>3, TracksEarly, TracksJob

LEMMA CleanupAhead ==
    ASSUME Inv, TracksSession, NEW j \in Job, jobs[j].pc \in Held,
           Goto(j, "cleanup"), UNCHANGED session
    PROVE  TracksSession'
<1> DEFINE y == [jobs[j] EXCEPT !.pc = "cleanup"]
<1>1. "cleanup" \in Held
  BY DEF Held
<1>2. y \in JobState /\ y.runtime = jobs[j].runtime /\ y.pc = "cleanup"
  BY <1>1, Holding, GotoMoves
<1>3. jobs' = [jobs EXCEPT ![j] = y]
  BY DEF Goto
<1> HIDE DEF y
<1> QED
  BY <1>2, <1>3, TracksNothing, TracksJob

LEMMA BeginTracks ==
    ASSUME Inv, TracksSession, NEW j \in Job, NEW hit \in Hit, Begin(j, hit)
    PROVE  TracksSession'
<1> DEFINE s == [phase |-> "begun", tokens |-> 0,
                 sound |-> hit = 0 /\ resident # "unsound"]
           candidate == resident = "none"
           x == [jobs[j] EXCEPT !.op = "begin", !.pc = "drain",
                                !.candidate = candidate]
           stack == Pushed(hit)
<1>1. /\ jobs[j].pc = "call" /\ Popping(j, x, Checked - 1, stack)
      /\ session' = [session EXCEPT ![jobs[j].runtime] = s]
  BY DEF Begin, In
<1>2. jobs[j].pc \in Held
  BY <1>1 DEF Held
<1>3. x \in JobState /\ x.runtime = jobs[j].runtime /\ x.op = "begin"
  <2>1. jobs[j] \in JobState
    BY <1>2, Holding
  <2>2. "begin" \in Operation /\ "drain" \in PC /\ candidate \in BOOLEAN
    BY DEF Operation, PC, Held
  <2> HIDE DEF candidate
  <2> QED
    BY <2>1, <2>2 DEF JobState
<1>4. Checked - 1 \in Int
  BY DEF Checked
<1> HIDE DEF s, x, stack
<1>5. PICK y \in JobState : /\ jobs' = [jobs EXCEPT ![j] = y]
                            /\ y.runtime = x.runtime /\ y.op = x.op
  BY <1>1, <1>3, <1>4, PoppingMoves
<1>6. Tracks(y, s)
  BY <1>3, <1>5, TracksEarly
<1> QED
  BY <1>1, <1>2, <1>3, <1>5, <1>6, TracksRecord

(* The session counts as before while the GPU works.                       *)
LEMMA SubmitTracks ==
    ASSUME Inv, TracksSession, NEW j \in Job, NEW o \in Operation, NEW hit \in Hit,
           Submit(j, o, hit)
    PROVE  TracksSession'
<1> DEFINE r == jobs[j].runtime
           z == [session[r] EXCEPT !.phase = "poisoned"]
           b == [session EXCEPT ![r] = z]
           sound == z.sound /\ hit = 0
           s == [z EXCEPT !.sound = sound]
<1>1. /\ jobs[j].pc = "call" /\ jobs[j].op = o /\ o # "begin"
      /\ GotoIn(j, o, "gpu")
  BY DEF Submit, In
<1>2. jobs[j].pc \in Held /\ "gpu" \in Held
  BY <1>1 DEF Held
<1>3. PICK y \in JobState : /\ jobs' = [jobs EXCEPT ![j] = y]
                            /\ y.runtime = r /\ y.pc = "gpu" /\ y.op = o
                            /\ y.cacheTokens = jobs[j].cacheTokens
  BY <1>1, <1>2, GotoInKeeps DEF Inv, Types
<1>4. session' = [b EXCEPT ![r].sound = @ /\ hit = 0]
  BY Zenon DEF Submit
<1>5. r \in Runtime /\ session[r] \in SessionState
  BY <1>2, Holding
<1>6. z \in SessionState /\ z.tokens = session[r].tokens
  BY <1>5 DEF SessionState
<1> HIDE DEF z
<1>7. s \in SessionState /\ s.tokens = z.tokens
  <2>1. sound \in BOOLEAN
    BY Zenon
  <2> HIDE DEF sound
  <2> QED
    BY <1>6, <2>1 DEF SessionState
<1>8. Tracks(jobs[j], session[r])
  BY DEF TracksSession, SessionOf
<1> HIDE DEF r
<1>9. b[r] = z /\ [b EXCEPT ![r] = s] = [session EXCEPT ![r] = s]
  BY <1>5, <1>6, <1>7, Twice, Zenon DEF Inv, Types
<1>10. session' = [b EXCEPT ![r] = s]
  BY <1>4, <1>9, Zenon
<1>11. session' = [session EXCEPT ![r] = s]
  BY <1>9, <1>10, Zenon
<1> HIDE DEF s
<1>12. Tracks(y, s)
  BY <1>1, <1>3, <1>6, <1>7, <1>8 DEF Tracks
<1> QED
  BY <1>2, <1>3, <1>11, <1>12, TracksRecord DEF r

(* A committed operation counts what it wrote.                             *)
LEMMA ReadTracks ==
    ASSUME Inv, TracksSession, NEW j \in Job, NEW o \in Operation, Read(j, o)
    PROVE  TracksSession'
<1> DEFINE r == jobs[j].runtime
           committed == [begin |-> 0, prefill |-> PromptTokens,
                         select |-> SessionOf(j).tokens,
                         step |-> SessionOf(j).tokens + 1]
           s == [session[r] EXCEPT !.tokens = committed[o]]
           x == [jobs[j] EXCEPT !.op = o, !.pc = "drain"]
<1>1. /\ jobs[j].pc = "gpu" /\ jobs[j].op = o
      /\ session' = [session EXCEPT ![r] = s]
      /\ Popping(j, x, Checked - 1, scopes)
  BY DEF Read, In
<1>2. jobs[j].pc \in Held
  BY <1>1 DEF Held
<1>3. session[r] \in SessionState /\ jobs[j] \in JobState
  BY <1>2, Holding
<1>4. /\ o = "prefill" => s.tokens = PromptTokens
      /\ o = "select" => s.tokens = session[r].tokens
      /\ o = "step" => s.tokens = session[r].tokens + 1
  <2>1. s.tokens = committed[o]
    BY <1>3 DEF SessionState
  <2> HIDE DEF s
  <2> QED
    BY <2>1 DEF SessionOf
<1>5. /\ x \in JobState /\ x.runtime = r /\ x.pc = "drain" /\ x.op = o
      /\ x.cacheTokens = jobs[j].cacheTokens
  BY <1>3 DEF JobState, PC, Held
<1>6. Tracks(jobs[j], session[r])
  BY DEF TracksSession, SessionOf
<1>7. Checked - 1 \in Int
  BY DEF Checked
<1> HIDE DEF s, x
<1>8. PICK y \in JobState : /\ jobs' = [jobs EXCEPT ![j] = y]
                            /\ y.runtime = x.runtime /\ y.pc = x.pc /\ y.op = x.op
                            /\ y.cacheTokens = x.cacheTokens
                            /\ ~y.dirty => ~x.dirty
  BY <1>1, <1>5, <1>7, PoppingKeeps
<1>9. Tracks(y, s)
  BY <1>1, <1>4, <1>5, <1>6, <1>8 DEF Tracks
<1> QED
  BY <1>1, <1>2, <1>5, <1>8, <1>9, TracksRecord

(* What was lost is not counted, and the operation will be rejected.       *)
LEMMA LoseTracks ==
    ASSUME Inv, TracksSession, NEW j \in Job, NEW o \in Operation, Lose(j, o)
    PROVE  TracksSession'
<1> DEFINE x == [jobs[j] EXCEPT !.op = o, !.pc = "drain", !.dirty = TRUE]
<1>1. /\ jobs[j].pc = "gpu" /\ jobs[j].op = o
      /\ Popping(j, x, Checked - 1, scopes) /\ UNCHANGED session
  BY DEF Lose, In
<1>2. jobs[j].pc \in Held
  BY <1>1 DEF Held
<1>3. jobs[j] \in JobState
  BY <1>2, Holding
<1>4. /\ x \in JobState /\ x.runtime = jobs[j].runtime /\ x.pc = "drain"
      /\ x.op = o /\ x.cacheTokens = jobs[j].cacheTokens /\ x.dirty
  BY <1>3 DEF JobState, PC, Held
<1>5. Tracks(jobs[j], SessionOf(j))
  BY DEF TracksSession
<1>6. Checked - 1 \in Int
  BY DEF Checked
<1> HIDE DEF x
<1>7. PICK y \in JobState : /\ jobs' = [jobs EXCEPT ![j] = y]
                            /\ y.runtime = x.runtime /\ y.pc = x.pc /\ y.op = x.op
                            /\ y.cacheTokens = x.cacheTokens
                            /\ ~y.dirty => ~x.dirty
  BY <1>1, <1>4, <1>6, PoppingKeeps
<1>8. Tracks(y, SessionOf(j))
  BY <1>1, <1>4, <1>5, <1>7 DEF Tracks
<1> QED
  BY <1>1, <1>2, <1>4, <1>7, <1>8, TracksJob

LEMMA PopTracks ==
    ASSUME Inv, TracksSession, NEW j \in Job, NEW o \in Operation, Pop(j, o)
    PROVE  TracksSession'
<1>1. /\ jobs[j].pc = "drain" /\ UNCHANGED session
      /\ Popping(j, jobs[j], jobs[j].left - 1, scopes)
  BY DEF Pop, In
<1>2. jobs[j].pc \in Held
  BY <1>1 DEF Held
<1>3. jobs[j] \in JobState
  BY <1>2, Holding
<1>4. jobs[j].left - 1 \in Int
  BY <1>3 DEF JobState
<1>5. PICK y \in JobState :
          /\ jobs' = [jobs EXCEPT ![j] = y]
          /\ y.runtime = jobs[j].runtime /\ y.pc = jobs[j].pc
          /\ y.op = jobs[j].op /\ y.cacheTokens = jobs[j].cacheTokens
          /\ ~y.dirty => ~jobs[j].dirty
  BY <1>1, <1>3, <1>4, PoppingKeeps
<1>6. Tracks(jobs[j], SessionOf(j))
  BY DEF TracksSession
<1>7. Tracks(y, SessionOf(j))
  BY <1>5, <1>6 DEF Tracks
<1> QED
  BY <1>1, <1>2, <1>5, <1>7, TracksJob

(* The session is ready and counts as before.                              *)
LEMMA TracksReady ==
    ASSUME Inv, TracksSession, NEW j \in Job, jobs[j].pc \in Held, Ready(j),
           NEW x, x.runtime = jobs[j].runtime, jobs' = [jobs EXCEPT ![j] = x],
           \A s : s.tokens = SessionOf(j).tokens => Tracks(x, s)
    PROVE  TracksSession'
<1> DEFINE s == [session[jobs[j].runtime] EXCEPT !.phase = "ready"]
<1>1. s.tokens = SessionOf(j).tokens
  <2>1. session[jobs[j].runtime] \in SessionState
    BY Holding
  <2> QED
    BY <2>1 DEF SessionState, SessionOf
<1>2. session' = [session EXCEPT ![jobs[j].runtime] = s]
  BY DEF Ready
<1> HIDE DEF s
<1>3. Tracks(x, s)
  BY <1>1
<1> QED
  BY <1>2, <1>3, TracksRecord

LEMMA BegunTracks ==
    ASSUME Inv, TracksSession, NEW j \in Job, Begun(j) PROVE TracksSession'
<1>1. jobs[j].pc = "drain" /\ Ready(j) /\ GotoIn(j, "prefill", "call")
  BY DEF Begun, Drained, In
<1>2. jobs[j].pc \in Held /\ "call" \in Held /\ "prefill" \in Operation
  BY <1>1 DEF Held, Operation
<1>3. PICK y \in JobState : /\ jobs' = [jobs EXCEPT ![j] = y]
                            /\ y.runtime = jobs[j].runtime /\ y.pc = "call"
                            /\ y.op = "prefill"
  BY <1>1, <1>2, GotoInMoves DEF Inv, Types
<1>4. \A s : Tracks(y, s)
  BY <1>3, TracksEarly
<1> QED
  BY <1>1, <1>2, <1>3, <1>4, TracksReady

(* The next selection has room for its token.                              *)
LEMMA IterateTracks ==
    ASSUME Inv, TracksSession, NEW j \in Job, jobs[j].pc \in Held, Ready(j),
           NEW tokens \in Int, SessionOf(j).tokens = tokens,
           Iterate(j, [jobs[j] EXCEPT !.cacheTokens = tokens])
    PROVE  TracksSession'
<1> DEFINE x == [jobs[j] EXCEPT !.cacheTokens = tokens]
           on == [x EXCEPT !.op = "select", !.pc = "call"]
           end == [x EXCEPT !.pc = "cleanup"]
<1>1. /\ x \in JobState /\ x.runtime = jobs[j].runtime
      /\ x.cacheTokens = tokens
  BY Holding DEF JobState
<1>2. \/ jobs' = [jobs EXCEPT ![j] = on] /\ Iterates(x)
      \/ jobs' = [jobs EXCEPT ![j] = end]
  BY Zenon DEF Iterate
<1> HIDE DEF x
<1>3. /\ on.runtime = x.runtime /\ on.op = "select" /\ on.pc = "call"
      /\ on.cacheTokens = x.cacheTokens
      /\ end.runtime = x.runtime /\ end.pc = "cleanup"
  BY <1>1 DEF JobState
<1> HIDE DEF on, end
<1>4. CASE jobs' = [jobs EXCEPT ![j] = on] /\ Iterates(x)
  <2>1. on.cacheTokens < Capacity
    BY <1>3, <1>4 DEF Iterates
  <2>2. \A s : s.tokens = SessionOf(j).tokens => Tracks(on, s)
    BY <1>1, <1>3, <2>1 DEF Tracks
  <2> QED
    BY <1>1, <1>3, <1>4, <2>2, TracksReady
<1>5. CASE jobs' = [jobs EXCEPT ![j] = end]
  <2>1. \A s : Tracks(end, s)
    BY <1>3, TracksNothing
  <2> QED
    BY <1>1, <1>3, <1>5, <2>1, TracksReady
<1> QED
  BY <1>2, <1>4, <1>5

LEMMA PrefilledTracks ==
    ASSUME Inv, TracksSession, NEW j \in Job, Prefilled(j) PROVE TracksSession'
<1>1. /\ jobs[j].pc = "drain" /\ jobs[j].op = "prefill" /\ ~jobs[j].dirty
      /\ Ready(j) /\ Iterate(j, [jobs[j] EXCEPT !.cacheTokens = PromptTokens])
  BY DEF Prefilled, Drained, In
<1>2. jobs[j].pc \in Held /\ PromptTokens \in Int
  BY <1>1, PromptTokensIsPositive DEF Held
<1>3. SessionOf(j).tokens = PromptTokens
  BY <1>1 DEF TracksSession, Tracks
<1> QED
  BY <1>1, <1>2, <1>3, IterateTracks

LEMMA SteppedTracks ==
    ASSUME Inv, TracksSession, NEW j \in Job, Stepped(j) PROVE TracksSession'
<1> DEFINE tokens == jobs[j].cacheTokens + 1
<1>1. /\ jobs[j].pc = "drain" /\ jobs[j].op = "step" /\ ~jobs[j].dirty
      /\ Ready(j) /\ Iterate(j, [jobs[j] EXCEPT !.cacheTokens = tokens])
  BY DEF Stepped, Drained, In
<1>2. jobs[j].pc \in Held
  BY <1>1 DEF Held
<1>3. tokens \in Int
  <2>1. jobs[j] \in JobState
    BY <1>2, Holding
  <2> QED
    BY <2>1 DEF JobState
<1>4. SessionOf(j).tokens = tokens
  BY <1>1 DEF TracksSession, Tracks
<1> HIDE DEF tokens
<1> QED
  BY <1>1, <1>2, <1>3, <1>4, IterateTracks

(* A selection neither counts nor writes: the step that follows it is as   *)
(* safe as the selection was.                                              *)
LEMMA SelectedTracks ==
    ASSUME Inv, TracksSession, NEW j \in Job, Selected(j) PROVE TracksSession'
<1>1. jobs[j].pc = "drain" /\ jobs[j].op = "select" /\ Ready(j)
  BY DEF Selected, Drained, In
<1>2. jobs[j].pc \in Held
  BY <1>1 DEF Held
<1>3. PICK pc \in {"cleanup", "call"} :
         jobs' = [jobs EXCEPT ![j].selected = @ + 1, ![j].op = "step", ![j].pc = pc]
  BY DEF Selected
<1> DEFINE x == [jobs[j] EXCEPT !.selected = @ + 1]
           b == [jobs EXCEPT ![j] = x]
<1>4. jobs[j] \in JobState
  BY <1>2, Holding
<1>5. /\ x \in JobState /\ x.runtime = jobs[j].runtime
      /\ x.cacheTokens = jobs[j].cacheTokens
  BY <1>4 DEF JobState
<1>6. jobs' = [[b EXCEPT ![j].op = "step"] EXCEPT ![j].pc = pc]
  BY <1>3, Zenon
<1> DEFINE y == [x EXCEPT !.op = "step", !.pc = pc]
           c == [b EXCEPT ![j] = [x EXCEPT !.op = "step"]]
<1> HIDE DEF x
<1>7. b \in [Job -> JobState] /\ b[j] = x
  BY <1>5, Twice DEF Inv, Types
<1>8. jobs' = [c EXCEPT ![j].pc = pc]
  BY <1>6, <1>7, Zenon
<1>9. /\ [x EXCEPT !.op = "step"] \in JobState
      /\ [x EXCEPT !.op = "step"].runtime = x.runtime
      /\ [x EXCEPT !.op = "step"].op = "step"
      /\ [x EXCEPT !.op = "step"].cacheTokens = x.cacheTokens
  BY <1>5 DEF JobState, Operation
<1>10. /\ y.runtime = x.runtime /\ y.op = "step" /\ y.pc = pc
       /\ y.cacheTokens = x.cacheTokens /\ y \in JobState
  BY <1>5 DEF JobState, Operation, PC, Held
<1>11. /\ c[j] = [x EXCEPT !.op = "step"]
       /\ c = [jobs EXCEPT ![j] = [x EXCEPT !.op = "step"]]
  BY <1>5, <1>7, <1>9, Twice, Zenon DEF Inv, Types
<1>12. jobs' = [c EXCEPT ![j] = y]
  BY <1>8, <1>11, Zenon
<1> HIDE DEF y
<1>13. [c EXCEPT ![j] = y] = [jobs EXCEPT ![j] = y]
  BY <1>9, <1>10, <1>11, Twice, Zenon DEF Inv, Types
<1>14. jobs' = [jobs EXCEPT ![j] = y]
  BY <1>12, <1>13, Zenon
<1>15. Tracks(jobs[j], SessionOf(j))
  BY DEF TracksSession
<1>16. \A s : s.tokens = SessionOf(j).tokens => Tracks(y, s)
  BY <1>1, <1>5, <1>10, <1>15 DEF Tracks
<1> QED
  BY <1>1, <1>2, <1>5, <1>10, <1>14, <1>16, TracksReady

LEMMA ReleasingTracks ==
    ASSUME Inv, TracksSession, NEW j \in Job,
           FailUnstarted(j) \/ RejectBegin(j) \/ Cleanup(j)
    PROVE  TracksSession'
<1>1. jobs[j].pc \in Held
  BY DEF FailUnstarted, RejectBegin, Cleanup, Drained, At, In, Held
<1>2. jobs[j].runtime \in Runtime
  BY <1>1, Holding
<1>3. \A r \in Runtime \ {jobs[j].runtime} : session'[r] = session[r]
  BY <1>2 DEF FailUnstarted, RejectBegin, Cleanup, Inv, Types
<1>4. \E end \in {"done", "failed"} : Released(j, end)
  BY DEF FailUnstarted, RejectBegin, Cleanup
<1> QED
  BY <1>1, <1>3, <1>4, TracksReleased

LEMMA RunsTracks ==
    ASSUME Inv, TracksSession, NEW j \in Job, Runs(j) PROVE TracksSession'
<1>1. CASE Vision(j)
  BY <1>1, VisionTracks
<1>2. CASE FailUnstarted(j) \/ RejectBegin(j) \/ Cleanup(j)
  BY <1>2, ReleasingTracks
<1>3. CASE FailStarted(j) \/ \E o \in Operation : Reject(j, o)
  <2>1. jobs[j].pc \in Held /\ Goto(j, "cleanup") /\ UNCHANGED session
    BY <1>3 DEF FailStarted, Reject, Drained, In, Held
  <2> QED
    BY <2>1, CleanupAhead
<1>4. ASSUME NEW hit \in Hit, Begin(j, hit) PROVE TracksSession'
  BY <1>4, BeginTracks
<1>5. ASSUME NEW o \in Operation, NEW hit \in Hit, Submit(j, o, hit)
      PROVE  TracksSession'
  BY <1>5, SubmitTracks
<1>6. ASSUME NEW o \in Operation, Read(j, o) \/ Lose(j, o) \/ Pop(j, o)
      PROVE  TracksSession'
  BY <1>6, ReadTracks, LoseTracks, PopTracks
<1>7. CASE Begun(j) \/ Prefilled(j) \/ Selected(j) \/ Stepped(j)
  BY <1>7, BegunTracks, PrefilledTracks, SelectedTracks, SteppedTracks
<1> QED
  BY <1>1, <1>2, <1>3, <1>4, <1>5, <1>6, <1>7, Zenon DEF Runs

LEMMA NextTracks == Inv /\ TracksSession /\ [Next]_vars => TracksSession'
<1> SUFFICES ASSUME Inv, TracksSession, [Next]_vars PROVE TracksSession'
  OBVIOUS
<1>1. CASE UNCHANGED <<jobs, session>>
  BY <1>1, Zenon DEF TracksSession, SessionOf
<1>2. CASE Dispose \/ UNCHANGED vars
  <2>1. UNCHANGED <<jobs, session>>
    BY <1>2 DEF Dispose, vars
  <2> QED
    BY <1>1, <2>1
<1>3. ASSUME NEW j \in Job, Recognize(j) \/ Runs(j) PROVE TracksSession'
  BY <1>3, RecognizeTracks, RunsTracks
<1> QED
  BY <1>2, <1>3, Zenon DEF Next

(* The count the generation loop keeps of the decoder's tokens is that of  *)
(* the decoder session whenever the loop calls it, and the loop never      *)
(* calls it with a full cache (greedy_generation.mjs, the drift tests and  *)
(* the capacity test of runGreedyGeneration).                              *)
THEOREM TheLoopTracksItsSession == Spec => []TrackedTokensFit
<1>1. Init => TracksSession
  <2> SUFFICES ASSUME Init, NEW j \in Job PROVE Tracks(jobs[j], SessionOf(j))
    BY DEF TracksSession
  <2>1. jobs[j].pc = "new"
    BY DEF Init, NewJob
  <2> QED
    BY <2>1, TracksNothing
<1>2. TracksSession => TrackedTokensFit
  BY DEF TracksSession, Tracks, TrackedTokensFit, In
<1> QED
  BY <1>1, <1>2, NextTracks, InvHolds, PTL DEF Spec
-----------------------------------------------------------------------------
(* One runtime: its scopes are one recognition's own.                      *)
(*                                                                         *)
(* While one recognition at a time is at work, the device's scopes are     *)
(* those its operation has still to pop, and an operation that raised an   *)
(* error has captured it or will find it in one of them: it cannot end     *)
(* clean, whatever it left in the session or among the resident weights.   *)
(* With two runtimes the first fact is wrong, and with it the second.      *)

Working(x) == x.pc \in {"gpu", "drain"}
Owed(x) == IF x.pc = "gpu" THEN Checked ELSE x.left
Raised(stack) == \E i \in DOMAIN stack : stack[i]

Settles(x, s, stack) ==
    IF Working(x)
    THEN Len(stack) = Owed(x) /\ (s.sound \/ x.dirty \/ Raised(stack))
    ELSE stack = <<>>

ErrorsSurface ==
    /\ scopes \in Seq(BOOLEAN)
    /\ resident # "unsound"
    /\ ReadyIsSound
    /\ \A j \in Job : jobs[j].pc \in Held => Settles(jobs[j], SessionOf(j), scopes)
    /\ (\A j \in Job : jobs[j].pc \notin Held) => scopes = <<>>

(* One runtime, one recognition at work. *)
LEMMA OthersAreIdle ==
    ASSUME RuntimeCount = 1, Inv, NEW j \in Job, jobs[j].pc \in Held
    PROVE  /\ jobs[j].runtime = 1 /\ Runtime = {1}
           /\ \A i \in Job \ {j} : jobs[i].pc \notin Held
<1>1. Runtime = {1}
  BY DEF Runtime
<1>2. \A i \in Job : jobs[i].pc \in Held => jobs[i].runtime = 1
  BY <1>1, Holding
<1> QED
  BY <1>1, <1>2, RuntimesAreNumbers DEF Inv, HoldersAreDistinct, NoRuntime

(* The record of the one at work and of its session is replaced. *)
LEMMA ErrorsRecord ==
    ASSUME RuntimeCount = 1, Inv, ErrorsSurface, NEW j \in Job,
           jobs[j].pc \in Held,
           NEW x, x.runtime = jobs[j].runtime, x.pc \in Held,
           jobs' = [jobs EXCEPT ![j] = x],
           NEW s, session' = [session EXCEPT ![jobs[j].runtime] = s],
           s.phase = "ready" => s.sound,
           scopes' \in Seq(BOOLEAN), resident' # "unsound",
           Settles(x, s, scopes')
    PROVE  ErrorsSurface'
<1>1. /\ jobs[j].runtime = 1 /\ Runtime = {1}
      /\ \A i \in Job \ {j} : jobs[i].pc \notin Held
  BY OthersAreIdle
<1>2. jobs'[j] = x /\ \A i \in Job \ {j} : jobs'[i] = jobs[i]
  BY DEF Inv, Types
<1>3. session'[1] = s
  BY <1>1 DEF Inv, Types
<1>4. ReadyIsSound'
  BY <1>1, <1>3 DEF ReadyIsSound
<1>5. \A i \in Job : jobs'[i].pc \in Held =>
                        Settles(jobs'[i], session'[jobs'[i].runtime], scopes')
  <2> SUFFICES ASSUME NEW i \in Job, jobs'[i].pc \in Held
               PROVE  Settles(jobs'[i], session'[jobs'[i].runtime], scopes')
    OBVIOUS
  <2>1. i = j
    BY <1>1, <1>2
  <2>2. jobs'[i] = x /\ session'[jobs'[i].runtime] = s
    BY <1>1, <1>2, <1>3, <2>1
  <2> QED
    BY <2>2, Zenon
<1>6. ~\A i \in Job : jobs'[i].pc \notin Held
  BY <1>2
<1> QED
  BY <1>4, <1>5, <1>6, Zenon DEF ErrorsSurface, SessionOf

(* The session is left as it is. *)
LEMMA ErrorsJob ==
    ASSUME RuntimeCount = 1, Inv, ErrorsSurface, NEW j \in Job,
           jobs[j].pc \in Held,
           NEW x, x.runtime = jobs[j].runtime, x.pc \in Held,
           jobs' = [jobs EXCEPT ![j] = x], UNCHANGED <<session, resident>>,
           scopes' \in Seq(BOOLEAN), Settles(x, SessionOf(j), scopes')
    PROVE  ErrorsSurface'
<1> DEFINE s == session[jobs[j].runtime]
<1>1. session' = [session EXCEPT ![jobs[j].runtime] = s]
  BY Holding
<1>2. s.phase = "ready" => s.sound
  BY Holding DEF ErrorsSurface, ReadyIsSound
<1>3. resident' # "unsound"
  BY DEF ErrorsSurface
<1> HIDE DEF s
<1>4. Settles(x, s, scopes')
  BY DEF s, SessionOf
<1> QED
  BY <1>1, <1>2, <1>3, <1>4, ErrorsRecord

(* Who holds a runtime and does not work has left no scope. *)
LEMMA NoScopeAtRest ==
    ASSUME ErrorsSurface, NEW j \in Job, jobs[j].pc \in Held,
           ~Working(jobs[j]) \/ (jobs[j].pc = "drain" /\ jobs[j].left = 0)
    PROVE  scopes = <<>>
  BY DEF ErrorsSurface, Settles, Owed, Working

(* A runtime is released with no scope left; its session is not ready. *)
LEMMA ErrorsReleased ==
    ASSUME RuntimeCount = 1, Inv, ErrorsSurface, NEW j \in Job,
           jobs[j].pc \in Held,
           ~Working(jobs[j]) \/ (jobs[j].pc = "drain" /\ jobs[j].left = 0),
           NEW end \in {"done", "failed"}, Released(j, end),
           UNCHANGED <<scopes, resident>>,
           \/ UNCHANGED session
           \/ \E s : /\ session' = [session EXCEPT ![jobs[j].runtime] = s]
                      /\ s.phase # "ready"
    PROVE  ErrorsSurface'
<1>1. /\ jobs[j].runtime = 1 /\ Runtime = {1}
      /\ \A i \in Job \ {j} : jobs[i].pc \notin Held
  BY OthersAreIdle
<1>2. /\ jobs'[j].pc = end
      /\ \A i \in Job \ {j} : jobs'[i] = jobs[i] \/ jobs'[i].pc = "vision"
  BY ReleasedMoves
<1>3. scopes = <<>>
  BY NoScopeAtRest
<1>4. \A i \in Job : ~Working(jobs'[i])
  BY <1>1, <1>2 DEF Working, Held
<1>5. ReadyIsSound'
  <2>1. CASE UNCHANGED session
    BY <2>1 DEF ErrorsSurface, ReadyIsSound
  <2>2. CASE ~UNCHANGED session
    <3>1. PICK s : /\ session' = [session EXCEPT ![jobs[j].runtime] = s]
                   /\ s.phase # "ready"
      BY <2>2
    <3>2. session'[1] = s
      BY <1>1, <3>1 DEF Inv, Types
    <3> QED
      BY <1>1, <3>1, <3>2 DEF ReadyIsSound
  <2> QED
    BY <2>1, <2>2
<1> QED
  BY <1>3, <1>4, <1>5 DEF ErrorsSurface, Settles

(* A pop passes what the popped scope captured to its recognition. *)
LEMMA PoppingCaptures ==
    ASSUME NEW j \in Job, NEW x \in JobState, x.pc = "drain",
           NEW left \in Int, NEW stack \in Seq(BOOLEAN),
           Len(stack) = left + 1, left >= 0, Popping(j, x, left, stack)
    PROVE  /\ scopes' \in Seq(BOOLEAN)
           /\ \E y \in JobState :
                 /\ jobs' = [jobs EXCEPT ![j] = y]
                 /\ y.runtime = x.runtime /\ y.pc = "drain"
                 /\ Len(scopes') = Owed(y)
                 /\ x.dirty \/ Raised(stack) => y.dirty \/ Raised(scopes')
<1> DEFINE last == stack # <<>> /\ Last(stack)
           dirty == x.dirty \/ stack = <<>> \/ last
           y == [x EXCEPT !.left = left, !.dirty = dirty]
<1>1. dirty \in BOOLEAN /\ (x.dirty => dirty) /\ (last => dirty)
  BY Zenon
<1>2. jobs' = [jobs EXCEPT ![j] = y]
  BY Zenon DEF Popping
<1>3. stack # <<>> /\ scopes' = Front(stack)
  BY DEF Popping
<1>4. /\ scopes' \in Seq(BOOLEAN) /\ Len(scopes') = left
      /\ \A i \in 1..left : scopes'[i] = stack[i]
  BY <1>3 DEF Front
<1>5. Raised(stack) => last \/ Raised(scopes')
  <2> SUFFICES ASSUME NEW i \in DOMAIN stack, stack[i] PROVE last \/ Raised(scopes')
    BY DEF Raised
  <2>1. CASE i = Len(stack)
    BY <1>3, <2>1 DEF Last
  <2>2. CASE i # Len(stack)
    <3>1. i \in 1..left
      BY <2>2
    <3>2. scopes'[i]
      BY <1>4, <3>1
    <3>3. i \in DOMAIN scopes'
      BY <1>4, <3>1
    <3> QED
      BY <3>2, <3>3, Zenon DEF Raised
  <2> QED
    BY <2>1, <2>2
<1> HIDE DEF dirty, last
<1>6. /\ y \in JobState /\ y.runtime = x.runtime /\ y.pc = "drain"
      /\ y.left = left /\ y.dirty = dirty
  BY <1>1 DEF JobState
<1> HIDE DEF y
<1>7. x.dirty \/ Raised(stack) => y.dirty \/ Raised(scopes')
  BY <1>1, <1>5, <1>6, Zenon
<1>8. Len(scopes') = Owed(y)
  BY <1>4, <1>6 DEF Owed
<1> QED
  BY <1>2, <1>4, <1>6, <1>7, <1>8

(* The error of a submission that raises one is in the scope it hits. *)
LEMMA PushedRaises ==
    ASSUME scopes = <<>>, NEW hit \in Hit
    PROVE  /\ Pushed(hit) \in Seq(BOOLEAN) /\ Len(Pushed(hit)) = Checked
           /\ hit # 0 => Raised(Pushed(hit))
<1> DEFINE f == [i \in 1..Checked |-> i = hit]
<1>1. f \in Seq(BOOLEAN) /\ Len(f) = Checked /\ DOMAIN f = 1..Checked
  BY DEF Checked
<1>2. Pushed(hit) = f
  BY <1>1 DEF Pushed
<1>3. hit # 0 => Raised(f)
  <2> SUFFICES ASSUME hit # 0 PROVE Raised(f)
    OBVIOUS
  <2>1. hit \in 1..Checked
    BY DEF Hit, Checked
  <2>2. f[hit]
    BY <2>1
  <2> QED
    BY <1>1, <2>1, <2>2, Zenon DEF Raised
<1> QED
  BY <1>1, <1>2, <1>3

LEMMA BeginErrors ==
    ASSUME RuntimeCount = 1, Inv, ErrorsSurface, NEW j \in Job, NEW hit \in Hit,
           Begin(j, hit)
    PROVE  ErrorsSurface'
<1> DEFINE sound == hit = 0 /\ resident # "unsound"
           s == [phase |-> "begun", tokens |-> 0, sound |-> sound]
           candidate == resident = "none"
           x == [jobs[j] EXCEPT !.op = "begin", !.pc = "drain",
                                !.candidate = candidate]
           stack == Pushed(hit)
<1>1. /\ jobs[j].pc = "call" /\ Popping(j, x, Checked - 1, stack)
      /\ session' = [session EXCEPT ![jobs[j].runtime] = s]
      /\ UNCHANGED resident
  BY DEF Begin, In
<1>2. jobs[j].pc \in Held /\ ~Working(jobs[j])
  BY <1>1 DEF Held, Working
<1>3. scopes = <<>>
  BY <1>2, NoScopeAtRest
<1>4. /\ stack \in Seq(BOOLEAN) /\ Len(stack) = Checked
      /\ hit # 0 => Raised(stack)
  BY <1>3, PushedRaises
<1>5. x \in JobState /\ x.runtime = jobs[j].runtime /\ x.pc = "drain"
  <2>1. jobs[j] \in JobState
    BY <1>2, Holding
  <2>2. "begin" \in Operation /\ "drain" \in PC /\ candidate \in BOOLEAN
    BY DEF Operation, PC, Held
  <2> HIDE DEF candidate
  <2> QED
    BY <2>1, <2>2 DEF JobState
<1>6. sound \/ Raised(stack)
  BY <1>4 DEF ErrorsSurface
<1>7. s.phase = "begun" /\ s.sound = sound
  OBVIOUS
<1>8. Checked - 1 \in Int /\ Checked = (Checked - 1) + 1 /\ Checked - 1 >= 0
  BY DEF Checked
<1> HIDE DEF s, sound, x, stack
<1>9. /\ scopes' \in Seq(BOOLEAN)
      /\ \E y \in JobState :
            /\ jobs' = [jobs EXCEPT ![j] = y]
            /\ y.runtime = x.runtime /\ y.pc = "drain"
            /\ Len(scopes') = Owed(y)
            /\ x.dirty \/ Raised(stack) => y.dirty \/ Raised(scopes')
  BY <1>1, <1>4, <1>5, <1>8, PoppingCaptures
<1>10. PICK y \in JobState :
           /\ jobs' = [jobs EXCEPT ![j] = y]
           /\ y.runtime = x.runtime /\ y.pc = "drain"
           /\ Len(scopes') = Owed(y)
           /\ x.dirty \/ Raised(stack) => y.dirty \/ Raised(scopes')
  BY <1>9, Zenon
<1>11. Settles(y, s, scopes')
  BY <1>6, <1>7, <1>10, Zenon DEF Settles, Working
<1>12. y.pc \in Held /\ resident' # "unsound" /\ s.phase # "ready"
  BY <1>1, <1>7, <1>10 DEF Held, ErrorsSurface
<1> QED
  BY <1>1, <1>2, <1>5, <1>9, <1>10, <1>11, <1>12, ErrorsRecord

LEMMA SubmitErrors ==
    ASSUME RuntimeCount = 1, Inv, ErrorsSurface, NEW j \in Job,
           NEW o \in Operation, NEW hit \in Hit, Submit(j, o, hit)
    PROVE  ErrorsSurface'
<1> DEFINE r == jobs[j].runtime
           z == [session[r] EXCEPT !.phase = "poisoned"]
           b == [session EXCEPT ![r] = z]
           sound == z.sound /\ hit = 0
           s == [z EXCEPT !.sound = sound]
<1>1. /\ jobs[j].pc = "call" /\ GotoIn(j, o, "gpu")
      /\ session[r].phase = "ready" /\ scopes' = Pushed(hit) /\ UNCHANGED resident
  BY DEF Submit, In, SessionOf
<1>2. jobs[j].pc \in Held /\ "gpu" \in Held /\ ~Working(jobs[j])
  BY <1>1 DEF Held, Working
<1>3. scopes = <<>>
  BY <1>2, NoScopeAtRest
<1>4. PICK y \in JobState : /\ jobs' = [jobs EXCEPT ![j] = y]
                            /\ y.runtime = r /\ y.pc = "gpu"
  BY <1>1, <1>2, GotoInMoves DEF Inv, Types
<1>5. session' = [b EXCEPT ![r].sound = @ /\ hit = 0]
  BY Zenon DEF Submit
<1>6. r \in Runtime /\ session[r] \in SessionState
  BY <1>2, Holding
<1>7. session[r].sound
  BY <1>1, <1>6 DEF ErrorsSurface, ReadyIsSound
<1>8. z \in SessionState /\ z.phase = "poisoned" /\ z.sound = session[r].sound
  BY <1>6 DEF SessionState
<1> HIDE DEF z
<1>9. s \in SessionState /\ s.phase = "poisoned" /\ s.sound = sound
  <2>1. sound \in BOOLEAN
    BY Zenon
  <2> HIDE DEF sound
  <2> QED
    BY <1>8, <2>1 DEF SessionState
<1>10. hit = 0 => s.sound
  BY <1>7, <1>8, <1>9, Zenon
<1> HIDE DEF r
<1>11. b[r] = z /\ [b EXCEPT ![r] = s] = [session EXCEPT ![r] = s]
  BY <1>6, <1>8, <1>9, Twice, Zenon DEF Inv, Types
<1>12. session' = [b EXCEPT ![r] = s]
  BY <1>5, <1>11, Zenon
<1>13. session' = [session EXCEPT ![r] = s]
  BY <1>11, <1>12, Zenon
<1> HIDE DEF s
<1>14. /\ scopes' \in Seq(BOOLEAN) /\ Len(scopes') = Checked
       /\ hit # 0 => Raised(scopes')
  BY <1>1, <1>3, PushedRaises
<1>15. Settles(y, s, scopes')
  BY <1>4, <1>10, <1>14 DEF Settles, Working, Owed
<1>16. y.pc \in Held /\ resident' # "unsound" /\ s.phase # "ready"
  BY <1>1, <1>2, <1>4, <1>9 DEF ErrorsSurface
<1> QED
  BY <1>2, <1>4, <1>13, <1>14, <1>15, <1>16, ErrorsRecord DEF r

(* Read, Lose and Pop pop a scope of their own operation. *)
LEMMA DrainErrors ==
    ASSUME RuntimeCount = 1, Inv, ErrorsSurface, NEW j \in Job,
           jobs[j].pc \in Held, Working(jobs[j]),
           NEW x \in JobState, x.runtime = jobs[j].runtime, x.pc = "drain",
           jobs[j].dirty => x.dirty,
           NEW left \in Int, left >= 0, Owed(jobs[j]) = left + 1,
           Popping(j, x, left, scopes),
           NEW s, session' = [session EXCEPT ![jobs[j].runtime] = s],
           s.phase = SessionOf(j).phase, s.sound = SessionOf(j).sound,
           UNCHANGED resident
    PROVE  ErrorsSurface'
<1>1. /\ scopes \in Seq(BOOLEAN) /\ Len(scopes) = left + 1
      /\ SessionOf(j).sound \/ jobs[j].dirty \/ Raised(scopes)
  BY Zenon DEF ErrorsSurface, Settles
<1>2. /\ scopes' \in Seq(BOOLEAN)
      /\ \E y \in JobState :
            /\ jobs' = [jobs EXCEPT ![j] = y]
            /\ y.runtime = x.runtime /\ y.pc = "drain"
            /\ Len(scopes') = Owed(y)
            /\ x.dirty \/ Raised(scopes) => y.dirty \/ Raised(scopes')
  BY <1>1, PoppingCaptures
<1>3. PICK y \in JobState :
           /\ jobs' = [jobs EXCEPT ![j] = y]
           /\ y.runtime = x.runtime /\ y.pc = "drain"
           /\ Len(scopes') = Owed(y)
           /\ x.dirty \/ Raised(scopes) => y.dirty \/ Raised(scopes')
  BY <1>2, Zenon
<1>4. Settles(y, s, scopes')
  BY <1>1, <1>3, Zenon DEF Settles, Working
<1>5. y.pc \in Held /\ resident' # "unsound"
  BY <1>3 DEF Held, ErrorsSurface
<1>6. s.phase = "ready" => s.sound
  BY Holding DEF ErrorsSurface, ReadyIsSound, SessionOf
<1> QED
  BY <1>2, <1>3, <1>4, <1>5, <1>6, ErrorsRecord

LEMMA ReadErrors ==
    ASSUME RuntimeCount = 1, Inv, ErrorsSurface, NEW j \in Job,
           NEW o \in Operation, Read(j, o)
    PROVE  ErrorsSurface'
<1> DEFINE r == jobs[j].runtime
           committed == [begin |-> 0, prefill |-> PromptTokens,
                         select |-> SessionOf(j).tokens,
                         step |-> SessionOf(j).tokens + 1]
           s == [session[r] EXCEPT !.tokens = committed[o]]
           x == [jobs[j] EXCEPT !.op = o, !.pc = "drain"]
<1>1. /\ jobs[j].pc = "gpu" /\ session' = [session EXCEPT ![r] = s]
      /\ Popping(j, x, Checked - 1, scopes) /\ UNCHANGED resident
  BY DEF Read, In
<1>2. jobs[j].pc \in Held /\ Working(jobs[j])
  BY <1>1 DEF Held, Working
<1>3. session[r] \in SessionState /\ jobs[j] \in JobState
  BY <1>2, Holding
<1>4. s.phase = SessionOf(j).phase /\ s.sound = SessionOf(j).sound
  BY <1>3 DEF SessionState, SessionOf
<1>5. /\ x \in JobState /\ x.runtime = r /\ x.pc = "drain"
      /\ x.dirty = jobs[j].dirty
  BY <1>3 DEF JobState, PC, Held
<1>6. /\ Checked - 1 \in Int /\ Checked - 1 >= 0
      /\ Owed(jobs[j]) = (Checked - 1) + 1
  BY <1>1 DEF Checked, Owed
<1> HIDE DEF s, x
<1> QED
  BY <1>1, <1>2, <1>4, <1>5, <1>6, DrainErrors

(* The session is left as it is. *)
LEMMA DrainOnlyErrors ==
    ASSUME RuntimeCount = 1, Inv, ErrorsSurface, NEW j \in Job,
           jobs[j].pc \in Held, Working(jobs[j]),
           NEW x \in JobState, x.runtime = jobs[j].runtime, x.pc = "drain",
           jobs[j].dirty => x.dirty,
           NEW left \in Int, left >= 0, Owed(jobs[j]) = left + 1,
           Popping(j, x, left, scopes), UNCHANGED <<session, resident>>
    PROVE  ErrorsSurface'
<1> DEFINE s == session[jobs[j].runtime]
<1>1. session' = [session EXCEPT ![jobs[j].runtime] = s]
  BY Holding
<1>2. s.phase = SessionOf(j).phase /\ s.sound = SessionOf(j).sound
  BY DEF SessionOf
<1> HIDE DEF s
<1> QED
  BY <1>1, <1>2, DrainErrors

LEMMA LoseErrors ==
    ASSUME RuntimeCount = 1, Inv, ErrorsSurface, NEW j \in Job,
           NEW o \in Operation, Lose(j, o)
    PROVE  ErrorsSurface'
<1> DEFINE x == [jobs[j] EXCEPT !.op = o, !.pc = "drain", !.dirty = TRUE]
<1>1. /\ jobs[j].pc = "gpu" /\ Popping(j, x, Checked - 1, scopes)
      /\ UNCHANGED <<session, resident>>
  BY DEF Lose, In
<1>2. jobs[j].pc \in Held /\ Working(jobs[j])
  BY <1>1 DEF Held, Working
<1>3. jobs[j] \in JobState
  BY <1>2, Holding
<1>4. /\ x \in JobState /\ x.runtime = jobs[j].runtime /\ x.pc = "drain"
      /\ x.dirty
  BY <1>3 DEF JobState, PC, Held
<1>5. /\ Checked - 1 \in Int /\ Checked - 1 >= 0
      /\ Owed(jobs[j]) = (Checked - 1) + 1
  BY <1>1 DEF Checked, Owed
<1> HIDE DEF x
<1> QED
  BY <1>1, <1>2, <1>4, <1>5, DrainOnlyErrors

LEMMA PopErrors ==
    ASSUME RuntimeCount = 1, Inv, ErrorsSurface, NEW j \in Job,
           NEW o \in Operation, Pop(j, o)
    PROVE  ErrorsSurface'
<1> DEFINE left == jobs[j].left - 1
<1>1. /\ jobs[j].pc = "drain" /\ jobs[j].left > 0
      /\ Popping(j, jobs[j], left, scopes) /\ UNCHANGED <<session, resident>>
  BY DEF Pop, In
<1>2. jobs[j].pc \in Held /\ Working(jobs[j])
  BY <1>1 DEF Held, Working
<1>3. jobs[j] \in JobState
  BY <1>2, Holding
<1>4. left \in Int /\ left >= 0 /\ Owed(jobs[j]) = left + 1
  BY <1>1, <1>3 DEF JobState, Owed
<1> HIDE DEF left
<1> QED
  BY <1>1, <1>2, <1>3, <1>4, DrainOnlyErrors

(* An operation without a captured error has popped all its scopes and     *)
(* raised none: its session may be ready.                                  *)
LEMMA CleanIsSound ==
    ASSUME ErrorsSurface, NEW j \in Job, jobs[j].pc = "drain",
           jobs[j].left = 0, ~jobs[j].dirty
    PROVE  scopes = <<>> /\ SessionOf(j).sound
<1>1. jobs[j].pc \in Held /\ Working(jobs[j])
  BY DEF Held, Working
<1>2. scopes = <<>>
  BY <1>1, NoScopeAtRest
<1>3. ~Raised(scopes)
  BY <1>2 DEF Raised
<1>4. SessionOf(j).sound \/ jobs[j].dirty \/ Raised(scopes)
  BY <1>1, Zenon DEF ErrorsSurface, Settles
<1> QED
  BY <1>2, <1>3, <1>4, Zenon

LEMMA ReadyErrors ==
    ASSUME RuntimeCount = 1, Inv, ErrorsSurface, NEW j \in Job,
           jobs[j].pc = "drain", jobs[j].left = 0, ~jobs[j].dirty, Ready(j),
           NEW x, x.runtime = jobs[j].runtime, x.pc \in {"call", "cleanup"},
           jobs' = [jobs EXCEPT ![j] = x],
           UNCHANGED scopes, resident' # "unsound"
    PROVE  ErrorsSurface'
<1> DEFINE s == [session[jobs[j].runtime] EXCEPT !.phase = "ready"]
<1>1. jobs[j].pc \in Held /\ x.pc \in Held /\ ~Working(x)
  BY DEF Held, Working
<1>2. scopes = <<>> /\ SessionOf(j).sound
  BY CleanIsSound
<1>3. s.sound
  <2>1. session[jobs[j].runtime] \in SessionState
    BY <1>1, Holding
  <2> QED
    BY <1>2, <2>1 DEF SessionState, SessionOf
<1>4. session' = [session EXCEPT ![jobs[j].runtime] = s]
  BY DEF Ready
<1>5. scopes' \in Seq(BOOLEAN) /\ scopes' = <<>>
  BY <1>2
<1> HIDE DEF s
<1>6. Settles(x, s, scopes')
  BY <1>1, <1>5 DEF Settles
<1> QED
  BY <1>1, <1>3, <1>4, <1>5, <1>6, ErrorsRecord

(* Weights become resident only after a begin that raised no error. *)
LEMMA BegunErrors ==
    ASSUME RuntimeCount = 1, Inv, ErrorsSurface, NEW j \in Job, Begun(j)
    PROVE  ErrorsSurface'
<1>1. /\ jobs[j].pc = "drain" /\ jobs[j].left = 0 /\ ~jobs[j].dirty
      /\ Ready(j) /\ GotoIn(j, "prefill", "call") /\ UNCHANGED scopes
  BY DEF Begun, Drained, In
<1>2. "call" \in Held /\ "prefill" \in Operation
  BY DEF Held, Operation
<1>3. PICK y \in JobState : /\ jobs' = [jobs EXCEPT ![j] = y]
                            /\ y.runtime = jobs[j].runtime /\ y.pc = "call"
  BY <1>1, <1>2, GotoInMoves DEF Inv, Types
<1>4. SessionOf(j).sound
  BY <1>1, CleanIsSound
<1>5. resident' # "unsound"
  BY <1>4 DEF Begun, ErrorsSurface
<1> QED
  BY <1>1, <1>3, <1>5, ReadyErrors

LEMMA IterateErrors ==
    ASSUME RuntimeCount = 1, Inv, ErrorsSurface, NEW j \in Job,
           jobs[j].pc = "drain", jobs[j].left = 0, ~jobs[j].dirty, Ready(j),
           NEW tokens \in Int,
           Iterate(j, [jobs[j] EXCEPT !.cacheTokens = tokens]),
           UNCHANGED <<scopes, resident>>
    PROVE  ErrorsSurface'
<1> DEFINE x == [jobs[j] EXCEPT !.cacheTokens = tokens]
           on == [x EXCEPT !.op = "select", !.pc = "call"]
           end == [x EXCEPT !.pc = "cleanup"]
<1>1. x \in JobState /\ x.runtime = jobs[j].runtime
  BY Holding DEF JobState, Held
<1>2. jobs' = [jobs EXCEPT ![j] = on] \/ jobs' = [jobs EXCEPT ![j] = end]
  BY Zenon DEF Iterate
<1> HIDE DEF x
<1>3. /\ on.runtime = x.runtime /\ on.pc = "call"
      /\ end.runtime = x.runtime /\ end.pc = "cleanup"
  BY <1>1 DEF JobState
<1>4. resident' # "unsound"
  BY DEF ErrorsSurface
<1> HIDE DEF on, end
<1> QED
  BY <1>1, <1>2, <1>3, <1>4, ReadyErrors

LEMMA SelectedMoves ==
    ASSUME jobs \in [Job -> JobState], NEW j \in Job, Selected(j)
    PROVE  \E y : /\ jobs' = [jobs EXCEPT ![j] = y]
                  /\ y.runtime = jobs[j].runtime /\ y.pc \in {"call", "cleanup"}
<1>1. PICK pc \in {"cleanup", "call"} :
         jobs' = [jobs EXCEPT ![j].selected = @ + 1, ![j].op = "step", ![j].pc = pc]
  BY DEF Selected
<1>2. pc \in PC
  BY DEF PC, Held
<1> DEFINE y == jobs'[j]
<1>3. y.runtime = jobs[j].runtime /\ y.pc = pc
  BY <1>1, <1>2 DEF JobState
<1>4. jobs' = [jobs EXCEPT ![j] = y]
  BY <1>1
<1> QED
  BY <1>3, <1>4

LEMMA SelectedErrors ==
    ASSUME RuntimeCount = 1, Inv, ErrorsSurface, NEW j \in Job, Selected(j)
    PROVE  ErrorsSurface'
<1>1. /\ jobs[j].pc = "drain" /\ jobs[j].left = 0 /\ ~jobs[j].dirty
      /\ Ready(j) /\ UNCHANGED <<scopes, resident>>
  BY DEF Selected, Drained, In
<1>2. PICK y : /\ jobs' = [jobs EXCEPT ![j] = y]
               /\ y.runtime = jobs[j].runtime /\ y.pc \in {"call", "cleanup"}
  BY SelectedMoves DEF Inv, Types
<1>3. resident' # "unsound"
  BY <1>1 DEF ErrorsSurface
<1> QED
  BY <1>1, <1>2, <1>3, ReadyErrors

LEMMA PrefilledErrors ==
    ASSUME RuntimeCount = 1, Inv, ErrorsSurface, NEW j \in Job, Prefilled(j)
    PROVE  ErrorsSurface'
<1>1. PromptTokens \in Int
  BY PromptTokensIsPositive
<1> QED
  BY <1>1, IterateErrors DEF Prefilled, Drained, In

LEMMA SteppedErrors ==
    ASSUME RuntimeCount = 1, Inv, ErrorsSurface, NEW j \in Job, Stepped(j)
    PROVE  ErrorsSurface'
<1> DEFINE tokens == jobs[j].cacheTokens + 1
<1>1. /\ jobs[j].pc = "drain" /\ jobs[j].left = 0 /\ ~jobs[j].dirty
      /\ Ready(j) /\ Iterate(j, [jobs[j] EXCEPT !.cacheTokens = tokens])
      /\ UNCHANGED <<scopes, resident>>
  BY DEF Stepped, Drained, In
<1>2. jobs[j] \in JobState
  BY DEF Inv, Types
<1>3. tokens \in Int
  BY <1>2 DEF JobState
<1> HIDE DEF tokens
<1> QED
  BY <1>1, <1>3, IterateErrors

LEMMA VisionErrors ==
    ASSUME RuntimeCount = 1, Inv, ErrorsSurface, NEW j \in Job, Vision(j)
    PROVE  ErrorsSurface'
<1>1. /\ jobs[j].pc = "vision" /\ GotoIn(j, "begin", "call")
      /\ UNCHANGED <<session, resident, scopes>>
  BY DEF Vision, At
<1>2. /\ "begin" \in Operation /\ "call" \in Held /\ jobs[j].pc \in Held
      /\ ~Working(jobs[j])
  BY <1>1 DEF Operation, Held, Working
<1>3. PICK y \in JobState : /\ jobs' = [jobs EXCEPT ![j] = y]
                            /\ y.runtime = jobs[j].runtime /\ y.pc = "call"
  BY <1>1, <1>2, GotoInMoves DEF Inv, Types
<1>4. scopes' = <<>> /\ scopes' \in Seq(BOOLEAN)
  <2>1. scopes = <<>>
    BY <1>1, <1>2, NoScopeAtRest
  <2> QED
    BY <1>1, <2>1
<1>5. Settles(y, SessionOf(j), scopes')
  BY <1>3, <1>4 DEF Settles, Working
<1> QED
  BY <1>1, <1>2, <1>3, <1>4, <1>5, ErrorsJob

(* A recognition that failed goes to its finally clause without a scope. *)
LEMMA CleanupAheadErrors ==
    ASSUME RuntimeCount = 1, Inv, ErrorsSurface, NEW j \in Job,
           FailStarted(j) \/ \E o \in Operation : Reject(j, o)
    PROVE  ErrorsSurface'
<1> DEFINE y == [jobs[j] EXCEPT !.pc = "cleanup"]
<1>1. /\ jobs[j].pc \in Held /\ "cleanup" \in Held
      /\ ~Working(jobs[j]) \/ (jobs[j].pc = "drain" /\ jobs[j].left = 0)
      /\ Goto(j, "cleanup") /\ UNCHANGED <<session, resident, scopes>>
  BY DEF FailStarted, Reject, Drained, In, Held, Working
<1>2. y \in JobState /\ y.runtime = jobs[j].runtime /\ y.pc = "cleanup"
  BY <1>1, Holding, GotoMoves
<1>3. jobs' = [jobs EXCEPT ![j] = y]
  BY <1>1 DEF Goto
<1>4. scopes' = <<>> /\ scopes' \in Seq(BOOLEAN)
  <2>1. scopes = <<>>
    BY <1>1, NoScopeAtRest
  <2> QED
    BY <1>1, <2>1
<1> HIDE DEF y
<1>5. Settles(y, SessionOf(j), scopes')
  BY <1>2, <1>4 DEF Settles, Working
<1> QED
  BY <1>1, <1>2, <1>3, <1>4, <1>5, ErrorsJob

LEMMA ReleasingErrors ==
    ASSUME RuntimeCount = 1, Inv, ErrorsSurface, NEW j \in Job,
           FailUnstarted(j) \/ RejectBegin(j) \/ Cleanup(j)
    PROVE  ErrorsSurface'
<1>1. CASE FailUnstarted(j)
  <2>1. /\ jobs[j].pc \in Held /\ ~Working(jobs[j]) /\ Released(j, "failed")
        /\ UNCHANGED <<scopes, resident, session>>
    BY <1>1 DEF FailUnstarted, At, In, Held, Working
  <2> QED
    BY <2>1, ErrorsReleased
<1>2. CASE RejectBegin(j)
  <2> DEFINE s == [session[jobs[j].runtime] EXCEPT !.phase = "poisoned"]
  <2>1. /\ jobs[j].pc \in Held /\ jobs[j].pc = "drain" /\ jobs[j].left = 0
        /\ Released(j, "failed") /\ UNCHANGED <<scopes, resident>>
        /\ session' = [session EXCEPT ![jobs[j].runtime] = s]
    BY <1>2 DEF RejectBegin, Drained, In, Held
  <2>2. s.phase = "poisoned"
    BY <2>1, Holding, PhaseMoves
  <2> HIDE DEF s
  <2> QED
    BY <2>1, <2>2, ErrorsReleased
<1>3. CASE Cleanup(j)
  <2>1. /\ jobs[j].pc \in Held /\ ~Working(jobs[j]) /\ Released(j, "done")
        /\ UNCHANGED <<scopes, resident>>
        /\ session' = [session EXCEPT ![jobs[j].runtime] = Free]
    BY <1>3 DEF Cleanup, At, Held, Working
  <2>2. Free.phase # "ready"
    BY DEF Free
  <2> HIDE DEF Free
  <2> QED
    BY <2>1, <2>2, ErrorsReleased
<1> QED
  BY <1>1, <1>2, <1>3

(* A runtime that is free leaves nobody at work. *)
LEMMA RecognizeErrors ==
    ASSUME RuntimeCount = 1, Inv, ErrorsSurface, NEW j \in Job, Recognize(j)
    PROVE  ErrorsSurface'
<1>1. /\ jobs[j].pc = "new" /\ UNCHANGED <<session, resident, scopes>>
      /\ \/ jobs'[j].pc \in {"failed", "waiting"}
         \/ jobs'[j].pc = "vision" /\ available # <<>>
      /\ \A i \in Job \ {j} : jobs'[i] = jobs[i]
  BY RecognizeMoves DEF Recognize
<1>2. jobs[j].pc \notin Held /\ jobs'[j].pc \in Held => jobs'[j].pc = "vision"
  BY <1>1 DEF Held
<1>3. available # <<>> => \A i \in Job : jobs[i].pc \notin Held
  <2> SUFFICES ASSUME available # <<>>, NEW i \in Job, jobs[i].pc \in Held
               PROVE  FALSE
    OBVIOUS
  <2>1. jobs[i].runtime = 1 /\ Runtime = {1}
    BY OthersAreIdle
  <2>2. 1 \in DOMAIN available /\ available[1] = 1
    BY <2>1 DEF Inv, Types
  <2> QED
    BY <2>1, <2>2 DEF Inv, FreeIsFree
<1>4. \A i \in Job : jobs'[i].pc \in Held =>
                        Settles(jobs'[i], session'[jobs'[i].runtime], scopes')
  <2> SUFFICES ASSUME NEW i \in Job, jobs'[i].pc \in Held
               PROVE  Settles(jobs'[i], session'[jobs'[i].runtime], scopes')
    OBVIOUS
  <2>1. CASE i = j
    <3>1. jobs'[i].pc = "vision" /\ scopes = <<>>
      BY <1>1, <1>2, <1>3, <2>1 DEF ErrorsSurface, Held
    <3> QED
      BY <1>1, <3>1 DEF Settles, Working
  <2>2. CASE i # j
    BY <1>1, <2>2 DEF ErrorsSurface, SessionOf
  <2> QED
    BY <2>1, <2>2
<1>5. (\A i \in Job : jobs'[i].pc \notin Held) => scopes' = <<>>
  BY <1>1 DEF ErrorsSurface, Held
<1> QED
  BY <1>1, <1>4, <1>5 DEF ErrorsSurface, ReadyIsSound, SessionOf

LEMMA InitErrors == Init => ErrorsSurface
<1> SUFFICES ASSUME Init PROVE ErrorsSurface
  OBVIOUS
<1>1. scopes = <<>> /\ scopes \in Seq(BOOLEAN) /\ resident = "none"
  BY DEF Init
<1>2. \A j \in Job : jobs[j].pc \notin Held
  BY DEF Init, NewJob, Held
<1>3. ReadyIsSound
  BY DEF Init, Free, ReadyIsSound
<1> QED
  BY <1>1, <1>2, <1>3 DEF ErrorsSurface

LEMMA RunsErrors ==
    ASSUME RuntimeCount = 1, Inv, ErrorsSurface, NEW j \in Job, Runs(j)
    PROVE  ErrorsSurface'
<1>1. CASE Vision(j)
  BY <1>1, VisionErrors
<1>2. CASE FailUnstarted(j) \/ RejectBegin(j) \/ Cleanup(j)
  BY <1>2, ReleasingErrors
<1>3. CASE FailStarted(j) \/ \E o \in Operation : Reject(j, o)
  BY <1>3, CleanupAheadErrors
<1>4. ASSUME NEW hit \in Hit, Begin(j, hit) PROVE ErrorsSurface'
  BY <1>4, BeginErrors
<1>5. ASSUME NEW o \in Operation, NEW hit \in Hit, Submit(j, o, hit)
      PROVE  ErrorsSurface'
  BY <1>5, SubmitErrors
<1>6. ASSUME NEW o \in Operation, Read(j, o) \/ Lose(j, o) \/ Pop(j, o)
      PROVE  ErrorsSurface'
  BY <1>6, ReadErrors, LoseErrors, PopErrors
<1>7. CASE Begun(j) \/ Prefilled(j) \/ Selected(j) \/ Stepped(j)
  BY <1>7, BegunErrors, PrefilledErrors, SelectedErrors, SteppedErrors
<1> QED
  BY <1>1, <1>2, <1>3, <1>4, <1>5, <1>6, <1>7, Zenon DEF Runs

LEMMA NextErrors ==
    ASSUME RuntimeCount = 1
    PROVE  Inv /\ ErrorsSurface /\ [Next]_vars => ErrorsSurface'
<1> SUFFICES ASSUME Inv, ErrorsSurface, [Next]_vars PROVE ErrorsSurface'
  OBVIOUS
<1>1. CASE Dispose \/ UNCHANGED vars
  <2>1. UNCHANGED <<jobs, session, resident, scopes>>
    BY <1>1 DEF Dispose, vars
  <2> QED
    BY <2>1, Zenon DEF ErrorsSurface, ReadyIsSound, SessionOf
<1>2. ASSUME NEW j \in Job, Recognize(j) \/ Runs(j) PROVE ErrorsSurface'
  BY <1>2, RecognizeErrors, RunsErrors
<1> QED
  BY <1>1, <1>2, Zenon DEF Next

(* With one runtime (profile.maxParallelism = 1) no decoder session that   *)
(* can be used, and no resident weights, come from an operation that       *)
(* raised a GPU error, whichever of its scopes the error is in: the        *)
(* promise of decoder_stack_session.rs:8-9 holds.  It does not for more    *)
(* runtimes, which share the device's scopes.                              *)
THEOREM OneRuntimeIsSound ==
    ASSUME RuntimeCount = 1
    PROVE  Spec => []ReadyIsSound
<1>1. ErrorsSurface => ReadyIsSound
  BY DEF ErrorsSurface
<1>2. Inv /\ ErrorsSurface /\ [Next]_vars => ErrorsSurface'
  BY NextErrors
<1> QED
  BY <1>1, <1>2, InitErrors, InvHolds, PTL DEF Spec
=============================================================================
