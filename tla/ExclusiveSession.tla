------------------------- MODULE ExclusiveSession -------------------------
(***************************************************************************)
(* What AsyncSessionOwner promises its users: a slot that holds at most    *)
(* one session, lends it to at most one asynchronous caller, and, once the *)
(* session was cancelled while lent, never takes it back.  A caller whose  *)
(* session was detached keeps it as an orphan that it can only drop.       *)
(***************************************************************************)
CONSTANTS Session,    \* the payload objects
          NoSession   \* the value of an empty slot, not in Session

VARIABLES phase,      \* "idle", "stored", "lent" or "doomed"
          current,    \* the session of the open generation, or NoSession
          orphans     \* the sessions kept by callers of cancelled generations

vars == <<phase, current, orphans>>

TypeOK ==
    /\ phase \in {"idle", "stored", "lent", "doomed"}
    /\ current \in Session \cup {NoSession}
    /\ orphans \subseteq Session

Init ==
    /\ phase = "idle"
    /\ current = NoSession
    /\ orphans = {}

(* A new session enters the empty slot. *)
Open(s) ==
    /\ phase = "idle"
    /\ s \notin orphans
    /\ phase' = "stored"
    /\ current' = s
    /\ UNCHANGED orphans

(* The slot lends its session to an asynchronous operation. *)
Lend ==
    /\ phase = "stored"
    /\ phase' = "lent"
    /\ UNCHANGED <<current, orphans>>

(* The operation gives the session back for further use. *)
Return ==
    /\ phase = "lent"
    /\ phase' = "stored"
    /\ UNCHANGED <<current, orphans>>

(* A cancellation arrives while the session is lent. *)
Doom ==
    /\ phase = "lent"
    /\ phase' = "doomed"
    /\ UNCHANGED <<current, orphans>>

(* The session is dropped: released, finished, or cancelled at completion. *)
Close ==
    /\ phase # "idle"
    /\ phase' = "idle"
    /\ current' = NoSession
    /\ UNCHANGED orphans

(* The slot is freed at once; the operation keeps the session it was lent. *)
Detach ==
    /\ phase \in {"lent", "doomed"}
    /\ phase' = "idle"
    /\ current' = NoSession
    /\ orphans' = orphans \cup {current}

(* A detached operation ends and drops its session. *)
DropOrphan(s) ==
    /\ s \in orphans
    /\ orphans' = orphans \ {s}
    /\ UNCHANGED <<phase, current>>

Next ==
    \/ \E s \in Session : Open(s)
    \/ Lend
    \/ Return
    \/ Doom
    \/ Close
    \/ Detach
    \/ \E s \in Session : DropOrphan(s)

Spec == Init /\ [][Next]_vars
=============================================================================
