---------------------------- MODULE AlertPromise ----------------------------
(***************************************************************************)
(* What the alert subsystem promises to the owner of an alert, whatever    *)
(* crashes, races and retries happen below: an alert fires at most once    *)
(* and only while armed; firing owes its owner a notice; messages are sent *)
(* only while the notice is owed; and the notice is settled once.          *)
(***************************************************************************)
EXTENDS Naturals

CONSTANT AlertIds

VARIABLES
    phase,      \* "absent" | "armed" | "paused" | "fired" | "gone"
    notice,     \* "none" | "owed" | "given" | "dropped"
    messages    \* messages the owner got about the alert

promiseVars == <<phase, notice, messages>>

PromiseInit ==
    /\ phase = [a \in AlertIds |-> "absent"]
    /\ notice = [a \in AlertIds |-> "none"]
    /\ messages = [a \in AlertIds |-> 0]

Move(a, from, to) ==
    /\ phase[a] \in from
    /\ phase' = [phase EXCEPT ![a] = to]

\* The owner creates, pauses, resumes or deletes the alert.
Manage(a) ==
    /\ \/ Move(a, {"absent"}, "armed")
       \/ Move(a, {"armed"}, "paused")
       \/ Move(a, {"paused"}, "armed")
       \/ Move(a, {"armed", "paused", "fired"}, "gone")
    /\ UNCHANGED <<notice, messages>>

Fire(a) ==
    /\ Move(a, {"armed"}, "fired")
    /\ notice[a] = "none"
    /\ notice' = [notice EXCEPT ![a] = "owed"]
    /\ UNCHANGED messages

Message(a) ==
    /\ notice[a] = "owed"
    /\ messages' = [messages EXCEPT ![a] = @ + 1]
    /\ UNCHANGED <<phase, notice>>

\* "given" is only claimed after a message.
Settle(a) ==
    /\ notice[a] = "owed"
    /\ \/ messages[a] > 0 /\ notice' = [notice EXCEPT ![a] = "given"]
       \/ notice' = [notice EXCEPT ![a] = "dropped"]
    /\ UNCHANGED <<phase, messages>>

PromiseNext == \E a \in AlertIds : Manage(a) \/ Fire(a) \/ Message(a) \/ Settle(a)

PromiseSpec == PromiseInit /\ [][PromiseNext]_promiseVars

\* A notice that is owed is eventually settled.
FairPromise == PromiseSpec /\ \A a \in AlertIds : WF_promiseVars(Settle(a))
=============================================================================
