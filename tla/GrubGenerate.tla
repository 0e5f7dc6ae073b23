----------------------------- MODULE GrubGenerate -----------------------------
(***************************************************************************)
(* Grub2.generateGrubConfig (src/grub2/grub2.go): each call increments the *)
(* package variable _GENERATE_ID, starts a goroutine that runs             *)
(* grub-mkconfig with a 30 second limit, and returns _GENERATE_ID.  The    *)
(* goroutine reports the outcome through the GrubConfGenerated signal,     *)
(* reading _GENERATE_ID again when it reports.  Calls are numbered 1..    *)
(* MaxCalls in the order they increment; the increment and the return are  *)
(* two steps of the caller, its goroutine finishes in a step of its own.  *)
(***************************************************************************)
EXTENDS Naturals

CONSTANT MaxCalls      \* bound on the number of calls

NoSignal == 0

VARIABLES
    generateId,   \* _GENERATE_ID
    worker,       \* [call -> "idle" | "running" | "done"]: its goroutine
    returned,     \* [call -> id returned to the caller, 0 before the call]
    signalled     \* [call -> id its goroutine emitted, NoSignal before]

vars == <<generateId, worker, returned, signalled>>

Calls == 1..MaxCalls

TypeOK ==
    /\ generateId \in 0..MaxCalls
    /\ worker \in [Calls -> {"idle", "running", "done"}]
    /\ returned \in [Calls -> 0..MaxCalls]
    /\ signalled \in [Calls -> 0..MaxCalls]

Init ==
    /\ generateId = 0
    /\ worker = [c \in Calls |-> "idle"]
    /\ returned = [c \in Calls |-> 0]
    /\ signalled = [c \in Calls |-> NoSignal]

\* The caller: _GENERATE_ID++ and go func(){...}().
GenerateGrubConfig(c) ==
    /\ worker[c] = "idle"
    /\ c = generateId + 1
    /\ generateId' = generateId + 1
    /\ worker' = [worker EXCEPT ![c] = "running"]
    /\ UNCHANGED <<returned, signalled>>

\* The caller again: return _GENERATE_ID, read anew after the goroutine
\* was started.
ReturnGenerateId(c) ==
    /\ worker[c] # "idle"
    /\ returned[c] = 0
    /\ returned' = [returned EXCEPT ![c] = generateId]
    /\ UNCHANGED <<generateId, worker, signalled>>

\* The goroutine: execAndWait returns (success, failure or the 30 second
\* timeout, all ending in one GrubConfGenerated call), and the signal
\* carries the value _GENERATE_ID has now.
ReportGenerated(c) ==
    /\ worker[c] = "running"
    /\ worker' = [worker EXCEPT ![c] = "done"]
    /\ signalled' = [signalled EXCEPT ![c] = generateId]
    /\ UNCHANGED <<generateId, returned>>

Next ==
    \E c \in Calls :
        GenerateGrubConfig(c) \/ ReturnGenerateId(c) \/ ReportGenerated(c)

\* execAndWait is bounded by its timeout, so a started goroutine gets to
\* report; calls are made by clients and are not forced.
Fairness == \A c \in Calls : WF_vars(ReportGenerated(c))

Spec == Init /\ [][Next]_vars /\ Fairness

-----------------------------------------------------------------------------
(* Properties.                                                             *)

=============================================================================
