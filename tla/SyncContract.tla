---------------------------- MODULE SyncContract ----------------------------
(***************************************************************************)
(* What the docstring of syncutil.sync promises a caller, without clock or  *)
(* retries.                                                                *)
(*                                                                         *)
(* A call is pending while the operation is attempted any number of times;  *)
(* it ends by returning an accepted outcome, by raising a terminal error,   *)
(* by what success_criteria itself raises, or by a Timeout that carries an  *)
(* outcome that settled nothing.                                            *)
(***************************************************************************)
EXTENDS SyncDecision

CONSTANTS Results, Errors

Outcomes == Results \cup Errors

VARIABLES status, accepts, breaks, terminal, outcome

criteria == <<accepts, breaks, terminal>>
vars == <<status, criteria, outcome>>

NoOutcome == "none"

Init ==
    /\ status = "idle"
    /\ accepts = {} /\ breaks = {}
    /\ terminal = {}
    /\ outcome = NoOutcome

Request ==
    /\ status = "idle"
    /\ status' = "pending"
    /\ accepts' \in SUBSET Outcomes /\ breaks' \in SUBSET Outcomes
    /\ terminal' \in SUBSET Errors
    /\ UNCHANGED outcome

\* An outcome that settles nothing is kept for the Timeout: never a result
\* the caller's criterion accepts or chokes on, never an error the caller calls terminal.
Unsettled(o) ==
    o \in Outcomes /\ o \notin (accepts \cup breaks) \cap Results /\ o \notin terminal

KeepTrying(o) ==
    /\ status = "pending"
    /\ Unsettled(o)
    /\ outcome' = o
    /\ UNCHANGED <<status, criteria>>

\* A terminal error is never a result, whatever success_criteria thinks of it.
Return(o) ==
    /\ status = "pending"
    /\ o \in accepts \ terminal
    /\ outcome' = o
    /\ status' = "returned"
    /\ UNCHANGED criteria

Raise(e) ==
    /\ status = "pending"
    /\ e \in terminal
    /\ outcome' = e
    /\ status' = "raised"
    /\ UNCHANGED criteria

Break(o) ==
    /\ status = "pending"
    /\ o \in breaks
    /\ outcome' = o
    /\ status' = "broken"
    /\ UNCHANGED criteria

GiveUp ==
    /\ status = "pending"
    /\ Unsettled(outcome)
    /\ status' = "timeout"
    /\ UNCHANGED <<criteria, outcome>>

Next ==
    \/ Request
    \/ \E o \in Outcomes : KeepTrying(o) \/ Return(o) \/ Raise(o) \/ Break(o)
    \/ GiveUp

Spec == Init /\ [][Next]_vars
=============================================================================
