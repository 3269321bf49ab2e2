------------------------------- MODULE Faults -------------------------------
(***************************************************************************)
(* The failures the handlers have to live with, drawn from one budget so   *)
(* that TLC's runs stay finite.  A crash kills a process between two of    *)
(* its calls (a SIGTERM is one too: it cancels the context of every later  *)
(* call).  A "postgres" or "redis" fault makes one call return an error;   *)
(* the server may or may not have executed it.                             *)
(***************************************************************************)
EXTENDS Naturals

CONSTANTS
    FaultKinds,     \* the kinds of fault this instance has
    MaxFaults       \* how many faults there are in one behaviour (a bound)

ASSUME FaultsAssumption ==
    /\ FaultKinds \subseteq {"crash", "postgres", "redis"}
    /\ MaxFaults \in Nat

VARIABLE faults     \* how many faults have happened

\* One fault of this kind happens in this step.
Fault(kind) ==
    /\ kind \in FaultKinds
    /\ faults < MaxFaults
    /\ faults' = faults + 1

\* A call that returned an error: its effect A is there or it is not.
Uncertain(A, vars) == A \/ UNCHANGED vars
=============================================================================
