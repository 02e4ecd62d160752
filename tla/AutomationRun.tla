---------------------------- MODULE AutomationRun ----------------------------
(***************************************************************************)
(* What the workflow engine promises of its runs, whatever crashes,        *)
(* repeats, cancellations and restarts lie behind: the steps of a run take *)
(* effect in the order of its script, none is passed over, and a run is    *)
(* reported a success when all of them have.  A repeat of a step that has  *)
(* taken effect before is no step of this specification.                   *)
(* DelayedJobQueue implements it (ImplementsAutomation there).             *)
(***************************************************************************)
EXTENDS Naturals

CONSTANTS
  Run,          \* dispatches of a workflow for a record
  Effects,      \* [Run -> SUBSET Nat]: positions of the steps with an effect
  MayStopEarly  \* runs that may be reported a success before their last step

VARIABLES
  performed,    \* [Run -> SUBSET Nat]: steps that have taken effect
  succeeded     \* runs reported a success

vars == <<performed, succeeded>>

Init ==
  /\ performed = [q \in Run |-> {}]
  /\ succeeded = {}

\* The first step of q that has not taken effect yet does.
Perform(q) ==
  /\ \E i \in Effects[q] \ performed[q] :
       /\ \A j \in Effects[q] : j < i => j \in performed[q]
       /\ performed' = [performed EXCEPT ![q] = @ \cup {i}]
  /\ UNCHANGED succeeded

Succeed(q) ==
  /\ Effects[q] \subseteq performed[q] \/ q \in MayStopEarly
  /\ succeeded' = succeeded \cup {q}
  /\ UNCHANGED performed

Next == \E q \in Run : Perform(q) \/ Succeed(q)

Spec == Init /\ [][Next]_vars
=============================================================================
