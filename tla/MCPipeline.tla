----------------------------- MODULE MCPipeline -----------------------------
(***************************************************************************)
(* Instances of Pipeline for TLC.  Every cfg gives the sets their model    *)
(* values; the ids and the batches are interchangeable.                    *)
(***************************************************************************)
EXTENDS Pipeline, TLC

Symmetry == Permutations(Worker) \union Permutations(Sched)

\* Bound that loses nothing: once every row has been hit by a late write the
\* properties claim nothing about any later state.
SomeCovered == clobbered # Notif

\* The same for the properties that also except overtaken messages.
SomeRegular == clobbered \union overtaken # Notif
=============================================================================
