--------------------------- MODULE MCProvisioning ---------------------------
(***************************************************************************)
(* Small instances of Provisioning for TLC: two registries, a private and  *)
(* a shared template, with steps and without.                              *)
(***************************************************************************)
EXTENDS Provisioning

CONSTANTS r1, r2, j1, j2, private, shared, p1, p2

MCTemplates == {private, shared}
MCSingletons == {shared}
NoTemplate == {}
MCRender == [x \in MCTemplates \X Params |-> x[2]]

(* "templates" and "readinessChecks": one implicit step. *)
OneStep == <<[templates |-> <<shared, private>>, checks |-> <<private>>]>>

(* "steps": the shared object must be ready before the private one is made.*)
TwoSteps == <<[templates |-> <<shared>>, checks |-> <<shared>>],
              [templates |-> <<private>>, checks |-> << >>]>>

(* Both kinds of plan at once. *)
MixedSteps == [r \in Registries |-> IF r \in UseSteps THEN TwoSteps ELSE OneStep]
=============================================================================
