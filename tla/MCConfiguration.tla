-------------------------- MODULE MCConfiguration --------------------------
(***************************************************************************)
(* Small instances of Configuration for TLC.                               *)
(***************************************************************************)
EXTENDS Configuration

CONSTANTS good, better, broken, g1, g2

MCSpecs == {good, better, broken}
MCVerdict == [s \in Specs |-> IF s = broken THEN "rejected" ELSE "valid"]

Req(open, headers, kind) == [open |-> open, headers |-> headers, kind |-> kind]

(* A request, a bind (it waits under the lock), /readyz, and a request that*)
(* is turned away.                                                         *)
MCRequests == {Req(FALSE, TRUE, "any"), Req(FALSE, TRUE, "bind"),
               Req(TRUE, FALSE, "any"), Req(FALSE, FALSE, "any")}
=============================================================================
