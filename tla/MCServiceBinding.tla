-------------------------- MODULE MCServiceBinding --------------------------
(***************************************************************************)
(* Small instances of ServiceBinding for TLC.                              *)
(***************************************************************************)
EXTENDS ServiceBinding

CONSTANTS s1, p1, p2, h1, h2, b1, d1

MCServices == {s1}
MCPlans == {p1, p2}
MCDocs == {d1}
MCCompact == [d \in MCDocs |-> d]
MCCatalog == MCServices \X MCPlans
OnlyP1 == {<<s1, p1>>}
MCSchema == [sp \in MCCatalog |-> {None}]

Req(type, b, plan, params) ==
    [type |-> type, binding |-> b, service |-> s1, plan |-> plan,
     context |-> None, params |-> params]

(* Binds and unbinds of one binding, as clients should send them. *)
BindUnbind == {Req("bind", b1, p1, None), Req("unbind", b1, p1, None)}

(* Also requests with another plan, and with parameters the schema does    *)
(* not allow.                                                              *)
AllRequests == BindUnbind \cup
    {Req("bind", b1, p2, None), Req("unbind", b1, p2, None),
     Req("bind", b1, p1, d1)}
=============================================================================
