-------------------------- MODULE MCServiceInstance --------------------------
(***************************************************************************)
(* Small instances of ServiceInstance for TLC: the configurations and the  *)
(* sets of requests its runs choose from.                                  *)
(***************************************************************************)
EXTENDS ServiceInstance, TLC

CONSTANTS s1, p1, p2, p3, n0, n1, i1, i2, h1, h2,
          d1, spaced,           \* parameters; "spaced" is d1 with white space
          inN0, inN1, bad       \* contexts: a namespace each, and a bad one

MCServices == {s1}
MCPlans == {p1, p2, p3}
MCDocs == {d1, spaced, inN0, inN1, bad}
MCCompact == [d \in MCDocs |-> IF d = spaced THEN d1 ELSE d]
MCNamespaceOf == [d \in MCDocs |-> CASE d = inN0 -> n0
                                     [] d = inN1 -> n1
                                     [] d = bad -> Malformed
                                     [] OTHER -> None]

TwoNamespaces == {n0, n1}
OneInstance == {i1}
TwoInstances == {i1, i2}
OneHandler == {h1}
TwoHandlers == {h1, h2}
HandlerSymmetry == Permutations(Handlers)

MCPairs == MCServices \X MCPlans

(* p2 is not in the catalog, p3 was not bought. *)
P1P3 == {<<s1, p1>>, <<s1, p3>>}
P1P2 == {<<s1, p1>>, <<s1, p2>>}

MCSchema == [x \in MCPairs \X {"create", "update"} |-> {None, d1, spaced}]
StrictSchema == [x \in MCPairs \X {"create", "update"} |->
                    IF x[2] = "create" THEN {None, d1} ELSE {None, spaced}]
NoService == {}

BrokerLocal == [sp \in MCPairs |-> "BrokerLocal"]
InstanceLocal == [sp \in MCPairs |-> "InstanceLocal"]
Mixed == [sp \in MCPairs |->
            IF sp[2] = p1 THEN "InstanceLocal" ELSE "Explicit"]
MCRegistryNamespace == [sp \in MCPairs |-> IF sp[2] = p1 THEN n0 ELSE n1]

Req(type, i, plan, context, params) ==
    [type |-> type, async |-> TRUE, instance |-> i,
     service |-> IF plan = None THEN None ELSE s1,
     plan |-> plan, context |-> context, params |-> params, op |-> 0]

Update(i, plan, params) ==
    [Req("update", i, p1, None, params) EXCEPT !.plan = plan]

(* The requests of a well-behaved client of one instance.  *)
Lifecycle(i, context) ==
    {Req("create", i, p1, context, None), Req("delete", i, p1, None, None),
     Req("poll", i, None, None, None)}

(* With updates that are valid and that are not, and no namespace.         *)
OperationRequests ==
    Lifecycle(i1, None) \cup
    {Update(i1, None, spaced), Update(i1, p3, bad), Req("create", i1, p1, bad, None)}

(* The requests on an instance outside the broker's namespace, and those   *)
(* that are refused for their plan.                                        *)
LifecycleRequests ==
    Lifecycle(i1, inN1) \cup
    {Update(i1, None, d1), Req("delete", i1, p2, None, None),
     Req("read", i1, None, None, None)}

RestartRequests == Lifecycle(i1, None) \cup {Update(i1, None, d1)}

(* Two instances, one in the namespace of its context and one in that of  *)
(* its plan.                                                               *)
DirectoryRequests ==
    {Req("create", i1, p1, inN1, None), Req("create", i1, p1, inN0, None),
     Req("create", i2, p2, inN0, None),
     Req("delete", i1, p1, None, None), Req("delete", i2, p2, None, None),
     [Req("create", i2, p2, inN0, None) EXCEPT !.async = FALSE],
     Req("read", i1, None, None, None)}

(* An instance outside the broker's namespace. *)
CreateDeletePoll ==
    {Req("create", i1, p1, inN1, None), Req("delete", i1, p1, None, None),
     Req("delete", i1, p2, None, None), Req("poll", i1, None, None, None)}
=============================================================================
