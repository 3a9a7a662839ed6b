--------------------------- MODULE ServiceBinding ---------------------------
(***************************************************************************)
(* The life of the bindings of one service instance:                       *)
(* handleCreateServiceBinding and handleDeleteServiceBinding of            *)
(* pkg/broker.                                                             *)
(*                                                                         *)
(* A bind is synchronous: the handler itself runs the Creator, completes   *)
(* the operation and ends it.  An unbind takes no operation: it deletes    *)
(* the registry of the binding, whatever goes on with it, and Kubernetes   *)
(* collects what the registry owns.                                        *)
(*                                                                         *)
(* As in ServiceInstance one action is one API call.  The instance is an   *)
(* environment that follows OperationLock, and its directory entry comes   *)
(* and goes before it.  A binding generates one object.                    *)
(***************************************************************************)
EXTENDS Registry

CONSTANTS
    Handlers,      \* request goroutines that may run at once
    Bindings,      \* service binding IDs
    Catalog,       \* the <<service, plan>> pairs of the configuration
    Bindable,      \* those that can be bound to
    Schema,        \* Schema[sp]: the parameters its binding schema allows
    InstancePlans, \* the <<service, plan>> pairs the instance may be of
    InstanceOps,   \* the operations that clients may start on the instance
    BrokerLocal,   \* the instance's registry is in the broker's namespace
    Requests,      \* the requests clients may send
    MaxRevision,   \* bound: writes of bindings before binds stop
    MaxInstance,   \* bound: writes of the instance before operations stop
    MaxFaults,     \* bound: API calls that may fail
    MaxCrashes     \* bound: broker crashes

ServicePlans == Services \X Plans

Request == [type    : {"bind", "unbind"},
            binding : Bindings,
            service : Services,
            plan    : Plans,
            context : Document,
            params  : Document]

ASSUME BindingAssumption ==
    /\ Catalog \subseteq ServicePlans /\ Bindable \subseteq Catalog
    /\ InstancePlans \subseteq Catalog
    /\ Schema \in [ServicePlans -> SUBSET Document]
    /\ InstanceOps \subseteq OpType
    /\ BrokerLocal \in BOOLEAN
    /\ Requests \subseteq Request /\ Requests # {}

ASSUME BoundAssumption ==
    MaxRevision \in Nat /\ MaxInstance \in Nat /\ MaxFaults \in Nat /\ MaxCrashes \in Nat

Labels == {"idle", "lookup", "instance", "open", "create", "start", "run",
           "complete", "end", "delete"}

(* A handler goroutine: found tells whether it looks for the registry in   *)
(* the right namespace, instance and entry are its cached entries.         *)
Handler == [pc       : Labels,
            req      : Request,
            found    : BOOLEAN,
            instance : Entry,
            entry    : Entry,
            error    : BOOLEAN]

Idle == [pc |-> "idle", req |-> CHOOSE r \in Requests : TRUE, found |-> FALSE,
         instance |-> Absent, entry |-> Absent, error |-> FALSE]

Codes == {200, 201, 400, 409, 410, 500}
Reply == [req : Request, code : Codes, uid : Nat]

VARIABLES
    instance,    \* the stored registry entry of the instance
    registered,  \* the directory has an entry for the instance
    secrets,     \* the stored registry entries of the bindings
    object,      \* object[b]: uid of the registry that owns b's object, or 0
    revision,    \* number of writes of bindings so far
    handler,     \* the request goroutines
    reply,       \* the responses this step writes: none or one
    runs,        \* the runs of Creator so far
    faults,      \* API calls that failed so far
    crashes      \* broker crashes so far

vars == <<instance, registered, secrets, object, revision, handler, reply,
          runs, faults, crashes>>

Run == [uid : Nat, opid : Nat, status : {"ok", "error"}]

(* The shape of the whole state. *)
TypeOK ==
    /\ instance \in Entry
    /\ registered \in BOOLEAN
    /\ secrets \in [Bindings -> Entry]
    /\ object \in [Bindings -> Nat]
    /\ revision \in Nat
    /\ handler \in [Handlers -> Handler]
    /\ reply \subseteq Reply
    /\ runs \subseteq Run
    /\ faults \in 0 .. MaxFaults
    /\ crashes \in 0 .. MaxCrashes

Init ==
    /\ instance = Absent
    /\ registered = FALSE
    /\ secrets = [b \in Bindings |-> Absent]
    /\ object = [b \in Bindings |-> 0]
    /\ revision = 0
    /\ handler = [h \in Handlers |-> Idle]
    /\ reply = {}
    /\ runs = {}
    /\ faults = 0
    /\ crashes = 0

-----------------------------------------------------------------------------
(* The instance.                                                           *)

(* Nobody compares versions of the instance here: its count starts anew    *)
(* with every incarnation.                                                 *)
StoreInstance(e) == instance' = Committed(e, instance.rv + 1)

(* A create request adds the directory entry, then the registry.           *)
InstanceCreate ==
    /\ ~instance.exists
    /\ registered' = TRUE
    /\ \E sp \in InstancePlans :
          StoreInstance([Absent EXCEPT !.service = sp[1], !.plan = sp[2]])

(* A delete request removes the directory entry before it even looks at    *)
(* the registry.                                                           *)
InstanceDeregister ==
    /\ "deprovision" \in InstanceOps
    /\ registered
    /\ registered' = FALSE
    /\ UNCHANGED instance

InstanceStart(type) ==
    /\ instance.rv < MaxInstance
    /\ instance.exists /\ ~StartRefused(instance)
    /\ type = "deprovision" => ~registered
    /\ StoreInstance(Start(instance, type, instance.rv + 1))
    /\ UNCHANGED registered

InstanceComplete(status) ==
    /\ instance.op \in {"provision", "update"} /\ instance.status = "unset"
    /\ StoreInstance(Complete(instance, status))
    /\ UNCHANGED registered

InstanceEnd ==
    /\ instance.status # "unset"
    /\ StoreInstance(End(instance))
    /\ UNCHANGED registered

InstanceDelete ==
    /\ instance.op = "deprovision"
    /\ instance' = Absent
    /\ UNCHANGED registered

InstanceStep ==
    /\ \/ InstanceCreate
       \/ InstanceDeregister
       \/ \E type \in InstanceOps : InstanceStart(type)
       \/ \E status \in {"ok", "error"} : InstanceComplete(status)
       \/ InstanceEnd
       \/ InstanceDelete
    /\ reply' = {}
    /\ UNCHANGED <<secrets, object, revision, handler, runs, faults, crashes>>

-----------------------------------------------------------------------------
(* Helpers of the handlers.                                                *)

Fates == {"ok", "lost", "noreply"}

Fate(fate) ==
    IF fate = "ok" THEN faults' = faults
                   ELSE faults < MaxFaults /\ faults' = faults + 1

Respond(h, code, uid) ==
    /\ handler' = [handler EXCEPT ![h] = Idle]
    /\ reply' = {[req |-> handler[h].req, code |-> code, uid |-> uid]}

Fail(h, code) == Respond(h, code, handler[h].entry.uid)

(* From here on the handler has no more use for the instance. *)
GotoWith(h, label, e) ==
    /\ handler' = [handler EXCEPT ![h] = [@ EXCEPT !.pc = label, !.entry = e,
                                                   !.instance = Absent]]
    /\ reply' = {}

SP(r) == <<r.service, r.plan>>

(* The checks of a bind before its first API call: validateServicePlan,    *)
(* verifyBindable and validateParameters.  An unbind has none.             *)
Admitted(r) == r.type = "bind" =>
    SP(r) \in Catalog /\ SP(r) \in Bindable /\ r.params \in Schema[SP(r)]

Receive(h, r) ==
    /\ handler[h].pc = "idle"
    /\ r.type = "bind" => revision < MaxRevision
    /\ \/ /\ Admitted(r)
          /\ handler' = [handler EXCEPT
                          ![h] = [@ EXCEPT !.pc = "lookup", !.req = r]]
          /\ reply' = {}
       \/ /\ ~Admitted(r)
          /\ reply' = {[req |-> r, code |-> 400, uid |-> 0]}
          /\ UNCHANGED handler
    /\ UNCHANGED <<instance, registered, secrets, object, revision, runs,
                   faults, crashes>>

(* getDirectoryInstance falls back on the broker's own namespace when the  *)
(* instance has no entry or the directory cannot be read.                  *)
GetDirectoryInstance(h, fate) ==
    /\ handler[h].pc = "lookup"
    /\ Fate(fate)
    /\ handler' = [handler EXCEPT
                     ![h] = [@ EXCEPT !.pc = "instance",
                                      !.found = BrokerLocal \/ (registered /\ fate = "ok")]]
    /\ reply' = {}
    /\ UNCHANGED <<instance, registered, secrets, object, revision, runs,
                   crashes>>

(* registry.New of the instance. *)
OpenInstance(h, fate) ==
    /\ handler[h].pc = "instance"
    /\ Fate(fate)
    /\ \/ fate # "ok" /\ Fail(h, 500)
       \/ /\ fate = "ok" /\ ~(handler[h].found /\ instance.exists)
          /\ Fail(h, 400)
       \/ /\ fate = "ok" /\ handler[h].found /\ instance.exists
          /\ handler' = [handler EXCEPT ![h] = [@ EXCEPT !.pc = "open",
                                                         !.instance = instance]]
          /\ reply' = {}
    /\ UNCHANGED <<instance, registered, secrets, object, revision, runs,
                   crashes>>

-----------------------------------------------------------------------------
(* Bind.                                                                   *)

(* Entry.Inherit copies every key of the instance, those of its operation  *)
(* too; context and parameters are then replaced.                          *)
Inherit(i, r) ==
    [Absent EXCEPT !.service = i.service, !.plan = i.plan,
                   !.op = i.op, !.opid = i.opid, !.status = i.status,
                   !.context = Marshal(r.context),
                   !.params = Marshal(r.params)]

Mismatched(e, r) == \/ SP(r) # <<e.service, e.plan>>
                    \/ e.context # r.context \/ e.params # r.params

(* Mutant of OpenBind: a repeated bind runs the Creator again.             *)
OpenBindAgain(h) ==
    /\ handler[h].pc = "open" /\ handler[h].req.type = "bind"
    /\ LET r == handler[h].req
           e == secrets[r.binding]
       IN  IF e.exists THEN GotoWith(h, "start", e)
           ELSE GotoWith(h, "create", Inherit(handler[h].instance, r))
    /\ UNCHANGED <<instance, registered, secrets, object, revision, runs,
                   faults, crashes>>

(* registry.New of the binding: an existing one is answered right away,    *)
(* with 200 even while it is being provisioned.                            *)
OpenBind(h) ==
    /\ handler[h].pc = "open" /\ handler[h].req.type = "bind"
    /\ LET r == handler[h].req
           e == secrets[r.binding]
       IN  \/ /\ e.exists
              /\ Mismatched(e, r) \/ e.op \in {"update", "deprovision"}
              /\ Respond(h, 409, e.uid)
           \/ /\ e.exists /\ ~Mismatched(e, r) /\ e.op \in {"none", "provision"}
              /\ Respond(h, 200, e.uid)
           \/ /\ ~e.exists
              /\ GotoWith(h, "create", Inherit(handler[h].instance, r))
    /\ UNCHANGED <<instance, registered, secrets, object, revision, runs,
                   faults, crashes>>

OpenFails(h) ==
    /\ handler[h].pc = "open"
    /\ Fate("lost")
    /\ Fail(h, 500)
    /\ UNCHANGED <<instance, registered, secrets, object, revision, runs,
                   crashes>>

(* An Entry.Commit of e by handler h that is given this fate: whether it   *)
(* takes effect, and its effect.                                           *)
Applied(h, e, fate) ==
    fate # "lost" /\ CommitAccepted(secrets[handler[h].req.binding], e)

Commit(h, e, fate) ==
    IF Applied(h, e, fate)
    THEN /\ secrets' = [secrets EXCEPT ![handler[h].req.binding] =
                            Committed(e, revision + 1)]
         /\ revision' = revision + 1
    ELSE UNCHANGED <<secrets, revision>>

(* The Commit of the new binding. *)
CommitBinding(h, fate) ==
    /\ handler[h].pc = "create"
    /\ Fate(fate)
    /\ LET e == handler[h].entry
       IN  /\ Commit(h, e, fate)
           /\ IF Applied(h, e, fate) /\ fate = "ok"
              THEN GotoWith(h, "start", Committed(e, revision + 1))
              ELSE Fail(h, 500)
    /\ UNCHANGED <<instance, registered, object, runs, crashes>>

(* Mutant: templates are found for every plan. *)
HasTemplatesAlways(e) == TRUE

(* getTemplateBinding finds the templates of the plan on record.  A valid  *)
(* configuration has templates for bindings of bindable plans only.        *)
HasTemplates(e) == <<e.service, e.plan>> \in Bindable

(* Creator.Prepare finds no templates, or cannot render them.              *)
PrepareFails(h) ==
    /\ handler[h].pc = "start"
    /\ \E code \in {400, 500} : Fail(h, code)
    /\ UNCHANGED <<instance, registered, secrets, object, revision, runs,
                   faults, crashes>>

(* operation.Start.                                                        *)
StartBinding(h, fate) ==
    /\ handler[h].pc = "start"
    /\ HasTemplates(handler[h].entry)
    /\ LET e == Start(handler[h].entry, "provision", revision + 1)
       IN  \/ /\ StartRefused(handler[h].entry) /\ fate = "ok"
              /\ Fail(h, 500)
              /\ UNCHANGED <<secrets, revision, faults>>
           \/ /\ ~StartRefused(handler[h].entry)
              /\ Fate(fate)
              /\ Commit(h, e, fate)
              /\ IF Applied(h, e, fate) /\ fate = "ok"
                 THEN GotoWith(h, "run", Committed(e, revision + 1))
                 ELSE Fail(h, 500)
    /\ UNCHANGED <<instance, registered, object, runs, crashes>>

(* Creator.run: createResource makes the object, owned by this entry; an   *)
(* object that is there already, or a barrier that times out, is an error. *)
RunCreator(h, fate) ==
    /\ handler[h].pc = "run"
    /\ Fate(fate)
    /\ LET b == handler[h].req.binding
           e == handler[h].entry
           created == object[b] = 0 /\ fate # "lost"
       IN  /\ object' = IF created THEN [object EXCEPT ![b] = e.uid] ELSE object
           /\ \E ready \in {created /\ fate = "ok", FALSE} :
                 /\ handler' = [handler EXCEPT
                                 ![h] = [@ EXCEPT !.pc = "complete",
                                                  !.error = ~ready]]
                 /\ runs' = runs \cup
                      {[uid |-> e.uid, opid |-> e.opid,
                        status |-> IF ready THEN "ok" ELSE "error"]}
    /\ reply' = {}
    /\ UNCHANGED <<instance, registered, secrets, revision, crashes>>

(* operation.Complete.  Its error is only logged: the cached entry has the *)
(* status, but an old version.                                             *)
CompleteBinding(h, fate) ==
    /\ handler[h].pc = "complete"
    /\ Fate(fate)
    /\ LET e == Complete(handler[h].entry,
                         IF handler[h].error THEN "error" ELSE "ok")
       IN  /\ Commit(h, e, fate)
           /\ GotoWith(h, "end", IF Applied(h, e, fate) /\ fate = "ok"
                                 THEN Committed(e, revision + 1) ELSE e)
    /\ UNCHANGED <<instance, registered, object, runs, crashes>>

(* operation.End and the response. *)
EndBinding(h, fate) ==
    /\ handler[h].pc = "end"
    /\ LET e == handler[h].entry
       IN  \/ /\ e.status = "unset" /\ fate = "ok"
              /\ Fail(h, 500)
              /\ UNCHANGED <<secrets, revision, faults>>
           \/ /\ e.status # "unset"
              /\ Fate(fate)
              /\ Commit(h, End(e), fate)
              /\ IF Applied(h, End(e), fate) /\ fate = "ok"
                 THEN Fail(h, IF e.status = "ok" THEN 201 ELSE 400)
                 ELSE Fail(h, 500)
    /\ UNCHANGED <<instance, registered, object, runs, crashes>>

-----------------------------------------------------------------------------
(* Unbind, and the rest of the system.                                     *)

OpenUnbind(h) ==
    /\ handler[h].pc = "open" /\ handler[h].req.type = "unbind"
    /\ LET r == handler[h].req
           e == secrets[r.binding]
       IN  \/ ~e.exists /\ Respond(h, 410, 0)
           \/ /\ e.exists /\ SP(r) # <<e.service, e.plan>>
              /\ Respond(h, 400, e.uid)
           \/ /\ e.exists /\ SP(r) = <<e.service, e.plan>>
              /\ GotoWith(h, "delete", e)
    /\ UNCHANGED <<instance, registered, secrets, object, revision, runs,
                   faults, crashes>>

(* Deleter.Run deletes by name.  Its error is only logged: the answer is   *)
(* 200 in any case.                                                        *)
DeleteBinding(h, fate) ==
    /\ handler[h].pc = "delete"
    /\ Fate(fate)
    /\ secrets' = IF fate = "lost" THEN secrets
                  ELSE [secrets EXCEPT ![handler[h].req.binding] = Absent]
    /\ Respond(h, 200, handler[h].entry.uid)
    /\ UNCHANGED <<instance, registered, object, revision, runs, crashes>>

Orphaned(b) == object[b] # 0 /\ object[b] # secrets[b].uid

(* Kubernetes collects an object whose owner, identified by UID, is gone.  *)
Collect(b) ==
    /\ Orphaned(b)
    /\ object' = [object EXCEPT ![b] = 0]
    /\ reply' = {}
    /\ UNCHANGED <<instance, registered, secrets, revision, handler, runs,
                   faults, crashes>>

Crash ==
    /\ crashes < MaxCrashes
    /\ crashes' = crashes + 1
    /\ handler' = [h \in Handlers |-> Idle]
    /\ reply' = {}
    /\ UNCHANGED <<instance, registered, secrets, object, revision, runs,
                   faults>>

-----------------------------------------------------------------------------
HandlerStep(h) ==
    \/ \E fate \in {"ok", "lost"} : GetDirectoryInstance(h, fate)
    \/ \E fate \in {"ok", "lost"} : OpenInstance(h, fate)
    \/ OpenBind(h)
    \/ OpenUnbind(h)
    \/ OpenFails(h)
    \/ \E fate \in Fates : CommitBinding(h, fate)
    \/ PrepareFails(h)
    \/ \E fate \in Fates : StartBinding(h, fate)
    \/ \E fate \in Fates : RunCreator(h, fate)
    \/ \E fate \in Fates : CompleteBinding(h, fate)
    \/ \E fate \in Fates : EndBinding(h, fate)
    \/ \E fate \in Fates : DeleteBinding(h, fate)

Next ==
    \/ InstanceStep
    \/ \E h \in Handlers, r \in Requests : Receive(h, r)
    \/ \E h \in Handlers : HandlerStep(h)
    \/ \E b \in Bindings : Collect(b)
    \/ Crash

Spec == Init /\ [][Next]_vars

(* Handlers run on, API calls return, and barriers time out. *)
FairSpec == Spec /\ \A h \in Handlers : WF_vars(HandlerStep(h))

-----------------------------------------------------------------------------
(* Safety.                                                                 *)

(* The Creator ran for incarnation uid and ended well. *)
Provisioned(uid) == \E x \in runs : x.uid = uid /\ x.status = "ok"

(* A bind is answered 201 Created only if the binding is stored and idle,  *)
(* this very incarnation of it was provisioned, and what it generated is   *)
(* still there: an unbind, a second bind under the same ID or a collection *)
(* that raced with it makes operation.End fail, so the client is told.     *)
CreatedIsUsable ==
    \A p \in reply :
        p.req.type = "bind" /\ p.code = 201 =>
            LET e == secrets[p.req.binding]
            IN  /\ e.exists /\ e.uid = p.uid /\ e.op = "none"
                /\ Provisioned(e.uid)
                /\ object[p.req.binding] = e.uid

(* The Creator runs at most once for an incarnation of a binding.          *)
RunOnce == \A x, y \in runs : x.uid = y.uid => x = y

(* catalog.adoc: an instance that cannot be bound to is not.  The request  *)
(* is checked against the plan it names, which need not be the plan of the *)
(* instance; what protects the instance is that Prepare then finds no      *)
(* templates.                                                              *)
UnbindableNotBound ==
    \A p \in reply : p.code = 201 =>
        LET e == secrets[p.req.binding] IN <<e.service, e.plan>> \in Bindable

(* Bind is synchronous, so the operation of a binding should have a        *)
(* handler at work on it.  Without failures there is one exception: an     *)
(* entry that still has the version of its creation, so that its operation *)
(* is not one that operation.Start wrote but the instance's, which         *)
(* Entry.Inherit copied.  Nobody ends that one.                            *)
IdleOnlyIfInherited ==
    faults = 0 /\ crashes = 0 =>
        \A b \in Bindings :
            secrets[b].op # "none" =>
                \/ \E h \in Handlers :
                      /\ handler[h].pc \in {"run", "complete", "end"}
                      /\ handler[h].entry.uid = secrets[b].uid
                \/ secrets[b].rv = secrets[b].uid

-----------------------------------------------------------------------------
(* Liveness.                                                               *)

(* No API call fails, the broker does not crash, and no operation of the   *)
(* instance is there to be inherited.                                      *)
Undisturbed == faults = 0 /\ crashes = 0 /\ instance.op = "none"

(* handlers.go: the operation is stopped "to allow other things to happen  *)
(* now".  As long as nothing goes wrong no binding keeps an operation.     *)
BindingsConclude ==
    []Undisturbed =>
        \A b \in Bindings : secrets[b].op # "none" ~> secrets[b].op = "none"
=============================================================================
