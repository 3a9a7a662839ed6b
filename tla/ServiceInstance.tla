--------------------------- MODULE ServiceInstance ---------------------------
(***************************************************************************)
(* The life of service instances: the five handlers of pkg/broker that     *)
(* create, read, update, delete and poll an instance, the instance         *)
(* directory, the registry entries, and the background provisioners that   *)
(* complete what a handler started.                                        *)
(*                                                                         *)
(* Every HTTP request runs in a goroutine of its own, so the handlers      *)
(* interleave at their calls of the Kubernetes API.  Between two such      *)
(* calls a handler touches only its own cached copies, so one action       *)
(* models one API call and everything the handler does until the next.     *)
(*                                                                         *)
(* An API call may fail in two ways: the request never takes effect        *)
(* ("lost"), or it takes effect and only the answer is missing             *)
(* ("noreply").  The broker may crash between any two steps: goroutines    *)
(* vanish, the Secrets stay.                                               *)
(***************************************************************************)
EXTENDS Registry

CONSTANTS
    Handlers,           \* request goroutines that may run at once
    Instances,          \* service instance IDs
    Namespaces,         \* Kubernetes namespaces
    BrokerNamespace,    \* the namespace the broker runs in
    Catalog,            \* the <<service, plan>> pairs of the configuration
    Bought,             \* the <<service, plan>> pairs the user has bought
    PlanUpdatable,      \* services whose plan may be changed
    Scope,              \* Scope[sp]: registryScope of the plan's binding
    RegistryNamespace,  \* RegistryNamespace[sp]: used by scope "Explicit"
    Schema,             \* Schema[sp, op]: the parameters the schema allows
    NamespaceOf,        \* NamespaceOf[d]: the "/namespace" of a context
    Malformed,          \* NamespaceOf[d] when it is not a string
    Requests,           \* the requests clients may send
    MaxRevision,        \* bound: registry writes before changes are requested
    MaxDirectory,       \* bound: the same for writes of the directory
    MaxFaults,          \* bound: API calls that may fail
    MaxCrashes          \* bound: broker crashes

ServicePlans == Services \X Plans
Keys == Namespaces \X Instances

RequestTypes == {"create", "read", "update", "delete", "poll"}
Mutating == {"create", "update", "delete"}

(* op is the operation ID a poll names; 0 when it names none.  None for a  *)
(* service or plan is a parameter that the request leaves out.             *)
AnyRequest == [type     : RequestTypes \cup {"none"},
               async    : BOOLEAN,
               instance : Instances,
               service  : Services \cup {None},
               plan     : Plans \cup {None},
               context  : Document,
               params   : Document,
               op       : Nat]

Request == {r \in AnyRequest :
               r.type = "create" => r.service \in Services /\ r.plan \in Plans}

ASSUME NamespaceAssumption ==
    /\ BrokerNamespace \in Namespaces
    /\ None \notin Namespaces /\ Malformed \notin Namespaces \cup {None}
    /\ NamespaceOf \in [Docs -> Namespaces \cup {None, Malformed}]

ASSUME ConfigAssumption ==
    /\ Catalog \subseteq ServicePlans
    /\ Bought \subseteq ServicePlans
    /\ Scope \in [ServicePlans -> {"BrokerLocal", "Explicit", "InstanceLocal"}]
    /\ RegistryNamespace \in [ServicePlans -> Namespaces]
    /\ Schema \in [ServicePlans \X {"create", "update"} -> SUBSET Document]

ASSUME RequestAssumption ==
    /\ Instances # {}
    /\ Requests \subseteq Request
    /\ \A r \in Requests : r.type \in RequestTypes /\ r.op = 0

ASSUME BoundAssumption ==
    /\ MaxRevision \in Nat /\ MaxDirectory \in Nat
    /\ MaxFaults \in Nat /\ MaxCrashes \in Nat

(* The directory: one Secret in the broker's namespace that maps instance  *)
(* IDs to the namespace of their registry.                                 *)
Directory == [exists : BOOLEAN,
              rv     : Nat,
              data   : [Instances -> Namespaces \cup {None}]]

EmptyDirectory ==
    [exists |-> FALSE, rv |-> 0, data |-> [i \in Instances |-> None]]

(* The next API call of a handler. *)
Labels == {"idle", "lookup", "getDirectory", "commitDirectory", "open",
           "create", "start", "end"}

NoRequest == [type |-> "none", async |-> FALSE,
              instance |-> CHOOSE i \in Instances : TRUE,
              service |-> None, plan |-> None,
              context |-> None, params |-> None, op |-> 0]

(* A handler goroutine: its request, the dirent.Namespace it resolved, and *)
(* its cached directory and registry entry.                                *)
Handler == [pc    : Labels,
            req   : Request,
            loc   : Namespaces,
            dir   : Directory,
            entry : Entry]

Idle == [pc |-> "idle", req |-> NoRequest, loc |-> BrokerNamespace,
         dir |-> EmptyDirectory, entry |-> Absent]

(* A provisioner goroutine (Creator.Run, Updater.Run or Deleter.Run) with  *)
(* the cached entry it was handed.                                         *)
Worker == [key : Keys, entry : Entry]

(* An HTTP response.  uid is the incarnation of the instance it is about.  *)
Codes == {200, 202, 400, 404, 409, 410, 422, 500}
PollStates == {"inProgress", "succeeded", "failed", "none"}
Reply == [req : Request, code : Codes, state : PollStates, opid : Nat, uid : Nat]

VARIABLES
    secrets,    \* the stored registry entries
    directory,  \* the stored directory
    revision,   \* number of registry writes so far
    handler,    \* the request goroutines
    workers,    \* the provisioner goroutines
    reply,      \* the responses this step writes: none or one
    history,    \* what every finished provisioner reported
    issued,     \* operation IDs that clients were given
    acked,      \* operation IDs whose outcome a poll has consumed
    faults,     \* API calls that failed so far
    crashes     \* broker crashes so far

vars == <<secrets, directory, revision, handler, workers, reply, history,
          issued, acked, faults, crashes>>

Outcome == [opid : Nat, type : OpType, uid : Nat, status : {"ok", "error"}]

(* The shape of the whole state. *)
TypeOK ==
    /\ secrets \in [Keys -> Entry]
    /\ directory \in Directory
    /\ revision \in Nat
    /\ handler \in [Handlers -> Handler]
    /\ workers \subseteq Worker
    /\ reply \subseteq Reply
    /\ history \subseteq Outcome
    /\ issued \subseteq Nat
    /\ acked \subseteq Nat
    /\ faults \in 0 .. MaxFaults
    /\ crashes \in 0 .. MaxCrashes

Init ==
    /\ secrets = [k \in Keys |-> Absent]
    /\ directory = EmptyDirectory
    /\ revision = 0
    /\ handler = [h \in Handlers |-> Idle]
    /\ workers = {}
    /\ reply = {}
    /\ history = {}
    /\ issued = {}
    /\ acked = {}
    /\ faults = 0
    /\ crashes = 0

-----------------------------------------------------------------------------
(* The fate of one API call.                                               *)

Fates == {"ok", "lost", "noreply"}

Fate(fate) ==
    IF fate = "ok" THEN faults' = faults
                   ELSE faults < MaxFaults /\ faults' = faults + 1

-----------------------------------------------------------------------------
(* What a handler does locally.                                            *)

SP(r) == <<r.service, r.plan>>

(* The key of the registry entry a handler works on. *)
KeyOf(h) == <<handler[h].loc, handler[h].req.instance>>

(* The handler makes API call "label" next. *)
Goto(h, label) ==
    /\ handler' = [handler EXCEPT ![h].pc = label]
    /\ reply' = {}

GotoWith(h, label, e) ==
    /\ handler' = [handler EXCEPT ![h] = [@ EXCEPT !.pc = label, !.entry = e]]
    /\ reply' = {}

(* The handler writes its response and returns. *)
Respond(h, code, state, opid, uid) ==
    /\ handler' = [handler EXCEPT ![h] = Idle]
    /\ reply' = {[req |-> handler[h].req, code |-> code, state |-> state,
                  opid |-> opid, uid |-> uid]}

Fail(h, code) == Respond(h, code, "none", 0, handler[h].entry.uid)

(* getNamespace: the namespace in the context, else the broker's.          *)
BadContext(context) == context # None /\ NamespaceOf[context] = Malformed
GetNamespace(context) ==
    IF context = None \/ NamespaceOf[context] \in {None, Malformed}
    THEN BrokerNamespace
    ELSE NamespaceOf[context]

(* The namespace that registerDirectoryInstance chooses.                   *)
DirentNamespace(r) ==
    CASE Scope[SP(r)] = "BrokerLocal"   -> BrokerNamespace
      [] Scope[SP(r)] = "Explicit"      -> RegistryNamespace[SP(r)]
      [] Scope[SP(r)] = "InstanceLocal" -> GetNamespace(r.context)

(* The checks of a request against the configuration and the user's        *)
(* purchases.                                                              *)
Authorized(r) == SP(r) \in Bought
ValidServicePlan(sp) == sp \in Catalog
ValidParameters(sp, op, params) == params \in Schema[<<sp, op>>]
AsyncRequired(r) == r.type \in Mutating /\ ~r.async

(* The checks a handler makes before its first API call, in their order,   *)
(* and the status code of the first that fails; 200 when none does.        *)
Admission(r) ==
    IF AsyncRequired(r) THEN 422
    ELSE IF r.type # "create" THEN 200
    ELSE IF ~Authorized(r) THEN 500
    ELSE IF \/ ~ValidServicePlan(SP(r))
            \/ ~ValidParameters(SP(r), "create", r.params)
            \/ Scope[SP(r)] = "InstanceLocal" /\ BadContext(r.context)
         THEN 400
    ELSE 200

FirstCall(r) == IF r.type = "create" THEN "getDirectory" ELSE "lookup"

(* A client sends request r and the server starts a handler for it.  A     *)
(* poll names an operation ID the client was given, or none.               *)
Receive(h, r, op) ==
    /\ handler[h].pc = "idle"
    /\ r.type \in Mutating =>
          revision < MaxRevision /\ directory.rv < MaxDirectory
    /\ op # 0 => r.type = "poll" /\ op \in issued
    /\ \/ /\ Admission(r) = 200
          /\ handler' = [handler EXCEPT
                          ![h] = [@ EXCEPT !.pc = FirstCall(r),
                                           !.req = [r EXCEPT !.op = op]]]
          /\ reply' = {}
       \/ /\ Admission(r) # 200
          /\ reply' = {[req |-> r, code |-> Admission(r), state |-> "none",
                        opid |-> 0, uid |-> 0]}
          /\ UNCHANGED handler
    /\ UNCHANGED <<secrets, directory, revision, workers, history, issued,
                   acked, faults, crashes>>

-----------------------------------------------------------------------------
(* The directory.                                                          *)

(* Directory.Lookup, or the broker's own namespace when it fails.          *)
Locate(d, i) == IF d.data[i] = None THEN BrokerNamespace ELSE d.data[i]

(* getDirectoryInstance: a failed read is answered like a missing entry.   *)
GetDirectoryInstance(h, fate) ==
    /\ handler[h].pc = "lookup"
    /\ Fate(fate)
    /\ LET i == handler[h].req.instance
           loc == IF fate = "ok" THEN Locate(directory, i) ELSE BrokerNamespace
       IN  handler' = [handler EXCEPT
                         ![h] = [@ EXCEPT !.loc = loc,
                                          !.pc = IF handler[h].req.type = "delete"
                                                    THEN "getDirectory" ELSE "open"]]
    /\ reply' = {}
    /\ UNCHANGED <<secrets, directory, revision, workers, history, issued,
                   acked, crashes>>

(* NewDirectory inside registerDirectoryInstance and                       *)
(* deleteDirectoryInstance.  The first fails with an error, the second     *)
(* gives up silently, as it does when the instance has no entry to remove. *)
NewDirectory(h, fate) ==
    /\ handler[h].pc = "getDirectory"
    /\ Fate(fate)
    /\ LET r == handler[h].req
       IN  \/ /\ fate = "ok"
              /\ r.type = "create" \/ directory.data[r.instance] # None
              /\ handler' = [handler EXCEPT
                              ![h] = [@ EXCEPT !.pc = "commitDirectory",
                                               !.dir = directory]]
              /\ reply' = {}
           \/ /\ fate # "ok" /\ r.type = "create"
              /\ Fail(h, 500)
           \/ /\ r.type = "delete"
              /\ fate # "ok" \/ directory.data[r.instance] = None
              /\ Goto(h, "open")
    /\ UNCHANGED <<secrets, directory, revision, workers, history, issued,
                   acked, crashes>>

(* Mutant: the directory is written without comparing versions.            *)
DirectoryAcceptedAnyVersion(d) == TRUE

(* Directory.commit reaches the API server: like Entry.Commit.             *)
DirectoryAccepted(d) ==
    IF d.exists THEN directory.exists /\ directory.rv = d.rv
                ELSE ~directory.exists

(* The write replaces the whole map by the cached one.  An update that     *)
(* changes nothing keeps its version.                                      *)
StoreDirectory(data) ==
    directory' = IF directory.exists /\ directory.data = data
                 THEN directory
                 ELSE [exists |-> TRUE, rv |-> directory.rv + 1, data |-> data]

(* Directory.Add for a create.  Any error ends the request.                *)
RegisterInstance(h, fate) ==
    /\ handler[h].pc = "commitDirectory"
    /\ handler[h].req.type = "create"
    /\ Fate(fate)
    /\ LET r == handler[h].req
           d == handler[h].dir
           ns == DirentNamespace(r)
           applied == fate # "lost" /\ DirectoryAccepted(d)
       IN  /\ IF applied THEN StoreDirectory([d.data EXCEPT ![r.instance] = ns])
                         ELSE UNCHANGED directory
           /\ IF applied /\ fate = "ok"
              THEN /\ handler' = [handler EXCEPT
                                   ![h] = [@ EXCEPT !.pc = "open",
                                                    !.loc = ns,
                                                    !.dir = EmptyDirectory]]
                   /\ reply' = {}
              ELSE Fail(h, 500)
    /\ UNCHANGED <<secrets, revision, workers, history, issued, acked, crashes>>

(* Directory.Remove for a delete.  Every error is ignored.                 *)
DeregisterInstance(h, fate) ==
    /\ handler[h].pc = "commitDirectory"
    /\ handler[h].req.type = "delete"
    /\ Fate(fate)
    /\ LET r == handler[h].req
           d == handler[h].dir
       IN  IF fate # "lost" /\ DirectoryAccepted(d)
           THEN StoreDirectory([d.data EXCEPT ![r.instance] = None])
           ELSE UNCHANGED directory
    /\ handler' = [handler EXCEPT
                    ![h] = [@ EXCEPT !.pc = "open", !.dir = EmptyDirectory]]
    /\ reply' = {}
    /\ UNCHANGED <<secrets, revision, workers, history, issued, acked, crashes>>

-----------------------------------------------------------------------------
(* Reading the registry entry.                                             *)

(* registry.New fails with anything but "not found".                       *)
OpenFails(h) ==
    /\ handler[h].pc = "open"
    /\ Fate("lost")
    /\ Fail(h, 500)
    /\ UNCHANGED <<secrets, directory, revision, workers, history, issued,
                   acked, crashes>>

(* registry.New returns entry e to a handler for a request of this type.   *)
Opens(h, type) ==
    /\ handler[h].pc = "open"
    /\ handler[h].req.type = type
    /\ UNCHANGED <<secrets, directory, revision, workers, history, acked,
                   faults, crashes>>

(* An existing instance was created with other attributes: the stored      *)
(* documents are compared byte by byte with those of the request.          *)
Mismatched(e, r) ==
    \/ e.service # r.service
    \/ e.plan # r.plan
    \/ e.context # r.context
    \/ e.params # r.params

(* The entry a create stores for a new instance. *)
NewEntry(r) ==
    [Absent EXCEPT !.service = r.service,
                   !.plan    = r.plan,
                   !.context = Marshal(r.context),
                   !.params  = Marshal(r.params)]

(* Mutant of OpenCreate: a repeated create provisions the instance again.  *)
OpenCreateAgain(h) ==
    /\ Opens(h, "create")
    /\ LET e == secrets[KeyOf(h)]
       IN  IF e.exists THEN GotoWith(h, "start", e)
                       ELSE GotoWith(h, "create", NewEntry(handler[h].req))
    /\ UNCHANGED issued

OpenCreate(h) ==
    /\ Opens(h, "create")
    /\ LET e == secrets[KeyOf(h)]
           r == handler[h].req
       IN  \/ /\ e.exists
              /\ Mismatched(e, r) \/ e.op \in {"update", "deprovision"}
              /\ Respond(h, 409, "none", 0, e.uid)
              /\ UNCHANGED issued
           \/ /\ e.exists /\ ~Mismatched(e, r) /\ e.op = "none"
              /\ Respond(h, 200, "none", 0, e.uid)
              /\ UNCHANGED issued
           \/ /\ e.exists /\ ~Mismatched(e, r) /\ e.op = "provision"
              /\ Respond(h, 202, "none", e.opid, e.uid)
              /\ issued' = issued \cup {e.opid}
           \/ /\ ~e.exists /\ BadContext(r.context)
              /\ Respond(h, 400, "none", 0, 0)
              /\ UNCHANGED issued
           \/ /\ ~e.exists /\ ~BadContext(r.context)
              /\ GotoWith(h, "create", NewEntry(r))
              /\ UNCHANGED issued

(* A hint, when the client gives one, must agree with the entry.           *)
HintsAgree(e, r) == r.service \in {None, e.service} /\ r.plan \in {None, e.plan}

OpenRead(h) ==
    /\ Opens(h, "read")
    /\ LET e == secrets[KeyOf(h)]
           r == handler[h].req
       IN  \/ ~e.exists /\ Respond(h, 404, "none", 0, 0)
           \/ /\ e.exists /\ (~HintsAgree(e, r) \/ e.op # "none")
              /\ Respond(h, 400, "none", 0, e.uid)
           \/ /\ e.exists /\ HintsAgree(e, r) /\ e.op = "none"
              /\ Respond(h, 200, "none", 0, e.uid)
    /\ UNCHANGED issued

(* The plan an update asks for, and the checks on it: the plan must exist  *)
(* and be reachable from the old one, the parameters must satisfy the      *)
(* schema of the old plan.                                                 *)
NewPlan(e, r) == IF r.plan = None THEN e.plan ELSE r.plan
Updatable(service, plan, newPlan) == service \in PlanUpdatable \/ newPlan = plan

(* Mutant of UpdateValid: the parameters are not validated.                *)
UpdateValidNoSchema(e, r) ==
    /\ ValidServicePlan(<<r.service, NewPlan(e, r)>>)
    /\ Updatable(r.service, e.plan, NewPlan(e, r))
    /\ ValidServicePlan(<<r.service, e.plan>>)

UpdateValid(e, r) ==
    /\ ValidServicePlan(<<r.service, NewPlan(e, r)>>)
    /\ Updatable(r.service, e.plan, NewPlan(e, r))
    /\ ValidServicePlan(<<r.service, e.plan>>)
    /\ ValidParameters(<<r.service, e.plan>>, "update", r.params)

OpenUpdate(h) ==
    /\ Opens(h, "update")
    /\ LET e == secrets[KeyOf(h)]
           r == handler[h].req
       IN  \/ ~e.exists /\ Respond(h, 404, "none", 0, 0)
           \/ e.exists /\ ~UpdateValid(e, r) /\ Respond(h, 400, "none", 0, e.uid)
           \/ /\ e.exists /\ UpdateValid(e, r)
              /\ GotoWith(h, "start", [e EXCEPT !.params = Marshal(r.params)])
    /\ UNCHANGED issued

OpenDelete(h) ==
    /\ Opens(h, "delete")
    /\ LET e == secrets[KeyOf(h)]
           r == handler[h].req
       IN  \/ ~e.exists /\ Respond(h, 410, "none", 0, 0)
           \/ /\ e.exists /\ SP(r) # <<e.service, e.plan>>
              /\ Respond(h, 400, "none", 0, e.uid)
           \/ /\ e.exists /\ SP(r) = <<e.service, e.plan>>
              /\ GotoWith(h, "start", e)
    /\ UNCHANGED issued

(* A poll must name the operation of the entry.  An entry without one has  *)
(* written an internal error before the IDs are even compared.             *)
OpenPoll(h) ==
    /\ Opens(h, "poll")
    /\ LET e == secrets[KeyOf(h)]
           r == handler[h].req
           accepted == r.op # 0 /\ r.op = e.opid /\ HintsAgree(e, r)
       IN  \/ ~e.exists /\ Respond(h, 410, "none", r.op, 0)
           \/ /\ e.exists /\ r.op # 0 /\ e.opid = 0
              /\ Respond(h, 500, "none", 0, e.uid)
           \/ /\ e.exists /\ ~accepted /\ (r.op = 0 \/ e.opid # 0)
              /\ Respond(h, 400, "none", 0, e.uid)
           \/ /\ e.exists /\ accepted /\ e.status = "unset"
              /\ Respond(h, 200, "inProgress", e.opid, e.uid)
           \/ /\ e.exists /\ accepted /\ e.status # "unset"
              /\ GotoWith(h, "end", e)
    /\ UNCHANGED issued

-----------------------------------------------------------------------------
(* Writing the registry entry.                                             *)

(* Commit of cached entry e at key k as write revision + 1.                *)
Write(k, e) ==
    /\ secrets' = [secrets EXCEPT ![k] = Committed(e, revision + 1)]
    /\ revision' = revision + 1

(* The first Commit of a create. *)
CommitNew(h, fate) ==
    /\ handler[h].pc = "create"
    /\ Fate(fate)
    /\ LET k == KeyOf(h)
           e == handler[h].entry
           applied == fate # "lost" /\ CommitAccepted(secrets[k], e)
       IN  /\ IF applied THEN Write(k, e) ELSE UNCHANGED <<secrets, revision>>
           /\ IF applied /\ fate = "ok"
              THEN GotoWith(h, "start", Committed(e, revision + 1))
              ELSE Fail(h, 500)
    /\ UNCHANGED <<directory, workers, history, issued, acked, crashes>>

(* Creator.Prepare or Updater.Prepare fails: a missing template, a         *)
(* rendering error, or a resource that cannot be read.  It is a            *)
(* configuration or parameter error (400) or any other (500).              *)
PrepareFails(h) ==
    /\ handler[h].pc = "start"
    /\ handler[h].req.type \in {"create", "update"}
    /\ \E code \in {400, 500} : Fail(h, code)
    /\ UNCHANGED <<secrets, directory, revision, workers, history, issued,
                   acked, faults, crashes>>

OperationOf(r) ==
    CASE r.type = "create" -> "provision"
      [] r.type = "update" -> "update"
      [] OTHER -> "deprovision"

(* operation.Start, and on success "go Run(entry)" and the 202 response.   *)
StartOperation(h, fate) ==
    /\ handler[h].pc = "start"
    /\ LET k == KeyOf(h)
           e == Start(handler[h].entry, OperationOf(handler[h].req), revision + 1)
           committed == Committed(e, revision + 1)
       IN  \/ /\ StartRefused(handler[h].entry)
              /\ fate = "ok"
              /\ Fail(h, 500)
              /\ UNCHANGED <<secrets, revision, workers, issued, faults>>
           \/ /\ ~StartRefused(handler[h].entry)
              /\ Fate(fate)
              /\ fate = "lost" \/ ~CommitAccepted(secrets[k], e)
              /\ Fail(h, 500)
              /\ UNCHANGED <<secrets, revision, workers, issued>>
           \/ /\ ~StartRefused(handler[h].entry)
              /\ Fate(fate)
              /\ fate = "noreply" /\ CommitAccepted(secrets[k], e)
              /\ Write(k, e)
              /\ Fail(h, 500)
              /\ UNCHANGED <<workers, issued>>
           \/ /\ ~StartRefused(handler[h].entry)
              /\ Fate(fate)
              /\ fate = "ok" /\ CommitAccepted(secrets[k], e)
              /\ Write(k, e)
              /\ workers' = workers \cup {[key |-> k, entry |-> committed]}
              /\ issued' = issued \cup {e.opid}
              /\ Respond(h, 202, "none", e.opid, committed.uid)
    /\ UNCHANGED <<directory, history, acked, crashes>>

(* operation.End when a poll finds the operation finished.                 *)
EndOperation(h, fate) ==
    /\ handler[h].pc = "end"
    /\ Fate(fate)
    /\ LET k == KeyOf(h)
           e == handler[h].entry
           applied == fate # "lost" /\ CommitAccepted(secrets[k], End(e))
       IN  /\ IF applied
              THEN Write(k, End(e)) /\ acked' = acked \cup {e.opid}
              ELSE UNCHANGED <<secrets, revision, acked>>
           /\ IF applied /\ fate = "ok"
              THEN Respond(h, 200, IF e.status = "ok" THEN "succeeded" ELSE "failed",
                           e.opid, e.uid)
              ELSE Fail(h, 500)
    /\ UNCHANGED <<directory, workers, history, issued, crashes>>

-----------------------------------------------------------------------------
(* The provisioners.                                                       *)

Finished(w, status) ==
    [opid |-> w.entry.opid, type |-> w.entry.op, uid |-> w.entry.uid,
     status |-> status]

(* Creator.Run or Updater.Run has worked its resources, with or without an *)
(* error, and records that with operation.Complete.  An error of Complete  *)
(* is only logged.                                                         *)
CompleteOperation(w, status, fate) ==
    /\ w \in workers
    /\ w.entry.op \in {"provision", "update"}
    /\ Fate(fate)
    /\ LET e == Complete(w.entry, status)
       IN  IF fate # "lost" /\ CommitAccepted(secrets[w.key], e)
           THEN Write(w.key, e)
           ELSE UNCHANGED <<secrets, revision>>
    /\ workers' = workers \ {w}
    /\ history' = history \cup {Finished(w, status)}
    /\ reply' = {}
    /\ UNCHANGED <<directory, handler, issued, acked, crashes>>

(* Deleter.Run: Entry.Delete removes the Secret by its name, whatever      *)
(* version or incarnation has it.  An error is only logged.                *)
DeleteEntry(w, fate) ==
    /\ w \in workers
    /\ w.entry.op = "deprovision"
    /\ Fate(fate)
    /\ secrets' = IF fate = "lost" THEN secrets
                  ELSE [secrets EXCEPT ![w.key] = Absent]
    /\ workers' = workers \ {w}
    /\ history' = history \cup
         {Finished(w, IF fate = "lost" THEN "error" ELSE "ok")}
    /\ reply' = {}
    /\ UNCHANGED <<directory, revision, handler, issued, acked, crashes>>

(* The broker process dies and its Deployment starts a new one.            *)
Crash ==
    /\ crashes < MaxCrashes
    /\ crashes' = crashes + 1
    /\ handler' = [h \in Handlers |-> Idle]
    /\ workers' = {}
    /\ reply' = {}
    /\ UNCHANGED <<secrets, directory, revision, history, issued, acked, faults>>

-----------------------------------------------------------------------------
(* One step of a running handler. *)
HandlerStep(h) ==
    \/ \E fate \in {"ok", "lost"} : GetDirectoryInstance(h, fate)
    \/ \E fate \in {"ok", "lost"} : NewDirectory(h, fate)
    \/ \E fate \in Fates : RegisterInstance(h, fate)
    \/ \E fate \in Fates : DeregisterInstance(h, fate)
    \/ OpenFails(h)
    \/ OpenCreate(h)
    \/ OpenRead(h)
    \/ OpenUpdate(h)
    \/ OpenDelete(h)
    \/ OpenPoll(h)
    \/ \E fate \in Fates : CommitNew(h, fate)
    \/ PrepareFails(h)
    \/ \E fate \in Fates : StartOperation(h, fate)
    \/ \E fate \in Fates : EndOperation(h, fate)

(* One step of a provisioner. *)
WorkerStep(w) ==
    \/ \E status \in {"ok", "error"}, fate \in Fates :
          CompleteOperation(w, status, fate)
    \/ \E fate \in Fates : DeleteEntry(w, fate)

ClientStep(h) == \E r \in Requests, op \in issued \cup {0} : Receive(h, r, op)

Next ==
    \/ \E h \in Handlers : ClientStep(h)
    \/ \E h \in Handlers : HandlerStep(h)
    \/ \E w \in workers : WorkerStep(w)
    \/ Crash

Spec == Init /\ [][Next]_vars

-----------------------------------------------------------------------------
(* Safety.                                                                 *)

(* The provisioner that ran under e's operation ID reported e's status.    *)
Recorded(e) ==
    \E f \in history : f.opid = e.opid /\ f.uid = e.uid /\ f.status = e.status

EntryConsistent(e) ==
    /\ e.rv <= revision /\ e.opid <= revision
    /\ e.exists <=> e.rv # 0
    /\ ~e.exists => e = Absent
    /\ e.op = "none" <=> e.opid = 0
    /\ e.status # "unset" => e.op # "none" /\ Recorded(e)

(* The three operation keys of a stored entry agree: Start writes type and *)
(* ID, Complete adds the status its provisioner reported, End removes all  *)
(* three.  Operation IDs are not shared between instances, and no ID is in *)
(* a client's hands that was not written to a registry entry first.        *)
StoredConsistent ==
    /\ \A k \in Keys : EntryConsistent(secrets[k])
    /\ \A j, k \in Keys :
          secrets[j].opid = secrets[k].opid /\ secrets[k].opid # 0 => j = k
    /\ issued \cup acked \subseteq 1 .. revision

HandlerCoherent(h) ==
    LET e == handler[h].entry
        s == secrets[KeyOf(h)]
    IN  /\ handler[h].pc = "create" =>
              ~e.exists /\ e.op = "none" /\ e.opid = 0 /\ e.status = "unset"
        /\ handler[h].pc \in {"start", "end"} =>
              /\ e.exists /\ e.rv \in 1 .. revision
              /\ e.rv = s.rv => s = [e EXCEPT !.params = s.params]
        /\ handler[h].pc = "end" =>
              e.opid # 0 /\ e.status # "unset" /\ Recorded(e)

(* Optimistic locking is sound: if the version that a handler cached is    *)
(* still the stored one, then so is everything it cached, except for the   *)
(* parameters that an update has replaced in its own copy.  So a Commit    *)
(* that the API server accepts writes back what was checked before it.     *)
CacheCoherent == \A h \in Handlers : HandlerCoherent(h)

(* The "operation" key is a lock held by one provisioner.  As long as      *)
(* Creator.Run, Updater.Run or Deleter.Run is running, the stored entry is *)
(* exactly the one the provisioner was handed: no handler and no other     *)
(* provisioner has written it, so its Complete cannot conflict, its        *)
(* Delete by name removes the incarnation it was started for, and two      *)
(* provisioners never run for one instance.                                *)
WorkerHoldsEntry ==
    \A w \in workers : /\ secrets[w.key] = w.entry
                       /\ w.entry.exists
                       /\ w.entry.op # "none" /\ w.entry.opid # 0
                       /\ w.entry.status = "unset"

(* handlePollServiceInstance says "succeeded" or "failed" only if the      *)
(* provisioner that ran under this very operation ID ended that way.       *)
PollTruthful ==
    \A p \in reply :
        p.state \in {"succeeded", "failed"} =>
            \E f \in history :
                /\ f.opid = p.opid /\ f.uid = p.uid
                /\ f.status = IF p.state = "succeeded" THEN "ok" ELSE "error"

(* Once a poll has consumed an operation with operation.End, no entry      *)
(* carries its ID again: no stale Commit brings the operation back.        *)
NeverResurrected == \A k \in Keys : secrets[k].opid \notin acked

(* An operation ID that a client was given stays on record until a poll    *)
(* consumes it or the deprovisioning it names has removed the instance:    *)
(* concurrent requests, failed API calls and crashes forget none.          *)
AcceptedOnRecord ==
    \A o \in issued :
        \/ o \in acked
        \/ \E k \in Keys : secrets[k].opid = o
        \/ \E f \in history : f.opid = o /\ f.type = "deprovision" /\ f.status = "ok"

(* What was provisioned, or is being provisioned. *)
Provisions ==
    {f \in history : f.type = "provision"} \cup
    {Finished(w, "ok") : w \in {v \in workers : v.entry.op = "provision"}}

(* An incarnation of an instance is provisioned at most once, however many *)
(* creates for it race or are retried.                                     *)
ProvisionedOnce == \A f, g \in Provisions : f.uid = g.uid => f.opid = g.opid

(* The plan is in the catalog and was bought, and the parameters satisfied *)
(* a schema of that plan.                                                  *)
EntryValid(e) ==
    LET sp == <<e.service, e.plan>>
    IN  /\ sp \in Catalog \cap Bought
        /\ \E d \in Schema[<<sp, "create">>] \cup Schema[<<sp, "update">>] :
              e.params = Marshal(d)

(* What is on record was allowed, whichever of create and update stored it *)
(* (a plan ID names one plan of one service, see PlanIDsUnique).           *)
StoredValid == \A k \in Keys : secrets[k].exists => EntryValid(secrets[k])

(* servicebrokerconfigs.yaml: the ID of a plan "MUST be globally unique".  *)
(* The broker does not check it, and validates the parameters of an update *)
(* under the service that the request names.                               *)
PlanIDsUnique == \A sp, tp \in Catalog : sp[2] = tp[2] => sp = tp

(* Of all polls of one operation, also concurrent ones, at most one is     *)
(* told the outcome: the Commit in operation.End decides which.            *)
OutcomeToldOnce ==
    [][\A p \in reply' :
          p.state \in {"succeeded", "failed"} => p.opid \notin acked]_vars

(* While an operation is in progress its entry is frozen: the next thing   *)
(* to happen to it is that its status is recorded, or that it is deleted.  *)
(* In particular a racing update leaves no parameters behind.              *)
FrozenInProgress ==
    [][\A k \in Keys :
          secrets[k].op # "none" /\ secrets[k].status = "unset" =>
             \/ secrets'[k] = secrets[k]
             \/ secrets'[k] = Absent /\ secrets[k].op = "deprovision"
             \/ \E s \in {"ok", "error"} :
                   secrets'[k] = Committed(Complete(secrets[k], s), revision')]_vars

(* The read-modify-write of the shared directory Secret loses no other     *)
(* instance's registration.  An instance is cut off from its registry only *)
(* by a delete of it or, as registerDirectoryInstance overwrites its entry *)
(* before the request is compared with it, by a create of it that asks for *)
(* another namespace.                                                      *)
DirectoryIsolated ==
    [][\A i \in Instances :
          directory'.data[i] # directory.data[i] =>
             \E h \in Handlers :
                LET r == handler[h].req
                IN  /\ handler[h].pc = "commitDirectory"
                    /\ handler'[h].pc # "commitDirectory"
                    /\ r.instance = i
                    /\ \/ /\ r.type = "create"
                          /\ directory'.data[i] = DirentNamespace(r)
                       \/ /\ r.type = "delete"
                          /\ directory'.data[i] = None]_vars

-----------------------------------------------------------------------------
(* Refinement: the "operation", "operation-id" and "operation-status" keys *)
(* of the registry entries implement OperationLock.                        *)

Phase(e) == CASE ~e.exists -> "absent"
              [] e.exists /\ e.op = "none" -> "idle"
              [] e.exists /\ e.op # "none" /\ e.status = "unset" -> "busy"
              [] e.exists /\ e.op # "none" /\ e.status # "unset" -> "done"

PhaseBar   == [k \in Keys |-> Phase(secrets[k])]
CurrentBar == [k \in Keys |-> secrets[k].opid]
JobsBar    == [k \in Keys |-> {w.entry.opid : w \in {v \in workers : v.key = k}}]

Lock == INSTANCE OperationLock WITH
            Resources <- Keys,
            phase <- PhaseBar, current <- CurrentBar, jobs <- JobsBar

(* Every behaviour of the broker is one of the lock: whatever requests,    *)
(* faults and crashes interleave, operation.Start, Complete, End and       *)
(* Entry.Delete follow the lock's protocol on each registry entry.         *)
ImplementsLock == Lock!LockSpec

-----------------------------------------------------------------------------
(* What the documentation promises and the code does not keep.             *)

(* registry.adoc: a poll finds the registry of its instance through the    *)
(* directory.  So it is told 410 Gone only if no provisioner still works   *)
(* on the instance.                                                        *)
GoneMeansDeleted ==
    \A p \in reply :
        p.req.type = "poll" /\ p.code = 410 =>
            \A w \in workers : w.key[2] # p.req.instance

-----------------------------------------------------------------------------
(* Liveness.                                                               *)

(* The client of an instance polls the operation that is in progress.      *)
PollCurrent(k) ==
    \E h \in Handlers, r \in Requests :
        /\ r.type = "poll" /\ r.instance = k[2]
        /\ HintsAgree(secrets[k], r) /\ secrets[k].opid \in issued
        /\ Receive(h, r, secrets[k].opid)

(* The Go scheduler runs every goroutine, API calls return, and clients    *)
(* poll until they are told the outcome.                                   *)
Fairness ==
    /\ \A h \in Handlers : WF_vars(HandlerStep(h))
    /\ \A k \in Keys : WF_vars(\E w \in workers : w.key = k /\ WorkerStep(w))
    /\ \A k \in Keys : SF_vars(PollCurrent(k))

FairSpec == Spec /\ Fairness

(* The directory no longer leads to the entry, or never did: a delete has  *)
(* removed its registration before it was refused (handlers.go:655), or    *)
(* another create has registered the instance elsewhere.  Polls are told   *)
(* 410 then.                                                               *)
CutOff(k) == Locate(directory, k[2]) # k[1]

(* With no failures, whatever requests interleave, every operation that    *)
(* starts also ends: its provisioner records an outcome, and then a poll   *)
(* is told and ends it, unless the entry is cut off from its clients.  No  *)
(* refused, lost or concurrent request leaves the operation keys behind.   *)
ConcludesUnlessCutOff ==
    \A k \in Keys :
        secrets[k].op # "none" ~>
            \/ secrets[k].op = "none"
            \/ secrets[k].status # "unset" /\ CutOff(k)

(* registry.adoc: the registry lets the broker tolerate restarts during    *)
(* provisioning.  Every operation that starts also ends, so that the       *)
(* instance can be used, updated or deleted again.  (A crash refutes that  *)
(* where no entry is ever cut off.)                                        *)
OperationsConclude ==
    \A k \in Keys : secrets[k].op # "none" ~> secrets[k].op = "none"
=============================================================================
