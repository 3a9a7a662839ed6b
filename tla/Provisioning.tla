---------------------------- MODULE Provisioning ----------------------------
(***************************************************************************)
(* What the provisioners do to Kubernetes: Creator and Updater of          *)
(* pkg/provisioners, the readiness barrier, and the garbage collection     *)
(* that deprovisioning relies on.                                          *)
(*                                                                         *)
(* A registry is the Secret of a service instance or a service binding.    *)
(* It owns the objects that its templates generate; when it is deleted     *)
(* Kubernetes collects the objects that no live registry owns.  The object *)
(* of a singleton template is shared by all registries.                    *)
(*                                                                         *)
(* That at most one provisioner works for a registry, and that the         *)
(* registry is not deleted meanwhile, is what ServiceInstance establishes; *)
(* here "op" is that lock, and operation.Complete and the poll that        *)
(* consumes its outcome are one step.  One action is one API call.         *)
(***************************************************************************)
EXTENDS Naturals, Sequences, Functions

CONSTANTS
    Registries,  \* registry entries, of instances or bindings
    Jobs,        \* goroutines that may provision or update at once
    Templates,   \* template names
    Singletons,  \* the templates marked as singleton
    ClusterScoped, \* the templates whose kind has no namespace
    Shared,      \* stands for the registry in the name of a singleton object
    UseSteps,    \* the registries whose plan uses "steps", not "templates"
    Steps,       \* Steps[r]: the steps of the plan of registry r, each a
                 \* sequence of templates and one of readiness checks
    Params,      \* request parameters
    Render,      \* Render[<<t, p>>]: the object that template t renders to
    MaxWrites,   \* bound: writes by other controllers
    MaxUpdates   \* bound: updates that begin

Step == [templates : Seq(Templates), checks : Seq(Templates)]

(* A plan with the deprecated fields is a plan of one step. *)
ASSUME TemplateAssumption ==
    /\ Singletons \subseteq Templates /\ ClusterScoped \subseteq Templates
    /\ Registries # {} /\ Params # {}
    /\ Shared \notin Registries
    /\ UseSteps \subseteq Registries
    /\ Steps \in [Registries -> Seq(Step) \ {<< >>}]
    /\ \A r \in Registries \ UseSteps : Len(Steps[r]) = 1
    /\ DOMAIN Render = Templates \X Params

ASSUME BoundAssumption == MaxWrites \in Nat /\ MaxUpdates \in Nat

Specs == {Render[x] : x \in Templates \X Params}

(* The name of the object of template t for registry r: the name of a      *)
(* singleton does not depend on the registry.                              *)
Name(r, t) == IF t \in Singletons THEN <<Shared, t>> ELSE <<r, t>>
Names == {Name(r, t) : r \in Registries, t \in Templates}

(* An object.  Versions are counted per name and never reused: what is     *)
(* left of a deleted object is the last.  desired is the annotation that   *)
(* holds the rendered template, foreign counts the changes that other      *)
(* controllers made to the rest.                                           *)
NoObject == [exists |-> FALSE, rv |-> 0]
Deleted == [exists : {FALSE}, rv : Nat]
Object == [exists : {TRUE}, rv : Nat, owners : SUBSET Registries,
           desired : Specs, foreign : Nat, ready : BOOLEAN]

(* The steps a Creator works through, and the templates an Updater does:   *)
(* Creator.Prepare makes one step of the deprecated fields, Updater.Prepare*)
(* only ever looks at those.                                               *)
CreatorSteps(r) == Steps[r]
UpdaterTemplates(r) == IF r \in UseSteps THEN << >> ELSE Steps[r][1].templates

VARIABLES
    registry,  \* the registry entries
    objects,   \* the objects of the cluster
    job,       \* the provisioner goroutines
    foreign,   \* writes by other controllers so far
    updates,   \* updates that began so far
    wasReady,  \* names whose object has been ready at some time
    provisioned \* registries whose Creator has reported success

history == <<foreign, updates, wasReady, provisioned>>
vars == <<registry, objects, job, history>>

Entry == [state  : {"none", "live", "gone"},
          rv     : Nat,
          params : Params,
          op     : {"none", "provision", "update"},
          last   : {"none", "provision", "update"},
          result : {"none", "ok", "error"}]

NoEntry == [state |-> "none", rv |-> 0, params |-> CHOOSE p \in Params : TRUE,
            op |-> "none", last |-> "none", result |-> "none"]

Labels == {"idle", "create", "get", "own", "check", "prepare", "apply",
           "complete"}

(* A goroutine.  rest holds the templates left in the current step (or the *)
(* readiness checks left), todo the objects an update has merged.          *)
Job == [pc     : Labels,
        r      : Registries,
        step   : Nat,
        rest   : Seq(Templates),
        cache  : Object \cup {NoObject},
        rv     : Nat,
        params : Params,
        todo   : Seq([name : Names, object : Object]),
        result : {"none", "ok", "error"}]

Idle == [pc |-> "idle", r |-> CHOOSE r \in Registries : TRUE, step |-> 0,
         rest |-> << >>, cache |-> NoObject, rv |-> 0,
         params |-> CHOOSE p \in Params : TRUE, todo |-> << >>,
         result |-> "none"]

(* The shape of the whole state. *)
TypeOK ==
    /\ registry \in [Registries -> Entry]
    /\ objects \in [Names -> Object \cup Deleted]
    /\ job \in [Jobs -> Job]
    /\ foreign \in 0 .. MaxWrites
    /\ updates \in 0 .. MaxUpdates
    /\ wasReady \subseteq Names
    /\ provisioned \subseteq Registries

Init ==
    /\ registry = [r \in Registries |-> NoEntry]
    /\ objects = [n \in Names |-> NoObject]
    /\ job = [j \in Jobs |-> Idle]
    /\ foreign = 0
    /\ updates = 0
    /\ wasReady = {}
    /\ provisioned = {}

-----------------------------------------------------------------------------
(* Helpers.                                                                *)

Finish(j, result) == job' = [job EXCEPT ![j] = [@ EXCEPT !.pc = "complete",
                                                         !.result = result]]

(* The template or check that job j is at, and the name of its object.     *)
Current(j) == Head(job[j].rest)
CurrentName(j) == Name(job[j].r, Current(j))

(* Enter a step: its templates first. *)
EnterStep(j, s) ==
    IF s > Len(CreatorSteps(job[j].r))
    THEN Finish(j, "ok")
    ELSE job' = [job EXCEPT
                  ![j] = [@ EXCEPT !.pc = "create", !.step = s,
                                   !.rest = CreatorSteps(job[j].r)[s].templates,
                                   !.cache = NoObject]]

(* The current template is done: go on to the next.  After the last comes  *)
(* the barrier.                                                            *)
NextTemplate(j) ==
    job' = [job EXCEPT ![j] = [@ EXCEPT !.pc = "create",
                                        !.rest = Tail(job[j].rest),
                                        !.cache = NoObject]]

(* An API write of object o under name n. *)
Store(n, o) ==
    objects' = [objects EXCEPT ![n] = [o EXCEPT !.rv = objects[n].rv + 1]]

(* Mutant: a write that does not compare versions.                         *)
AcceptsAnyVersion(n, o) == objects[n].exists

(* An update is accepted for the version that was read. *)
Accepts(n, o) == objects[n].exists /\ objects[n].rv = o.rv

-----------------------------------------------------------------------------
(* Creator.                                                                *)

(* A create request has registered r and started its operation.            *)
StartCreate(j, r, p) ==
    /\ job[j].pc = "idle"
    /\ registry[r].state = "none"
    /\ registry' = [registry EXCEPT
                     ![r] = [@ EXCEPT !.state = "live", !.params = p,
                                      !.rv = registry[r].rv + 1,
                                      !.op = "provision"]]
    /\ job' = [job EXCEPT
                ![j] = [@ EXCEPT !.pc = "create", !.r = r, !.step = 1,
                                 !.params = p,
                                 !.rest = CreatorSteps(r)[1].templates]]
    /\ UNCHANGED <<objects, history>>

(* Mutant: the owner reference is forgotten.                               *)
NewObjectUnowned(r, t, p) ==
    [exists |-> TRUE, rv |-> 0, owners |-> {}, desired |-> Render[<<t, p>>],
     foreign |-> 0, ready |-> FALSE]

(* renderTemplate and the rest of createResource up to the Create call:    *)
(* the object that template t makes, annotated with what it was rendered   *)
(* to and owned by the registry.                                           *)
NewObject(r, t, p) ==
    [exists |-> TRUE, rv |-> 0, owners |-> {r}, desired |-> Render[<<t, p>>],
     foreign |-> 0, ready |-> FALSE]

(* createResource: the Create call.  The new object is owned by the        *)
(* registry.  A conflict is an error unless the template is a singleton.   *)
CreateResource(j) ==
    /\ job[j].pc = "create" /\ job[j].rest # << >>
    /\ LET n == CurrentName(j)
       IN  \/ /\ ~objects[n].exists
              /\ Store(n, NewObject(job[j].r, Current(j), job[j].params))
              /\ NextTemplate(j)
           \/ /\ objects[n].exists /\ Current(j) \in Singletons
              /\ job' = [job EXCEPT ![j].pc = "get"]
              /\ UNCHANGED objects
           \/ /\ objects[n].exists /\ Current(j) \notin Singletons
              /\ Finish(j, "error")
              /\ UNCHANGED objects
    /\ UNCHANGED <<registry, history>>

(* createResource: read the existing singleton.  The Get names a namespace *)
(* whatever the scope of the kind, so it finds no cluster-scoped object.   *)
GetSingleton(j) ==
    /\ job[j].pc = "get"
    /\ LET o == objects[CurrentName(j)]
       IN  IF o.exists /\ o.owners # {} /\ Current(j) \notin ClusterScoped
           THEN job' = [job EXCEPT ![j] = [@ EXCEPT !.pc = "own", !.cache = o]]
           ELSE Finish(j, "error")
    /\ UNCHANGED <<registry, objects, history>>

(* Mutant: the new owner takes the place of the others.                    *)
OwnersReplaced(o, r) == {r}

OwnersAppended(o, r) == o.owners \cup {r}

(* createResource: write the singleton back with one more owner.           *)
AppendOwner(j) ==
    /\ job[j].pc = "own"
    /\ LET n == CurrentName(j)
           o == job[j].cache
       IN  IF Accepts(n, o)
           THEN /\ Store(n, [o EXCEPT !.owners = OwnersAppended(o, job[j].r)])
                /\ NextTemplate(j)
           ELSE Finish(j, "error") /\ UNCHANGED objects
    /\ UNCHANGED <<registry, history>>

(* All templates of the step are created: on to its readiness checks.      *)
EnterBarrier(j) ==
    /\ job[j].pc = "create" /\ job[j].rest = << >>
    /\ job' = [job EXCEPT
                ![j] = [@ EXCEPT !.pc = "check",
                                 !.rest = CreatorSteps(job[j].r)[job[j].step].checks]]
    /\ UNCHANGED <<registry, objects, history>>

(* conditionReady of the object of check t. *)
ConditionReady(j, t) ==
    LET o == objects[Name(job[j].r, t)] IN o.exists /\ o.ready

(* Mutant: a check that times out counts as passed.                        *)
BarrierIgnoresTimeout(j) ==
    /\ job[j].pc = "check"
    /\ IF job[j].rest = << >> THEN EnterStep(j, job[j].step + 1)
       ELSE job' = [job EXCEPT ![j].rest = Tail(job[j].rest)]
    /\ UNCHANGED <<registry, objects, history>>

(* barrier: a check that is ready is passed, one that is not is retried,   *)
(* whatever the error, until its time is up.                               *)
Barrier(j) ==
    /\ job[j].pc = "check"
    /\ \/ job[j].rest = << >> /\ EnterStep(j, job[j].step + 1)
       \/ /\ job[j].rest # << >> /\ ConditionReady(j, Current(j))
          /\ job' = [job EXCEPT ![j].rest = Tail(job[j].rest)]
       \/ /\ job[j].rest # << >> /\ ~ConditionReady(j, Current(j))
          /\ Finish(j, "error")
    /\ UNCHANGED <<registry, objects, history>>

-----------------------------------------------------------------------------
(* Updater.                                                                *)

(* An update request reads the registry entry. *)
BeginUpdate(j, r, p) ==
    /\ job[j].pc = "idle"
    /\ updates < MaxUpdates
    /\ registry[r].state = "live"
    /\ updates' = updates + 1
    /\ job' = [job EXCEPT
                ![j] = [@ EXCEPT !.pc = "prepare", !.r = r, !.params = p,
                                 !.rv = registry[r].rv,
                                 !.rest = UpdaterTemplates(r)]]
    /\ UNCHANGED <<registry, objects, foreign, wasReady, provisioned>>

Skipped(t) == t \in Singletons

(* Updater.Prepare: compare the rendered template with the annotation of   *)
(* the object, and merge the difference into the object as it is.          *)
PrepareUpdate(j) ==
    /\ job[j].pc = "prepare" /\ job[j].rest # << >>
    /\ LET n == CurrentName(j)
           o == objects[n]
           new == Render[<<Current(j), job[j].params>>]
           merged == [name |-> n, object |-> [o EXCEPT !.desired = new]]
       IN  \/ /\ ~Skipped(Current(j)) /\ ~o.exists
              /\ job' = [job EXCEPT ![j] = Idle]
           \/ /\ Skipped(Current(j)) \/ (o.exists /\ o.desired = new)
              /\ job' = [job EXCEPT ![j].rest = Tail(job[j].rest)]
           \/ /\ ~Skipped(Current(j)) /\ o.exists /\ o.desired # new
              /\ job' = [job EXCEPT
                           ![j] = [@ EXCEPT !.rest = Tail(job[j].rest),
                                            !.todo = Append(job[j].todo, merged)]]
    /\ UNCHANGED <<registry, objects, history>>

(* operation.Start stores the new parameters with the lock; it fails if    *)
(* the entry has an operation or has changed since it was read.            *)
StartUpdate(j) ==
    /\ job[j].pc = "prepare" /\ job[j].rest = << >>
    /\ LET r == job[j].r
       IN  IF /\ registry[r].state = "live" /\ registry[r].op = "none"
              /\ registry[r].rv = job[j].rv
           THEN /\ registry' = [registry EXCEPT
                                 ![r] = [@ EXCEPT !.op = "update",
                                                  !.params = job[j].params,
                                                  !.rv = registry[r].rv + 1]]
                /\ job' = [job EXCEPT ![j].pc = "apply"]
           ELSE /\ job' = [job EXCEPT ![j] = Idle]
                /\ UNCHANGED registry
    /\ UNCHANGED <<objects, history>>

(* Mutant: a write that fails is skipped and the update goes on.           *)
ApplyUpdateSkips(j) ==
    /\ job[j].pc = "apply"
    /\ \/ /\ job[j].todo = << >>
          /\ Finish(j, "ok")
          /\ UNCHANGED objects
       \/ /\ job[j].todo # << >>
          /\ LET d == Head(job[j].todo)
             IN  /\ IF Accepts(d.name, d.object) THEN Store(d.name, d.object)
                                                 ELSE UNCHANGED objects
                 /\ job' = [job EXCEPT ![j].todo = Tail(job[j].todo)]
    /\ UNCHANGED <<registry, history>>

(* Updater.run: write the merged objects, stop at the first error.         *)
ApplyUpdate(j) ==
    /\ job[j].pc = "apply"
    /\ \/ /\ job[j].todo = << >>
          /\ Finish(j, "ok")
          /\ UNCHANGED objects
       \/ /\ job[j].todo # << >>
          /\ LET d == Head(job[j].todo)
             IN  IF Accepts(d.name, d.object)
                 THEN /\ Store(d.name, d.object)
                      /\ job' = [job EXCEPT ![j].todo = Tail(job[j].todo)]
                 ELSE Finish(j, "error") /\ UNCHANGED objects
    /\ UNCHANGED <<registry, history>>

(* A call that Kubernetes, or the REST mapping before it, refuses: the     *)
(* Creator and Updater.run give up with the error, a readiness check is    *)
(* only retried until its time is up, and Updater.Prepare and              *)
(* operation.Start end the request before it has an operation.             *)
CallFails(j) ==
    /\ \/ /\ \/ job[j].pc \in {"create", "check"} /\ job[j].rest # << >>
             \/ job[j].pc \in {"get", "own"}
             \/ job[j].pc = "apply" /\ job[j].todo # << >>
          /\ Finish(j, "error")
       \/ /\ job[j].pc = "prepare"
          /\ job' = [job EXCEPT ![j] = Idle]
    /\ UNCHANGED <<registry, objects, history>>

-----------------------------------------------------------------------------
(* Ends of operations, and the rest of the cluster.                        *)

(* operation.Complete and the poll that ends the operation. *)
CompleteJob(j) ==
    /\ job[j].pc = "complete"
    /\ LET r == job[j].r
       IN  registry' = [registry EXCEPT
                         ![r] = [@ EXCEPT !.rv = registry[r].rv + 1,
                                          !.last = registry[r].op,
                                          !.op = "none",
                                          !.result = job[j].result]]
    /\ provisioned' = provisioned \cup
                      {r \in {job[j].r} : /\ registry[r].op = "provision"
                                         /\ job[j].result = "ok"}
    /\ job' = [job EXCEPT ![j] = Idle]
    /\ UNCHANGED <<objects, foreign, updates, wasReady>>

(* Deleter.Run deletes the registry entry and nothing else. *)
DeleteRegistry(r) ==
    /\ registry[r].state = "live" /\ registry[r].op = "none"
    /\ registry' = [registry EXCEPT ![r] = [NoEntry EXCEPT !.state = "gone"]]
    /\ UNCHANGED <<objects, job, history>>

Live == {r \in Registries : registry[r].state = "live"}

(* Kubernetes collects an object that has owners, all of them gone. *)
Collect(n) ==
    /\ objects[n].exists /\ objects[n].owners # {}
    /\ objects[n].owners \cap Live = {}
    /\ objects' = [objects EXCEPT ![n] = [NoObject EXCEPT !.rv = objects[n].rv]]
    /\ UNCHANGED <<registry, job, history>>

(* The object's own controller reports it ready. *)
BecomeReady(n) ==
    /\ objects[n].exists /\ ~objects[n].ready
    /\ Store(n, [objects[n] EXCEPT !.ready = TRUE])
    /\ wasReady' = wasReady \cup {n}
    /\ UNCHANGED <<registry, job, foreign, updates, provisioned>>

(* Another controller changes the object. *)
ForeignWrite(n) ==
    /\ objects[n].exists
    /\ foreign < MaxWrites
    /\ foreign' = foreign + 1
    /\ Store(n, [objects[n] EXCEPT !.foreign = @ + 1])
    /\ UNCHANGED <<registry, job, updates, wasReady, provisioned>>

-----------------------------------------------------------------------------
JobStep(j) ==
    \/ CreateResource(j)
    \/ GetSingleton(j)
    \/ AppendOwner(j)
    \/ EnterBarrier(j)
    \/ Barrier(j)
    \/ PrepareUpdate(j)
    \/ StartUpdate(j)
    \/ ApplyUpdate(j)
    \/ CallFails(j)
    \/ CompleteJob(j)

ClientStep ==
    \/ \E j \in Jobs, r \in Registries, p \in Params :
          StartCreate(j, r, p) \/ BeginUpdate(j, r, p)
    \/ \E r \in Registries : DeleteRegistry(r)

ClusterStep == \E n \in Names : Collect(n) \/ BecomeReady(n) \/ ForeignWrite(n)

Next == (\E j \in Jobs : JobStep(j)) \/ ClientStep \/ ClusterStep

Spec == Init /\ [][Next]_vars

(* Goroutines run on, and Kubernetes collects garbage. *)
FairSpec ==
    /\ Spec
    /\ \A j \in Jobs : WF_vars(JobStep(j))
    /\ \A n \in Names : WF_vars(Collect(n))

-----------------------------------------------------------------------------
(* Safety.                                                                 *)

CreatorTemplates(r) ==
    UNION {Range(CreatorSteps(r)[i].templates) : i \in DOMAIN CreatorSteps(r)}
CreatorChecks(r, steps) ==
    UNION {Range(CreatorSteps(r)[i].checks) : i \in steps}

(* A registry whose provisioning succeeded has all its objects, shared     *)
(* ones too, and owns each: whatever other registries are created, updated *)
(* and deleted, no owner reference is lost and nothing is collected early. *)
ObjectsKept ==
    \A r \in Registries :
        registry[r].state = "live" /\ r \in provisioned =>
            \A t \in CreatorTemplates(r) :
                objects[Name(r, t)].exists /\ r \in objects[Name(r, t)].owners

(* Readiness checks are barriers: an object of a later step exists only if *)
(* everything the earlier steps check has been ready, and so has all that  *)
(* any step checks when provisioning is reported as successful.            *)
BarriersHold ==
    \A r \in Registries :
        /\ \A j \in Jobs :
              job[j].r = r /\ job[j].pc \in {"create", "get", "own"} =>
                 \A t \in CreatorChecks(r, 1 .. job[j].step - 1) :
                     Name(r, t) \in wasReady
        /\ r \in provisioned =>
              \A t \in CreatorChecks(r, DOMAIN CreatorSteps(r)) :
                  Name(r, t) \in wasReady

(* After a successful update every object of a plan with "templates" that  *)
(* is not a singleton is the rendering of the parameters on record.        *)
UpdateApplied ==
    \A r \in Registries \ UseSteps :
        /\ registry[r].state = "live" /\ registry[r].op = "none"
        /\ registry[r].last = "update" /\ registry[r].result = "ok"
        => \A t \in CreatorTemplates(r) \ Singletons :
              objects[Name(r, t)].exists =>
                 objects[Name(r, t)].desired = Render[<<t, registry[r].params>>]

(* Neither an update nor a shared creation undoes what another controller  *)
(* wrote to an object between its read and its write.                      *)
ForeignKept ==
    [][\A n \in Names :
          objects[n].exists /\ objects'[n].exists =>
             objects'[n].foreign >= objects[n].foreign]_vars

-----------------------------------------------------------------------------
(* Liveness.                                                               *)

(* registry.adoc: deleting a registry deletes what it generated, unless it *)
(* is shared with a registry that lives on.                                *)
EverythingCollected ==
    \A r \in Registries : registry[r].state = "gone" ~>
        \A n \in Names : objects[n].exists => objects[n].owners \cap Live # {}
=============================================================================
