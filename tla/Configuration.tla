--------------------------- MODULE Configuration ---------------------------
(***************************************************************************)
(* How the broker follows its configuration while it serves requests:      *)
(* pkg/config, and the wrapper around every HTTP request in pkg/broker.    *)
(*                                                                         *)
(* The configuration is a custom resource.  A shared informer watches it   *)
(* and calls the handlers of pkg/config one event after another; each      *)
(* writes the verdict of validation back to the resource, then replaces    *)
(* the global configuration under the write lock.  Requests hold the read  *)
(* lock from start to end.                                                 *)
(*                                                                         *)
(* The lock is Go's sync.RWMutex: a writer that waits keeps new readers    *)
(* out, and its Unlock lets every waiting reader in.                       *)
(***************************************************************************)
EXTENDS Naturals, Sequences

CONSTANTS
    None,         \* no configuration, no status
    Specs,        \* specs a user may store
    Verdict,      \* Verdict[s]: "valid", or the message of validate(s)
    Goroutines,   \* request goroutines that may run at once
    Requests,     \* the requests clients may send
    MaxEdits,     \* bound: writes of the resource by users
    MaxRelists,   \* bound: lost watches
    MaxFaults     \* bound: status writes that fail

(* open: a path without header checks, such as /readyz.  headers: they     *)
(* pass the checks.  kind tells apart the handlers that matter here.       *)
Request == [open : BOOLEAN, headers : BOOLEAN, kind : {"any", "bind"}]

ASSUME ConfigurationAssumption ==
    /\ None \notin Specs
    /\ DOMAIN Verdict = Specs /\ None \notin {Verdict[s] : s \in Specs}
    /\ Requests \subseteq Request /\ Requests # {}

ASSUME ConfigurationBounds ==
    MaxEdits \in Nat /\ MaxRelists \in Nat /\ MaxFaults \in Nat

Verdicts == {Verdict[s] : s \in Specs}

(* The resource.  It has no status subresource: one version covers both.   *)
Stored == [exists : {TRUE},
           rv     : Nat,
           spec   : Specs,
           status : Verdicts \cup {None}]

NoResource == [exists |-> FALSE, rv |-> 0, spec |-> None, status |-> None]

Resource == Stored \cup {NoResource}

Event == [type : {"add", "update", "delete", "tombstone"}, obj : Stored]

(* What the handler has yet to do.  Only a resource gets a status.         *)
Job == [pc : {"status"}, obj : Stored] \cup
       [pc : {"idle", "lock", "locking"}, obj : Resource]

(* A request goroutine; cfg is the configuration it found at its start.    *)
Goroutine == [pc  : {"idle", "waiting", "locked", "running", "barrier"},
              req : Request,
              cfg : Specs \cup {None}]

NoJob == [pc |-> "idle", obj |-> NoResource]
Idle == [pc |-> "idle", req |-> CHOOSE r \in Requests : TRUE, cfg |-> None]

VARIABLES
    stored,    \* the resource in the API server
    rv,        \* number of writes of it so far
    watch,     \* versions of it that the informer has not received yet
    cache,     \* the informer's copy
    queue,     \* events for the handlers
    job,       \* the goroutine that runs the handlers
    config,    \* c.config: the spec that is served, or None
    pending,   \* a writer holds or waits for the lock
    request,   \* the request goroutines
    edits, relists, faults

vars == <<stored, rv, watch, cache, queue, job, config, pending, request,
          edits, relists, faults>>
cluster == <<stored, rv, watch>>
informer == <<cache, queue>>
bounds == <<edits, relists, faults>>

(* The shape of the whole state. *)
TypeOK ==
    /\ stored \in Resource /\ cache \in Resource
    /\ rv \in Nat
    /\ watch \in Seq(Resource)
    /\ queue \in Seq(Event)
    /\ job \in Job
    /\ config \in Specs \cup {None}
    /\ pending \in BOOLEAN
    /\ request \in [Goroutines -> Goroutine]
    /\ edits \in 0 .. MaxEdits /\ relists \in 0 .. MaxRelists
    /\ faults \in 0 .. MaxFaults

Init ==
    /\ stored = NoResource /\ cache = NoResource
    /\ rv = 0
    /\ watch = << >> /\ queue = << >>
    /\ job = NoJob
    /\ config = None
    /\ pending = FALSE
    /\ request = [g \in Goroutines |-> Idle]
    /\ edits = 0 /\ relists = 0 /\ faults = 0

-----------------------------------------------------------------------------
(* The resource and the informer (client-go).                              *)

Store(o) ==
    /\ stored' = o
    /\ rv' = rv + 1
    /\ watch' = Append(watch, o)

(* A user creates, edits or deletes the resource.  An edit may keep the    *)
(* status it read or leave it out.                                         *)
UserWrite ==
    /\ edits < MaxEdits
    /\ edits' = edits + 1
    /\ \/ \E s \in Specs, st \in {stored.status, None} :
             Store([exists |-> TRUE, rv |-> rv + 1, spec |-> s, status |-> st])
       \/ stored.exists /\ Store(NoResource)
    /\ UNCHANGED <<informer, job, config, pending, request, relists,
                   faults>>

Added(old) == IF old.exists THEN "update" ELSE "add"

(* The watch delivers the next version. *)
Observe ==
    /\ watch # << >>
    /\ LET o == Head(watch)
           event == IF o.exists THEN [type |-> Added(cache), obj |-> o]
                                ELSE [type |-> "delete", obj |-> cache]
       IN  /\ queue' = IF o.exists \/ cache.exists
                       THEN Append(queue, event) ELSE queue
           /\ cache' = o
    /\ watch' = Tail(watch)
    /\ UNCHANGED <<stored, rv, job, config, pending, request, bounds>>

(* The watch was lost: the informer lists the resource anew.  One that has *)
(* gone meanwhile is reported as DeletedFinalStateUnknown.                 *)
Relist ==
    /\ relists < MaxRelists
    /\ relists' = relists + 1
    /\ watch' = << >>
    /\ queue' = CASE stored.exists ->
                       Append(queue, [type |-> Added(cache), obj |-> stored])
                  [] ~stored.exists /\ cache.exists ->
                       Append(queue, [type |-> "tombstone", obj |-> cache])
                  [] OTHER -> queue
    /\ cache' = stored
    /\ UNCHANGED <<stored, rv, job, config, pending, request, edits,
                   faults>>

(* Once a minute the informer reports what it has as an update.  Bound:    *)
(* only when nothing else is queued.                                       *)
Resync ==
    /\ cache.exists /\ queue = << >> /\ job.pc = "idle"
    /\ queue' = << [type |-> "update", obj |-> cache] >>
    /\ UNCHANGED <<cluster, cache, job, config, pending, request,
                   bounds>>

-----------------------------------------------------------------------------
(* The handlers of pkg/config.                                             *)

(* What the handlers make the configuration: nothing for a deleted         *)
(* resource and for an invalid one.                                        *)
Served(obj) ==
    IF obj.exists /\ Verdict[obj.spec] = "valid" THEN obj.spec ELSE None

(* Mutant: only a resource without a status gets one.                      *)
StatusChangedOnce(obj) == obj.status = None

(* updateStatus writes only a status that differs. *)
StatusChanged(obj) == obj.status # Verdict[obj.spec]

(* Mutant: deletions are ignored too.                                      *)
UnexpectedDelete(event) == event.type \in {"tombstone", "delete"}

(* deleteHandler expects a resource: a tombstone is not one.               *)
Unexpected(event) == event.type = "tombstone"

(* createHandler, updateHandler or deleteHandler is called for the next    *)
(* event.                                                                  *)
HandleEvent ==
    /\ job.pc = "idle" /\ queue # << >>
    /\ queue' = Tail(queue)
    /\ LET e == Head(queue)
       IN  job' = CASE Unexpected(e) -> NoJob
                    [] ~Unexpected(e) /\ e.type = "delete" ->
                         [pc |-> "lock", obj |-> NoResource]
                    [] ~Unexpected(e) /\ e.type # "delete" ->
                         [pc |-> IF StatusChanged(e.obj) THEN "status"
                                                         ELSE "lock",
                          obj |-> e.obj]
    /\ UNCHANGED <<cluster, cache, config, pending, request, bounds>>

(* Mutant: the status is written whatever the version is by now.           *)
StatusAcceptedAnyVersion(obj) == stored.exists

StatusAccepted(obj) == stored.exists /\ stored.rv = obj.rv

(* The Update call of updateStatus writes the whole resource.  An error is *)
(* only logged.                                                            *)
UpdateStatus(fate) ==
    /\ job.pc = "status"
    /\ IF fate = "ok" THEN UNCHANGED faults
                      ELSE faults < MaxFaults /\ faults' = faults + 1
    /\ IF fate = "ok" /\ StatusAccepted(job.obj)
       THEN Store([job.obj EXCEPT !.rv = rv + 1,
                                  !.status = Verdict[job.obj.spec]])
       ELSE UNCHANGED cluster
    /\ job' = [job EXCEPT !.pc = "lock"]
    /\ UNCHANGED <<informer, config, pending, request, edits, relists>>

(* c.lock.Lock(): from now on new readers wait. *)
LockConfig ==
    /\ job.pc = "lock"
    /\ job' = [job EXCEPT !.pc = "locking"]
    /\ pending' = TRUE
    /\ UNCHANGED <<cluster, informer, config, request, bounds>>

Holds(g) == request[g].pc \in {"locked", "running", "barrier"}

WakeReaders ==
    request' = [g \in Goroutines |->
                  IF request[g].pc = "waiting"
                  THEN [request[g] EXCEPT !.pc = "locked"] ELSE request[g]]

(* Mutant: the writer does not wait for the readers.                       *)
SetConfigNow ==
    /\ job.pc = "locking"
    /\ config' = Served(job.obj)
    /\ job' = NoJob
    /\ pending' = FALSE
    /\ WakeReaders
    /\ UNCHANGED <<cluster, informer, bounds>>

(* Mutant: a return without Unlock when the configuration is invalid.      *)
SetConfigLeaks ==
    /\ job.pc = "locking"
    /\ \A g \in Goroutines : ~Holds(g)
    /\ config' = Served(job.obj)
    /\ job' = NoJob
    /\ pending' = (config' = None)
    /\ IF config' = None THEN UNCHANGED request ELSE WakeReaders
    /\ UNCHANGED <<cluster, informer, bounds>>

(* The readers that came before the writer have left: it sets the          *)
(* configuration and unlocks, and those that came after it enter.          *)
SetConfig ==
    /\ job.pc = "locking"
    /\ \A g \in Goroutines : ~Holds(g)
    /\ config' = Served(job.obj)
    /\ job' = NoJob
    /\ pending' = FALSE
    /\ WakeReaders
    /\ UNCHANGED <<cluster, informer, bounds>>

-----------------------------------------------------------------------------
(* Requests.                                                               *)

(* config.Lock() at the start of ServeHTTP. *)
Receive(g, r) ==
    /\ request[g].pc = "idle"
    /\ request' = [request EXCEPT
                     ![g] = [pc |-> IF pending THEN "waiting" ELSE "locked",
                             req |-> r, cfg |-> None]]
    /\ UNCHANGED <<cluster, informer, job, config, pending, bounds>>

(* The request is answered, whatever the answer, and the deferred          *)
(* config.Unlock() releases the read lock.                                 *)
Respond(g) == request' = [request EXCEPT ![g] = Idle]

(* handleRequestHeaders: authentication, API version, content type.        *)
HandleRequestHeaders(r) == r.open \/ r.headers

(* handleReadiness, the header checks, and on to the router.               *)
Serve(g) ==
    /\ request[g].pc = "locked"
    /\ LET served == config # None /\ HandleRequestHeaders(request[g].req)
       IN  \/ ~served /\ Respond(g)
           \/ /\ served
              /\ request' = [request EXCEPT ![g] = [@ EXCEPT !.pc = "running",
                                                             !.cfg = config]]
    /\ UNCHANGED <<cluster, informer, job, config, pending, bounds>>

(* The handler is done. *)
Handle(g) ==
    /\ request[g].pc = "running" /\ request[g].req.kind # "bind"
    /\ Respond(g)
    /\ UNCHANGED <<cluster, informer, job, config, pending, bounds>>

(* A bind runs its Creator itself and waits for the readiness checks.      *)
EnterBarrier(g) ==
    /\ request[g].pc = "running" /\ request[g].req.kind = "bind"
    /\ request' = [request EXCEPT ![g].pc = "barrier"]
    /\ UNCHANGED <<cluster, informer, job, config, pending, bounds>>

LeaveBarrier(g) ==
    /\ request[g].pc = "barrier"
    /\ Respond(g)
    /\ UNCHANGED <<cluster, informer, job, config, pending, bounds>>

-----------------------------------------------------------------------------
JobStep ==
    \/ HandleEvent
    \/ \E fate \in {"ok", "lost"} : UpdateStatus(fate)
    \/ LockConfig
    \/ SetConfig

RequestStep(g) ==
    \/ Serve(g)
    \/ Handle(g)
    \/ EnterBarrier(g)
    \/ LeaveBarrier(g)

Next ==
    \/ UserWrite
    \/ Observe
    \/ Relist
    \/ Resync
    \/ JobStep
    \/ \E g \in Goroutines, r \in Requests : Receive(g, r)
    \/ \E g \in Goroutines : RequestStep(g)

Spec == Init /\ [][Next]_vars

(* The informer delivers and resyncs, goroutines run, requests end (a      *)
(* barrier at the latest by its timeout).                                  *)
Fairness ==
    /\ WF_vars(Observe)
    /\ WF_vars(Resync)
    /\ WF_vars(JobStep)
    /\ \A g \in Goroutines : WF_vars(RequestStep(g))

FairSpec == Spec /\ Fairness

-----------------------------------------------------------------------------
(* Safety.                                                                 *)

(* config.go: updates appear atomic to a request.  From the readiness test *)
(* to its response a request sees one and the same configuration, and it   *)
(* is never nil.                                                           *)
OneConfigPerRequest ==
    \A g \in Goroutines :
        request[g].pc \in {"running", "barrier"} =>
            request[g].cfg = config /\ config # None

(* Requests are only ever served from a configuration that validates.      *)
ServedValid == config # None => Verdict[config] = "valid"

(* The status that the broker writes back never undoes an edit that the    *)
(* user made since the event.                                              *)
StatusKeepsSpec ==
    [][edits' = edits => stored'.spec = stored.spec]_vars

-----------------------------------------------------------------------------
(* Liveness.                                                               *)

Follows == config = Served(stored)
TombstoneQueued == \E i \in DOMAIN queue : queue[i].type = "tombstone"

(* config.go: the configuration is added, modified and deleted with the    *)
(* resource.  When users stop editing, the broker ends up serving what is  *)
(* stored, or nothing if that is invalid or gone.  Lost watches make one   *)
(* exception: the deletion that a new list reports as a tombstone.         *)
Converges ==
    \/ <>[]Follows
    \/ <>TombstoneQueued /\ <>[](stored.exists => Follows)

(* kubernetes.adoc: validation is reported through the status.  In the end *)
(* the status is that of the spec next to it, although a status write that *)
(* fails or conflicts is not retried.                                      *)
StatusSettles ==
    <>[](stored.exists => stored.status = Verdict[stored.spec])

(* No request waits for the configuration lock forever, however often the  *)
(* configuration is written.                                               *)
WaitersServed ==
    \A g \in Goroutines :
        request[g].pc = "waiting" ~> request[g].pc # "waiting"

=============================================================================
