------------------------ MODULE ConfigurationProofs ------------------------
(***************************************************************************)
(* Proof that a request sees one configuration from start to end, and only *)
(* one that validates, for any number of requests, edits, lost watches and *)
(* failed status writes.                                                   *)
(*                                                                         *)
(* OneConfigPerRequest is inductive together with TypeOK: the only step    *)
(* that writes config waits until no request holds the lock, and the       *)
(* requests it lets in have yet to look.                                   *)
(*                                                                         *)
(* StatusKeepsSpec, about steps, rests on CopiesInv: a copy of the         *)
(* resource with the version that is stored has the spec that is stored.   *)
(***************************************************************************)
EXTENDS Configuration, TLAPS

ConfigInv == OneConfigPerRequest /\ ServedValid

(* A goroutine without a request is one. *)
LEMMA IdleType == Idle \in Goroutine /\ Idle.pc = "idle"
<1>1. (CHOOSE r \in Requests : TRUE) \in Request
  BY ConfigurationAssumption
<1> QED
  BY <1>1 DEF Idle, Goroutine

(* A resource, and what is served for it. *)
LEMMA ResourceType ==
    ASSUME NEW o \in Resource
    PROVE  /\ o.exists => o \in Stored
           /\ ~o.exists => o = NoResource
           /\ o.status \in Verdicts \cup {None}
           /\ Served(o) \in Specs \cup {None}
           /\ Served(o) # None => Verdict[Served(o)] = "valid"
<1>1. CASE o \in Stored
  BY <1>1 DEF Stored, Served
<1>2. CASE o = NoResource
  BY <1>2 DEF NoResource, Served
<1> QED
  BY <1>1, <1>2 DEF Resource

-----------------------------------------------------------------------------
(* Types: the cluster and the informer.                                    *)

(* A write of the resource keeps the types of the cluster. *)
LEMMA StoreType ==
    ASSUME TypeOK, NEW o \in Resource, Store(o)
    PROVE  stored' \in Resource /\ rv' \in Nat /\ watch' \in Seq(Resource)
BY DEF TypeOK, Store

(* A user's write keeps the types. *)
LEMMA UserWriteType == TypeOK /\ UserWrite => TypeOK'
<1> SUFFICES ASSUME TypeOK, UserWrite PROVE TypeOK'
  OBVIOUS
<1>1. stored' \in Resource /\ rv' \in Nat /\ watch' \in Seq(Resource)
  <2>1. CASE stored.exists /\ Store(NoResource)
    BY <2>1, StoreType DEF Resource
  <2>2. ASSUME NEW s \in Specs, NEW st \in {stored.status, None},
               Store([exists |-> TRUE, rv |-> rv + 1, spec |-> s,
                      status |-> st])
        PROVE  stored' \in Resource /\ rv' \in Nat /\ watch' \in Seq(Resource)
    <3>1. stored.status \in Verdicts \cup {None}
      BY ResourceType DEF TypeOK
    <3>2. [exists |-> TRUE, rv |-> rv + 1, spec |-> s, status |-> st]
             \in Resource
      BY <3>1 DEF TypeOK, Resource, Stored
    <3> QED
      BY <2>2, <3>2, StoreType
  <2> QED
    BY <2>1, <2>2 DEF UserWrite
<1>2. edits' \in 0 .. MaxEdits
  BY ConfigurationBounds DEF UserWrite, TypeOK
<1> QED
  BY <1>1, <1>2 DEF UserWrite, informer, TypeOK

(* What the informer appends to the queue is an event about a resource.    *)
LEMMA EventType ==
    ASSUME NEW o \in Resource, o.exists,
           NEW t \in {"add", "update", "delete", "tombstone"}
    PROVE  [type |-> t, obj |-> o] \in Event
BY ResourceType DEF Event

(* An event of the watch keeps the types. *)
LEMMA ObserveType == TypeOK /\ Observe => TypeOK'
<1> SUFFICES ASSUME TypeOK, Observe PROVE TypeOK'
  OBVIOUS
<1> DEFINE o == Head(watch)
           event == IF o.exists THEN [type |-> Added(cache), obj |-> o]
                                ELSE [type |-> "delete", obj |-> cache]
<1>1. o \in Resource /\ Tail(watch) \in Seq(Resource) /\ cache \in Resource
  BY DEF TypeOK, Observe
<1>2. Added(cache) \in {"add", "update"}
  BY DEF Added
<1>3. o.exists \/ cache.exists => event \in Event
  BY <1>1, <1>2, EventType
<1>4. queue' \in Seq(Event)
  <2>1. CASE o.exists \/ cache.exists
    <3>1. queue' = Append(queue, event)
      BY <2>1 DEF Observe
    <3> HIDE DEF event
    <3> QED
      BY <2>1, <3>1, <1>3 DEF TypeOK
  <2>2. CASE ~(o.exists \/ cache.exists)
    BY <2>2 DEF Observe, TypeOK
  <2> QED
    BY <2>1, <2>2
<1>5. cache' \in Resource /\ watch' \in Seq(Resource)
  BY <1>1 DEF Observe
<1> QED
  BY <1>4, <1>5 DEF Observe, bounds, TypeOK

(* A new list keeps the types. *)
LEMMA RelistType == TypeOK /\ Relist => TypeOK'
<1> SUFFICES ASSUME TypeOK, Relist PROVE TypeOK'
  OBVIOUS
<1>1. stored \in Resource /\ cache \in Resource /\ queue \in Seq(Event)
  BY DEF TypeOK
<1>2. Added(cache) \in {"add", "update"}
  BY DEF Added
<1>3. /\ stored.exists => [type |-> Added(cache), obj |-> stored] \in Event
      /\ cache.exists => [type |-> "tombstone", obj |-> cache] \in Event
  BY <1>1, <1>2, EventType
<1>4. queue' \in Seq(Event)
  BY <1>1, <1>3 DEF Relist
<1>5. watch' \in Seq(Resource) /\ cache' \in Resource
  BY <1>1 DEF Relist
<1>6. relists' \in 0 .. MaxRelists
  BY ConfigurationBounds DEF Relist, TypeOK
<1> QED
  BY <1>4, <1>5, <1>6 DEF Relist, TypeOK

(* A resync keeps the types. *)
LEMMA ResyncType == TypeOK /\ Resync => TypeOK'
<1> SUFFICES ASSUME TypeOK, Resync PROVE TypeOK'
  OBVIOUS
<1>1. [type |-> "update", obj |-> cache] \in Event
  BY EventType DEF TypeOK, Resync
<1>2. queue' \in Seq(Event)
  BY <1>1 DEF Resync
<1> QED
  BY <1>2 DEF Resync, cluster, bounds, TypeOK

-----------------------------------------------------------------------------
(* Types: the handlers of pkg/config and the requests.                     *)

(* The call of a handler keeps the types. *)
LEMMA HandleEventType == TypeOK /\ HandleEvent => TypeOK'
<1> SUFFICES ASSUME TypeOK, HandleEvent PROVE TypeOK'
  OBVIOUS
<1> DEFINE e == Head(queue)
<1>1. e \in Event /\ queue' \in Seq(Event)
  BY DEF TypeOK, HandleEvent
<1>2. e.obj \in Stored
  BY <1>1 DEF Event
<1>3. job' \in Job
  <2>1. NoJob \in Job /\ [pc |-> "lock", obj |-> NoResource] \in Job
    BY DEF NoJob, Job, Resource
  <2>2. /\ [pc |-> "status", obj |-> e.obj] \in Job
        /\ [pc |-> "lock", obj |-> e.obj] \in Job
    BY <1>2 DEF Job, Resource
  <2>3. \/ job' = NoJob
        \/ job' = [pc |-> "lock", obj |-> NoResource]
        \/ job' = [pc |-> "status", obj |-> e.obj]
        \/ job' = [pc |-> "lock", obj |-> e.obj]
    BY DEF HandleEvent
  <2> QED
    BY <2>1, <2>2, <2>3
<1> QED
  BY <1>1, <1>3 DEF HandleEvent, cluster, bounds, TypeOK

(* A resource with a new status is a resource. *)
LEMMA StatusWritten ==
    ASSUME NEW o \in Stored, NEW n \in Nat, NEW v \in Verdicts
    PROVE  [o EXCEPT !.rv = n, !.status = v] \in Stored
BY DEF Stored

(* The write of the status keeps the types. *)
LEMMA UpdateStatusType ==
    ASSUME TypeOK, NEW fate \in {"ok", "lost"}, UpdateStatus(fate)
    PROVE  TypeOK'
<1>1. job.pc = "status" /\ job.obj \in Stored
  BY DEF TypeOK, Job, UpdateStatus
<1>2. stored' \in Resource /\ rv' \in Nat /\ watch' \in Seq(Resource)
  <2> DEFINE o == [job.obj EXCEPT !.rv = rv + 1,
                                  !.status = Verdict[job.obj.spec]]
  <2>1. job.obj.spec \in Specs
    BY <1>1 DEF Stored
  <2>2. Verdict[job.obj.spec] \in Verdicts
    BY <2>1 DEF Verdicts
  <2>3. PICK x \in Stored, n \in Nat, v \in Verdicts :
          x = job.obj /\ n = rv + 1 /\ v = Verdict[job.obj.spec]
    BY <1>1, <2>2 DEF TypeOK
  <2>4. o \in Resource
    <3>1. o = [x EXCEPT !.rv = n, !.status = v]
      BY <2>3
    <3> HIDE DEF o
    <3> QED
      BY <3>1, StatusWritten DEF Resource
  <2>5. CASE Store(o)
    <3> HIDE DEF o
    <3> QED
      BY <2>4, <2>5, StoreType
  <2>6. CASE UNCHANGED cluster
    BY <2>6 DEF cluster, TypeOK
  <2> QED
    BY <2>5, <2>6 DEF UpdateStatus
<1>3. job' \in Job
  <2>1. job = [pc |-> job.pc, obj |-> job.obj]
    BY DEF TypeOK, Job
  <2>2. job' = [pc |-> "lock", obj |-> job.obj]
    BY <2>1 DEF UpdateStatus
  <2> QED
    BY <1>1, <2>2 DEF Job, Resource
<1>4. faults' \in 0 .. MaxFaults
  BY ConfigurationBounds DEF UpdateStatus, TypeOK
<1> QED
  BY <1>2, <1>3, <1>4 DEF UpdateStatus, informer, TypeOK

(* Lock keeps the types. *)
LEMMA LockConfigType == TypeOK /\ LockConfig => TypeOK'
<1> SUFFICES ASSUME TypeOK, LockConfig PROVE TypeOK'
  OBVIOUS
<1>1. job' \in Job
  <2>1. job.obj \in Resource /\ job = [pc |-> job.pc, obj |-> job.obj]
    BY DEF TypeOK, Job, Resource
  <2>2. job' = [pc |-> "locking", obj |-> job.obj]
    BY <2>1 DEF LockConfig
  <2> QED
    BY <2>1, <2>2 DEF Job
<1> QED
  BY <1>1 DEF LockConfig, cluster, informer, bounds, TypeOK

(* The write of the configuration keeps the types. *)
LEMMA SetConfigType == TypeOK /\ SetConfig => TypeOK'
<1> SUFFICES ASSUME TypeOK, SetConfig PROVE TypeOK'
  OBVIOUS
<1>1. job.obj \in Resource /\ NoJob \in Job
  BY DEF TypeOK, Job, Resource, NoJob
<1>2. config' \in Specs \cup {None}
  BY <1>1, ResourceType DEF SetConfig
<1>3. request' \in [Goroutines -> Goroutine]
  BY DEF TypeOK, SetConfig, WakeReaders, Goroutine
<1> QED
  BY <1>1, <1>2, <1>3 DEF SetConfig, cluster, informer, bounds, TypeOK

(* What the steps of one request do to it. *)
LEMMA RequestStepEffect ==
    ASSUME TypeOK, NEW g \in Goroutines,
           (\E r \in Requests : Receive(g, r)) \/ RequestStep(g)
    PROVE  /\ UNCHANGED <<cluster, informer, job, config, pending, bounds>>
           /\ request' \in [Goroutines -> Goroutine]
           /\ \A k \in Goroutines \ {g} : request'[k] = request[k]
           /\ request'[g].pc = "running" =>
                 request'[g].cfg = config /\ config # None
           /\ request'[g].pc = "barrier" =>
                 request[g].pc = "running" /\ request'[g].cfg = request[g].cfg
<1>1. UNCHANGED <<cluster, informer, job, config, pending, bounds>>
  BY DEF Receive, RequestStep, Serve, Handle, EnterBarrier, LeaveBarrier
<1>2. CASE \E r \in Requests : Receive(g, r)
  <2>1. PICK r \in Requests : Receive(g, r)
    BY <1>2
  <2>2. PICK pc \in {"waiting", "locked"} :
          request' = [request EXCEPT ![g] = [pc |-> pc, req |-> r,
                                             cfg |-> None]]
    BY <2>1 DEF Receive
  <2>3. [pc |-> pc, req |-> r, cfg |-> None] \in Goroutine
    BY ConfigurationAssumption DEF Goroutine
  <2> QED
    BY <1>1, <2>2, <2>3 DEF TypeOK
<1>3. CASE Respond(g)
  BY <1>1, <1>3, IdleType DEF Respond, TypeOK
<1>4. CASE /\ config # None
           /\ request' = [request EXCEPT ![g] = [@ EXCEPT !.pc = "running",
                                                          !.cfg = config]]
  <2> DEFINE x == [request[g] EXCEPT !.pc = "running", !.cfg = config]
  <2>1. x \in Goroutine /\ x.pc = "running" /\ x.cfg = config
    BY DEF TypeOK, Goroutine
  <2>2. request' = [request EXCEPT ![g] = x]
    BY <1>4
  <2> HIDE DEF x
  <2> QED
    BY <1>1, <1>4, <2>1, <2>2 DEF TypeOK
<1>5. CASE EnterBarrier(g)
  <2> DEFINE x == [request[g] EXCEPT !.pc = "barrier"]
  <2>1. x \in Goroutine /\ x.pc = "barrier" /\ x.cfg = request[g].cfg
    BY DEF TypeOK, Goroutine
  <2>2. request' = [request EXCEPT ![g] = x] /\ request[g].pc = "running"
    BY <1>5 DEF EnterBarrier
  <2> HIDE DEF x
  <2> QED
    BY <1>1, <2>1, <2>2 DEF TypeOK
<1> QED
  BY <1>2, <1>3, <1>4, <1>5 DEF RequestStep, Serve, Handle, LeaveBarrier

(* The steps of a request keep the types. *)
LEMMA RequestType ==
    ASSUME TypeOK, NEW g \in Goroutines,
           (\E r \in Requests : Receive(g, r)) \/ RequestStep(g)
    PROVE  TypeOK'
BY RequestStepEffect DEF cluster, informer, bounds, TypeOK

(* Type correctness of the configuration: whatever the informer reports,   *)
(* the handlers validate only resources that exist, and the configuration  *)
(* and the requests hold values of their types.                            *)
THEOREM ConfigurationTypeCorrect == Spec => []TypeOK
<1>1. Init => TypeOK
  <2> SUFFICES ASSUME Init PROVE TypeOK
    OBVIOUS
  <2>1. NoJob \in Job /\ NoResource \in Resource
    BY DEF NoJob, Job, Resource
  <2>2. edits \in 0 .. MaxEdits
    BY ConfigurationBounds DEF Init
  <2>3. relists \in 0 .. MaxRelists
    BY ConfigurationBounds DEF Init
  <2>4. faults \in 0 .. MaxFaults
    BY ConfigurationBounds DEF Init
  <2>5. request \in [Goroutines -> Goroutine]
    BY IdleType DEF Init
  <2>6. watch \in Seq(Resource) /\ queue \in Seq(Event)
    BY DEF Init
  <2> QED
    BY <2>1, <2>2, <2>3, <2>4, <2>5, <2>6 DEF Init, TypeOK
<1>2. TypeOK /\ [Next]_vars => TypeOK'
  <2> SUFFICES ASSUME TypeOK, [Next]_vars PROVE TypeOK'
    OBVIOUS
  <2>1. CASE JobStep
    BY <2>1, HandleEventType, UpdateStatusType, LockConfigType, SetConfigType
    DEF JobStep
  <2>2. ASSUME NEW g \in Goroutines,
               (\E r \in Requests : Receive(g, r)) \/ RequestStep(g)
        PROVE  TypeOK'
    BY <2>2, RequestType
  <2>3. CASE UNCHANGED vars
    BY <2>3 DEF vars, TypeOK
  <2> QED
    BY <2>1, <2>2, <2>3, UserWriteType, ObserveType, RelistType, ResyncType
    DEF Next
<1> QED
  BY <1>1, <1>2, PTL DEF Spec

-----------------------------------------------------------------------------
(* One configuration per request.                                          *)

(* A step that leaves the configuration and the requests alone. *)
LEMMA QuietStep == ConfigInv /\ UNCHANGED <<config, request>> => ConfigInv'
BY DEF ConfigInv, OneConfigPerRequest, ServedValid

(* The write lock: whoever gets the read lock now has seen nothing yet.    *)
LEMMA SetConfigStep ==
    ASSUME TypeOK, SetConfig
    PROVE  ConfigInv'
<1>1. \A g \in Goroutines : request'[g].pc \notin {"running", "barrier"}
  BY DEF TypeOK, SetConfig, WakeReaders, Holds, Goroutine
<1>2. job.obj \in Resource
  BY DEF TypeOK, Job, Resource
<1>3. ServedValid'
  BY <1>2, ResourceType DEF SetConfig, ServedValid
<1> QED
  BY <1>1, <1>3 DEF ConfigInv, OneConfigPerRequest

(* A request starts to run only with the configuration there is.           *)
LEMMA RequestSteps ==
    ASSUME TypeOK, ConfigInv, NEW g \in Goroutines,
           (\E r \in Requests : Receive(g, r)) \/ RequestStep(g)
    PROVE  ConfigInv'
<1>1. UNCHANGED config
  BY RequestStepEffect
<1>2. ASSUME NEW k \in Goroutines, request'[k].pc \in {"running", "barrier"}
      PROVE  request'[k].cfg = config /\ config # None
  <2>1. CASE k = g
    BY <1>2, <2>1, RequestStepEffect DEF ConfigInv, OneConfigPerRequest
  <2>2. CASE k # g
    BY <1>2, <2>2, RequestStepEffect DEF ConfigInv, OneConfigPerRequest
  <2> QED
    BY <2>1, <2>2
<1> QED
  BY <1>1, <1>2 DEF ConfigInv, OneConfigPerRequest, ServedValid

(* config.go: updates appear atomic to a request.  Whatever users, the     *)
(* informer and other requests do meanwhile, every request sees a single   *)
(* configuration from its readiness test to its response, and that one has *)
(* passed validation.                                                      *)
THEOREM RequestsSeeOneConfig == Spec => [](OneConfigPerRequest /\ ServedValid)
<1>1. Init => ConfigInv
  BY IdleType DEF Init, ConfigInv, OneConfigPerRequest, ServedValid
<1>2. TypeOK /\ ConfigInv /\ [Next]_vars => ConfigInv'
  <2> SUFFICES ASSUME TypeOK, ConfigInv, [Next]_vars PROVE ConfigInv'
    OBVIOUS
  <2>1. CASE UserWrite \/ Observe \/ Relist \/ Resync \/ UNCHANGED vars
    BY <2>1, QuietStep DEF UserWrite, Observe, Relist, Resync, vars
  <2>2. CASE JobStep
    <3>1. CASE SetConfig
      BY <3>1, SetConfigStep
    <3>2. CASE HandleEvent \/ LockConfig
      BY <3>2, QuietStep DEF HandleEvent, LockConfig
    <3>3. CASE \E fate \in {"ok", "lost"} : UpdateStatus(fate)
      BY <3>3, QuietStep DEF UpdateStatus
    <3> QED
      BY <2>2, <3>1, <3>2, <3>3 DEF JobStep
  <2>3. ASSUME NEW g \in Goroutines,
               (\E r \in Requests : Receive(g, r)) \/ RequestStep(g)
        PROVE  ConfigInv'
    BY <2>3, RequestSteps
  <2> QED
    BY <2>1, <2>2, <2>3 DEF Next
<1>3. ConfigInv => OneConfigPerRequest /\ ServedValid
  BY DEF ConfigInv
<1> QED
  BY <1>1, <1>2, <1>3, ConfigurationTypeCorrect, PTL DEF Spec

-----------------------------------------------------------------------------
(* The status that is written back keeps the spec.                         *)

(* A copy o of the resource is old; one with the version that is stored    *)
(* has the spec that is stored.                                            *)
CopyOf(o) ==
    o.exists => /\ o.rv <= rv
                /\ stored.exists /\ stored.rv = o.rv => o.spec = stored.spec

WatchCopies == \A i \in 1 .. Len(watch) : CopyOf(watch[i])

(* So it is for every copy there is: StatusKeepsSpec is a property of      *)
(* steps, and this is what makes the comparison of versions in the step    *)
(* say something about the spec.                                           *)
CopiesInv ==
    /\ CopyOf(stored) /\ CopyOf(cache) /\ CopyOf(job.obj)
    /\ WatchCopies
    /\ \A i \in 1 .. Len(queue) : CopyOf(queue[i].obj)

(* A write has a version of its own: it leaves every copy a copy. *)
LEMMA StoreKeepsCopies ==
    ASSUME TypeOK, NEW o \in Resource, o.exists => o.rv = rv + 1, Store(o)
    PROVE  /\ CopyOf(stored)'
           /\ \A c \in Resource : CopyOf(c) => CopyOf(c)'
           /\ WatchCopies => WatchCopies'
<1>1. stored' = o /\ rv' = rv + 1 /\ watch' = Append(watch, o) /\ rv \in Nat
  BY DEF Store, TypeOK
<1>2. ASSUME NEW c \in Resource PROVE c.rv \in Nat
  <2>1. CASE c \in Stored
    BY <2>1 DEF Stored
  <2>2. CASE c = NoResource
    BY <2>2 DEF NoResource
  <2> QED
    BY <2>1, <2>2 DEF Resource
<1>3. CopyOf(stored)'
  BY <1>1 DEF CopyOf
<1>4. \A c \in Resource : CopyOf(c) => CopyOf(c)'
  BY <1>1, <1>2 DEF CopyOf
<1>5. ASSUME WatchCopies, NEW i \in 1 .. Len(watch') PROVE CopyOf(watch[i])'
  <2>1. /\ watch \in Seq(Resource) /\ Len(watch) \in Nat /\ Len(watch') = Len(watch) + 1
    BY <1>1 DEF TypeOK
  <2>2. CASE i = Len(watch) + 1
    <3>1. watch'[i] = stored'
      BY <1>1, <2>1, <2>2
    <3> QED
      BY <1>3, <3>1 DEF CopyOf
  <2>3. CASE i \in 1 .. Len(watch)
    <3>1. PICK c \in Resource : c = watch[i]
      BY <2>1, <2>3
    <3>2. watch'[i] = c
      BY <1>1, <2>1, <2>3, <3>1
    <3>3. CopyOf(c)'
      BY <1>4, <1>5, <2>3, <3>1 DEF WatchCopies
    <3> QED
      BY <3>2, <3>3 DEF CopyOf
  <2> QED
    BY <2>1, <2>2, <2>3
<1> QED
  BY <1>3, <1>4, <1>5 DEF WatchCopies

(* The other copies, when the resource is written. *)
LEMMA StoreCopies ==
    ASSUME TypeOK, CopiesInv, NEW o \in Resource, o.exists => o.rv = rv + 1, Store(o),
           UNCHANGED informer, job'.obj = job.obj
    PROVE  CopiesInv'
<1>1. /\ job.obj \in Resource /\ cache \in Resource /\ queue \in Seq(Event)
  BY DEF TypeOK, Job, Resource
<1>2. \A i \in 1 .. Len(queue) : queue[i].obj \in Resource
  <2>1. \A e \in Event : e.obj \in Resource
    BY DEF Event, Resource
  <2> QED
    BY <1>1, <2>1
<1>3. cache' = cache /\ queue' = queue
  BY DEF informer
<1>4. CopyOf(cache)' /\ CopyOf(job.obj)'
  <2>1. PICK c \in Resource : c = cache
    BY <1>1
  <2>2. PICK d \in Resource : d = job.obj
    BY <1>1
  <2>3. CopyOf(c)' /\ CopyOf(d)'
    BY <2>1, <2>2, StoreKeepsCopies DEF CopiesInv
  <2> QED
    BY <1>3, <2>1, <2>2, <2>3 DEF CopyOf
<1>5. ASSUME NEW i \in 1 .. Len(queue) PROVE CopyOf(queue[i].obj)'
  <2>1. PICK c \in Resource : c = queue[i].obj
    BY <1>2
  <2>2. CopyOf(c)'
    BY <2>1, StoreKeepsCopies DEF CopiesInv
  <2> QED
    BY <1>3, <2>1, <2>2 DEF CopyOf
<1>6. CopyOf(stored)' /\ WatchCopies'
  BY StoreKeepsCopies DEF CopiesInv
<1> QED
  BY <1>3, <1>4, <1>5, <1>6 DEF CopiesInv

(* What the informer does with the copies: it adds none of its own. *)
LEMMA InformerCopies ==
    ASSUME TypeOK, CopiesInv, UNCHANGED <<stored, rv>>,
           \E o \in Resource : CopyOf(o) /\ cache' = o,
           watch' = << >> \/ watch' = watch \/ (watch # << >> /\ watch' = Tail(watch)),
           \/ queue' = queue
           \/ queue # << >> /\ queue' = Tail(queue)
           \/ \E e \in Event : CopyOf(e.obj) /\ queue' = Append(queue, e),
           CopyOf(job'.obj)
    PROVE  CopiesInv'
<1>1. watch \in Seq(Resource) /\ queue \in Seq(Event)
  BY DEF TypeOK
<1>2. \A i \in 1 .. Len(watch') : CopyOf(watch'[i])
  <2>1. CASE watch' = << >>
    BY <2>1
  <2>2. CASE watch' = watch
    BY <2>2 DEF CopiesInv, WatchCopies
  <2>3. CASE watch # << >> /\ watch' = Tail(watch)
    <3>1. \A i \in 1 .. Len(watch') : i + 1 \in 1 .. Len(watch) /\ watch'[i] = watch[i + 1]
      BY <1>1, <2>3
    <3> QED
      BY <3>1 DEF CopiesInv, WatchCopies
  <2> QED
    BY <2>1, <2>2, <2>3
<1>3. \A i \in 1 .. Len(queue') : CopyOf(queue'[i].obj)
  <2>1. CASE queue' = queue
    BY <2>1 DEF CopiesInv
  <2>2. CASE queue # << >> /\ queue' = Tail(queue)
    <3>1. \A i \in 1 .. Len(queue') : i + 1 \in 1 .. Len(queue) /\ queue'[i] = queue[i + 1]
      BY <1>1, <2>2
    <3> QED
      BY <3>1 DEF CopiesInv
  <2>3. ASSUME NEW e \in Event, CopyOf(e.obj), queue' = Append(queue, e),
               NEW i \in 1 .. Len(queue')
        PROVE  CopyOf(queue'[i].obj)
    <3>1. \/ i \in 1 .. Len(queue) /\ queue'[i] = queue[i]
          \/ queue'[i] = e
      BY <1>1, <2>3
    <3> QED
      BY <2>3, <3>1 DEF CopiesInv
  <2> QED
    BY <2>1, <2>2, <2>3
<1> QED
  BY <1>2, <1>3 DEF CopiesInv, WatchCopies, CopyOf

(* Every step keeps the copies. *)
LEMMA CopiesKept ==
    ASSUME TypeOK, CopiesInv, [Next]_vars
    PROVE  CopiesInv'
<1>1. stored \in Resource /\ cache \in Resource /\ CopyOf(stored) /\ CopyOf(cache)
  BY DEF TypeOK, CopiesInv
<1>2. CASE UserWrite
  <2>1. UNCHANGED <<cache, queue, job>>
    BY <1>2 DEF UserWrite, informer
  <2>2. CASE Store(NoResource)
    <3>1. NoResource \in Resource /\ ~NoResource.exists
      BY DEF NoResource, Resource
    <3> QED
      BY <2>1, <2>2, <3>1, StoreCopies DEF informer
  <2>3. ASSUME NEW s \in Specs, NEW st \in {stored.status, None},
               Store([exists |-> TRUE, rv |-> rv + 1, spec |-> s, status |-> st])
        PROVE  CopiesInv'
    <3>1. stored.status \in Verdicts \cup {None}
      BY ResourceType DEF TypeOK
    <3>2. rv + 1 \in Nat
      BY DEF TypeOK
    <3>3. PICK o : o = [exists |-> TRUE, rv |-> rv + 1, spec |-> s, status |-> st]
      OBVIOUS
    <3>4. o \in Resource /\ o.rv = rv + 1
      BY <3>1, <3>2, <3>3 DEF Resource, Stored
    <3> QED
      BY <2>1, <2>3, <3>3, <3>4, StoreCopies DEF informer
  <2> QED
    BY <1>2, <2>2, <2>3 DEF UserWrite
<1>3. CASE Observe
  <2>1. PICK o \in Resource : o = Head(watch) /\ CopyOf(o)
    BY <1>3 DEF Observe, TypeOK, CopiesInv, WatchCopies
  <2>2. Added(cache) \in {"add", "update"}
    BY DEF Added
  <2>3. \/ queue' = queue
        \/ \E e \in Event : CopyOf(e.obj) /\ queue' = Append(queue, e)
    <3>1. CASE o.exists
      <4>1. [type |-> Added(cache), obj |-> o] \in Event
        BY <2>2, <3>1, EventType
      <4>2. queue' = Append(queue, [type |-> Added(cache), obj |-> o])
        BY <1>3, <2>1, <3>1 DEF Observe
      <4> QED
        BY <2>1, <4>1, <4>2
    <3>2. CASE ~o.exists /\ cache.exists
      <4>1. [type |-> "delete", obj |-> cache] \in Event
        BY <1>1, <3>2, EventType
      <4>2. queue' = Append(queue, [type |-> "delete", obj |-> cache])
        BY <1>3, <2>1, <3>2 DEF Observe
      <4> QED
        BY <1>1, <4>1, <4>2
    <3>3. CASE ~o.exists /\ ~cache.exists
      BY <1>3, <2>1, <3>3 DEF Observe
    <3> QED
      BY <3>1, <3>2, <3>3
  <2>4. /\ UNCHANGED <<stored, rv, job>> /\ cache' = o /\ watch # << >>
        /\ watch' = Tail(watch)
    BY <1>3, <2>1 DEF Observe
  <2>5. CopyOf(job'.obj)
    BY <2>4 DEF CopiesInv
  <2> QED
    BY <2>1, <2>3, <2>4, <2>5, InformerCopies
<1>4. CASE Relist
  <2>1. Added(cache) \in {"add", "update"}
    BY DEF Added
  <2>2. \/ queue' = queue
        \/ \E e \in Event : CopyOf(e.obj) /\ queue' = Append(queue, e)
    <3>1. CASE stored.exists
      <4>1. [type |-> Added(cache), obj |-> stored] \in Event
        BY <1>1, <2>1, <3>1, EventType
      <4>2. queue' = Append(queue, [type |-> Added(cache), obj |-> stored])
        BY <1>4, <3>1 DEF Relist
      <4> QED
        BY <1>1, <4>1, <4>2
    <3>2. CASE ~stored.exists /\ cache.exists
      <4>1. [type |-> "tombstone", obj |-> cache] \in Event
        BY <1>1, <3>2, EventType
      <4>2. queue' = Append(queue, [type |-> "tombstone", obj |-> cache])
        BY <1>4, <3>2 DEF Relist
      <4> QED
        BY <1>1, <4>1, <4>2
    <3>3. CASE ~stored.exists /\ ~cache.exists
      BY <1>4, <3>3 DEF Relist
    <3> QED
      BY <3>1, <3>2, <3>3
  <2>3. UNCHANGED <<stored, rv, job>> /\ cache' = stored /\ watch' = << >>
    BY <1>4 DEF Relist
  <2>4. CopyOf(job'.obj)
    BY <2>3 DEF CopiesInv
  <2> QED
    BY <1>1, <2>2, <2>3, <2>4, InformerCopies
<1>5. CASE Resync
  <2>1. [type |-> "update", obj |-> cache] \in Event
    BY <1>1, <1>5, EventType DEF Resync
  <2>2. queue' = Append(queue, [type |-> "update", obj |-> cache])
    BY <1>5 DEF Resync
  <2>3. UNCHANGED <<stored, rv, watch, job, cache>>
    BY <1>5 DEF Resync, cluster
  <2>4. CopyOf(job'.obj)
    BY <2>3 DEF CopiesInv
  <2> QED
    BY <1>1, <2>1, <2>2, <2>3, <2>4, InformerCopies
<1>6. CASE HandleEvent
  <2>1. /\ UNCHANGED <<stored, rv, watch, cache>> /\ queue # << >>
        /\ queue' = Tail(queue)
    BY <1>6 DEF HandleEvent, cluster
  <2>2. CopyOf(Head(queue).obj)
    BY <1>6 DEF HandleEvent, TypeOK, CopiesInv
  <2>3. job'.obj = NoResource \/ job'.obj = Head(queue).obj
    BY <1>6 DEF HandleEvent, NoJob
  <2>4. CopyOf(job'.obj)
    BY <2>2, <2>3 DEF CopyOf, NoResource
  <2> QED
    BY <1>1, <2>1, <2>4, InformerCopies
<1>7. CASE \E fate \in {"ok", "lost"} : UpdateStatus(fate)
  <2>1. PICK x \in Stored : x = job.obj /\ job.pc = "status"
    BY <1>7 DEF TypeOK, Job, UpdateStatus
  <2>2. job'.obj = job.obj /\ UNCHANGED informer
    BY <1>7 DEF TypeOK, Job, UpdateStatus
  <2>3. PICK n \in Nat : n = rv + 1
    BY DEF TypeOK
  <2>4. PICK v \in Verdicts : v = Verdict[x.spec]
    BY DEF Stored, Verdicts
  <2>5. PICK o : o = [x EXCEPT !.rv = n, !.status = v]
    OBVIOUS
  <2>6. o \in Resource /\ o.rv = n
    BY <2>5, StatusWritten DEF Resource, Stored
  <2>7. CASE Store(o)
    BY <2>2, <2>3, <2>6, <2>7, StoreCopies
  <2>8. CASE UNCHANGED cluster
    BY <2>2, <2>8 DEF cluster, informer, CopiesInv, WatchCopies, CopyOf
  <2> QED
    BY <1>7, <2>1, <2>3, <2>4, <2>5, <2>7, <2>8 DEF UpdateStatus
<1>8. CASE LockConfig
  <2>1. job'.obj = job.obj
    BY <1>8 DEF LockConfig, TypeOK, Job
  <2> QED
    BY <1>8, <2>1 DEF LockConfig, cluster, informer, CopiesInv, WatchCopies, CopyOf
<1>9. CASE SetConfig
  BY <1>9 DEF SetConfig, cluster, informer, CopiesInv, WatchCopies, CopyOf, NoJob, NoResource
<1>10. ASSUME NEW g \in Goroutines,
              (\E r \in Requests : Receive(g, r)) \/ RequestStep(g)
       PROVE  CopiesInv'
  <2>1. UNCHANGED <<cluster, informer, job, config, pending, bounds>>
    BY <1>10, RequestStepEffect
  <2> QED
    BY <2>1 DEF cluster, informer, CopiesInv, WatchCopies, CopyOf
<1>11. CASE UNCHANGED vars
  BY <1>11 DEF vars, CopiesInv, WatchCopies, CopyOf
<1> QED
  BY <1>2, <1>3, <1>4, <1>5, <1>6, <1>7, <1>8, <1>9, <1>10, <1>11 DEF Next, JobStep

(* updateStatus writes the whole resource, from the copy that the event    *)
(* carried; as the API server compares versions, it never undoes an edit   *)
(* that the user made since.                                               *)
THEOREM StatusWritesKeepTheSpec == Spec => StatusKeepsSpec
<1>1. Init => CopiesInv
  BY DEF Init, CopiesInv, WatchCopies, CopyOf, NoJob, NoResource
<1>2. TypeOK /\ CopiesInv /\ [Next]_vars => CopiesInv'
  BY CopiesKept
<1>3. TypeOK /\ CopiesInv /\ [Next]_vars =>
          [edits' = edits => stored'.spec = stored.spec]_vars
  <2> SUFFICES ASSUME TypeOK, CopiesInv, Next, edits' = edits
               PROVE  stored'.spec = stored.spec
    OBVIOUS
  <2>1. CASE stored' = stored
    BY <2>1
  <2>2. CASE UserWrite
    BY <2>2 DEF UserWrite, TypeOK
  <2>3. CASE \E fate \in {"ok", "lost"} : UpdateStatus(fate)
    <3>1. PICK x \in Stored : x = job.obj
      BY <2>3 DEF TypeOK, Job, UpdateStatus
    <3>2. CASE stored' # stored
      <4>1. /\ StatusAccepted(x)
            /\ stored' = [x EXCEPT !.rv = rv + 1, !.status = Verdict[x.spec]]
        BY <2>3, <3>1, <3>2 DEF UpdateStatus, Store, cluster
      <4>2. stored'.spec = x.spec
        BY <4>1 DEF Stored
      <4>3. x.spec = stored.spec
        BY <3>1, <4>1 DEF CopiesInv, CopyOf, StatusAccepted, Stored
      <4> QED
        BY <4>2, <4>3
    <3> QED
      BY <2>1, <3>2
  <2>4. ASSUME NEW g \in Goroutines,
               (\E r \in Requests : Receive(g, r)) \/ RequestStep(g)
        PROVE  stored' = stored
    BY <2>4, RequestStepEffect DEF cluster
  <2>5. CASE Observe \/ Relist \/ Resync \/ HandleEvent \/ LockConfig \/ SetConfig
    BY <2>1, <2>5 DEF Observe, Relist, Resync, HandleEvent, LockConfig, SetConfig, cluster
  <2> QED
    BY <2>1, <2>2, <2>3, <2>4, <2>5 DEF Next, JobStep
<1> QED
  BY <1>1, <1>2, <1>3, ConfigurationTypeCorrect, PTL DEF Spec, StatusKeepsSpec
=============================================================================
