------------------------ MODULE ServiceInstanceSafety ------------------------
(***************************************************************************)
(* Proof that the registry entry's operation keys are an exclusive lock,   *)
(* that polls tell the truth and that accepted operations stay on record.  *)
(*                                                                         *)
(* The inductive invariant is Inv.  WorkerHoldsEntry alone is not          *)
(* inductive: a handler could commit a stale copy over the entry of a      *)
(* running provisioner.  CacheCoherent rules that out: an accepted commit  *)
(* is of a copy that agrees with what is stored, and a copy that was       *)
(* checked to have no operation (or a finished one) is not the entry of a  *)
(* provisioner.                                                            *)
(***************************************************************************)
EXTENDS ServiceInstanceProofs

Inv == /\ StoredConsistent
       /\ CacheCoherent
       /\ WorkerHoldsEntry
       /\ NeverResurrected
       /\ AcceptedOnRecord
       /\ PollTruthful

(* No response of this step reports the outcome of an operation. *)
NoOutcome(replies) == \A p \in replies : p.state \notin {"succeeded", "failed"}

(* The handlers that hold no cached entry. *)
Unladen(x) == x.pc \notin {"create", "start", "end"}

-----------------------------------------------------------------------------
(* Steps that write no registry entry.                                     *)

(* A step that leaves the registry, the provisioners and the record of     *)
(* outcomes alone keeps the invariant, if every handler keeps its cached   *)
(* entry or drops it.                                                      *)
LEMMA QuietStep ==
    ASSUME TypeOK, Inv, TypeOK',
           UNCHANGED <<secrets, revision, workers, history, issued, acked>>,
           \A g \in Handlers : handler'[g] = handler[g] \/ Unladen(handler'[g]),
           NoOutcome(reply')
    PROVE  Inv'
<1>1. StoredConsistent'
  BY DEF Inv, StoredConsistent, EntryConsistent, Recorded
<1>2. CacheCoherent'
  BY DEF Inv, CacheCoherent, HandlerCoherent, KeyOf, Recorded, Unladen
<1>3. WorkerHoldsEntry' /\ NeverResurrected' /\ AcceptedOnRecord'
  BY DEF Inv, WorkerHoldsEntry, NeverResurrected, AcceptedOnRecord
<1>4. PollTruthful'
  BY DEF NoOutcome, PollTruthful
<1> QED
  BY <1>1, <1>2, <1>3, <1>4 DEF Inv

(* A response ends the handler. *)
LEMMA RespondShape ==
    ASSUME TypeOK, NEW h \in Handlers, NEW code, NEW state, NEW opid, NEW uid,
           Respond(h, code, state, opid, uid)
    PROVE  /\ handler'[h] = Idle
           /\ \A g \in Handlers \ {h} : handler'[g] = handler[g]
           /\ Unladen(handler'[h])
           /\ \A p \in reply' : p.state = state /\ p.opid = opid /\ p.uid = uid
           /\ state \notin {"succeeded", "failed"} => NoOutcome(reply')
BY DEF TypeOK, Respond, Unladen, Idle, NoOutcome

(* What Fail leaves of a handler. *)
LEMMA FailShape ==
    ASSUME TypeOK, NEW h \in Handlers, NEW code, Fail(h, code)
    PROVE  /\ handler'[h] = Idle
           /\ \A g \in Handlers \ {h} : handler'[g] = handler[g]
           /\ Unladen(handler'[h])
           /\ NoOutcome(reply')
BY RespondShape DEF Fail

(* What Goto leaves of a handler. *)
LEMMA GotoShape ==
    ASSUME TypeOK, NEW h \in Handlers, NEW label, NEW e, GotoWith(h, label, e)
    PROVE  /\ handler'[h].pc = label /\ handler'[h].entry = e
           /\ handler'[h].req = handler[h].req
           /\ KeyOf(h)' = KeyOf(h)
           /\ \A g \in Handlers \ {h} : handler'[g] = handler[g]
           /\ NoOutcome(reply')
BY DEF TypeOK, GotoWith, Handler, NoOutcome, KeyOf

(* A client's request, the directory, and failures before anything is      *)
(* written.                                                                *)
LEMMA UnrelatedSteps ==
    ASSUME TypeOK, Inv, TypeOK', NEW h \in Handlers,
           \/ \E r \in Requests, op \in issued \cup {0} : Receive(h, r, op)
           \/ \E fate \in Fates : \/ GetDirectoryInstance(h, fate)
                                  \/ NewDirectory(h, fate)
                                  \/ RegisterInstance(h, fate)
                                  \/ DeregisterInstance(h, fate)
           \/ OpenFails(h)
           \/ PrepareFails(h)
    PROVE  Inv'
<1>1. UNCHANGED <<secrets, revision, workers, history, issued, acked>>
  BY DEF Receive, GetDirectoryInstance, NewDirectory, RegisterInstance,
         DeregisterInstance, OpenFails, PrepareFails
<1>2. /\ \A g \in Handlers : handler'[g] = handler[g] \/ Unladen(handler'[g])
      /\ NoOutcome(reply')
  <2>1. CASE \E r \in Requests, op \in issued \cup {0} : Receive(h, r, op)
    <3>1. PICK r \in Requests, op \in issued \cup {0} : Receive(h, r, op)
      BY <2>1
    <3>2. FirstCall(r) \in {"getDirectory", "lookup"}
      BY DEF FirstCall
    <3>3. CASE /\ Admission(r) = 200 /\ reply' = {}
               /\ handler' = [handler EXCEPT
                                ![h] = [@ EXCEPT !.pc = FirstCall(r),
                                                 !.req = [r EXCEPT !.op = op]]]
      <4>1. /\ handler'[h].pc = FirstCall(r)
            /\ \A g \in Handlers \ {h} : handler'[g] = handler[g]
        BY <3>3 DEF TypeOK, Handler
      <4> QED
        BY <3>2, <3>3, <4>1 DEF Unladen, NoOutcome
    <3>4. CASE /\ UNCHANGED handler
               /\ reply' = {[req |-> r, code |-> Admission(r), state |-> "none",
                             opid |-> 0, uid |-> 0]}
      BY <3>4 DEF NoOutcome
    <3> QED
      BY <3>1, <3>3, <3>4 DEF Receive
  <2>2. CASE \E fate \in Fates : GetDirectoryInstance(h, fate)
    <3>1. PICK fate \in Fates : GetDirectoryInstance(h, fate)
      BY <2>2
    <3>2. /\ handler'[h].pc \in {"getDirectory", "open"} /\ reply' = {}
          /\ \A g \in Handlers \ {h} : handler'[g] = handler[g]
      BY <3>1 DEF GetDirectoryInstance, TypeOK, Handler
    <3> QED
      BY <3>2 DEF Unladen, NoOutcome
  <2>3. CASE \E fate \in Fates : NewDirectory(h, fate)
    <3>1. CASE Fail(h, 500)
      BY <3>1, FailShape
    <3>2. CASE Goto(h, "open")
      BY <3>2 DEF Goto, TypeOK, Handler, Unladen, NoOutcome
    <3>3. CASE /\ handler' = [handler EXCEPT
                               ![h] = [@ EXCEPT !.pc = "commitDirectory",
                                                !.dir = directory]]
               /\ reply' = {}
      BY <3>3 DEF TypeOK, Handler, Unladen, NoOutcome
    <3> QED
      BY <2>3, <3>1, <3>2, <3>3 DEF NewDirectory
  <2>4. CASE \E fate \in Fates : RegisterInstance(h, fate)
    <3>1. CASE Fail(h, 500)
      BY <3>1, FailShape
    <3>2. CASE ~Fail(h, 500)
      BY <2>4, <3>2 DEF RegisterInstance, TypeOK, Handler, Unladen, NoOutcome
    <3> QED
      BY <3>1, <3>2
  <2>5. CASE \E fate \in Fates : DeregisterInstance(h, fate)
    BY <2>5 DEF DeregisterInstance, TypeOK, Handler, Unladen, NoOutcome
  <2>6. CASE OpenFails(h)
    BY <2>6, FailShape DEF OpenFails
  <2>7. CASE PrepareFails(h)
    BY <2>7, FailShape DEF PrepareFails
  <2> QED
    BY <2>1, <2>2, <2>3, <2>4, <2>5, <2>6, <2>7
<1> QED
  BY <1>1, <1>2, QuietStep

(* A crash. *)
LEMMA CrashStep ==
    ASSUME TypeOK, Inv, TypeOK', Crash
    PROVE  Inv'
<1>1. StoredConsistent' /\ NeverResurrected' /\ AcceptedOnRecord'
  BY DEF Inv, Crash, StoredConsistent, EntryConsistent, Recorded,
         NeverResurrected, AcceptedOnRecord
<1>2. CacheCoherent'
  BY DEF Crash, CacheCoherent, HandlerCoherent, Idle
<1>3. WorkerHoldsEntry' /\ PollTruthful'
  BY DEF Crash, WorkerHoldsEntry, PollTruthful
<1> QED
  BY <1>1, <1>2, <1>3 DEF Inv

(* Reading the registry entry: a copy that was just read is coherent. *)
LEMMA OpenSteps ==
    ASSUME TypeOK, Inv, TypeOK', NEW h \in Handlers,
           \/ OpenCreate(h) \/ OpenRead(h) \/ OpenUpdate(h)
           \/ OpenDelete(h) \/ OpenPoll(h)
    PROVE  Inv'
<1> DEFINE k == KeyOf(h)
           e == secrets[k]
           r == handler[h].req
<1>1. /\ UNCHANGED <<secrets, revision, workers, history, acked>>
      /\ issued' = issued \/ (e.exists /\ e.op = "provision" /\
                               issued' = issued \cup {e.opid})
  BY DEF OpenCreate, OpenRead, OpenUpdate, OpenDelete, OpenPoll, Opens
<1>2. /\ k \in Keys /\ e \in Entry /\ EntryConsistent(e) /\ r \in Request
      /\ revision \in Nat
  BY DEF TypeOK, Handler, KeyOf, Keys, Request, AnyRequest, Inv, StoredConsistent
<1> HIDE DEF k, e, r
<1>3. StoredConsistent'
  <2>1. issued' \subseteq 1 .. revision
    <3>1. e.op = "provision" => e.opid \in 1 .. revision
      BY <1>2 DEF EntryConsistent, Entry
    <3> QED
      BY <1>1, <3>1 DEF Inv, StoredConsistent
  <2> QED
    BY <1>1, <2>1 DEF Inv, StoredConsistent, EntryConsistent, Recorded
<1>4. WorkerHoldsEntry' /\ NeverResurrected'
  BY <1>1 DEF Inv, WorkerHoldsEntry, NeverResurrected
<1>5. AcceptedOnRecord'
  <2>1. e.opid = secrets[k].opid
    BY DEF e
  <2> QED
    BY <1>1, <1>2, <2>1 DEF Inv, AcceptedOnRecord
<1>6. ASSUME NEW code, NEW state, NEW opid, NEW uid,
             Respond(h, code, state, opid, uid),
             state \notin {"succeeded", "failed"}
      PROVE  CacheCoherent' /\ NoOutcome(reply')
  <2>1. \A g \in Handlers : handler'[g] = handler[g] \/ Unladen(handler'[g])
    BY <1>6, RespondShape
  <2>2. NoOutcome(reply')
    BY <1>6, RespondShape
  <2> QED
    BY <2>1, <2>2, <1>1
    DEF Inv, CacheCoherent, HandlerCoherent, KeyOf, Recorded, Unladen
<1>7. ASSUME NEW label, NEW c, GotoWith(h, label, c), HandlerCoherent(h)'
      PROVE  CacheCoherent' /\ NoOutcome(reply')
  <2>1. \A g \in Handlers \ {h} : handler'[g] = handler[g]
    BY <1>7, GotoShape
  <2>2. \A g \in Handlers \ {h} : HandlerCoherent(g)'
    BY <2>1, <1>1 DEF Inv, CacheCoherent, HandlerCoherent, KeyOf, Recorded
  <2> QED
    BY <2>2, <1>7, GotoShape DEF CacheCoherent
<1>8. ASSUME GotoWith(h, "create", NewEntry(r))
      PROVE  CacheCoherent' /\ NoOutcome(reply')
  <2>1. handler'[h].pc = "create" /\ handler'[h].entry = NewEntry(r)
    BY <1>8, GotoShape
  <2>2. /\ ~NewEntry(r).exists /\ NewEntry(r).op = "none"
        /\ NewEntry(r).opid = 0 /\ NewEntry(r).status = "unset"
    BY DEF NewEntry, Absent
  <2>3. HandlerCoherent(h)'
    BY <2>1, <2>2 DEF HandlerCoherent
  <2> QED
    BY <2>3, <1>7, <1>8
<1>9. ASSUME NEW d \in Document, e.exists,
             GotoWith(h, "start", [e EXCEPT !.params = d])
      PROVE  CacheCoherent' /\ NoOutcome(reply')
  <2> DEFINE c == [e EXCEPT !.params = d]
  <2>1. /\ handler'[h].pc = "start" /\ handler'[h].entry = c
        /\ KeyOf(h)' = k
    BY <1>9, GotoShape DEF k
  <2>2. c.exists /\ c.rv \in 1 .. revision /\ e = [c EXCEPT !.params = e.params]
    <3>1. e = [c EXCEPT !.params = e.params] /\ c.exists = e.exists /\ c.rv = e.rv
      BY <1>2 DEF Entry
    <3>2. e.rv \in 1 .. revision
      BY <1>2, <1>9 DEF EntryConsistent, Entry
    <3> QED
      BY <3>1, <3>2, <1>9
  <2>3. secrets'[KeyOf(h)'] = e
    BY <2>1, <1>1 DEF e
  <2> HIDE DEF c
  <2>4. HandlerCoherent(h)'
    BY <2>1, <2>2, <2>3, <1>1 DEF HandlerCoherent
  <2> QED
    BY <2>4, <1>7, <1>9
<1>10. ASSUME e.exists, GotoWith(h, "start", e)
       PROVE  CacheCoherent' /\ NoOutcome(reply')
  <2>1. e = [e EXCEPT !.params = e.params] /\ e.params \in Document
    BY <1>2 DEF Entry
  <2>2. GotoWith(h, "start", [e EXCEPT !.params = e.params])
    BY <2>1, <1>10
  <2> QED
    BY <2>1, <2>2, <1>9, <1>10
<1>11. ASSUME e.exists, e.opid # 0, e.status # "unset", GotoWith(h, "end", e)
       PROVE  CacheCoherent' /\ NoOutcome(reply')
  <2>1. /\ handler'[h].pc = "end" /\ handler'[h].entry = e
        /\ KeyOf(h)' = k
    BY <1>11, GotoShape DEF k
  <2>2. e.rv \in 1 .. revision /\ e = [e EXCEPT !.params = e.params] /\ Recorded(e)
    BY <1>2, <1>11 DEF Entry, EntryConsistent
  <2>3. secrets'[KeyOf(h)'] = e
    BY <2>1, <1>1 DEF e
  <2>4. HandlerCoherent(h)'
    BY <2>1, <2>2, <2>3, <1>1, <1>11 DEF HandlerCoherent, Recorded
  <2> QED
    BY <2>4, <1>7, <1>11
<1>12. CacheCoherent' /\ NoOutcome(reply')
  <2>1. CASE OpenCreate(h)
    <3>1. \/ Respond(h, 409, "none", 0, e.uid)
          \/ Respond(h, 200, "none", 0, e.uid)
          \/ Respond(h, 202, "none", e.opid, e.uid)
          \/ Respond(h, 400, "none", 0, 0)
          \/ GotoWith(h, "create", NewEntry(r))
      BY <2>1 DEF OpenCreate, e, r, k
    <3> QED
      BY <3>1, <1>6, <1>8
  <2>2. CASE OpenRead(h)
    <3>1. \/ Respond(h, 404, "none", 0, 0)
          \/ Respond(h, 400, "none", 0, e.uid)
          \/ Respond(h, 200, "none", 0, e.uid)
      BY <2>2 DEF OpenRead, e, r, k
    <3> QED
      BY <3>1, <1>6
  <2>3. CASE OpenUpdate(h)
    <3>1. \/ Respond(h, 404, "none", 0, 0)
          \/ Respond(h, 400, "none", 0, e.uid)
          \/ e.exists /\ GotoWith(h, "start", [e EXCEPT !.params = Marshal(r.params)])
      BY <2>3 DEF OpenUpdate, e, r, k
    <3>2. Marshal(r.params) \in Document
      BY <1>2, MarshalType DEF Request, AnyRequest
    <3> QED
      BY <3>1, <3>2, <1>6, <1>9
  <2>4. CASE OpenDelete(h)
    <3>1. \/ Respond(h, 410, "none", 0, 0)
          \/ Respond(h, 400, "none", 0, e.uid)
          \/ e.exists /\ GotoWith(h, "start", e)
      BY <2>4 DEF OpenDelete, e, r, k
    <3> QED
      BY <3>1, <1>6, <1>10
  <2>5. CASE OpenPoll(h)
    <3>1. \/ Respond(h, 410, "none", r.op, 0)
          \/ Respond(h, 500, "none", 0, e.uid)
          \/ Respond(h, 400, "none", 0, e.uid)
          \/ Respond(h, 200, "inProgress", e.opid, e.uid)
          \/ /\ e.exists /\ e.opid # 0 /\ e.status # "unset"
             /\ GotoWith(h, "end", e)
      BY <2>5 DEF OpenPoll, e, r, k
    <3>2. CASE Respond(h, 200, "inProgress", e.opid, e.uid)
      BY <3>2, <1>6
    <3> QED
      BY <3>1, <3>2, <1>6, <1>11
  <2> QED
    BY <2>1, <2>2, <2>3, <2>4, <2>5
<1>13. PollTruthful'
  BY <1>12 DEF PollTruthful, NoOutcome
<1> QED
  BY <1>3, <1>4, <1>5, <1>12, <1>13 DEF Inv

-----------------------------------------------------------------------------
(* Steps that write a registry entry.                                      *)

(* What a handler caches. *)
LEMMA HandlerTypes ==
    ASSUME TypeOK, NEW h \in Handlers
    PROVE  KeyOf(h) \in Keys /\ handler[h].entry \in Entry /\ revision \in Nat
BY DEF TypeOK, Handler, KeyOf, Keys, Request, AnyRequest

(* A write gives the entry a version no cached copy has, so it makes other *)
(* copies stale and leaves them coherent.                                  *)
LEMMA CachesSurvive ==
    ASSUME TypeOK, Inv, NEW k \in Keys, NEW n \in Entry,
           secrets' = [secrets EXCEPT ![k] = n],
           revision' \in Nat, revision <= revision',
           n.rv = 0 \/ n.rv > revision,
           history \subseteq history',
           NEW g \in Handlers, handler'[g] = handler[g]
    PROVE  HandlerCoherent(g)'
<1> DEFINE e == handler[g].entry
           s == secrets[KeyOf(g)]
<1>1. HandlerCoherent(g) /\ KeyOf(g) \in Keys /\ e \in Entry /\ revision \in Nat
  BY DEF Inv, CacheCoherent, TypeOK, Handler, KeyOf, Keys, Request, AnyRequest
<1>2. handler'[g].entry = e /\ KeyOf(g)' = KeyOf(g) /\ handler'[g].pc = handler[g].pc
  BY DEF KeyOf
<1>3. Recorded(e) => Recorded(e)'
  BY <1>2 DEF Recorded
<1>4. secrets'[KeyOf(g)] = s \/ secrets'[KeyOf(g)] = n
  BY <1>1 DEF TypeOK
<1>5. ASSUME handler[g].pc \in {"start", "end"}
      PROVE  /\ e.exists /\ e.rv \in 1 .. revision'
             /\ e.rv = secrets'[KeyOf(g)].rv =>
                  secrets'[KeyOf(g)] = [e EXCEPT !.params = secrets'[KeyOf(g)].params]
  <2>1. e.exists /\ e.rv \in 1 .. revision
        /\ (e.rv = s.rv => s = [e EXCEPT !.params = s.params])
    BY <1>1, <1>5 DEF HandlerCoherent
  <2>2. e.rv # n.rv
    BY <2>1, <1>1 DEF Entry
  <2> QED
    BY <2>1, <2>2, <1>4, <1>1
<1> QED
  BY <1>1, <1>2, <1>3, <1>5 DEF HandlerCoherent

(* A write keeps the stored entries consistent if the new entry is, and    *)
(* carries no other entry's operation ID.                                  *)
LEMMA StoreSurvives ==
    ASSUME TypeOK, Inv, NEW k \in Keys, NEW n \in Entry,
           secrets' = [secrets EXCEPT ![k] = n],
           revision' \in Nat, revision <= revision',
           history \subseteq history',
           EntryConsistent(n)',
           \A j \in Keys \ {k} : n.opid = secrets[j].opid => n.opid = 0,
           issued' \cup acked' \subseteq 1 .. revision'
    PROVE  StoredConsistent'
<1>1. secrets'[k] = n /\ \A j \in Keys \ {k} : secrets'[j] = secrets[j]
  BY DEF TypeOK
<1>2. ASSUME NEW j \in Keys PROVE EntryConsistent(secrets[j])'
  <2>1. CASE j = k
    BY <2>1, <1>1
  <2>2. CASE j # k
    <3>1. EntryConsistent(secrets[j]) /\ secrets[j] \in Entry /\ revision \in Nat
      BY DEF Inv, StoredConsistent, TypeOK
    <3>2. Recorded(secrets[j]) => Recorded(secrets[j])'
      BY <1>1, <2>2 DEF Recorded
    <3> QED
      BY <1>1, <2>2, <3>1, <3>2 DEF EntryConsistent, Entry
  <2> QED
    BY <2>1, <2>2
<1>3. ASSUME NEW i \in Keys, NEW j \in Keys,
             secrets'[i].opid = secrets'[j].opid, secrets'[j].opid # 0
      PROVE  i = j
  BY <1>1, <1>3 DEF Inv, StoredConsistent
<1> QED
  BY <1>2, <1>3 DEF StoredConsistent

(* Entry.Commit of a new entry. *)
LEMMA CommitNewStep ==
    ASSUME TypeOK, Inv, TypeOK', NEW h \in Handlers, NEW fate \in Fates,
           CommitNew(h, fate)
    PROVE  Inv'
<1>0. /\ KeyOf(h) \in Keys /\ handler[h].entry \in Entry /\ revision \in Nat
      /\ Committed(handler[h].entry, revision + 1) \in Entry
  BY HandlerTypes, EntryTypes
<1>k. PICK k \in Keys : k = KeyOf(h)
  BY <1>0
<1>e. PICK e \in Entry : e = handler[h].entry
  BY <1>0
<1>n. PICK n \in Entry : n = Committed(e, revision + 1)
  BY <1>0, <1>e
<1> DEFINE applied == fate # "lost" /\ CommitAccepted(secrets[k], e)
<1>1. revision \in Nat /\ secrets[k] \in Entry
  BY DEF TypeOK
<1>2. ~e.exists /\ e.op = "none" /\ e.opid = 0 /\ e.status = "unset"
  BY <1>e DEF CommitNew, Inv, CacheCoherent, HandlerCoherent
<1>3. UNCHANGED <<workers, history, issued, acked>>
  BY DEF CommitNew
<1>4. CASE ~applied
  <2>1. Fail(h, 500) /\ UNCHANGED <<secrets, revision>>
    BY <1>4, <1>k, <1>e DEF CommitNew
  <2> QED
    BY <2>1, <1>3, FailShape, QuietStep
<1>5. CASE applied
  <2>1. /\ secrets' = [secrets EXCEPT ![k] = n] /\ revision' = revision + 1
        /\ Fail(h, 500) \/ GotoWith(h, "start", n)
    BY <1>5, <1>k, <1>e, <1>n DEF CommitNew, Write
  <2>2. secrets[k] = Absent
    <3>1. ~secrets[k].exists
      BY <1>2, <1>5 DEF CommitAccepted
    <3> QED
      BY <3>1, <1>1 DEF Inv, StoredConsistent, EntryConsistent
  <2>3. /\ n.exists /\ n.rv = revision + 1 /\ n.op = "none" /\ n.opid = 0
        /\ n.status = "unset"
    BY <1>1, <1>2, <1>n DEF Committed, Entry
  <2>4. secrets'[k] = n /\ \A j \in Keys \ {k} : secrets'[j] = secrets[j]
    BY <2>1, <1>1 DEF TypeOK
  <2>a. /\ revision' \in Nat /\ revision <= revision' /\ n.rv > revision
        /\ history \subseteq history'
    BY <2>1, <2>3, <1>1, <1>3
  <2>5. StoredConsistent'
    <3>1. EntryConsistent(n)'
      BY <2>1, <2>3, <1>1 DEF EntryConsistent
    <3>2. issued' \cup acked' \subseteq 1 .. revision'
      BY <2>1, <1>1, <1>3 DEF Inv, StoredConsistent
    <3> QED
      BY <2>1, <2>3, <2>a, <3>1, <3>2, StoreSurvives
  <2>6. CacheCoherent' /\ NoOutcome(reply')
    <3>1. \A g \in Handlers : handler'[g] = handler[g] => HandlerCoherent(g)'
      BY <2>1, <2>a, CachesSurvive
    <3>2. CASE Fail(h, 500)
      <4>1. HandlerCoherent(h)'
        BY <3>2, FailShape DEF HandlerCoherent, Unladen
      <4> QED
        BY <3>1, <3>2, <4>1, FailShape DEF CacheCoherent
    <3>3. CASE GotoWith(h, "start", n)
      <4>1. /\ handler'[h].pc = "start" /\ handler'[h].entry = n
            /\ KeyOf(h)' = k
        BY <3>3, <1>k, GotoShape
      <4>2. n = [n EXCEPT !.params = n.params]
        BY <1>1 DEF Entry
      <4>3. HandlerCoherent(h)'
        BY <4>1, <4>2, <2>1, <2>3, <2>4, <1>1 DEF HandlerCoherent
      <4> QED
        BY <3>1, <3>3, <4>3, GotoShape DEF CacheCoherent
    <3> QED
      BY <2>1, <3>2, <3>3
  <2>7. WorkerHoldsEntry'
    <3>1. \A w \in workers : w.key # k
      BY <2>2 DEF Inv, WorkerHoldsEntry, Absent
    <3> QED
      BY <3>1, <2>4, <1>3 DEF Inv, WorkerHoldsEntry, TypeOK, Worker
  <2>8. NeverResurrected'
    <3>1. 0 \notin acked
      BY <1>1 DEF Inv, StoredConsistent
    <3> QED
      BY <3>1, <2>3, <2>4, <1>3 DEF Inv, NeverResurrected
  <2>9. AcceptedOnRecord'
    <3>1. 0 \notin issued
      BY <1>1 DEF Inv, StoredConsistent
    <3>2. secrets[k].opid = 0
      BY <2>2 DEF Absent
    <3> QED
      BY <3>1, <3>2, <2>4, <1>3 DEF Inv, AcceptedOnRecord
  <2> QED
    BY <2>5, <2>6, <2>7, <2>8, <2>9 DEF Inv, PollTruthful, NoOutcome
<1> QED
  BY <1>4, <1>5

(* operation.Start. *)
LEMMA StartStep ==
    ASSUME TypeOK, Inv, TypeOK', NEW h \in Handlers, NEW fate \in Fates,
           StartOperation(h, fate)
    PROVE  Inv'
<1>0. /\ KeyOf(h) \in Keys /\ handler[h].entry \in Entry
      /\ revision \in Nat /\ revision + 1 \in Nat
      /\ OperationOf(handler[h].req) \in OpType
  BY HandlerTypes DEF OperationOf, OpType
<1>k. PICK k \in Keys : k = KeyOf(h)
  BY <1>0
<1>c. PICK c \in Entry : c = handler[h].entry
  BY <1>0
<1>o. PICK op \in OpType : op = OperationOf(handler[h].req)
  BY <1>0
<1>e. PICK e \in Entry : e = Start(c, op, revision + 1)
  BY <1>0, EntryTypes
<1>n. PICK n \in Entry : n = Committed(e, revision + 1)
  BY <1>0, EntryTypes
<1>1. secrets[k] \in Entry
  BY DEF TypeOK
<1>2. UNCHANGED <<history, acked>>
  BY DEF StartOperation
<1>3. \/ Fail(h, 500) /\ UNCHANGED <<secrets, revision, workers, issued>>
      \/ /\ ~StartRefused(c) /\ CommitAccepted(secrets[k], e) /\ Write(k, e)
         /\ \/ Fail(h, 500) /\ UNCHANGED <<workers, issued>>
            \/ /\ workers' = workers \cup {[key |-> k, entry |-> n]}
               /\ issued' = issued \cup {e.opid}
               /\ Respond(h, 202, "none", e.opid, n.uid)
  BY <1>k, <1>c, <1>o, <1>e, <1>n DEF StartOperation
<1>4. CASE Fail(h, 500) /\ UNCHANGED <<secrets, revision, workers, issued>>
  BY <1>4, <1>2, FailShape, QuietStep
<1>5. ASSUME ~StartRefused(c), CommitAccepted(secrets[k], e), Write(k, e),
             \/ Fail(h, 500) /\ UNCHANGED <<workers, issued>>
             \/ /\ workers' = workers \cup {[key |-> k, entry |-> n]}
                /\ issued' = issued \cup {e.opid}
                /\ Respond(h, 202, "none", e.opid, n.uid)
      PROVE  Inv'
  <2>1. secrets' = [secrets EXCEPT ![k] = n] /\ revision' = revision + 1
    BY <1>5, <1>n DEF Write
  <2>2. /\ e.exists = c.exists /\ e.rv = c.rv /\ e.op = op
        /\ e.opid = revision + 1 /\ e.status = c.status
    BY <1>e DEF Start, Entry
  <2>3. secrets[k] = [c EXCEPT !.params = secrets[k].params]
    <3>1. c.exists /\ (c.rv = secrets[k].rv =>
                           secrets[k] = [c EXCEPT !.params = secrets[k].params])
      BY <1>k, <1>c DEF StartOperation, Inv, CacheCoherent, HandlerCoherent
    <3> QED
      BY <3>1, <2>2, <1>5 DEF CommitAccepted
  <2>4. secrets[k].op = "none" /\ c.status = secrets[k].status
    BY <2>3, <1>5 DEF StartRefused, Entry
  <2>5. secrets[k].opid = 0 /\ secrets[k].status = "unset"
    BY <2>4, <1>1 DEF Inv, StoredConsistent, EntryConsistent, Entry
  <2>6. /\ n.exists /\ n.rv = revision + 1 /\ n.op = op
        /\ n.opid = revision + 1 /\ n.status = "unset"
    BY <1>n, <2>2, <2>4, <2>5 DEF Committed, Entry
  <2>7. op # "none"
    BY DEF OpType
  <2>8. secrets'[k] = n /\ \A j \in Keys \ {k} : secrets'[j] = secrets[j]
    BY <2>1 DEF TypeOK
  <2>9. /\ revision' \in Nat /\ revision <= revision' /\ n.rv > revision
        /\ history \subseteq history' /\ n.opid # 0
        /\ \A i \in 1 .. revision : i # n.opid
    BY <2>1, <2>6, <1>0, <1>2
  <2>10. StoredConsistent'
    <3>1. EntryConsistent(n)'
      BY <2>1, <2>6, <2>7, <2>9 DEF EntryConsistent
    <3>2. issued' \cup acked' \subseteq 1 .. revision'
      BY <2>1, <2>2, <1>0, <1>2, <1>5 DEF Inv, StoredConsistent
    <3>3. \A j \in Keys \ {k} : n.opid # secrets[j].opid
      BY <2>6, <1>0 DEF Inv, StoredConsistent, EntryConsistent, TypeOK, Entry
    <3> QED
      BY <2>1, <2>9, <3>1, <3>2, <3>3, StoreSurvives
  <2>11. CacheCoherent' /\ NoOutcome(reply')
    <3>1. \A g \in Handlers : handler'[g] = handler[g] => HandlerCoherent(g)'
      BY <2>1, <2>9, CachesSurvive
    <3>2. /\ Unladen(handler'[h]) /\ NoOutcome(reply')
          /\ \A g \in Handlers \ {h} : handler'[g] = handler[g]
      BY <1>5, FailShape, RespondShape
    <3>3. HandlerCoherent(h)'
      BY <3>2 DEF HandlerCoherent, Unladen
    <3> QED
      BY <3>1, <3>2, <3>3 DEF CacheCoherent
  <2>12. WorkerHoldsEntry'
    <3>1. \A w \in workers : w.key # k
      BY <2>4 DEF Inv, WorkerHoldsEntry
    <3>2. \A w \in workers : secrets'[w.key] = secrets[w.key]
      BY <3>1, <2>8 DEF TypeOK, Worker
    <3>3. \A w \in workers' : w \in workers \/ (w.key = k /\ w.entry = n)
      BY <1>5
    <3> QED
      BY <3>2, <3>3, <2>6, <2>7, <2>8, <2>9 DEF Inv, WorkerHoldsEntry
  <2>13. NeverResurrected'
    <3>1. n.opid \notin acked
      BY <2>9 DEF Inv, StoredConsistent
    <3> QED
      BY <3>1, <2>8, <1>2 DEF Inv, NeverResurrected
  <2>14. AcceptedOnRecord'
    <3>1. 0 \notin issued
      BY <1>0 DEF Inv, StoredConsistent
    <3>2. \A o \in issued' : o \in issued \/ o = n.opid
      BY <1>5, <2>2, <2>6
    <3> QED
      BY <3>1, <3>2, <2>5, <2>8, <1>2 DEF Inv, AcceptedOnRecord
  <2> QED
    BY <2>10, <2>11, <2>12, <2>13, <2>14 DEF Inv, PollTruthful, NoOutcome
<1> QED
  BY <1>3, <1>4, <1>5

(* operation.End. *)
LEMMA EndStep ==
    ASSUME TypeOK, Inv, TypeOK', NEW h \in Handlers, NEW fate \in Fates,
           EndOperation(h, fate)
    PROVE  Inv'
<1>0. KeyOf(h) \in Keys /\ handler[h].entry \in Entry
      /\ revision \in Nat /\ revision + 1 \in Nat
  BY HandlerTypes
<1>k. PICK k \in Keys : k = KeyOf(h)
  BY <1>0
<1>c. PICK c \in Entry : c = handler[h].entry
  BY <1>0
<1>e. PICK e \in Entry : e = End(c)
  BY <1>0, EntryTypes
<1>n. PICK n \in Entry : n = Committed(e, revision + 1)
  BY <1>0, EntryTypes
<1>1. secrets[k] \in Entry
  BY DEF TypeOK
<1>2. UNCHANGED <<workers, history, issued>>
  BY DEF EndOperation
<1>3. \/ Fail(h, 500) /\ UNCHANGED <<secrets, revision, acked>>
      \/ /\ CommitAccepted(secrets[k], e) /\ Write(k, e)
         /\ acked' = acked \cup {c.opid}
         /\ \/ Fail(h, 500)
            \/ Respond(h, 200, IF c.status = "ok" THEN "succeeded" ELSE "failed",
                       c.opid, c.uid)
  BY <1>k, <1>c, <1>e DEF EndOperation
<1>4. CASE Fail(h, 500) /\ UNCHANGED <<secrets, revision, acked>>
  BY <1>4, <1>2, FailShape, QuietStep
<1>5. ASSUME CommitAccepted(secrets[k], e), Write(k, e), acked' = acked \cup {c.opid},
             \/ Fail(h, 500)
             \/ Respond(h, 200, IF c.status = "ok" THEN "succeeded" ELSE "failed",
                        c.opid, c.uid)
      PROVE  Inv'
  <2>1. secrets' = [secrets EXCEPT ![k] = n] /\ revision' = revision + 1
    BY <1>5, <1>n DEF Write
  <2>2. /\ e.exists = c.exists /\ e.rv = c.rv /\ e.op = "none"
        /\ e.opid = 0 /\ e.status = "unset"
    BY <1>e DEF End, Entry
  <2>a. /\ c.exists /\ c.opid # 0 /\ c.status # "unset" /\ Recorded(c)
        /\ (c.rv = secrets[k].rv => secrets[k] = [c EXCEPT !.params = secrets[k].params])
    BY <1>k, <1>c DEF EndOperation, Inv, CacheCoherent, HandlerCoherent
  <2>3. secrets[k] = [c EXCEPT !.params = secrets[k].params]
    BY <2>a, <2>2, <1>5 DEF CommitAccepted
  <2>4. secrets[k].opid = c.opid /\ secrets[k].status # "unset"
    BY <2>3, <2>a DEF Entry
  <2>5. c.opid \in 1 .. revision
    BY <2>4, <2>a, <1>0, <1>1 DEF Inv, StoredConsistent, EntryConsistent, Entry
  <2>6. /\ n.exists /\ n.rv = revision + 1 /\ n.op = "none"
        /\ n.opid = 0 /\ n.status = "unset"
    BY <1>n, <2>2 DEF Committed, Entry
  <2>8. secrets'[k] = n /\ \A j \in Keys \ {k} : secrets'[j] = secrets[j]
    BY <2>1 DEF TypeOK
  <2>9. /\ revision' \in Nat /\ revision <= revision' /\ n.rv > revision
        /\ history \subseteq history'
    BY <2>1, <2>6, <1>0, <1>2
  <2>10. StoredConsistent'
    <3>1. EntryConsistent(n)'
      BY <2>1, <2>6, <2>9, <1>0 DEF EntryConsistent
    <3>2. issued' \cup acked' \subseteq 1 .. revision'
      BY <2>1, <2>5, <1>0, <1>2, <1>5 DEF Inv, StoredConsistent
    <3> QED
      BY <2>1, <2>6, <2>9, <3>1, <3>2, StoreSurvives
  <2>11. CacheCoherent'
    <3>1. \A g \in Handlers : handler'[g] = handler[g] => HandlerCoherent(g)'
      BY <2>1, <2>9, CachesSurvive
    <3>2. /\ Unladen(handler'[h])
          /\ \A g \in Handlers \ {h} : handler'[g] = handler[g]
      BY <1>5, FailShape, RespondShape
    <3>3. HandlerCoherent(h)'
      BY <3>2 DEF HandlerCoherent, Unladen
    <3> QED
      BY <3>1, <3>2, <3>3 DEF CacheCoherent
  <2>12. WorkerHoldsEntry'
    <3>1. \A w \in workers : w.key # k
      BY <2>4 DEF Inv, WorkerHoldsEntry
    <3>2. \A w \in workers : secrets'[w.key] = secrets[w.key]
      BY <3>1, <2>8 DEF TypeOK, Worker
    <3> QED
      BY <3>2, <1>2 DEF Inv, WorkerHoldsEntry
  <2>13. NeverResurrected'
    <3>1. 0 \notin acked'
      BY <1>0, <1>5, <2>5 DEF Inv, StoredConsistent
    <3>2. \A j \in Keys \ {k} : secrets[j].opid # c.opid
      BY <2>4, <2>a DEF Inv, StoredConsistent
    <3> QED
      BY <3>1, <3>2, <2>6, <2>8, <1>5 DEF Inv, NeverResurrected
  <2>14. AcceptedOnRecord'
    <3>1. \A o \in Nat : secrets[k].opid = o => o \in acked'
      BY <1>5, <2>4
    <3> QED
      BY <3>1, <2>4, <2>8, <1>2, <1>5 DEF Inv, AcceptedOnRecord, TypeOK
  <2>15. PollTruthful'
    <3>1. CASE Fail(h, 500)
      BY <3>1, FailShape DEF NoOutcome, PollTruthful
    <3>2. CASE Respond(h, 200, IF c.status = "ok" THEN "succeeded" ELSE "failed",
                       c.opid, c.uid)
      <4>1. \A p \in reply' :
               /\ p.opid = c.opid /\ p.uid = c.uid
               /\ p.state = IF c.status = "ok" THEN "succeeded" ELSE "failed"
        BY <3>2, RespondShape
      <4>2. c.status \in {"ok", "error"}
        BY <2>a DEF Entry, Status
      <4>3. PICK f \in history : f.opid = c.opid /\ f.uid = c.uid /\ f.status = c.status
        BY <2>a DEF Recorded
      <4> QED
        BY <4>1, <4>2, <4>3, <1>2 DEF PollTruthful
    <3> QED
      BY <3>1, <3>2, <1>5
  <2> QED
    BY <2>10, <2>11, <2>12, <2>13, <2>14, <2>15 DEF Inv
<1> QED
  BY <1>3, <1>4, <1>5

(* A provisioner that ends, whatever its last write did, is off the entry: *)
(* the others work on other entries.                                       *)
LEMMA OtherWorkers ==
    ASSUME TypeOK, Inv, NEW w \in workers, NEW v \in workers, v # w
    PROVE  v.key # w.key
BY DEF Inv, WorkerHoldsEntry, TypeOK, Worker

(* operation.Complete. *)
LEMMA CompleteStep ==
    ASSUME TypeOK, Inv, TypeOK', NEW w \in workers,
           NEW status \in {"ok", "error"}, NEW fate \in Fates,
           CompleteOperation(w, status, fate)
    PROVE  Inv'
<1>0. w \in Worker /\ w.key \in Keys /\ w.entry \in Entry
      /\ revision \in Nat /\ revision + 1 \in Nat
  BY DEF TypeOK, Worker
<1>k. PICK k \in Keys : k = w.key
  BY <1>0
<1>e. PICK e \in Entry : e = Complete(w.entry, status)
  BY <1>0, EntryTypes DEF Status
<1>n. PICK n \in Entry : n = Committed(e, revision + 1)
  BY <1>0, EntryTypes
<1>1. /\ UNCHANGED <<handler, issued, acked>> /\ reply' = {}
      /\ workers' = workers \ {w}
      /\ history' = history \cup {Finished(w, status)}
      /\ history \subseteq history'
  BY DEF CompleteOperation
<1>2. /\ secrets[k] = w.entry /\ w.entry.exists /\ w.entry.op # "none"
      /\ w.entry.opid # 0 /\ EntryConsistent(w.entry)
  BY <1>k DEF Inv, WorkerHoldsEntry, StoredConsistent
<1>3. /\ e.exists = w.entry.exists /\ e.rv = w.entry.rv /\ e.op = w.entry.op
      /\ e.opid = w.entry.opid /\ e.status = status /\ e.uid = w.entry.uid
  BY <1>e, <1>0 DEF Complete, Entry
<1>4. \/ UNCHANGED <<secrets, revision>>
      \/ secrets' = [secrets EXCEPT ![k] = n] /\ revision' = revision + 1
  BY <1>k, <1>e, <1>n DEF CompleteOperation, Write
<1>5. PollTruthful'
  BY <1>1 DEF PollTruthful
<1>6. CASE UNCHANGED <<secrets, revision>>
  <2>1. StoredConsistent'
    BY <1>1, <1>6 DEF Inv, StoredConsistent, EntryConsistent, Recorded
  <2>2. CacheCoherent'
    BY <1>1, <1>6 DEF Inv, CacheCoherent, HandlerCoherent, KeyOf, Recorded
  <2>3. WorkerHoldsEntry' /\ NeverResurrected' /\ AcceptedOnRecord'
    BY <1>1, <1>6 DEF Inv, WorkerHoldsEntry, NeverResurrected, AcceptedOnRecord
  <2> QED
    BY <2>1, <2>2, <2>3, <1>5 DEF Inv
<1>7. CASE secrets' = [secrets EXCEPT ![k] = n] /\ revision' = revision + 1
  <2>1. /\ n.exists /\ n.rv = revision + 1 /\ n.op = w.entry.op
        /\ n.opid = w.entry.opid /\ n.status = status /\ n.uid = w.entry.uid
    BY <1>n, <1>2, <1>3 DEF Committed, Entry
  <2>2. secrets'[k] = n /\ \A j \in Keys \ {k} : secrets'[j] = secrets[j]
    BY <1>7 DEF TypeOK
  <2>3. revision' \in Nat /\ revision <= revision' /\ n.rv > revision
    BY <2>1, <1>7, <1>0
  <2>4. StoredConsistent'
    <3>1. Recorded(n)'
      <4>1. /\ Finished(w, status) \in history'
            /\ Finished(w, status).opid = n.opid
            /\ Finished(w, status).uid = n.uid
            /\ Finished(w, status).status = n.status
        BY <2>1, <1>1 DEF Finished
      <4> QED
        BY <4>1 DEF Recorded
    <3>2. EntryConsistent(n)'
      BY <3>1, <2>1, <2>3, <1>0, <1>2, <1>7 DEF EntryConsistent, Entry
    <3>3. issued' \cup acked' \subseteq 1 .. revision'
      BY <1>0, <1>1, <1>7 DEF Inv, StoredConsistent
    <3>4. \A j \in Keys \ {k} : n.opid # secrets[j].opid
      BY <2>1, <1>2 DEF Inv, StoredConsistent
    <3> QED
      BY <1>1, <1>7, <2>3, <3>2, <3>3, <3>4, StoreSurvives
  <2>5. CacheCoherent'
    BY <1>1, <1>7, <2>3, CachesSurvive DEF CacheCoherent
  <2>6. WorkerHoldsEntry'
    <3>1. \A v \in workers' : v \in workers /\ v.key \in Keys /\ v.key # k
      BY <1>1, <1>k, OtherWorkers DEF TypeOK, Worker
    <3> QED
      BY <3>1, <2>2 DEF Inv, WorkerHoldsEntry
  <2>7. \A j \in Keys : secrets'[j].opid = secrets[j].opid
    BY <2>1, <2>2, <1>2
  <2>8. NeverResurrected' /\ AcceptedOnRecord'
    BY <2>7, <1>1 DEF Inv, NeverResurrected, AcceptedOnRecord
  <2> QED
    BY <2>4, <2>5, <2>6, <2>8, <1>5 DEF Inv
<1> QED
  BY <1>4, <1>6, <1>7

(* Entry.Delete: the entry it removes by name is the provisioner's own. *)
LEMMA DeleteStep ==
    ASSUME TypeOK, Inv, TypeOK', NEW w \in workers, NEW fate \in Fates,
           DeleteEntry(w, fate)
    PROVE  Inv'
<1>0. w \in Worker /\ w.key \in Keys /\ w.entry \in Entry /\ revision \in Nat
  BY DEF TypeOK, Worker
<1>k. PICK k \in Keys : k = w.key
  BY <1>0
<1>1. /\ UNCHANGED <<revision, handler, issued, acked>> /\ reply' = {}
      /\ workers' = workers \ {w}
      /\ history \subseteq history' /\ w.entry.op = "deprovision"
  BY DEF DeleteEntry
<1>2. secrets[k] = w.entry
  BY <1>k DEF Inv, WorkerHoldsEntry
<1>3. PollTruthful'
  BY <1>1 DEF PollTruthful
<1>4. CASE fate = "lost"
  <2>0. UNCHANGED secrets
    BY <1>4 DEF DeleteEntry
  <2>1. StoredConsistent'
    BY <1>1, <2>0 DEF Inv, StoredConsistent, EntryConsistent, Recorded
  <2>2. CacheCoherent'
    BY <1>1, <2>0 DEF Inv, CacheCoherent, HandlerCoherent, KeyOf, Recorded
  <2>3. WorkerHoldsEntry' /\ NeverResurrected' /\ AcceptedOnRecord'
    BY <1>1, <2>0 DEF Inv, WorkerHoldsEntry, NeverResurrected, AcceptedOnRecord
  <2> QED
    BY <2>1, <2>2, <2>3, <1>3 DEF Inv
<1>5. CASE fate # "lost"
  <2>1. /\ secrets' = [secrets EXCEPT ![k] = Absent]
        /\ Finished(w, "ok") \in history'
    BY <1>5, <1>k DEF DeleteEntry
  <2>2. secrets'[k] = Absent /\ \A j \in Keys \ {k} : secrets'[j] = secrets[j]
    BY <2>1 DEF TypeOK
  <2>3. /\ Absent \in Entry /\ Absent.rv = 0 /\ Absent.opid = 0
        /\ ~Absent.exists /\ Absent.op = "none" /\ Absent.status = "unset"
    BY IdleType DEF Absent
  <2>4. revision' \in Nat /\ revision <= revision'
    BY <1>0, <1>1
  <2>5. StoredConsistent'
    <3>1. EntryConsistent(Absent)'
      BY <2>3, <2>4 DEF EntryConsistent
    <3>2. issued' \cup acked' \subseteq 1 .. revision'
      BY <1>1 DEF Inv, StoredConsistent
    <3> QED
      BY <1>1, <2>1, <2>3, <2>4, <3>1, <3>2, StoreSurvives
  <2>6. CacheCoherent'
    BY <1>1, <2>1, <2>3, <2>4, CachesSurvive DEF CacheCoherent
  <2>7. WorkerHoldsEntry'
    <3>1. \A v \in workers' : v \in workers /\ v.key \in Keys /\ v.key # k
      BY <1>1, <1>k, OtherWorkers DEF TypeOK, Worker
    <3> QED
      BY <3>1, <2>2 DEF Inv, WorkerHoldsEntry
  <2>8. NeverResurrected'
    <3>1. 0 \notin acked
      BY <1>0 DEF Inv, StoredConsistent
    <3> QED
      BY <3>1, <1>1, <2>2, <2>3 DEF Inv, NeverResurrected
  <2>9. AcceptedOnRecord'
    <3>1. ASSUME NEW o \in issued, secrets[k].opid = o
          PROVE  \E f \in history' :
                     f.opid = o /\ f.type = "deprovision" /\ f.status = "ok"
      BY <3>1, <2>1, <1>1, <1>2 DEF Finished
    <3> QED
      BY <3>1, <1>1, <2>2 DEF Inv, AcceptedOnRecord
  <2> QED
    BY <2>5, <2>6, <2>7, <2>8, <2>9, <1>3 DEF Inv
<1> QED
  BY <1>4, <1>5

-----------------------------------------------------------------------------
(* The theorems.                                                           *)

(* The inductive invariant holds in every reachable state. *)
THEOREM Invariance == Spec => []Inv
<1>1. Init => Inv
  <2> SUFFICES ASSUME Init PROVE Inv
    OBVIOUS
  <2>1. StoredConsistent
    <3>1. \A k \in Keys : secrets[k] = Absent
      BY DEF Init
    <3>2. EntryConsistent(Absent) /\ Absent.opid = 0
      BY DEF Init, EntryConsistent, Absent
    <3> QED
      BY <3>1, <3>2 DEF Init, StoredConsistent
  <2>2. CacheCoherent
    BY DEF Init, CacheCoherent, HandlerCoherent, Idle
  <2>3. WorkerHoldsEntry /\ NeverResurrected /\ AcceptedOnRecord /\ PollTruthful
    BY DEF Init, WorkerHoldsEntry, NeverResurrected, AcceptedOnRecord, PollTruthful
  <2> QED
    BY <2>1, <2>2, <2>3 DEF Inv
<1>2. TypeOK /\ TypeOK' /\ Inv /\ [Next]_vars => Inv'
  <2> SUFFICES ASSUME TypeOK, TypeOK', Inv, [Next]_vars PROVE Inv'
    OBVIOUS
  <2>1. ASSUME NEW h \in Handlers, ClientStep(h) PROVE Inv'
    BY <2>1, UnrelatedSteps DEF ClientStep
  <2>2. ASSUME NEW h \in Handlers, HandlerStep(h) PROVE Inv'
    <3>1. {"ok", "lost"} \subseteq Fates
      BY DEF Fates
    <3>2. CASE \/ \E fate \in Fates : \/ GetDirectoryInstance(h, fate)
                                      \/ NewDirectory(h, fate)
                                      \/ RegisterInstance(h, fate)
                                      \/ DeregisterInstance(h, fate)
               \/ OpenFails(h) \/ PrepareFails(h)
      BY <3>2, UnrelatedSteps
    <3>3. CASE \/ OpenCreate(h) \/ OpenRead(h) \/ OpenUpdate(h)
               \/ OpenDelete(h) \/ OpenPoll(h)
      BY <3>3, OpenSteps
    <3>4. CASE \E fate \in Fates : CommitNew(h, fate)
      BY <3>4, CommitNewStep
    <3>5. CASE \E fate \in Fates : StartOperation(h, fate)
      BY <3>5, StartStep
    <3>6. CASE \E fate \in Fates : EndOperation(h, fate)
      BY <3>6, EndStep
    <3> QED
      BY <2>2, <3>1, <3>2, <3>3, <3>4, <3>5, <3>6 DEF HandlerStep
  <2>3. ASSUME NEW w \in workers, WorkerStep(w) PROVE Inv'
    BY <2>3, CompleteStep, DeleteStep DEF WorkerStep
  <2>4. CASE Crash
    BY <2>4, CrashStep
  <2>5. CASE UNCHANGED vars
    <3>1. StoredConsistent'
      BY <2>5 DEF vars, Inv, StoredConsistent, EntryConsistent, Recorded
    <3>2. CacheCoherent'
      BY <2>5 DEF vars, Inv, CacheCoherent, HandlerCoherent, KeyOf, Recorded
    <3>3. /\ WorkerHoldsEntry' /\ NeverResurrected' /\ AcceptedOnRecord'
          /\ PollTruthful'
      BY <2>5 DEF vars, Inv, WorkerHoldsEntry, NeverResurrected,
                  AcceptedOnRecord, PollTruthful
    <3> QED
      BY <3>1, <3>2, <3>3 DEF Inv
  <2> QED
    BY <2>1, <2>2, <2>3, <2>4, <2>5 DEF Next
<1> QED
  BY <1>1, <1>2, TypeCorrect, PTL DEF Spec

(* The operation key is an exclusive lock: while a provisioner runs, the   *)
(* stored entry is the one it was handed.                                  *)
THEOREM ExclusiveOperation == Spec => []WorkerHoldsEntry
<1>1. Inv => WorkerHoldsEntry
  BY DEF Inv
<1> QED
  BY <1>1, Invariance, PTL

(* Optimistic locking is sound for every number of concurrent handlers. *)
THEOREM CommitsAreFresh == Spec => []CacheCoherent
<1>1. Inv => CacheCoherent
  BY DEF Inv
<1> QED
  BY <1>1, Invariance, PTL

(* A poll reports success or failure only of the provisioner that ran      *)
(* under the polled operation ID.                                          *)
THEOREM PollsTellTheTruth == Spec => []PollTruthful
<1>1. Inv => PollTruthful
  BY DEF Inv
<1> QED
  BY <1>1, Invariance, PTL

(* No accepted operation is forgotten, and none comes back after its       *)
(* outcome was consumed.                                                   *)
THEOREM OperationsOnRecord == Spec => [](AcceptedOnRecord /\ NeverResurrected)
<1>1. Inv => AcceptedOnRecord /\ NeverResurrected
  BY DEF Inv
<1> QED
  BY <1>1, Invariance, PTL
=============================================================================
