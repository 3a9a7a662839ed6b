------------------------ MODULE ServiceInstanceProofs ------------------------
(***************************************************************************)
(* Proofs about ServiceInstance, for every set of requests, instances,     *)
(* handlers and namespaces and for every bound.                            *)
(***************************************************************************)
EXTENDS ServiceInstance, TLAPS

-----------------------------------------------------------------------------
(* Types of the operators.                                                 *)

(* A handler that waits for a request is well-typed. *)
LEMMA IdleType ==
    /\ Absent \in Entry
    /\ EmptyDirectory \in Directory
    /\ NoRequest \in Request
    /\ Idle \in Handler
<1>1. Absent \in Entry
  BY DEF Absent, Entry, Document, Status
<1>2. EmptyDirectory \in Directory
  BY DEF EmptyDirectory, Directory
<1>3. NoRequest \in Request
  <2>1. (CHOOSE i \in Instances : TRUE) \in Instances
    BY RequestAssumption
  <2> QED
    BY <2>1 DEF NoRequest, Request, AnyRequest, Document
<1> QED
  BY <1>1, <1>2, <1>3, NamespaceAssumption DEF Idle, Handler, Labels

(* Commit, Start, Complete and End yield entries. *)
LEMMA EntryTypes ==
    ASSUME NEW e \in Entry, NEW n \in Nat
    PROVE  /\ Committed(e, n) \in Entry
           /\ \A t \in OpType : Start(e, t, n) \in Entry
           /\ \A s \in Status : Complete(e, s) \in Entry
           /\ End(e) \in Entry
BY DEF Entry, Committed, Start, Complete, End, Status, OpType

(* Storing a document yields a document. *)
LEMMA MarshalType == \A d \in Document : Marshal(d) \in Document
BY CompactAssumption DEF Marshal, Document

(* The entry of a new instance is well-typed. *)
LEMMA NewEntryType == \A r \in Request : NewEntry(r) \in Entry
BY MarshalType, IdleType DEF NewEntry, Entry, Absent, Request, AnyRequest

(* registerDirectoryInstance chooses a namespace. *)
LEMMA DirentType ==
    ASSUME NEW r \in Request, r.type = "create"
    PROVE  DirentNamespace(r) \in Namespaces
<1>1. SP(r) \in ServicePlans
  BY DEF Request, SP, ServicePlans
<1>2. GetNamespace(r.context) \in Namespaces
  BY NamespaceAssumption DEF GetNamespace, Request, AnyRequest, Document
<1> QED
  BY <1>1, <1>2, NamespaceAssumption, ConfigAssumption DEF DirentNamespace

(* A status code. *)
LEMMA AdmissionType == \A r \in Request : Admission(r) \in Codes
BY DEF Admission, Codes

(* The response of a handler, and the next label, keep the types. *)
LEMMA RespondType ==
    ASSUME TypeOK, NEW h \in Handlers, NEW code \in Codes,
           NEW state \in PollStates, NEW opid \in Nat, NEW uid \in Nat,
           Respond(h, code, state, opid, uid)
    PROVE  handler' \in [Handlers -> Handler] /\ reply' \subseteq Reply
BY IdleType DEF TypeOK, Respond, Reply, Handler

(* Fail keeps the types. *)
LEMMA FailType ==
    ASSUME TypeOK, NEW h \in Handlers, NEW code \in Codes, Fail(h, code)
    PROVE  handler' \in [Handlers -> Handler] /\ reply' \subseteq Reply
<1>1. handler[h].entry.uid \in Nat
  BY DEF TypeOK, Handler, Entry
<1> QED
  BY <1>1, RespondType DEF Fail, PollStates

(* Goto keeps the types. *)
LEMMA GotoType ==
    ASSUME TypeOK, NEW h \in Handlers, NEW label \in Labels, NEW e \in Entry,
           Goto(h, label) \/ GotoWith(h, label, e)
    PROVE  handler' \in [Handlers -> Handler] /\ reply' \subseteq Reply
BY DEF TypeOK, Goto, GotoWith, Handler

(* One failed call at most. *)
LEMMA FateType ==
    ASSUME faults \in 0 .. MaxFaults, NEW fate, Fate(fate)
    PROVE  faults' \in 0 .. MaxFaults
BY BoundAssumption DEF Fate

(* Writing an entry. *)
LEMMA WriteType ==
    ASSUME TypeOK, NEW k \in Keys, NEW e \in Entry, Write(k, e)
    PROVE  secrets' \in [Keys -> Entry] /\ revision' \in Nat
BY EntryTypes DEF TypeOK, Write

-----------------------------------------------------------------------------
(* Type correctness.                                                       *)

(* The five actions that follow registry.New keep the types: they answer   *)
(* from the stored entry or cache it, and write nothing.                   *)
LEMMA OpenTypes ==
    ASSUME TypeOK, NEW h \in Handlers,
           \/ OpenCreate(h) \/ OpenRead(h) \/ OpenUpdate(h)
           \/ OpenDelete(h) \/ OpenPoll(h)
    PROVE  TypeOK'
<1> DEFINE e == secrets[KeyOf(h)]
           r == handler[h].req
<1>1. r \in Request /\ handler[h].loc \in Namespaces /\ KeyOf(h) \in Keys
  BY DEF TypeOK, Handler, KeyOf, Keys, Request, AnyRequest
<1>2. e \in Entry /\ e.opid \in Nat /\ e.uid \in Nat
  BY <1>1 DEF TypeOK, Entry
<1>3. r.op \in Nat /\ Marshal(r.params) \in Document
  BY <1>1, MarshalType DEF Request, AnyRequest
<1>4. /\ 200 \in Codes /\ 202 \in Codes /\ 400 \in Codes /\ 404 \in Codes
      /\ 409 \in Codes /\ 410 \in Codes /\ 500 \in Codes /\ 0 \in Nat
      /\ "none" \in PollStates /\ "inProgress" \in PollStates
      /\ "create" \in Labels /\ "start" \in Labels /\ "end" \in Labels
  BY DEF Codes, PollStates, Labels
<1> HIDE DEF e, r
<1>5. /\ UNCHANGED <<secrets, directory, revision, workers, history, acked,
                      faults, crashes>>
      /\ issued' \subseteq Nat
  BY <1>2 DEF OpenCreate, OpenRead, OpenUpdate, OpenDelete, OpenPoll, Opens,
              TypeOK, e
<1>6. handler' \in [Handlers -> Handler] /\ reply' \subseteq Reply
  <2>1. CASE OpenCreate(h)
    <3>1. \/ Respond(h, 409, "none", 0, e.uid)
          \/ Respond(h, 200, "none", 0, e.uid)
          \/ Respond(h, 202, "none", e.opid, e.uid)
          \/ Respond(h, 400, "none", 0, 0)
          \/ GotoWith(h, "create", NewEntry(r))
      BY <2>1 DEF OpenCreate, e, r
    <3> QED
      BY <3>1, <1>1, <1>2, <1>4, RespondType, GotoType, NewEntryType
  <2>2. CASE OpenRead(h)
    <3>1. \E code \in Codes, uid \in Nat : Respond(h, code, "none", 0, uid)
      BY <2>2, <1>2, <1>4 DEF OpenRead, e
    <3> QED
      BY <3>1, <1>4, RespondType
  <2>3. CASE OpenUpdate(h)
    <3>1. \/ \E code \in Codes, uid \in Nat : Respond(h, code, "none", 0, uid)
          \/ GotoWith(h, "start", [e EXCEPT !.params = Marshal(r.params)])
      BY <2>3, <1>2, <1>4 DEF OpenUpdate, e, r
    <3>2. [e EXCEPT !.params = Marshal(r.params)] \in Entry
      BY <1>2, <1>3 DEF Entry
    <3> QED
      BY <3>1, <3>2, <1>4, RespondType, GotoType
  <2>4. CASE OpenDelete(h)
    <3>1. \/ \E code \in Codes, uid \in Nat : Respond(h, code, "none", 0, uid)
          \/ GotoWith(h, "start", e)
      BY <2>4, <1>2, <1>4 DEF OpenDelete, e
    <3> QED
      BY <3>1, <1>2, <1>4, RespondType, GotoType
  <2>5. CASE OpenPoll(h)
    <3>1. \/ Respond(h, 410, "none", r.op, 0)
          \/ Respond(h, 500, "none", 0, e.uid)
          \/ Respond(h, 400, "none", 0, e.uid)
          \/ Respond(h, 200, "inProgress", e.opid, e.uid)
          \/ GotoWith(h, "end", e)
      BY <2>5 DEF OpenPoll, e, r
    <3> QED
      BY <3>1, <1>2, <1>3, <1>4, RespondType, GotoType
  <2> QED
    BY <2>1, <2>2, <2>3, <2>4, <2>5
<1> QED
  BY <1>5, <1>6 DEF TypeOK

(* Every action of a handler that talks to the directory keeps the types.  *)
LEMMA DirectoryTypes ==
    ASSUME TypeOK, NEW h \in Handlers, NEW fate \in Fates,
           \/ GetDirectoryInstance(h, fate) \/ NewDirectory(h, fate)
           \/ RegisterInstance(h, fate) \/ DeregisterInstance(h, fate)
    PROVE  TypeOK'
<1> DEFINE r == handler[h].req
           d == handler[h].dir
<1>1. handler[h] \in Handler /\ r \in Request /\ r.instance \in Instances
      /\ d \in Directory
  BY DEF TypeOK, Handler, Request, AnyRequest
<1>2. faults' \in 0 .. MaxFaults
  BY FateType DEF TypeOK, GetDirectoryInstance, NewDirectory, RegisterInstance,
                  DeregisterInstance
<1>3. UNCHANGED <<secrets, revision, workers, history, issued, acked, crashes>>
  BY DEF GetDirectoryInstance, NewDirectory, RegisterInstance, DeregisterInstance
<1>4. ASSUME NEW data \in [Instances -> Namespaces \cup {None}], StoreDirectory(data)
      PROVE  directory' \in Directory
  BY <1>4 DEF TypeOK, StoreDirectory, Directory
<1>5. 500 \in Codes /\ {"open", "getDirectory", "commitDirectory"} \subseteq Labels
  BY DEF Codes, Labels
<1> HIDE DEF r, d
<1>6. directory' \in Directory
  <2>1. CASE RegisterInstance(h, fate)
    <3>1. r.type = "create" => DirentNamespace(r) \in Namespaces
      BY <1>1, DirentType
    <3>2. r.type = "create" =>
            [d.data EXCEPT ![r.instance] = DirentNamespace(r)]
                \in [Instances -> Namespaces \cup {None}]
      BY <1>1, <3>1 DEF Directory
    <3> QED
      BY <2>1, <3>2, <1>4 DEF RegisterInstance, TypeOK, r, d
  <2>2. CASE DeregisterInstance(h, fate)
    <3>1. [d.data EXCEPT ![r.instance] = None]
                \in [Instances -> Namespaces \cup {None}]
      BY <1>1 DEF Directory
    <3> QED
      BY <2>2, <3>1, <1>4 DEF DeregisterInstance, TypeOK, r, d
  <2> QED
    BY <2>1, <2>2 DEF GetDirectoryInstance, NewDirectory, TypeOK
<1>7. handler' \in [Handlers -> Handler] /\ reply' \subseteq Reply
  <2>1. CASE GetDirectoryInstance(h, fate)
    <3>1. Locate(directory, r.instance) \in Namespaces
      BY <1>1, NamespaceAssumption DEF Locate, TypeOK, Directory
    <3> QED
      BY <2>1, <3>1, <1>1, <1>5, NamespaceAssumption
      DEF GetDirectoryInstance, TypeOK, Handler, r
  <2>2. CASE NewDirectory(h, fate)
    <3>1. CASE Fail(h, 500)
      BY <3>1, <1>5, FailType
    <3>2. CASE Goto(h, "open")
      BY <3>2, <1>5, GotoType, IdleType
    <3>3. CASE /\ handler' = [handler EXCEPT
                               ![h] = [@ EXCEPT !.pc = "commitDirectory",
                                                !.dir = directory]]
               /\ reply' = {}
      BY <3>3, <1>1, <1>5 DEF TypeOK, Handler
    <3> QED
      BY <2>2, <3>1, <3>2, <3>3 DEF NewDirectory
  <2>3. CASE RegisterInstance(h, fate)
    <3>1. CASE Fail(h, 500)
      BY <3>1, <1>5, FailType
    <3>2. CASE /\ handler' = [handler EXCEPT
                               ![h] = [@ EXCEPT !.pc = "open",
                                                !.loc = DirentNamespace(r),
                                                !.dir = EmptyDirectory]]
               /\ r.type = "create"
               /\ reply' = {}
      BY <3>2, <1>1, <1>5, DirentType, IdleType DEF TypeOK, Handler
    <3> QED
      BY <2>3, <3>1, <3>2 DEF RegisterInstance, r
  <2>4. CASE DeregisterInstance(h, fate)
    BY <2>4, <1>1, <1>5, IdleType DEF DeregisterInstance, TypeOK, Handler
  <2> QED
    BY <2>1, <2>2, <2>3, <2>4
<1> QED
  BY <1>2, <1>3, <1>6, <1>7 DEF TypeOK

(* Every write of a registry entry by a handler keeps the types. *)
LEMMA CommitTypes ==
    ASSUME TypeOK, NEW h \in Handlers, NEW fate \in Fates,
           CommitNew(h, fate) \/ StartOperation(h, fate) \/ EndOperation(h, fate)
    PROVE  TypeOK'
<1> DEFINE c == handler[h].entry
           k == KeyOf(h)
           op == OperationOf(handler[h].req)
           e == Start(c, op, revision + 1)
<1>1. c \in Entry /\ k \in Keys /\ revision \in Nat /\ revision + 1 \in Nat
      /\ faults \in 0 .. MaxFaults
  BY DEF TypeOK, Handler, KeyOf, Keys, Request, AnyRequest
<1>2. /\ 500 \in Codes /\ 200 \in Codes /\ 202 \in Codes /\ "start" \in Labels
      /\ "none" \in PollStates /\ "succeeded" \in PollStates
      /\ "failed" \in PollStates
  BY DEF Codes, Labels, PollStates
<1> HIDE DEF c, k
<1>3. /\ Committed(c, revision + 1) \in Entry /\ End(c) \in Entry
      /\ c.opid \in Nat /\ c.uid \in Nat
  BY <1>1, EntryTypes DEF Entry
<1>4. CASE CommitNew(h, fate)
  <2>1. secrets' \in [Keys -> Entry] /\ revision' \in Nat
    BY <1>4, <1>1, WriteType DEF CommitNew, TypeOK, c, k
  <2>2. handler' \in [Handlers -> Handler] /\ reply' \subseteq Reply
    BY <1>4, <1>2, <1>3, GotoType, FailType DEF CommitNew, c
  <2>3. /\ faults' \in 0 .. MaxFaults
        /\ UNCHANGED <<directory, workers, history, issued, acked, crashes>>
    BY <1>4, <1>1, FateType DEF CommitNew
  <2> QED
    BY <2>1, <2>2, <2>3 DEF TypeOK
<1>5. CASE EndOperation(h, fate)
  <2>1. /\ secrets' \in [Keys -> Entry] /\ revision' \in Nat
        /\ acked' \subseteq Nat
    <3>1. CASE Write(k, End(c)) /\ acked' = acked \cup {c.opid}
      BY <3>1, <1>1, <1>3, WriteType DEF TypeOK
    <3>2. CASE UNCHANGED <<secrets, revision, acked>>
      BY <3>2 DEF TypeOK
    <3> QED
      BY <1>5, <3>1, <3>2 DEF EndOperation, c, k
  <2>2. handler' \in [Handlers -> Handler] /\ reply' \subseteq Reply
    <3>1. \/ Fail(h, 500)
          \/ Respond(h, 200, "succeeded", c.opid, c.uid)
          \/ Respond(h, 200, "failed", c.opid, c.uid)
      BY <1>5 DEF EndOperation, c
    <3> QED
      BY <3>1, <1>2, <1>3, FailType, RespondType
  <2>3. /\ faults' \in 0 .. MaxFaults
        /\ UNCHANGED <<directory, workers, history, issued, crashes>>
    BY <1>5, <1>1, FateType DEF EndOperation
  <2> QED
    BY <2>1, <2>2, <2>3 DEF TypeOK
<1>6. CASE StartOperation(h, fate)
  <2> HIDE DEF op
  <2>1. op \in OpType
    BY DEF OperationOf, OpType, op
  <2>2. e \in Entry /\ e.opid \in Nat
    BY <2>1, <1>1, EntryTypes DEF Entry
  <2> HIDE DEF e
  <2>3. Committed(e, revision + 1) \in Entry
    BY <2>2, <1>1, EntryTypes
  <2>4. Committed(e, revision + 1).uid \in Nat
    BY <2>3 DEF Entry
  <2>5. \/ Fail(h, 500) /\ UNCHANGED <<secrets, revision, workers, issued>>
        \/ Fail(h, 500) /\ Write(k, e) /\ UNCHANGED <<workers, issued>>
        \/ /\ Write(k, e)
           /\ workers' = workers \cup
                 {[key |-> k, entry |-> Committed(e, revision + 1)]}
           /\ issued' = issued \cup {e.opid}
           /\ Respond(h, 202, "none", e.opid, Committed(e, revision + 1).uid)
    BY <1>6 DEF StartOperation, e, c, k, op
  <2>6. handler' \in [Handlers -> Handler] /\ reply' \subseteq Reply
    BY <2>5, <2>2, <2>4, <1>2, FailType, RespondType
  <2>7. secrets' \in [Keys -> Entry] /\ revision' \in Nat
    BY <2>5, <2>2, <1>1, WriteType DEF TypeOK
  <2>8. workers' \subseteq Worker /\ issued' \subseteq Nat
    <3>1. [key |-> k, entry |-> Committed(e, revision + 1)] \in Worker
      BY <2>3, <1>1 DEF Worker
    <3> QED
      BY <2>5, <2>2, <3>1 DEF TypeOK
  <2>9. faults' \in 0 .. MaxFaults
    BY <1>6, <1>1, FateType DEF StartOperation
  <2> QED
    BY <1>6, <2>6, <2>7, <2>8, <2>9 DEF TypeOK, StartOperation
<1> QED
  BY <1>4, <1>5, <1>6

(* The provisioners keep the types. *)
LEMMA WorkerTypes ==
    ASSUME TypeOK, NEW w \in workers, WorkerStep(w)
    PROVE  TypeOK'
<1>1. /\ w \in Worker /\ w.key \in Keys /\ w.entry \in Entry
      /\ faults \in 0 .. MaxFaults
  BY DEF TypeOK, Worker
<1>2. ASSUME NEW status \in {"ok", "error"}, NEW fate \in Fates,
             CompleteOperation(w, status, fate)
      PROVE  TypeOK'
  <2>1. Complete(w.entry, status) \in Entry
    BY <1>1, EntryTypes DEF Status
  <2>2. secrets' \in [Keys -> Entry] /\ revision' \in Nat
    BY <1>1, <1>2, <2>1, WriteType DEF CompleteOperation, TypeOK
  <2>3. Finished(w, status) \in Outcome
    BY <1>1, <1>2 DEF CompleteOperation, Finished, Outcome, Entry, OpType
  <2>4. faults' \in 0 .. MaxFaults
    BY <1>1, <1>2, FateType DEF CompleteOperation
  <2> QED
    BY <1>2, <2>2, <2>3, <2>4 DEF CompleteOperation, TypeOK
<1>3. ASSUME NEW fate \in Fates, DeleteEntry(w, fate)
      PROVE  TypeOK'
  <2>1. secrets' \in [Keys -> Entry]
    BY <1>1, <1>3, IdleType DEF DeleteEntry, TypeOK
  <2>2. \A status \in {"ok", "error"} : Finished(w, status) \in Outcome
    BY <1>1, <1>3 DEF DeleteEntry, Finished, Outcome, Entry, OpType
  <2>3. faults' \in 0 .. MaxFaults
    BY <1>1, <1>3, FateType DEF DeleteEntry
  <2> QED
    BY <1>3, <2>1, <2>2, <2>3 DEF DeleteEntry, TypeOK
<1> QED
  BY <1>2, <1>3 DEF WorkerStep

(* Type correctness: the handlers, the provisioners and the two Secrets    *)
(* hold values of their types in every reachable state.                    *)
THEOREM TypeCorrect == Spec => []TypeOK
<1>1. Init => TypeOK
  <2> SUFFICES ASSUME Init PROVE TypeOK
    OBVIOUS
  <2>1. 0 \in 0 .. MaxFaults /\ 0 \in 0 .. MaxCrashes
    BY BoundAssumption
  <2> QED
    BY <2>1, IdleType DEF Init, TypeOK
<1>2. TypeOK /\ [Next]_vars => TypeOK'
  <2> SUFFICES ASSUME TypeOK, [Next]_vars PROVE TypeOK'
    OBVIOUS
  <2>1. ASSUME NEW h \in Handlers, NEW r \in Requests,
               NEW op \in issued \cup {0}, Receive(h, r, op)
        PROVE  TypeOK'
    <3>1. r \in Request /\ op \in Nat /\ [r EXCEPT !.op = op] \in Request
      BY RequestAssumption DEF TypeOK, Request, AnyRequest
    <3>2. FirstCall(r) \in Labels /\ Admission(r) \in Codes
      BY <3>1, AdmissionType DEF FirstCall, Labels
    <3>3. handler' \in [Handlers -> Handler]
      <4>1. handler[h] \in Handler
        BY DEF TypeOK
      <4>2. [handler[h] EXCEPT !.pc = FirstCall(r),
                               !.req = [r EXCEPT !.op = op]] \in Handler
        BY <4>1, <3>1, <3>2 DEF Handler
      <4> QED
        BY <2>1, <4>2 DEF Receive, TypeOK
    <3>4. reply' \subseteq Reply
      <4>1. [req |-> r, code |-> Admission(r), state |-> "none",
             opid |-> 0, uid |-> 0] \in Reply
        BY <3>1, <3>2 DEF Reply, PollStates
      <4> QED
        BY <2>1, <4>1 DEF Receive
    <3> QED
      BY <2>1, <3>3, <3>4 DEF Receive, TypeOK
  <2>2. ASSUME NEW h \in Handlers, HandlerStep(h)
        PROVE  TypeOK'
    <3>1. CASE OpenFails(h)
      <4>1. handler' \in [Handlers -> Handler] /\ reply' \subseteq Reply
        BY <3>1, FailType DEF OpenFails, Codes
      <4>2. faults' \in 0 .. MaxFaults
        BY <3>1, FateType DEF OpenFails, TypeOK
      <4> QED
        BY <3>1, <4>1, <4>2 DEF OpenFails, TypeOK
    <3>2. CASE PrepareFails(h)
      <4>1. handler' \in [Handlers -> Handler] /\ reply' \subseteq Reply
        BY <3>2, FailType DEF PrepareFails, Codes
      <4> QED
        BY <3>2, <4>1 DEF PrepareFails, TypeOK
    <3>3. CASE \E fate \in Fates : \/ GetDirectoryInstance(h, fate)
                                   \/ NewDirectory(h, fate)
                                   \/ RegisterInstance(h, fate)
                                   \/ DeregisterInstance(h, fate)
      BY <3>3, DirectoryTypes
    <3>4. CASE \/ OpenCreate(h) \/ OpenRead(h) \/ OpenUpdate(h)
               \/ OpenDelete(h) \/ OpenPoll(h)
      BY <3>4, OpenTypes
    <3>5. CASE \E fate \in Fates : \/ CommitNew(h, fate)
                                   \/ StartOperation(h, fate)
                                   \/ EndOperation(h, fate)
      BY <3>5, CommitTypes
    <3>6. {"ok", "lost"} \subseteq Fates
      BY DEF Fates
    <3> QED
      BY <2>2, <3>1, <3>2, <3>3, <3>4, <3>5, <3>6 DEF HandlerStep
  <2>3. ASSUME NEW w \in workers, WorkerStep(w)
        PROVE  TypeOK'
    BY <2>3, WorkerTypes
  <2>4. CASE Crash
    BY <2>4, IdleType, BoundAssumption DEF Crash, TypeOK
  <2>5. CASE UNCHANGED vars
    BY <2>5 DEF vars, TypeOK
  <2> QED
    BY <2>1, <2>2, <2>3, <2>4, <2>5 DEF Next, ClientStep
<1> QED
  BY <1>1, <1>2, PTL DEF Spec
=============================================================================
