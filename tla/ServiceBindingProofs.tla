------------------------ MODULE ServiceBindingProofs ------------------------
(***************************************************************************)
(* Proofs about ServiceBinding, for every set of requests, bindings and    *)
(* handlers and for every bound.                                           *)
(*                                                                         *)
(* Nothing guards a binding against two handlers at once: an unbind        *)
(* deletes the registry under a bind that is still running, and the next   *)
(* bind under the same ID creates a new one.  What keeps them apart is the *)
(* UID and the resource version of the registry, so the inductive          *)
(* invariant is about what a handler may conclude from those two.          *)
(***************************************************************************)
EXTENDS ServiceBinding, TLAPS

-----------------------------------------------------------------------------
(* Types of the operators.                                                 *)

(* A handler that waits for a request is well-typed. *)
LEMMA IdleType == Absent \in Entry /\ Idle \in Handler
<1>1. Absent \in Entry
  BY DEF Absent, Entry, Document, Status
<1>2. (CHOOSE r \in Requests : TRUE) \in Request
  BY BindingAssumption
<1> QED
  BY <1>1, <1>2 DEF Idle, Handler, Labels

(* Commit, Start, Complete and End yield entries. *)
LEMMA EntryTypes ==
    ASSUME NEW e \in Entry, NEW n \in Nat
    PROVE  /\ Committed(e, n) \in Entry
           /\ \A t \in OpType : Start(e, t, n) \in Entry
           /\ \A s \in Status : Complete(e, s) \in Entry
           /\ End(e) \in Entry
BY DEF Entry, Committed, Start, Complete, End, Status, OpType

(* What a new binding inherits is an entry. *)
LEMMA InheritType ==
    \A i \in Entry, r \in Request : Inherit(i, r) \in Entry
<1>1. \A d \in Document : Marshal(d) \in Document
  BY CompactAssumption DEF Marshal, Document
<1> QED
  BY <1>1 DEF Inherit, Entry, Absent, Request

(* The response of a handler, and its next label, keep the types. *)
LEMMA RespondType ==
    ASSUME TypeOK, NEW h \in Handlers, NEW code \in Codes, NEW uid \in Nat,
           Respond(h, code, uid)
    PROVE  handler' \in [Handlers -> Handler] /\ reply' \subseteq Reply
BY IdleType DEF TypeOK, Respond, Reply, Handler

(* Fail keeps the types. *)
LEMMA FailType ==
    ASSUME TypeOK, NEW h \in Handlers, NEW code \in Codes, Fail(h, code)
    PROVE  handler' \in [Handlers -> Handler] /\ reply' \subseteq Reply
<1>1. handler[h].entry.uid \in Nat
  BY DEF TypeOK, Handler, Entry
<1> QED
  BY <1>1, RespondType DEF Fail

(* Goto keeps the types. *)
LEMMA GotoType ==
    ASSUME TypeOK, NEW h \in Handlers, NEW label \in Labels, NEW e \in Entry,
           GotoWith(h, label, e)
    PROVE  handler' \in [Handlers -> Handler] /\ reply' \subseteq Reply
BY IdleType DEF TypeOK, GotoWith, Handler

(* A call that fails is counted, and the count is bounded. *)
LEMMA FateType ==
    ASSUME TypeOK, NEW fate, Fate(fate)
    PROVE  faults' \in 0 .. MaxFaults
BY BoundAssumption DEF Fate, TypeOK

(* A Commit stores an entry or nothing. *)
LEMMA CommitType ==
    ASSUME TypeOK, NEW h \in Handlers, NEW e \in Entry, NEW fate,
           Commit(h, e, fate)
    PROVE  secrets' \in [Bindings -> Entry] /\ revision' \in Nat
<1>1. handler[h].req.binding \in Bindings
  BY DEF TypeOK, Handler, Request
<1> QED
  BY <1>1, EntryTypes DEF TypeOK, Commit

-----------------------------------------------------------------------------
(* Type correctness.                                                       *)

(* The instance's own steps keep the types. *)
LEMMA InstanceTypes == TypeOK /\ InstanceStep => TypeOK'
<1> SUFFICES ASSUME TypeOK, InstanceStep PROVE TypeOK'
  OBVIOUS
<1>1. instance \in Entry /\ instance.rv + 1 \in Nat
  BY DEF TypeOK, Entry
<1>2. ASSUME NEW e \in Entry, StoreInstance(e) PROVE instance' \in Entry
  BY <1>1, <1>2, EntryTypes DEF StoreInstance
<1>3. instance' \in Entry
  <2>1. CASE InstanceCreate
    <3>1. PICK sp \in InstancePlans :
             StoreInstance([Absent EXCEPT !.service = sp[1], !.plan = sp[2]])
      BY <2>1 DEF InstanceCreate
    <3>2. sp[1] \in Services /\ sp[2] \in Plans
      BY BindingAssumption DEF ServicePlans
    <3>3. [Absent EXCEPT !.service = sp[1], !.plan = sp[2]] \in Entry
      BY <3>2, IdleType DEF Entry
    <3> QED
      BY <3>1, <3>3, <1>2
  <2>2. CASE \E type \in InstanceOps : InstanceStart(type)
    BY <2>2, <1>1, <1>2, EntryTypes, BindingAssumption DEF InstanceStart
  <2>3. CASE \E status \in {"ok", "error"} : InstanceComplete(status)
    BY <2>3, <1>1, <1>2, EntryTypes DEF InstanceComplete, Status
  <2>4. CASE InstanceEnd
    BY <2>4, <1>1, <1>2, EntryTypes DEF InstanceEnd
  <2>5. CASE InstanceDelete
    BY <2>5, IdleType DEF InstanceDelete
  <2>6. CASE InstanceDeregister
    BY <2>6, <1>1 DEF InstanceDeregister
  <2> QED
    BY <2>1, <2>2, <2>3, <2>4, <2>5, <2>6 DEF InstanceStep
<1>4. registered' \in BOOLEAN
  BY DEF InstanceStep, InstanceCreate, InstanceDeregister, InstanceStart,
         InstanceComplete, InstanceEnd, InstanceDelete, TypeOK
<1> QED
  BY <1>3, <1>4 DEF InstanceStep, TypeOK

(* The calls of a handler that read and write nothing keep the types. *)
LEMMA ReadTypes ==
    ASSUME TypeOK, NEW h \in Handlers, NEW fate,
           \/ GetDirectoryInstance(h, fate) \/ OpenInstance(h, fate)
           \/ OpenBind(h) \/ OpenUnbind(h) \/ OpenFails(h) \/ PrepareFails(h)
    PROVE  TypeOK'
<1> DEFINE r == handler[h].req
           e == secrets[r.binding]
<1>1. /\ handler[h] \in Handler /\ r \in Request /\ r.binding \in Bindings
      /\ handler[h].instance \in Entry /\ instance \in Entry
  BY DEF TypeOK, Handler, Request
<1>2. e \in Entry /\ e.uid \in Nat
  BY <1>1 DEF TypeOK, Entry
<1>3. {200, 400, 409, 410, 500} \subseteq Codes /\ 0 \in Nat
  BY DEF Codes
<1>4. {"instance", "open", "create", "delete"} \subseteq Labels
  BY DEF Labels
<1> HIDE DEF e, r
<1>5. /\ faults' \in 0 .. MaxFaults
      /\ UNCHANGED <<instance, registered, secrets, object, revision, runs,
                     crashes>>
  BY FateType DEF GetDirectoryInstance, OpenInstance, OpenBind, OpenUnbind,
                  OpenFails, PrepareFails, TypeOK
<1>6. handler' \in [Handlers -> Handler] /\ reply' \subseteq Reply
  <2>1. CASE GetDirectoryInstance(h, fate)
    <3>1. (BrokerLocal \/ (registered /\ fate = "ok")) \in BOOLEAN
      OBVIOUS
    <3>2. PICK found \in BOOLEAN :
             handler' = [handler EXCEPT ![h] = [@ EXCEPT !.pc = "instance",
                                                         !.found = found]]
      BY <2>1, <3>1 DEF GetDirectoryInstance
    <3>3. reply' = {}
      BY <2>1 DEF GetDirectoryInstance
    <3>4. [handler[h] EXCEPT !.pc = "instance", !.found = found] \in Handler
      BY <1>1, <1>4 DEF Handler
    <3> QED
      BY <3>2, <3>3, <3>4 DEF TypeOK
  <2>2. CASE OpenInstance(h, fate)
    <3>1. CASE Fail(h, 500) \/ Fail(h, 400)
      BY <3>1, <1>3, FailType
    <3>2. CASE /\ handler' = [handler EXCEPT
                                ![h] = [@ EXCEPT !.pc = "open",
                                                 !.instance = instance]]
               /\ reply' = {}
      <4>1. [handler[h] EXCEPT !.pc = "open", !.instance = instance] \in Handler
        BY <1>1, <1>4 DEF Handler
      <4> QED
        BY <3>2, <4>1 DEF TypeOK
    <3> QED
      BY <2>2, <3>1, <3>2 DEF OpenInstance
  <2>3. CASE OpenBind(h)
    <3>1. \/ Respond(h, 409, e.uid) \/ Respond(h, 200, e.uid)
          \/ GotoWith(h, "create", Inherit(handler[h].instance, r))
      BY <2>3 DEF OpenBind, e, r
    <3> QED
      BY <3>1, <1>1, <1>2, <1>3, <1>4, RespondType, GotoType, InheritType
  <2>4. CASE OpenUnbind(h)
    <3>1. \/ Respond(h, 410, 0) \/ Respond(h, 400, e.uid)
          \/ GotoWith(h, "delete", e)
      BY <2>4 DEF OpenUnbind, e, r
    <3> QED
      BY <3>1, <1>2, <1>3, <1>4, RespondType, GotoType
  <2>5. CASE OpenFails(h)
    BY <2>5, <1>3, FailType DEF OpenFails
  <2>6. CASE PrepareFails(h)
    BY <2>6, <1>3, FailType DEF PrepareFails
  <2> QED
    BY <2>1, <2>2, <2>3, <2>4, <2>5, <2>6
<1> QED
  BY <1>5, <1>6 DEF TypeOK

(* The calls that write a binding keep the types. *)
LEMMA WriteTypes ==
    ASSUME TypeOK, NEW h \in Handlers, NEW fate,
           \/ CommitBinding(h, fate) \/ StartBinding(h, fate)
           \/ CompleteBinding(h, fate) \/ EndBinding(h, fate)
           \/ DeleteBinding(h, fate)
    PROVE  TypeOK'
<1>1. PICK e \in Entry : e = handler[h].entry
  BY DEF TypeOK, Handler
<1>0. PICK n \in Nat : n = revision + 1
  BY DEF TypeOK
<1>2. PICK s \in Entry : s = Start(e, "provision", n)
  BY EntryTypes DEF OpType
<1>3. PICK c \in Entry :
         c = Complete(e, IF handler[h].error THEN "error" ELSE "ok")
  BY EntryTypes DEF Status
<1>4. PICK d \in Entry : d = End(e)
  BY EntryTypes
<1>5. \A x \in Entry : Committed(x, n) \in Entry
  BY EntryTypes
<1>6. {200, 201, 400, 500} \subseteq Codes /\ {"start", "run", "end"} \subseteq Labels
  BY DEF Codes, Labels
<1>7. /\ faults' \in 0 .. MaxFaults
      /\ UNCHANGED <<instance, registered, object, runs, crashes>>
  BY FateType DEF CommitBinding, StartBinding, CompleteBinding, EndBinding,
                  DeleteBinding, TypeOK
<1>8. secrets' \in [Bindings -> Entry] /\ revision' \in Nat
  <2>1. CASE \E x \in Entry : Commit(h, x, fate)
    BY <2>1, CommitType
  <2>2. CASE UNCHANGED <<secrets, revision>>
    BY <2>2 DEF TypeOK
  <2>3. CASE DeleteBinding(h, fate)
    BY <2>3, IdleType DEF DeleteBinding, TypeOK, Handler, Request
  <2> QED
    BY <1>0, <1>1, <1>2, <1>3, <1>4, <2>1, <2>2, <2>3
    DEF CommitBinding, StartBinding, CompleteBinding, EndBinding
<1>9. handler' \in [Handlers -> Handler] /\ reply' \subseteq Reply
  <2>1. \/ \E code \in Codes : Fail(h, code)
        \/ \E label \in {"start", "run", "end"}, x \in Entry : GotoWith(h, label, x)
    <3>1. CASE CommitBinding(h, fate)
      BY <3>1, <1>0, <1>1, <1>5, <1>6 DEF CommitBinding
    <3>2. CASE StartBinding(h, fate)
      BY <3>2, <1>0, <1>1, <1>2, <1>5, <1>6 DEF StartBinding
    <3>3. CASE CompleteBinding(h, fate)
      BY <3>3, <1>0, <1>1, <1>3, <1>5, <1>6 DEF CompleteBinding
    <3>4. CASE EndBinding(h, fate)
      BY <3>4, <1>6 DEF EndBinding
    <3>5. CASE DeleteBinding(h, fate)
      BY <3>5, <1>6 DEF DeleteBinding, Fail
    <3> QED
      BY <3>1, <3>2, <3>3, <3>4, <3>5
  <2> QED
    BY <2>1, <1>6, FailType, GotoType
<1> QED
  BY <1>7, <1>8, <1>9 DEF TypeOK

(* A run of the Creator keeps the types. *)
LEMMA RunTypes ==
    ASSUME TypeOK, NEW h \in Handlers, NEW fate, RunCreator(h, fate)
    PROVE  TypeOK'
<1>1. PICK e \in Entry : e = handler[h].entry
  BY DEF TypeOK, Handler
<1>2. PICK b \in Bindings : b = handler[h].req.binding
  BY DEF TypeOK, Handler, Request
<1>3. e.uid \in Nat /\ e.opid \in Nat /\ handler[h] \in Handler
  BY DEF Entry, TypeOK
<1>4. object' \in [Bindings -> Nat]
  BY <1>1, <1>2, <1>3 DEF RunCreator, TypeOK
<1>5. PICK ready \in BOOLEAN :
         /\ handler' = [handler EXCEPT ![h] = [@ EXCEPT !.pc = "complete",
                                                        !.error = ~ready]]
         /\ runs' = runs \cup {[uid |-> e.uid, opid |-> e.opid,
                                status |-> IF ready THEN "ok" ELSE "error"]}
  BY <1>1 DEF RunCreator
<1>6. handler' \in [Handlers -> Handler]
  <2>1. PICK error \in BOOLEAN : error = ~ready
    OBVIOUS
  <2>2. [handler[h] EXCEPT !.pc = "complete", !.error = error] \in Handler
    BY <1>3 DEF Handler, Labels
  <2> QED
    BY <1>5, <2>1, <2>2 DEF TypeOK
<1>7. runs' \subseteq Run
  BY <1>3, <1>5 DEF TypeOK, Run
<1>8. faults' \in 0 .. MaxFaults
  BY FateType DEF RunCreator
<1> QED
  BY <1>4, <1>6, <1>7, <1>8 DEF RunCreator, TypeOK

(* Every step keeps the types. *)
LEMMA NextTypes == TypeOK /\ [Next]_vars => TypeOK'
<1> SUFFICES ASSUME TypeOK, [Next]_vars PROVE TypeOK'
  OBVIOUS
<1>1. ASSUME NEW h \in Handlers, NEW r \in Requests, Receive(h, r)
      PROVE  TypeOK'
  <2>1. r \in Request /\ handler[h] \in Handler
    BY BindingAssumption DEF TypeOK
  <2>2. [handler[h] EXCEPT !.pc = "lookup", !.req = r] \in Handler
    BY <2>1 DEF Handler, Labels
  <2>3. [req |-> r, code |-> 400, uid |-> 0] \in Reply
    BY <2>1 DEF Reply, Codes
  <2> QED
    BY <1>1, <2>2, <2>3 DEF Receive, TypeOK
<1>2. ASSUME NEW h \in Handlers, HandlerStep(h) PROVE TypeOK'
  BY <1>2, ReadTypes, WriteTypes, RunTypes DEF HandlerStep
<1>3. ASSUME NEW b \in Bindings, Collect(b) PROVE TypeOK'
  BY <1>3 DEF Collect, TypeOK
<1>4. CASE Crash
  BY <1>4, IdleType, BoundAssumption DEF Crash, TypeOK
<1>5. CASE UNCHANGED vars
  BY <1>5 DEF vars, TypeOK
<1> QED
  BY <1>1, <1>2, <1>3, <1>4, <1>5, InstanceTypes DEF Next

(* Type correctness: the registries, the handlers and the record of runs   *)
(* hold values of their types in every reachable state.                    *)
THEOREM BindingTypeCorrect == Spec => []TypeOK
<1>1. Init => TypeOK
  <2>1. 0 \in 0 .. MaxFaults /\ 0 \in 0 .. MaxCrashes
    BY BoundAssumption
  <2>2. Init => registered \in BOOLEAN
    BY DEF Init
  <2> QED
    BY <2>1, <2>2, IdleType DEF Init, TypeOK
<1> QED
  BY <1>1, NextTypes, PTL DEF Spec

-----------------------------------------------------------------------------
(* The inductive invariant.                                                *)

(* x has committed the binding: it is on its way to the response. *)
Working(x) == x.pc \in {"start", "run", "complete", "end"}

(* UIDs are numbers of writes; a registry that is not there has none. *)
Incarnations ==
    \A b \in Bindings : /\ secrets[b].uid <= revision
                        /\ secrets[b].exists <=> secrets[b].uid # 0

(* The Creator ran for registries that were created before. *)
RunsPast == \A x \in runs : x.uid <= revision

(* Only a handler at work has a copy of a registry it created, and the     *)
(* copy was written.                                                       *)
HoldsEntry(x) ==
    /\ x.pc = "create" => ~x.entry.exists
    /\ Working(x) => /\ x.entry.exists
                     /\ x.entry.uid \in 1 .. revision
                     /\ x.entry.rv \in 1 .. revision

(* What a handler at work may conclude about the stored registry: nobody   *)
(* else has its UID, one with the copy's version is the incarnation that   *)
(* was created, and without failed calls that one has the copy's version.  *)
OwnIncarnation(x) ==
    Working(x) =>
        /\ \A a \in Bindings : secrets[a].uid = x.entry.uid => a = x.req.binding
        /\ secrets[x.req.binding].exists /\ secrets[x.req.binding].rv = x.entry.rv
              => secrets[x.req.binding].uid = x.entry.uid
        /\ faults = 0 /\ secrets[x.req.binding].uid = x.entry.uid
              => secrets[x.req.binding].rv = x.entry.rv

(* The Creator of x ran and reported no error. *)
RanWell(x) == \/ x.pc = "complete" /\ ~x.error
              \/ x.pc = "end" /\ x.entry.status = "ok"

(* What a handler at work may conclude about the Creator: it has not run   *)
(* before "run", and what it made is kept while the registry is.           *)
RunResult(x) ==
    /\ x.pc \in {"start", "run"} => \A y \in runs : y.uid # x.entry.uid
    /\ x.pc = "end" => x.entry.status # "unset"
    /\ RanWell(x) => Provisioned(x.entry.uid)
    /\ RanWell(x) /\ secrets[x.req.binding].uid = x.entry.uid
          => object[x.req.binding] = x.entry.uid
    /\ x.pc \in {"run", "complete", "end"} => HasTemplates(x.entry)

Steady(x) == HoldsEntry(x) /\ OwnIncarnation(x) /\ RunResult(x)

(* No two handlers work on the same incarnation of a binding. *)
Sole ==
    \A g, h \in Handlers :
        /\ Working(handler[g]) /\ Working(handler[h])
        /\ handler[g].entry.uid = handler[h].entry.uid
        => g = h

BindingInv ==
    /\ Incarnations
    /\ RunsPast
    /\ Sole
    /\ \A h \in Handlers : Steady(handler[h])
    /\ RunOnce

(* A handler that has nothing to lose: it waits, looks around, is about to *)
(* delete, or to create a registry.                                        *)
Loose(x) == \/ x.pc \in {"idle", "lookup", "instance", "open", "delete"}
            \/ x.pc = "create" /\ ~x.entry.exists

(* Whatever is stored, a loose handler is steady. *)
LEMMA LooseSteady ==
    ASSUME NEW h \in Handlers, Loose(handler[h])'
    PROVE  Steady(handler[h])' /\ ~Working(handler[h])'
BY DEF Loose, Steady, HoldsEntry, OwnIncarnation, RunResult, RanWell, Working

(* The labels are different. *)
LEMMA IdleLoose == Loose(Idle)
BY DEF Loose, Idle

(* A step of handler h that leaves the other handlers alone. *)
Alone(h) == \A g \in Handlers : g # h => handler'[g] = handler[g]

(* A response and a next label concern one handler. *)
LEMMA Moves ==
    ASSUME TypeOK, NEW h \in Handlers
    PROVE  /\ \A code, uid : Respond(h, code, uid) =>
                 /\ Alone(h)
                 /\ handler'[h] = Idle
                 /\ reply' = {[req |-> handler[h].req, code |-> code, uid |-> uid]}
           /\ \A code : Fail(h, code) =>
                 /\ Alone(h)
                 /\ handler'[h] = Idle
                 /\ reply' = {[req |-> handler[h].req, code |-> code,
                               uid |-> handler[h].entry.uid]}
           /\ \A label, e : GotoWith(h, label, e) =>
                 /\ Alone(h)
                 /\ handler'[h].pc = label /\ handler'[h].entry = e
                 /\ handler'[h].req = handler[h].req
                 /\ reply' = {}
BY DEF TypeOK, Handler, Respond, Fail, GotoWith, Alone

(* A call that left no failure behind was answered. *)
LEMMA NoFault ==
    ASSUME TypeOK, NEW fate, Fate(fate)
    PROVE  faults' = 0 => fate = "ok" /\ faults = 0
BY DEF TypeOK, Fate

(* Handlers stay apart: a new UID is one that nobody has. *)
LEMMA SoleKept ==
    ASSUME TypeOK, BindingInv, NEW h \in Handlers, Alone(h),
           Working(handler[h])' =>
               \/ handler'[h].entry.uid > revision
               \/ /\ Working(handler[h])
                  /\ handler'[h].entry.uid = handler[h].entry.uid
    PROVE  Sole'
<1>1. \A g \in Handlers : Working(handler[g]) => handler[g].entry.uid \in 1 .. revision
  BY DEF BindingInv, Steady, HoldsEntry
<1>2. revision \in Nat
  BY DEF TypeOK
<1> SUFFICES ASSUME NEW f \in Handlers, NEW g \in Handlers,
                    Working(handler[f])', Working(handler[g])',
                    handler'[f].entry.uid = handler'[g].entry.uid
             PROVE  f = g
  BY DEF Sole
<1>3. \A x \in Handlers : x # h => (Working(handler[x])' <=> Working(handler[x]))
  BY DEF Alone, Working
<1>4. CASE f = h /\ g # h
  BY <1>1, <1>2, <1>3, <1>4 DEF BindingInv, Sole, Alone
<1>5. CASE g = h /\ f # h
  BY <1>1, <1>2, <1>3, <1>5 DEF BindingInv, Sole, Alone
<1>6. CASE f # h /\ g # h
  BY <1>3, <1>6 DEF BindingInv, Sole, Alone
<1> QED
  BY <1>4, <1>5, <1>6

(* A registry that changes under a handler at work, to another incarnation *)
(* or to nothing, leaves the handler's conclusions true.                   *)
LEMMA OtherWrite ==
    ASSUME TypeOK, BindingInv, NEW g \in Handlers, handler'[g] = handler[g],
           NEW b \in Bindings, NEW c \in Entry,
           secrets' = [secrets EXCEPT ![b] = c],
           Working(handler[g]) => c.uid # handler[g].entry.uid,
           c.exists => c.rv > revision,
           revision' \in Nat, revision' >= revision,
           runs' = runs, object' = object, faults' = 0 => faults = 0
    PROVE  Steady(handler[g])'
<1>1. PICK x \in Handler : x = handler[g]
  BY DEF TypeOK
<1>2. PICK e \in Entry : e = x.entry
  BY DEF Handler
<1>3. PICK a \in Bindings : a = x.req.binding
  BY DEF Handler, Request
<1>4. /\ e.uid \in Nat /\ e.rv \in Nat /\ revision \in Nat
      /\ c.uid \in Nat /\ c.rv \in Nat
  BY DEF Entry, TypeOK
<1>5. Steady(handler[g])
  BY DEF BindingInv
<1>6. CASE ~Working(x)
  BY <1>1, <1>5, <1>6 DEF Steady, HoldsEntry, OwnIncarnation, RunResult, RanWell,
                          Working
<1>7. CASE Working(x)
  <2>1. c.uid # e.uid /\ e.exists /\ e.uid \in 1 .. revision /\ e.rv \in 1 .. revision
    BY <1>1, <1>2, <1>5, <1>7 DEF Steady, HoldsEntry
  <2>2. HoldsEntry(handler[g])'
    BY <1>1, <1>2, <1>4, <1>5, <1>7, <2>1 DEF Steady, HoldsEntry, Working
  <2>3. secrets'[a] = IF a = b THEN c ELSE secrets[a]
    BY DEF TypeOK
  <2>4. OwnIncarnation(handler[g])'
    <3>1. /\ \A d \in Bindings : secrets[d].uid = e.uid => d = a
          /\ secrets[a].exists /\ secrets[a].rv = e.rv => secrets[a].uid = e.uid
          /\ faults = 0 /\ secrets[a].uid = e.uid => secrets[a].rv = e.rv
      BY <1>1, <1>2, <1>3, <1>5, <1>7 DEF Steady, OwnIncarnation
    <3>2. \A d \in Bindings : secrets'[d].uid = e.uid => d = a
      BY <2>1, <3>1 DEF TypeOK
    <3>3. secrets'[a].exists /\ secrets'[a].rv = e.rv => secrets'[a].uid = e.uid
      BY <1>4, <2>1, <2>3, <3>1
    <3>4. faults' = 0 /\ secrets'[a].uid = e.uid => secrets'[a].rv = e.rv
      BY <2>1, <2>3, <3>1
    <3> QED
      BY <1>1, <1>2, <1>3, <3>2, <3>3, <3>4 DEF OwnIncarnation
  <2>5. RunResult(handler[g])'
    <3>1. RanWell(x) /\ secrets[a].uid = e.uid => object[a] = e.uid
      BY <1>1, <1>2, <1>3, <1>5 DEF Steady, RunResult
    <3>2. RanWell(x) /\ secrets'[a].uid = e.uid => object[a] = e.uid
      BY <2>1, <2>3, <3>1
    <3> QED
      BY <1>1, <1>2, <1>3, <1>5, <3>2 DEF Steady, RunResult, RanWell, Provisioned,
                                          HasTemplates
  <2> QED
    BY <2>2, <2>4, <2>5 DEF Steady
<1> QED
  BY <1>6, <1>7

-----------------------------------------------------------------------------
(* The invariant is inductive.                                             *)

(* A step that stores nothing and runs no Creator, after which each        *)
(* handler is where it was or loose.                                       *)
LEMMA QuietStep ==
    ASSUME TypeOK, BindingInv, UNCHANGED <<secrets, object, revision, runs>>,
           faults' = 0 => faults = 0,
           \A h \in Handlers : handler'[h] = handler[h] \/ Loose(handler[h])'
    PROVE  BindingInv'
<1>1. Incarnations' /\ RunsPast' /\ RunOnce'
  BY DEF BindingInv, Incarnations, RunsPast, RunOnce
<1>2. ASSUME NEW h \in Handlers, handler'[h] = handler[h]
      PROVE  Steady(handler[h])' /\ (Working(handler[h])' <=> Working(handler[h]))
  <2>1. Steady(handler[h])
    BY DEF BindingInv
  <2> QED
    BY <1>2, <2>1 DEF Steady, HoldsEntry, OwnIncarnation, RunResult, RanWell,
                      Provisioned, HasTemplates, Working
<1>3. \A h \in Handlers : Steady(handler[h])'
  BY <1>2, LooseSteady
<1>4. Sole'
  BY <1>2, LooseSteady DEF BindingInv, Sole
<1> QED
  BY <1>1, <1>3, <1>4 DEF BindingInv

(* A write of binding b by handler h: of a new incarnation, or of its own. *)
LEMMA WriteStep ==
    ASSUME TypeOK, BindingInv, NEW h \in Handlers, Alone(h),
           NEW b \in Bindings, NEW c \in Entry,
           secrets' = [secrets EXCEPT ![b] = c],
           revision' = revision + 1, c.exists, c.rv = revision + 1,
           \/ c.uid = revision + 1
           \/ Working(handler[h]) /\ c.uid = handler[h].entry.uid,
           Steady(handler[h])',
           Working(handler[h])' => handler'[h].entry.uid = c.uid,
           runs' = runs, object' = object, faults' = 0 => faults = 0
    PROVE  BindingInv'
<1>1. revision \in Nat /\ c.uid \in Nat /\ c.rv \in Nat
  BY DEF TypeOK, Entry
<1>2. \A g \in Handlers : Working(handler[g]) => handler[g].entry.uid \in 1 .. revision
  BY DEF BindingInv, Steady, HoldsEntry
<1>3. c.uid \in 1 .. revision + 1
  BY <1>1, <1>2
<1>4. \A g \in Handlers \ {h} :
         Working(handler[g]) => c.uid # handler[g].entry.uid
  BY <1>1, <1>2 DEF BindingInv, Sole
<1>5. \A g \in Handlers \ {h} : Steady(handler[g])'
  <2> TAKE g \in Handlers \ {h}
  <2>1. /\ revision' \in Nat /\ revision' >= revision
        /\ c.exists => c.rv > revision
    BY <1>1
  <2>2. handler'[g] = handler[g]
    BY DEF Alone
  <2> QED
    BY <1>4, <2>1, <2>2, OtherWrite
<1>6. Sole'
  BY <1>1, SoleKept
<1>7. Incarnations'
  <2>1. \A a \in Bindings : /\ secrets[a].uid <= revision /\ secrets[a].uid \in Nat
                            /\ secrets[a].exists <=> secrets[a].uid # 0
    BY DEF BindingInv, Incarnations, TypeOK, Entry
  <2>2. \A a \in Bindings : secrets'[a] = IF a = b THEN c ELSE secrets[a]
    BY DEF TypeOK
  <2> QED
    BY <1>1, <1>3, <2>1, <2>2 DEF Incarnations
<1>8. RunsPast' /\ RunOnce'
  <2>1. \A x \in runs : x.uid \in Nat
    BY DEF TypeOK, Run
  <2> QED
    BY <1>1, <2>1 DEF BindingInv, RunsPast, RunOnce
<1> QED
  BY <1>5, <1>6, <1>7, <1>8 DEF BindingInv

(* A Commit by a handler at work is accepted only if the stored registry   *)
(* is the incarnation the handler created.                                 *)
LEMMA OwnCommit ==
    ASSUME TypeOK, BindingInv, NEW h \in Handlers, Working(handler[h]),
           NEW b \in Bindings, b = handler[h].req.binding,
           NEW e \in Entry, e.exists,
           e.uid = handler[h].entry.uid, e.rv = handler[h].entry.rv,
           NEW fate, Applied(h, e, fate), Commit(h, e, fate)
    PROVE  \E c \in Entry :
              /\ c = Committed(e, revision + 1)
              /\ secrets' = [secrets EXCEPT ![b] = c]
              /\ revision' = revision + 1
              /\ secrets[b].exists /\ secrets[b].rv = e.rv
              /\ secrets[b].uid = e.uid
              /\ c = [e EXCEPT !.rv = revision + 1]
<1>2. PICK c \in Entry : c = Committed(e, revision + 1)
  <2>1. revision + 1 \in Nat
    BY DEF TypeOK
  <2> QED
    BY <2>1, EntryTypes
<1>3. c = [e EXCEPT !.rv = revision + 1]
  BY <1>2 DEF Committed, Entry
<1>4. secrets[b].exists /\ secrets[b].rv = e.rv
  BY DEF Applied, CommitAccepted
<1>5. secrets[b].uid = e.uid
  <2>1. OwnIncarnation(handler[h])
    BY DEF BindingInv, Steady
  <2> QED
    BY <1>4, <2>1 DEF OwnIncarnation
<1> QED
  BY <1>2, <1>3, <1>4, <1>5 DEF Commit

(* The calls of a handler before its Commit write nothing. *)
LEMMA ReadSteps ==
    ASSUME TypeOK, BindingInv, NEW h \in Handlers, NEW fate,
           \/ GetDirectoryInstance(h, fate) \/ OpenInstance(h, fate)
           \/ OpenBind(h) \/ OpenUnbind(h) \/ OpenFails(h) \/ PrepareFails(h)
    PROVE  BindingInv'
<1>1. UNCHANGED <<secrets, object, revision, runs>> /\ (faults' = 0 => faults = 0)
  BY NoFault DEF GetDirectoryInstance, OpenInstance, OpenBind, OpenUnbind,
                 OpenFails, PrepareFails
<1>2. Alone(h) /\ Loose(handler[h])'
  <2>1. ASSUME \E code, uid : Respond(h, code, uid)
        PROVE  Alone(h) /\ Loose(handler[h])'
    BY <2>1, Moves, IdleLoose DEF Loose
  <2>2. ASSUME \E code : Fail(h, code)
        PROVE  Alone(h) /\ Loose(handler[h])'
    BY <2>2, Moves, IdleLoose DEF Loose
  <2>3. CASE GetDirectoryInstance(h, fate)
    <3>1. PICK found :
             handler' = [handler EXCEPT ![h] = [@ EXCEPT !.pc = "instance",
                                                         !.found = found]]
      BY <2>3 DEF GetDirectoryInstance
    <3> QED
      BY <3>1 DEF TypeOK, Handler, Alone, Loose
  <2>4. CASE OpenInstance(h, fate)
    <3>1. CASE handler' = [handler EXCEPT ![h] = [@ EXCEPT !.pc = "open",
                                                           !.instance = instance]]
      BY <3>1 DEF TypeOK, Handler, Alone, Loose
    <3> QED
      BY <2>2, <2>4, <3>1 DEF OpenInstance
  <2>5. CASE OpenBind(h)
    <3>1. ASSUME GotoWith(h, "create", Inherit(handler[h].instance, handler[h].req))
          PROVE  Alone(h) /\ Loose(handler[h])'
      <4>1. ~Inherit(handler[h].instance, handler[h].req).exists
        BY DEF Inherit, Absent
      <4> QED
        BY <3>1, <4>1, Moves DEF Loose
    <3> QED
      BY <2>1, <2>5, <3>1 DEF OpenBind
  <2>6. CASE OpenUnbind(h)
    <3>1. ASSUME NEW e, GotoWith(h, "delete", e)
          PROVE  Alone(h) /\ Loose(handler[h])'
      BY <3>1, Moves DEF Loose
    <3> QED
      BY <2>1, <2>6, <3>1 DEF OpenUnbind
  <2>7. CASE OpenFails(h) \/ PrepareFails(h)
    BY <2>2, <2>7 DEF OpenFails, PrepareFails
  <2> QED
    BY <2>3, <2>4, <2>5, <2>6, <2>7
<1> QED
  BY <1>1, <1>2, QuietStep DEF Alone

(* The Commit of the new binding: a new incarnation, which the handler     *)
(* knows of unless the answer is lost.                                     *)
LEMMA CommitStep ==
    ASSUME TypeOK, BindingInv, NEW h \in Handlers, NEW fate, CommitBinding(h, fate)
    PROVE  BindingInv'
<1>1. PICK e \in Entry : e = handler[h].entry
  BY DEF TypeOK, Handler
<1>2. PICK b \in Bindings : b = handler[h].req.binding
  BY DEF TypeOK, Handler, Request
<1>3. ~e.exists
  BY <1>1 DEF CommitBinding, BindingInv, Steady, HoldsEntry
<1>4. runs' = runs /\ object' = object /\ (faults' = 0 => faults = 0)
  BY NoFault DEF CommitBinding
<1>5. revision \in Nat /\ revision + 1 \in Nat
  BY DEF TypeOK
<1>6. CASE ~Applied(h, e, fate)
  <2>1. UNCHANGED <<secrets, revision>> /\ Fail(h, 500)
    BY <1>1, <1>6 DEF CommitBinding, Commit
  <2>2. Alone(h) /\ handler'[h] = Idle
    BY <2>1, Moves
  <2> QED
    BY <1>4, <2>1, <2>2, IdleLoose, QuietStep DEF Alone, Loose
<1>7. CASE Applied(h, e, fate)
  <2>1. PICK c \in Entry : c = Committed(e, revision + 1)
    BY <1>5, EntryTypes
  <2>2. c.exists /\ c.rv = revision + 1 /\ c.uid = revision + 1
    BY <1>3, <2>1 DEF Committed, Entry
  <2>3. secrets' = [secrets EXCEPT ![b] = c] /\ revision' = revision + 1
    BY <1>1, <1>2, <1>7, <2>1 DEF CommitBinding, Commit
  <2>4. CASE fate # "ok"
    <3>1. Alone(h) /\ handler'[h] = Idle
      BY <1>1, <2>4, Moves DEF CommitBinding
    <3>2. Steady(handler[h])' /\ ~Working(handler[h])'
      BY <3>1, IdleLoose, LooseSteady DEF Loose
    <3> QED
      BY <1>4, <2>2, <2>3, <3>1, <3>2, WriteStep
  <2>5. CASE fate = "ok"
    <3>1. GotoWith(h, "start", c)
      BY <1>1, <1>7, <2>1, <2>5 DEF CommitBinding
    <3>2. /\ Alone(h) /\ handler'[h].pc = "start" /\ handler'[h].entry = c
          /\ handler'[h].req.binding = b
      BY <1>2, <3>1, Moves
    <3>3. HoldsEntry(handler[h])'
      BY <1>5, <2>2, <2>3, <3>2 DEF HoldsEntry
    <3>4. OwnIncarnation(handler[h])'
      <4>1. \A a \in Bindings : secrets[a].uid <= revision /\ secrets[a].uid \in Nat
        BY DEF BindingInv, Incarnations, TypeOK, Entry
      <4>2. \A a \in Bindings : secrets'[a] = IF a = b THEN c ELSE secrets[a]
        BY <2>3 DEF TypeOK
      <4>3. \A a \in Bindings : secrets'[a].uid = c.uid => a = b
        BY <1>5, <2>2, <4>1, <4>2
      <4> QED
        BY <3>2, <4>2, <4>3 DEF OwnIncarnation
    <3>5. RunResult(handler[h])'
      <4>1. \A x \in runs : x.uid \in Nat /\ x.uid <= revision
        BY DEF BindingInv, RunsPast, TypeOK, Run
      <4> QED
        BY <1>4, <1>5, <2>2, <3>2, <4>1 DEF RunResult, RanWell
    <3> QED
      BY <1>4, <2>2, <2>3, <3>2, <3>3, <3>4, <3>5, WriteStep DEF Steady
  <2> QED
    BY <2>4, <2>5
<1> QED
  BY <1>6, <1>7

(* operation.Start. *)
LEMMA StartStep ==
    ASSUME TypeOK, BindingInv, NEW h \in Handlers, NEW fate, StartBinding(h, fate)
    PROVE  BindingInv'
<1>1. PICK s \in Entry : s = handler[h].entry
  BY DEF TypeOK, Handler
<1>2. revision \in Nat /\ revision + 1 \in Nat
  BY DEF TypeOK
<1>3. PICK e \in Entry : e = Start(s, "provision", revision + 1)
  BY <1>2, EntryTypes DEF OpType
<1>4. /\ e.exists = s.exists /\ e.uid = s.uid /\ e.rv = s.rv
      /\ e.service = s.service /\ e.plan = s.plan
  BY <1>3 DEF Start, Entry
<1>5. Working(handler[h]) /\ Steady(handler[h]) /\ handler[h].pc = "start"
  BY DEF StartBinding, BindingInv, Working
<1>6. /\ s.exists /\ s.uid \in 1 .. revision
      /\ \A y \in runs : y.uid # s.uid
  BY <1>1, <1>5 DEF Steady, HoldsEntry, RunResult
<1>7. /\ runs' = runs /\ object' = object /\ (faults' = 0 => faults = 0)
      /\ HasTemplates(s)
  BY <1>1, NoFault DEF StartBinding
<1>8. CASE UNCHANGED <<secrets, revision>> /\ Fail(h, 500)
  <2>1. Alone(h) /\ handler'[h] = Idle
    BY <1>8, Moves
  <2> QED
    BY <1>7, <1>8, <2>1, IdleLoose, QuietStep DEF Alone, Loose
<1>9. CASE Applied(h, e, fate) /\ Commit(h, e, fate)
  <2>1. PICK b \in Bindings : b = handler[h].req.binding
    BY DEF TypeOK, Handler, Request
  <2>2. PICK c \in Entry :
              /\ c = Committed(e, revision + 1)
              /\ secrets' = [secrets EXCEPT ![b] = c]
              /\ revision' = revision + 1
              /\ secrets[b].exists /\ secrets[b].rv = e.rv
              /\ secrets[b].uid = e.uid
              /\ c = [e EXCEPT !.rv = revision + 1]
    <3>1. e.exists /\ e.uid = handler[h].entry.uid /\ e.rv = handler[h].entry.rv
      BY <1>1, <1>4, <1>6
    <3> QED
      BY <1>5, <1>9, <2>1, <3>1, OwnCommit
  <2>3. /\ c.exists /\ c.rv = revision + 1 /\ c.uid = s.uid
        /\ c.service = s.service /\ c.plan = s.plan
    BY <1>4, <1>6, <2>2 DEF Entry
  <2>4. CASE Fail(h, 500)
    <3>1. Alone(h) /\ handler'[h] = Idle
      BY <2>4, Moves
    <3>2. Steady(handler[h])' /\ ~Working(handler[h])'
      BY <3>1, IdleLoose, LooseSteady DEF Loose
    <3> QED
      BY <1>1, <1>5, <1>7, <2>2, <2>3, <3>1, <3>2, WriteStep
  <2>5. CASE GotoWith(h, "run", c)
    <3>2. /\ Alone(h) /\ handler'[h].pc = "run" /\ handler'[h].entry = c
          /\ handler'[h].req.binding = b
      BY <2>1, <2>5, Moves
    <3>3. HoldsEntry(handler[h])'
      <4>1. c.uid \in 1 .. revision + 1 /\ c.rv \in 1 .. revision + 1
        BY <1>2, <1>6, <2>3
      <4> QED
        BY <2>2, <2>3, <3>2, <4>1 DEF HoldsEntry
    <3>4. OwnIncarnation(handler[h])'
      <4>1. \A a \in Bindings : secrets[a].uid = s.uid => a = b
        BY <1>1, <1>5, <2>1 DEF Steady, OwnIncarnation
      <4>2. \A a \in Bindings : secrets'[a] = IF a = b THEN c ELSE secrets[a]
        BY <2>2 DEF TypeOK
      <4> QED
        BY <2>3, <3>2, <4>1, <4>2 DEF OwnIncarnation
    <3>5. RunResult(handler[h])'
      BY <1>6, <1>7, <2>3, <3>2 DEF RunResult, RanWell, HasTemplates
    <3> QED
      BY <1>1, <1>5, <1>7, <2>2, <2>3, <3>2, <3>3, <3>4, <3>5, WriteStep DEF Steady
  <2> QED
    BY <1>1, <1>3, <1>9, <2>2, <2>4, <2>5 DEF StartBinding
<1> QED
  BY <1>1, <1>3, <1>8, <1>9 DEF StartBinding, Commit

(* Creator.run: the object of the binding and the record of the run. *)
LEMMA RunStep ==
    ASSUME TypeOK, BindingInv, NEW h \in Handlers, NEW fate, RunCreator(h, fate)
    PROVE  BindingInv'
<1>1. PICK e \in Entry : e = handler[h].entry
  BY DEF TypeOK, Handler
<1>2. PICK b \in Bindings : b = handler[h].req.binding
  BY DEF TypeOK, Handler, Request
<1>3. Working(handler[h]) /\ Steady(handler[h]) /\ handler[h].pc = "run"
  BY DEF RunCreator, BindingInv, Working
<1>4. /\ e.exists /\ e.uid \in 1 .. revision /\ e.rv \in 1 .. revision
      /\ \A y \in runs : y.uid # e.uid
      /\ HasTemplates(e)
  BY <1>1, <1>3 DEF Steady, HoldsEntry, RunResult
<1>5. PICK ready \in BOOLEAN :
         /\ ready => object[b] = 0 /\ fate # "lost"
         /\ handler' = [handler EXCEPT ![h] = [@ EXCEPT !.pc = "complete",
                                                        !.error = ~ready]]
         /\ runs' = runs \cup {[uid |-> e.uid, opid |-> e.opid,
                                status |-> IF ready THEN "ok" ELSE "error"]}
  BY <1>1, <1>2 DEF RunCreator
<1>6. /\ Alone(h) /\ handler'[h].pc = "complete" /\ handler'[h].entry = e
      /\ handler'[h].req.binding = b /\ handler'[h].error = ~ready
  BY <1>1, <1>2, <1>5 DEF TypeOK, Handler, Alone
<1>7. /\ UNCHANGED <<secrets, revision>>
      /\ faults' = 0 => faults = 0
      /\ object' = IF object[b] = 0 /\ fate # "lost"
                   THEN [object EXCEPT ![b] = e.uid] ELSE object
  BY <1>1, <1>2, NoFault DEF RunCreator
<1> DEFINE x == [uid |-> e.uid, opid |-> e.opid,
                 status |-> IF ready THEN "ok" ELSE "error"]
<1>8. x.uid = e.uid /\ (ready => x.status = "ok")
  OBVIOUS
<1>9. runs' = runs \cup {x}
  BY <1>5
<1> HIDE DEF x
<1>10. Incarnations' /\ RunsPast' /\ RunOnce'
  BY <1>4, <1>7, <1>8, <1>9 DEF BindingInv, Incarnations, RunsPast, RunOnce
<1>11. Sole'
  BY <1>1, <1>3, <1>6, SoleKept
<1>12. Steady(handler[h])'
  <2>1. HoldsEntry(handler[h])'
    BY <1>4, <1>6, <1>7 DEF HoldsEntry
  <2>2. OwnIncarnation(handler[h])'
    <3>1. /\ \A a \in Bindings : secrets[a].uid = e.uid => a = b
          /\ secrets[b].exists /\ secrets[b].rv = e.rv => secrets[b].uid = e.uid
          /\ faults = 0 /\ secrets[b].uid = e.uid => secrets[b].rv = e.rv
      BY <1>1, <1>2, <1>3 DEF Steady, OwnIncarnation
    <3> QED
      BY <1>6, <1>7, <3>1 DEF OwnIncarnation
  <2>3. RunResult(handler[h])'
    <3>1. ready => object'[b] = e.uid
      BY <1>5, <1>7 DEF TypeOK
    <3>2. ready => Provisioned(e.uid)'
      BY <1>8, <1>9 DEF Provisioned
    <3>3. RanWell(handler[h])' => ready
      BY <1>6 DEF RanWell
    <3> QED
      BY <1>4, <1>6, <3>1, <3>2, <3>3 DEF RunResult, HasTemplates, Provisioned
  <2> QED
    BY <2>1, <2>2, <2>3 DEF Steady
<1>13. ASSUME NEW g \in Handlers, g # h
       PROVE  Steady(handler[g])'
  <2>1. PICK y \in Handler : y = handler[g]
    BY DEF TypeOK
  <2>2. PICK a \in Bindings : a = y.req.binding
    BY DEF Handler, Request
  <2>3. handler'[g] = y /\ Steady(handler[g])
    BY <1>6, <1>13, <2>1 DEF Alone, BindingInv
  <2>4. HoldsEntry(handler[g])' /\ OwnIncarnation(handler[g])'
    BY <1>7, <2>1, <2>3 DEF Steady, HoldsEntry, OwnIncarnation
  <2>5. RunResult(handler[g])'
    <3>1. Working(y) => y.entry.uid # e.uid /\ y.entry.uid \in 1 .. revision
      BY <1>1, <1>3, <1>13, <2>1, <2>3 DEF BindingInv, Sole, Steady, HoldsEntry
    <3>2. y.pc \in {"start", "run"} => \A z \in runs' : z.uid # y.entry.uid
      BY <1>8, <1>9, <2>1, <2>3, <3>1 DEF Steady, RunResult, Working
    <3>3. RanWell(y) => Provisioned(y.entry.uid)'
      BY <1>9, <2>1, <2>3 DEF Steady, RunResult, Provisioned
    <3>4. RanWell(y) /\ secrets'[a].uid = y.entry.uid => object'[a] = y.entry.uid
      <4>1. ASSUME RanWell(y), secrets[a].uid = y.entry.uid
            PROVE  object[a] = y.entry.uid /\ object[a] # 0
        BY <4>1, <2>1, <2>2, <2>3, <3>1 DEF Steady, RunResult, RanWell, Working
      <4> QED
        BY <4>1, <1>7 DEF TypeOK
    <3> QED
      BY <2>1, <2>2, <2>3, <3>2, <3>3, <3>4
      DEF Steady, RunResult, HasTemplates, Provisioned
  <2> QED
    BY <2>4, <2>5 DEF Steady
<1> QED
  BY <1>10, <1>11, <1>12, <1>13 DEF BindingInv

(* operation.Complete: the outcome goes into the copy whether or not it is *)
(* stored.                                                                 *)
LEMMA CompleteStep ==
    ASSUME TypeOK, BindingInv, NEW h \in Handlers, NEW fate, CompleteBinding(h, fate)
    PROVE  BindingInv'
<1>1. PICK s \in Entry : s = handler[h].entry
  BY DEF TypeOK, Handler
<1>2. PICK b \in Bindings : b = handler[h].req.binding
  BY DEF TypeOK, Handler, Request
<1>3. PICK status \in {"ok", "error"} :
         /\ status = IF handler[h].error THEN "error" ELSE "ok"
         /\ status = "ok" => ~handler[h].error
  OBVIOUS
<1>4. PICK e \in Entry : e = Complete(s, status)
  BY EntryTypes DEF Status
<1>5. /\ e.exists = s.exists /\ e.uid = s.uid /\ e.rv = s.rv /\ e.status = status
      /\ e.service = s.service /\ e.plan = s.plan
  BY <1>4 DEF Complete, Entry
<1>6. Working(handler[h]) /\ Steady(handler[h]) /\ handler[h].pc = "complete"
  BY DEF CompleteBinding, BindingInv, Working
<1>7. /\ s.exists /\ s.uid \in 1 .. revision /\ s.rv \in 1 .. revision
      /\ HasTemplates(s)
      /\ status = "ok" => Provisioned(s.uid)
      /\ status = "ok" /\ secrets[b].uid = s.uid => object[b] = s.uid
  BY <1>1, <1>2, <1>3, <1>6 DEF Steady, HoldsEntry, RunResult, RanWell
<1>8. /\ \A a \in Bindings : secrets[a].uid = s.uid => a = b
      /\ secrets[b].exists /\ secrets[b].rv = s.rv => secrets[b].uid = s.uid
      /\ faults = 0 /\ secrets[b].uid = s.uid => secrets[b].rv = s.rv
  BY <1>1, <1>2, <1>6 DEF Steady, OwnIncarnation
<1>9. /\ runs' = runs /\ object' = object
      /\ faults' = 0 => fate = "ok" /\ faults = 0
      /\ Commit(h, e, fate)
  BY <1>1, <1>3, <1>4, NoFault DEF CompleteBinding
<1>10. revision \in Nat
  BY DEF TypeOK
<1>11. CASE ~Applied(h, e, fate)
  <2>1. UNCHANGED <<secrets, revision>> /\ GotoWith(h, "end", e)
    BY <1>1, <1>3, <1>4, <1>9, <1>11 DEF CompleteBinding, Commit
  <2>2. /\ Alone(h) /\ handler'[h].pc = "end" /\ handler'[h].entry = e
        /\ handler'[h].req.binding = b
    BY <1>2, <2>1, Moves
  <2>3. Sole'
    BY <1>1, <1>5, <1>6, <2>2, SoleKept
  <2>4. Steady(handler[h])'
    <3>1. HoldsEntry(handler[h])'
      BY <1>5, <1>7, <2>1, <2>2 DEF HoldsEntry
    <3>2. OwnIncarnation(handler[h])'
      BY <1>5, <1>8, <1>9, <2>1, <2>2 DEF OwnIncarnation
    <3>3. RunResult(handler[h])'
      BY <1>5, <1>7, <1>9, <2>1, <2>2
      DEF RunResult, RanWell, Provisioned, HasTemplates
    <3> QED
      BY <3>1, <3>2, <3>3 DEF Steady
  <2>5. \A g \in Handlers \ {h} : Steady(handler[g])'
    <3> TAKE g \in Handlers \ {h}
    <3>1. handler'[g] = handler[g] /\ Steady(handler[g])
      BY <2>2 DEF Alone, BindingInv
    <3> QED
      BY <3>1, <1>9, <2>1 DEF Steady, HoldsEntry, OwnIncarnation, RunResult,
                              RanWell, Provisioned, HasTemplates, Working
  <2>6. Incarnations' /\ RunsPast' /\ RunOnce'
    BY <1>9, <2>1 DEF BindingInv, Incarnations, RunsPast, RunOnce
  <2> QED
    BY <2>3, <2>4, <2>5, <2>6 DEF BindingInv
<1>12. CASE Applied(h, e, fate)
  <2>1. PICK c \in Entry :
              /\ c = Committed(e, revision + 1)
              /\ secrets' = [secrets EXCEPT ![b] = c]
              /\ revision' = revision + 1
              /\ secrets[b].exists /\ secrets[b].rv = e.rv
              /\ secrets[b].uid = e.uid
              /\ c = [e EXCEPT !.rv = revision + 1]
    <3>1. e.exists /\ e.uid = handler[h].entry.uid /\ e.rv = handler[h].entry.rv
      BY <1>1, <1>5, <1>7
    <3> QED
      BY <1>2, <1>6, <1>9, <1>12, <3>1, OwnCommit
  <2>2. /\ c.exists /\ c.rv = revision + 1 /\ c.uid = s.uid /\ c.status = status
        /\ c.service = s.service /\ c.plan = s.plan
    BY <1>5, <1>7, <2>1 DEF Entry
  <2>3. PICK d \in {c, e} : GotoWith(h, "end", d) /\ (fate = "ok" => d = c)
    BY <1>1, <1>3, <1>4, <1>12, <2>1 DEF CompleteBinding
  <2>4. /\ Alone(h) /\ handler'[h].pc = "end" /\ handler'[h].entry = d
        /\ handler'[h].req.binding = b
    BY <1>2, <2>3, Moves
  <2>5. /\ d.exists /\ d.uid = s.uid /\ d.status = status
        /\ d.service = s.service /\ d.plan = s.plan
        /\ d.uid \in 1 .. revision + 1 /\ d.rv \in 1 .. revision + 1
    <3>1. s.uid \in 1 .. revision + 1 /\ s.rv \in 1 .. revision + 1
          /\ revision + 1 \in 1 .. revision + 1
      BY <1>7, <1>10
    <3>2. CASE d = c
      BY <2>2, <3>1, <3>2
    <3>3. CASE d = e
      BY <1>5, <1>7, <3>1, <3>3
    <3> QED
      BY <2>3, <3>2, <3>3
  <2>6. \A a \in Bindings : secrets'[a] = IF a = b THEN c ELSE secrets[a]
    BY <2>1 DEF TypeOK
  <2>7. Steady(handler[h])'
    <3>1. HoldsEntry(handler[h])'
      BY <2>1, <2>4, <2>5 DEF HoldsEntry
    <3>2. OwnIncarnation(handler[h])'
      <4>1. \A a \in Bindings : secrets'[a].uid = d.uid => a = b
        BY <1>8, <2>5, <2>6
      <4>2. secrets'[b].uid = d.uid
        BY <2>2, <2>5, <2>6
      <4>3. faults' = 0 => secrets'[b].rv = d.rv
        BY <1>9, <2>3, <2>6
      <4> QED
        BY <2>4, <4>1, <4>2, <4>3 DEF OwnIncarnation
    <3>3. RunResult(handler[h])'
      <4>1. status = "ok" => object[b] = s.uid
        BY <1>5, <1>7, <2>1
      <4> QED
        BY <1>7, <1>9, <2>4, <2>5, <4>1 DEF RunResult, RanWell, Provisioned,
                                            HasTemplates
    <3> QED
      BY <3>1, <3>2, <3>3 DEF Steady
  <2>8. handler'[h].entry.uid = c.uid
    BY <2>2, <2>4, <2>5
  <2> QED
    BY <1>1, <1>6, <1>9, <2>1, <2>2, <2>4, <2>7, <2>8, WriteStep
<1> QED
  BY <1>11, <1>12

(* operation.End: nothing is stored, which without failures means that the *)
(* registry is gone; or the handler's own incarnation is stored as idle.   *)
LEMMA EndEffect ==
    ASSUME TypeOK, BindingInv, NEW h \in Handlers, NEW fate, EndBinding(h, fate),
           NEW b \in Bindings, b = handler[h].req.binding,
           NEW s \in Entry, s = handler[h].entry
    PROVE  \/ /\ UNCHANGED <<secrets, revision>>
              /\ Fail(h, 500)
              /\ faults' = 0 => secrets[b].uid # s.uid
           \/ \E c \in Entry, code \in {201, 400, 500} :
                 /\ secrets' = [secrets EXCEPT ![b] = c]
                 /\ revision' = revision + 1
                 /\ secrets[b].uid = s.uid
                 /\ c.exists /\ c.uid = s.uid /\ c.rv = revision + 1
                 /\ c.op = "none" /\ c.service = s.service /\ c.plan = s.plan
                 /\ Fail(h, code)
                 /\ code = 201 => s.status = "ok"
<1>1. Working(handler[h]) /\ Steady(handler[h]) /\ handler[h].pc = "end"
  BY DEF EndBinding, BindingInv, Working
<1>2. s.status # "unset" /\ s.exists /\ s.uid \in 1 .. revision
  BY <1>1 DEF Steady, HoldsEntry, RunResult
<1>3. PICK e \in Entry : e = End(s)
  BY EntryTypes
<1>4. /\ e.exists = s.exists /\ e.uid = s.uid /\ e.rv = s.rv /\ e.op = "none"
      /\ e.service = s.service /\ e.plan = s.plan
  BY <1>3 DEF End, Entry
<1>5. /\ Fate(fate)
      /\ Commit(h, e, fate)
      /\ IF Applied(h, e, fate) /\ fate = "ok"
         THEN Fail(h, IF s.status = "ok" THEN 201 ELSE 400)
         ELSE Fail(h, 500)
  BY <1>2, <1>3 DEF EndBinding
<1>6. CASE ~Applied(h, e, fate)
  <2>1. UNCHANGED <<secrets, revision>> /\ Fail(h, 500)
    BY <1>5, <1>6 DEF Commit
  <2>2. ASSUME faults' = 0, secrets[b].uid = s.uid PROVE FALSE
    <3>1. fate = "ok" /\ faults = 0
      BY <1>5, <2>2, NoFault
    <3>2. secrets[b].rv = s.rv
      BY <1>1, <2>2, <3>1 DEF Steady, OwnIncarnation
    <3>3. secrets[b].exists
      BY <1>2, <2>2 DEF BindingInv, Incarnations, TypeOK
    <3> QED
      BY <1>2, <1>4, <1>6, <3>1, <3>2, <3>3 DEF Applied, CommitAccepted
  <2> QED
    BY <2>1, <2>2
<1>7. CASE Applied(h, e, fate)
  <2>1. PICK c \in Entry :
              /\ c = Committed(e, revision + 1)
              /\ secrets' = [secrets EXCEPT ![b] = c]
              /\ revision' = revision + 1
              /\ secrets[b].exists /\ secrets[b].rv = e.rv
              /\ secrets[b].uid = e.uid
              /\ c = [e EXCEPT !.rv = revision + 1]
    <3>1. e.exists /\ e.uid = handler[h].entry.uid /\ e.rv = handler[h].entry.rv
      BY <1>2, <1>4
    <3> QED
      BY <1>1, <1>5, <1>7, <3>1, OwnCommit
  <2>2. /\ c.exists /\ c.rv = revision + 1 /\ c.uid = s.uid /\ c.op = "none"
        /\ c.service = s.service /\ c.plan = s.plan
    BY <1>2, <1>4, <2>1 DEF Entry
  <2>3. PICK code \in {201, 400, 500} :
           Fail(h, code) /\ (code = 201 => s.status = "ok")
    BY <1>5
  <2>4. /\ secrets' = [secrets EXCEPT ![b] = c]
        /\ revision' = revision + 1
        /\ secrets[b].uid = s.uid
    BY <1>4, <2>1
  <2> QED
    BY <2>2, <2>3, <2>4
<1> QED
  BY <1>6, <1>7

(* After operation.End the handler is done. *)
LEMMA EndStep ==
    ASSUME TypeOK, BindingInv, NEW h \in Handlers, NEW fate, EndBinding(h, fate)
    PROVE  BindingInv'
<1>1. PICK s \in Entry : s = handler[h].entry
  BY DEF TypeOK, Handler
<1>2. PICK b \in Bindings : b = handler[h].req.binding
  BY DEF TypeOK, Handler, Request
<1>3. runs' = runs /\ object' = object /\ (faults' = 0 => faults = 0)
  BY NoFault DEF EndBinding
<1>4. Working(handler[h])
  BY DEF EndBinding, Working
<1>5. Alone(h) /\ handler'[h] = Idle
  BY <1>1, <1>2, EndEffect, Moves
<1>6. Loose(handler[h])'
  BY <1>5, IdleLoose DEF Loose
<1>7. CASE UNCHANGED <<secrets, revision>>
  BY <1>3, <1>5, <1>6, <1>7, QuietStep DEF Alone
<1>8. CASE \E c \in Entry :
              /\ secrets' = [secrets EXCEPT ![b] = c]
              /\ revision' = revision + 1
              /\ c.exists /\ c.uid = s.uid /\ c.rv = revision + 1
  <2>1. Steady(handler[h])' /\ ~Working(handler[h])'
    BY <1>6, LooseSteady
  <2> QED
    BY <1>1, <1>3, <1>4, <1>5, <1>8, <2>1, WriteStep
<1> QED
  BY <1>1, <1>2, <1>7, <1>8, EndEffect

(* Deleter.Run deletes whatever incarnation there is. *)
LEMMA DeleteStep ==
    ASSUME TypeOK, BindingInv, NEW h \in Handlers, NEW fate, DeleteBinding(h, fate)
    PROVE  BindingInv'
<1>1. PICK b \in Bindings : b = handler[h].req.binding
  BY DEF TypeOK, Handler, Request
<1>2. /\ runs' = runs /\ object' = object /\ (faults' = 0 => faults = 0)
      /\ revision' = revision /\ revision \in Nat
  BY NoFault DEF DeleteBinding, TypeOK
<1>3. Alone(h) /\ handler'[h] = Idle
  BY Moves DEF DeleteBinding
<1>4. Loose(handler[h])'
  BY <1>3, IdleLoose DEF Loose
<1>5. CASE secrets' = secrets
  BY <1>2, <1>3, <1>4, <1>5, QuietStep DEF Alone
<1>6. CASE secrets' = [secrets EXCEPT ![b] = Absent]
  <2>1. Absent.uid = 0 /\ ~Absent.exists
    BY DEF Absent
  <2>2. \A g \in Handlers \ {h} : Steady(handler[g])'
    <3> TAKE g \in Handlers \ {h}
    <3>1. Working(handler[g]) => Absent.uid # handler[g].entry.uid
      BY <1>2, <2>1 DEF BindingInv, Steady, HoldsEntry
    <3>2. handler'[g] = handler[g] /\ revision' \in Nat /\ revision' >= revision
      BY <1>2, <1>3 DEF Alone
    <3> QED
      BY <1>2, <1>6, <2>1, <3>1, <3>2, IdleType, OtherWrite
  <2>3. Steady(handler[h])' /\ Sole'
    BY <1>3, <1>4, LooseSteady, SoleKept
  <2>4. Incarnations'
    BY <1>2, <1>6, <2>1 DEF BindingInv, Incarnations, TypeOK
  <2>5. RunsPast' /\ RunOnce'
    BY <1>2 DEF BindingInv, RunsPast, RunOnce
  <2> QED
    BY <2>2, <2>3, <2>4, <2>5 DEF BindingInv
<1> QED
  BY <1>1, <1>5, <1>6 DEF DeleteBinding

(* Kubernetes does not collect what a stored registry owns. *)
LEMMA CollectStep ==
    ASSUME TypeOK, BindingInv, NEW b \in Bindings, Collect(b)
    PROVE  BindingInv'
<1>1. /\ UNCHANGED <<secrets, revision, handler, runs, faults>>
      /\ object' = [object EXCEPT ![b] = 0]
      /\ object[b] # secrets[b].uid
  BY DEF Collect, Orphaned
<1>2. Incarnations' /\ RunsPast' /\ RunOnce' /\ Sole'
  BY <1>1 DEF BindingInv, Incarnations, RunsPast, RunOnce, Sole, Working
<1>3. ASSUME NEW h \in Handlers PROVE Steady(handler[h])'
  <2>1. Steady(handler[h])
    BY DEF BindingInv
  <2>2. HoldsEntry(handler[h])' /\ OwnIncarnation(handler[h])'
    BY <1>1, <2>1 DEF Steady, HoldsEntry, OwnIncarnation, Working
  <2>3. PICK a \in Bindings : a = handler[h].req.binding
    BY DEF TypeOK, Handler, Request
  <2>4. RanWell(handler[h]) /\ secrets[a].uid = handler[h].entry.uid
            => object'[a] = handler[h].entry.uid
    BY <1>1, <2>1, <2>3 DEF Steady, RunResult, TypeOK
  <2>5. RunResult(handler[h])'
    BY <1>1, <2>1, <2>3, <2>4 DEF Steady, RunResult, RanWell, Provisioned, HasTemplates
  <2> QED
    BY <2>2, <2>5 DEF Steady
<1> QED
  BY <1>2, <1>3 DEF BindingInv

(* Every step keeps the invariant. *)
LEMMA NextInv == TypeOK /\ BindingInv /\ [Next]_vars => BindingInv'
<1> SUFFICES ASSUME TypeOK, BindingInv, [Next]_vars PROVE BindingInv'
  OBVIOUS
<1>1. CASE InstanceStep
  BY <1>1, QuietStep DEF InstanceStep
<1>2. ASSUME NEW h \in Handlers, NEW r \in Requests, Receive(h, r)
      PROVE  BindingInv'
  <2>1. \A g \in Handlers : handler'[g] = handler[g] \/ Loose(handler[g])'
    <3>1. CASE handler' = [handler EXCEPT
                             ![h] = [@ EXCEPT !.pc = "lookup", !.req = r]]
      BY <3>1 DEF TypeOK, Handler, Loose
    <3> QED
      BY <1>2, <3>1 DEF Receive
  <2> QED
    BY <1>2, <2>1, QuietStep DEF Receive
<1>3. ASSUME NEW h \in Handlers, HandlerStep(h) PROVE BindingInv'
  BY <1>3, ReadSteps, CommitStep, StartStep, RunStep, CompleteStep, EndStep,
     DeleteStep DEF HandlerStep
<1>4. CASE Crash
  <2>1. \A h \in Handlers : Loose(handler[h])'
    BY <1>4, IdleLoose DEF Crash, Loose
  <2> QED
    BY <1>4, <2>1, QuietStep DEF Crash
<1>5. CASE UNCHANGED vars
  BY <1>5, QuietStep DEF vars
<1> QED
  BY <1>1, <1>2, <1>3, <1>4, <1>5, CollectStep DEF Next

(* The invariant holds at the start. *)
LEMMA InitInv == Init => BindingInv
<1> SUFFICES ASSUME Init PROVE BindingInv
  OBVIOUS
<1>1. Idle.pc = "idle" /\ Absent.uid = 0 /\ ~Absent.exists
  BY DEF Idle, Absent
<1>2. \A h \in Handlers : handler[h].pc = "idle"
  BY <1>1 DEF Init
<1>3. \A h \in Handlers : Steady(handler[h]) /\ ~Working(handler[h])
  BY <1>2 DEF Steady, HoldsEntry, OwnIncarnation, RunResult, RanWell, Working
<1>4. Incarnations
  BY <1>1 DEF Init, Incarnations
<1>5. RunsPast /\ RunOnce
  BY DEF Init, RunsPast, RunOnce
<1> QED
  BY <1>3, <1>4, <1>5 DEF BindingInv, Sole

(* The inductive invariant of a binding: a handler that created a registry *)
(* may trust its UID and version, whatever unbinds, collections and other  *)
(* binds do at the same time.                                              *)
THEOREM BindingInvariance == Spec => [](TypeOK /\ BindingInv)
<1>1. Init => BindingInv
  BY InitInv
<1>2. TypeOK /\ BindingInv /\ [Next]_vars => BindingInv'
  BY NextInv
<1> QED
  BY <1>1, <1>2, BindingTypeCorrect, PTL DEF Spec

(* The Creator runs at most once for an incarnation of a binding: a retry  *)
(* of a bind, or a bind after an unbind, never repeats it.                 *)
THEOREM CreatorRunsOnce == Spec => []RunOnce
<1>1. BindingInv => RunOnce
  BY DEF BindingInv
<1> QED
  BY <1>1, BindingInvariance, PTL

-----------------------------------------------------------------------------
(* What 201 Created says.                                                  *)

(* Only operation.End is followed by 201 Created. *)
LEMMA OnlyEndCreates ==
    ASSUME TypeOK, Next, NEW p \in reply', p.code = 201
    PROVE  \E h \in Handlers, fate \in Fates :
              EndBinding(h, fate) /\ p.req = handler[h].req
<1>1. ~InstanceStep /\ ~Crash /\ \A b \in Bindings : ~Collect(b)
  BY DEF InstanceStep, Crash, Collect
<1>2. \A h \in Handlers, r \in Requests : ~Receive(h, r)
  BY DEF Receive
<1>3. PICK h \in Handlers : HandlerStep(h)
  BY <1>1, <1>2 DEF Next
<1>4. ASSUME NEW code, NEW uid, Respond(h, code, uid), code # 201 PROVE FALSE
  BY <1>4, Moves
<1>5. ASSUME NEW code, Fail(h, code), code # 201 PROVE FALSE
  BY <1>5, Moves
<1>6. ASSUME NEW label, NEW e, GotoWith(h, label, e) PROVE FALSE
  BY <1>6, Moves
<1>7. ASSUME NEW fate, \/ GetDirectoryInstance(h, fate) \/ OpenInstance(h, fate)
                       \/ RunCreator(h, fate) \/ DeleteBinding(h, fate)
      PROVE  FALSE
  BY <1>4, <1>5, <1>7 DEF GetDirectoryInstance, OpenInstance, RunCreator,
                          DeleteBinding
<1>8. ASSUME OpenBind(h) \/ OpenUnbind(h) \/ OpenFails(h) \/ PrepareFails(h)
      PROVE  FALSE
  BY <1>4, <1>5, <1>6, <1>8 DEF OpenBind, OpenUnbind, OpenFails, PrepareFails
<1>9. ASSUME NEW fate, \/ CommitBinding(h, fate) \/ StartBinding(h, fate)
                       \/ CompleteBinding(h, fate)
      PROVE  FALSE
  BY <1>5, <1>6, <1>9 DEF CommitBinding, StartBinding, CompleteBinding
<1>10. PICK fate \in Fates : EndBinding(h, fate)
  BY <1>3, <1>7, <1>8, <1>9 DEF HandlerStep
<1>11. p.req = handler[h].req
  BY <1>10, Moves DEF EndBinding
<1> QED
  BY <1>10, <1>11

(* The state in which a bind is answered 201 Created. *)
LEMMA CreatedState ==
    ASSUME TypeOK, BindingInv, Next, NEW p \in reply', p.code = 201
    PROVE  \E b \in Bindings :
              /\ b = p.req.binding
              /\ secrets'[b].exists /\ secrets'[b].uid = p.uid
              /\ secrets'[b].op = "none"
              /\ <<secrets'[b].service, secrets'[b].plan>> \in Bindable
              /\ Provisioned(p.uid)'
              /\ object'[b] = p.uid
<1>1. PICK h \in Handlers :
         \E fate \in Fates : EndBinding(h, fate) /\ p.req = handler[h].req
  BY OnlyEndCreates
<1>2. PICK fate \in Fates : EndBinding(h, fate) /\ p.req = handler[h].req
  BY <1>1
<1>3. PICK s \in Entry : s = handler[h].entry
  BY DEF TypeOK, Handler
<1>4. PICK b \in Bindings : b = handler[h].req.binding
  BY DEF TypeOK, Handler, Request
<1>5. ~Fail(h, 500)
  BY Moves
<1>6. PICK c \in Entry :
         \E code \in {201, 400, 500} :
                 /\ secrets' = [secrets EXCEPT ![b] = c]
                 /\ secrets[b].uid = s.uid
                 /\ c.exists /\ c.uid = s.uid
                 /\ c.op = "none" /\ c.service = s.service /\ c.plan = s.plan
                 /\ Fail(h, code)
                 /\ code = 201 => s.status = "ok"
  BY <1>2, <1>3, <1>4, <1>5, EndEffect
<1>7. PICK code \in {201, 400, 500} :
                 /\ secrets' = [secrets EXCEPT ![b] = c]
                 /\ secrets[b].uid = s.uid
                 /\ c.exists /\ c.uid = s.uid
                 /\ c.op = "none" /\ c.service = s.service /\ c.plan = s.plan
                 /\ Fail(h, code)
                 /\ code = 201 => s.status = "ok"
  BY <1>6
<1>8. p.uid = s.uid /\ s.status = "ok"
  BY <1>3, <1>7, Moves
<1>9. secrets'[b] = c
  BY <1>7 DEF TypeOK
<1>10. /\ Provisioned(s.uid) /\ object[b] = s.uid
       /\ <<s.service, s.plan>> \in Bindable
  <2>1. handler[h].pc = "end" /\ RunResult(handler[h])
    BY <1>2 DEF EndBinding, BindingInv, Steady
  <2> QED
    BY <1>3, <1>4, <1>7, <1>8, <2>1 DEF RunResult, RanWell, HasTemplates
<1>11. runs' = runs /\ object' = object
  BY <1>2 DEF EndBinding
<1>12. Provisioned(p.uid)'
  BY <1>8, <1>10, <1>11 DEF Provisioned
<1>13. /\ secrets'[b].exists /\ secrets'[b].uid = p.uid /\ secrets'[b].op = "none"
       /\ <<secrets'[b].service, secrets'[b].plan>> \in Bindable
  BY <1>7, <1>8, <1>9, <1>10
<1>14. object'[b] = p.uid /\ b = p.req.binding
  BY <1>2, <1>4, <1>8, <1>10, <1>11
<1> QED
  BY <1>12, <1>13, <1>14

(* A bind that is answered 201 Created left a binding that is stored and   *)
(* idle, was provisioned, and still has what it generated, whatever        *)
(* unbinds, binds and collections raced with it.                           *)
THEOREM CreatedBindingIsUsable == Spec => []CreatedIsUsable
<1>1. Init => CreatedIsUsable
  BY DEF Init, CreatedIsUsable
<1>2. TypeOK /\ BindingInv /\ CreatedIsUsable /\ [Next]_vars => CreatedIsUsable'
  <2> SUFFICES ASSUME TypeOK, BindingInv, CreatedIsUsable, [Next]_vars
               PROVE  CreatedIsUsable'
    OBVIOUS
  <2>1. CASE UNCHANGED vars
    BY <2>1 DEF vars, CreatedIsUsable, Provisioned
  <2>2. CASE Next
    <3> SUFFICES ASSUME NEW p \in reply', p.code = 201
                 PROVE  /\ secrets'[p.req.binding].exists
                        /\ secrets'[p.req.binding].uid = p.uid
                        /\ secrets'[p.req.binding].op = "none"
                        /\ \E x \in runs' : x.uid = p.uid /\ x.status = "ok"
                        /\ object'[p.req.binding] = p.uid
      BY DEF CreatedIsUsable, Provisioned
    <3>1. PICK b \in Bindings :
              /\ b = p.req.binding
              /\ secrets'[b].exists /\ secrets'[b].uid = p.uid
              /\ secrets'[b].op = "none"
              /\ <<secrets'[b].service, secrets'[b].plan>> \in Bindable
              /\ Provisioned(p.uid)'
              /\ object'[b] = p.uid
      BY <2>2, CreatedState
    <3> QED
      BY <3>1 DEF Provisioned
  <2> QED
    BY <2>1, <2>2
<1> QED
  BY <1>1, <1>2, BindingInvariance, PTL DEF Spec

(* An instance whose plan is not bindable is not bound to, even by a       *)
(* request that names a bindable plan.                                     *)
THEOREM UnbindablePlansNotBound == Spec => []UnbindableNotBound
<1>1. Init => UnbindableNotBound
  BY DEF Init, UnbindableNotBound
<1>2. TypeOK /\ BindingInv /\ UnbindableNotBound /\ [Next]_vars => UnbindableNotBound'
  <2> SUFFICES ASSUME TypeOK, BindingInv, UnbindableNotBound, [Next]_vars
               PROVE  UnbindableNotBound'
    OBVIOUS
  <2>1. CASE UNCHANGED vars
    BY <2>1 DEF vars, UnbindableNotBound
  <2>2. CASE Next
    BY <2>2, CreatedState DEF UnbindableNotBound
  <2> QED
    BY <2>1, <2>2
<1> QED
  BY <1>1, <1>2, BindingInvariance, PTL DEF Spec

-----------------------------------------------------------------------------
(* Who ends the operation of a binding.                                    *)

(* Handler x runs the Creator, or has run it and not yet ended. *)
Running(x) == x.pc \in {"run", "complete", "end"}

(* The operation of b has a handler, or came with its first Commit. *)
Attended(b) ==
    \/ \E h \in Handlers : Running(handler[h]) /\ handler[h].entry.uid = secrets[b].uid
    \/ secrets[b].rv = secrets[b].uid

(* Failures and crashes are never forgotten. *)
LEMMA CountsGrow ==
    ASSUME TypeOK, Next, faults' = 0, crashes' = 0
    PROVE  faults = 0 /\ crashes = 0
<1>1. ~Crash
  BY DEF TypeOK, Crash
<1>2. ASSUME NEW h \in Handlers, HandlerStep(h)
      PROVE  crashes' = crashes /\ (faults' = faults \/ \E fate : Fate(fate))
  <2>1. ASSUME NEW fate, \/ GetDirectoryInstance(h, fate) \/ OpenInstance(h, fate)
                         \/ CommitBinding(h, fate) \/ RunCreator(h, fate)
                         \/ CompleteBinding(h, fate) \/ DeleteBinding(h, fate)
        PROVE  crashes' = crashes /\ Fate(fate)
    BY <2>1 DEF GetDirectoryInstance, OpenInstance, CommitBinding, RunCreator,
                CompleteBinding, DeleteBinding
  <2>2. ASSUME NEW fate, StartBinding(h, fate) \/ EndBinding(h, fate)
        PROVE  crashes' = crashes /\ (faults' = faults \/ Fate(fate))
    BY <2>2 DEF StartBinding, EndBinding
  <2>3. ASSUME OpenBind(h) \/ OpenUnbind(h) \/ PrepareFails(h)
        PROVE  crashes' = crashes /\ faults' = faults
    BY <2>3 DEF OpenBind, OpenUnbind, PrepareFails
  <2>4. ASSUME OpenFails(h)
        PROVE  crashes' = crashes /\ Fate("lost")
    BY <2>4 DEF OpenFails
  <2> QED
    BY <1>2, <2>1, <2>2, <2>3, <2>4 DEF HandlerStep
<1>3. crashes' = crashes /\ (faults' = faults \/ \E fate : Fate(fate))
  BY <1>1, <1>2 DEF Next, InstanceStep, Receive, Collect
<1> QED
  BY <1>3, NoFault

(* A step that takes no handler from its binding. *)
LEMMA AttendedKept ==
    ASSUME NEW b \in Bindings, Attended(b), secrets'[b] = secrets[b],
           \A h \in Handlers :
               Running(handler[h]) /\ handler[h].entry.uid = secrets[b].uid =>
                   /\ Running(handler[h])'
                   /\ handler'[h].entry.uid = handler[h].entry.uid
    PROVE  Attended(b)'
BY DEF Attended

(* A step of a handler that does not run the Creator takes no other from   *)
(* its binding.                                                            *)
LEMMA OthersRunning ==
    ASSUME TypeOK, NEW h \in Handlers, Alone(h), ~Running(handler[h])
    PROVE  \A g \in Handlers :
              Running(handler[g]) => /\ Running(handler[g])'
                                     /\ handler'[g].entry.uid = handler[g].entry.uid
BY DEF Alone, Running

(* Without failures an operation that operation.Start wrote is not left    *)
(* without a handler.                                                      *)
LEMMA AttendedNext ==
    ASSUME TypeOK, BindingInv, Next, faults' = 0, crashes' = 0,
           \A b \in Bindings : secrets[b].op # "none" => Attended(b)
    PROVE  \A b \in Bindings : secrets'[b].op # "none" => Attended(b)'
<1> TAKE a \in Bindings
<1> HAVE secrets'[a].op # "none"
<1>1. CASE InstanceStep \/ (\E b \in Bindings : Collect(b))
  <2>1. UNCHANGED <<secrets, handler>>
    BY <1>1 DEF InstanceStep, Collect
  <2> QED
    BY <2>1 DEF Attended, Running
<1>2. ASSUME NEW h \in Handlers, NEW r \in Requests, Receive(h, r)
      PROVE  Attended(a)'
  <2>1. ~Running(handler[h]) /\ Alone(h) /\ UNCHANGED secrets
    BY <1>2 DEF Receive, Running, Alone, TypeOK
  <2> QED
    BY <2>1, OthersRunning, AttendedKept
<1>3. ~Crash
  BY DEF Crash, TypeOK
<1>4. ASSUME NEW h \in Handlers, HandlerStep(h) PROVE Attended(a)'
  <2>1. PICK s \in Entry : s = handler[h].entry
    BY DEF TypeOK, Handler
  <2>2. PICK b \in Bindings : b = handler[h].req.binding
    BY DEF TypeOK, Handler, Request
  <2>3. revision \in Nat /\ revision + 1 \in Nat
    BY DEF TypeOK
  <2>4. Steady(handler[h])
    BY DEF BindingInv
  <2>5. CASE \/ \E fate : GetDirectoryInstance(h, fate) \/ OpenInstance(h, fate)
             \/ OpenBind(h) \/ OpenUnbind(h) \/ OpenFails(h) \/ PrepareFails(h)
    <3>1. ~Running(handler[h]) /\ UNCHANGED secrets
      BY <2>5 DEF GetDirectoryInstance, OpenInstance, OpenBind, OpenUnbind,
                  OpenFails, PrepareFails, Running
    <3>2. Alone(h)
      <4>1. CASE \E fate : GetDirectoryInstance(h, fate)
        BY <4>1 DEF GetDirectoryInstance, Alone, TypeOK
      <4>2. CASE \E fate : OpenInstance(h, fate)
        <5>1. CASE handler' = [handler EXCEPT
                                ![h] = [@ EXCEPT !.pc = "open", !.instance = instance]]
          BY <5>1 DEF Alone, TypeOK
        <5> QED
          BY <4>2, <5>1, Moves DEF OpenInstance
      <4>3. CASE OpenBind(h) \/ OpenUnbind(h) \/ OpenFails(h) \/ PrepareFails(h)
        BY <4>3, Moves DEF OpenBind, OpenUnbind, OpenFails, PrepareFails
      <4> QED
        BY <2>5, <4>1, <4>2, <4>3
    <3> QED
      BY <3>1, <3>2, OthersRunning, AttendedKept
  <2>6. ASSUME NEW fate, CommitBinding(h, fate) PROVE Attended(a)'
    <3>1. ~Running(handler[h]) /\ Alone(h)
      BY <2>6, Moves DEF CommitBinding, Running
    <3>2. CASE UNCHANGED secrets
      BY <3>1, <3>2, OthersRunning, AttendedKept
    <3>3. CASE secrets' = [secrets EXCEPT ![b] = Committed(s, revision + 1)]
      <4>1. CASE a = b
        <5>1. ~s.exists
          BY <2>1, <2>4, <2>6 DEF Steady, HoldsEntry, CommitBinding
        <5>2. secrets'[a].uid = revision + 1 /\ secrets'[a].rv = revision + 1
          BY <3>3, <4>1, <5>1 DEF TypeOK, Committed, Entry
        <5> QED
          BY <5>2 DEF Attended
      <4>2. CASE a # b
        BY <3>1, <3>3, <4>2, OthersRunning, AttendedKept DEF TypeOK
      <4> QED
        BY <4>1, <4>2
    <3> QED
      BY <2>1, <2>2, <2>6, <3>2, <3>3 DEF CommitBinding, Commit
  <2>7. ASSUME NEW fate, StartBinding(h, fate) PROVE Attended(a)'
    <3>1. ~Running(handler[h]) /\ Alone(h)
      BY <2>7, Moves DEF StartBinding, Running
    <3>2. CASE UNCHANGED secrets
      BY <3>1, <3>2, OthersRunning, AttendedKept
    <3>3. CASE ~UNCHANGED secrets
      <4>1. PICK e \in Entry : e = Start(s, "provision", revision + 1)
        BY <2>3, EntryTypes DEF OpType
      <4>2. PICK c \in Entry : c = Committed(e, revision + 1)
        BY <2>3, EntryTypes
      <4>3. Fate(fate) /\ Commit(h, e, fate) /\ Applied(h, e, fate)
        BY <2>1, <2>7, <3>3, <4>1 DEF StartBinding, Commit
      <4>4. fate = "ok"
        BY <4>3, NoFault
      <4>5. GotoWith(h, "run", c)
        BY <2>1, <2>7, <3>3, <4>1, <4>2, <4>3, <4>4 DEF StartBinding
      <4>6. secrets' = [secrets EXCEPT ![b] = c]
        BY <2>2, <4>2, <4>3 DEF Commit
      <4>7. CASE a = b
        <5>1. Running(handler[h])' /\ handler'[h].entry.uid = secrets'[a].uid
          BY <4>5, <4>6, <4>7, Moves DEF Running, TypeOK
        <5> QED
          BY <5>1 DEF Attended
      <4>8. CASE a # b
        BY <3>1, <4>6, <4>8, OthersRunning, AttendedKept DEF TypeOK
      <4> QED
        BY <4>7, <4>8
    <3> QED
      BY <3>2, <3>3
  <2>8. ASSUME NEW fate, RunCreator(h, fate) PROVE Attended(a)'
    <3>1. /\ \A g \in Handlers :
                Running(handler[g]) => /\ Running(handler[g])'
                                       /\ handler'[g].entry.uid = handler[g].entry.uid
          /\ Running(handler[h])
      BY <2>8 DEF RunCreator, TypeOK, Handler, Running
    <3>2. secrets' = secrets
      BY <2>8 DEF RunCreator
    <3> QED
      BY <3>1, <3>2 DEF Attended
  <2>9. ASSUME NEW fate, CompleteBinding(h, fate) PROVE Attended(a)'
    <3>1. PICK e \in Entry : e = Complete(s, IF handler[h].error THEN "error" ELSE "ok")
      BY EntryTypes DEF Status
    <3>2. e.exists = s.exists /\ e.uid = s.uid /\ e.rv = s.rv
      BY <3>1 DEF Complete, Entry
    <3>3. Working(handler[h]) /\ s.exists
      BY <2>1, <2>4, <2>9 DEF CompleteBinding, Steady, HoldsEntry, Working
    <3>4. PICK c \in Entry : c = Committed(e, revision + 1)
      BY <2>3, EntryTypes
    <3>5. c.uid = s.uid
      BY <3>2, <3>3, <3>4 DEF Committed, Entry
    <3>6. PICK d \in {c, e} : GotoWith(h, "end", d)
      BY <2>1, <2>9, <3>1, <3>4 DEF CompleteBinding
    <3>7. /\ Alone(h) /\ Running(handler[h])'
          /\ handler'[h].entry.uid = s.uid
      BY <2>9, <3>2, <3>5, <3>6, Moves DEF CompleteBinding, Running
    <3>8. \A g \in Handlers :
             Running(handler[g]) => /\ Running(handler[g])'
                                    /\ handler'[g].entry.uid = handler[g].entry.uid
      BY <2>1, <3>7 DEF Alone, Running
    <3>9. CASE UNCHANGED secrets
      BY <3>7, <3>8, <3>9, AttendedKept
    <3>10. CASE secrets' = [secrets EXCEPT ![b] = c]
      <4>1. CASE a = b
        <5>1. secrets'[a].uid = s.uid
          BY <3>5, <3>10, <4>1 DEF TypeOK
        <5> QED
          BY <3>7, <5>1 DEF Attended
      <4>2. CASE a # b
        BY <3>7, <3>8, <3>10, <4>2, AttendedKept DEF TypeOK
      <4> QED
        BY <4>1, <4>2
    <3> QED
      BY <2>1, <2>2, <2>9, <3>1, <3>4, <3>9, <3>10 DEF CompleteBinding, Commit
  <2>10. ASSUME NEW fate, EndBinding(h, fate) PROVE Attended(a)'
    <3>1. Working(handler[h])
      BY <2>10 DEF EndBinding, Working
    <3>2. Alone(h)
      BY <2>1, <2>2, <2>10, EndEffect, Moves
    <3>3. secrets[a].uid = s.uid => a = b
      BY <2>1, <2>2, <2>4, <3>1 DEF Steady, OwnIncarnation
    <3>4. /\ secrets'[a] = secrets[a]
          /\ secrets[a].uid # s.uid
      <4>1. CASE secrets' = secrets /\ secrets[b].uid # s.uid
        BY <3>3, <4>1
      <4>2. CASE \E c \in Entry : /\ secrets' = [secrets EXCEPT ![b] = c]
                                  /\ c.op = "none"
        BY <3>3, <4>2 DEF TypeOK
      <4> QED
        BY <2>1, <2>2, <2>10, <4>1, <4>2, EndEffect
    <3>5. \A g \in Handlers :
             Running(handler[g]) /\ handler[g].entry.uid = secrets[a].uid =>
                 /\ Running(handler[g])'
                 /\ handler'[g].entry.uid = handler[g].entry.uid
      BY <2>1, <3>2, <3>4 DEF Alone, Running
    <3> QED
      BY <3>1, <3>4, <3>5, AttendedKept
  <2>11. ASSUME NEW fate, DeleteBinding(h, fate) PROVE Attended(a)'
    <3>1. ~Running(handler[h]) /\ Alone(h)
      BY <2>11, Moves DEF DeleteBinding, Running
    <3>2. secrets'[a] = secrets[a]
      BY <2>2, <2>11 DEF DeleteBinding, TypeOK, Absent
    <3> QED
      BY <3>1, <3>2, OthersRunning, AttendedKept
  <2> QED
    BY <1>4, <2>5, <2>6, <2>7, <2>8, <2>9, <2>10, <2>11 DEF HandlerStep
<1> QED
  BY <1>1, <1>2, <1>3, <1>4 DEF Next

(* As long as no call fails and the broker does not crash, the only        *)
(* operation of a binding that nobody will end is one that Entry.Inherit   *)
(* copied from the instance.                                               *)
THEOREM StuckOnlyIfInherited == Spec => []IdleOnlyIfInherited
<1>1. Init => IdleOnlyIfInherited
  BY DEF Init, IdleOnlyIfInherited, Absent
<1>2. TypeOK /\ BindingInv /\ IdleOnlyIfInherited /\ [Next]_vars => IdleOnlyIfInherited'
  <2> SUFFICES ASSUME TypeOK, BindingInv, IdleOnlyIfInherited, [Next]_vars
               PROVE  IdleOnlyIfInherited'
    OBVIOUS
  <2>1. CASE UNCHANGED vars
    BY <2>1 DEF vars, IdleOnlyIfInherited
  <2>2. CASE Next
    <3> SUFFICES ASSUME faults' = 0, crashes' = 0
                 PROVE  \A b \in Bindings : secrets'[b].op # "none" => Attended(b)'
      BY DEF IdleOnlyIfInherited, Attended, Running
    <3>1. faults = 0 /\ crashes = 0
      BY <2>2, CountsGrow
    <3>2. \A b \in Bindings : secrets[b].op # "none" => Attended(b)
      BY <3>1 DEF IdleOnlyIfInherited, Attended, Running
    <3> QED
      BY <2>2, <3>2, AttendedNext
  <2> QED
    BY <2>1, <2>2
<1> QED
  BY <1>1, <1>2, BindingInvariance, PTL DEF Spec
=============================================================================
