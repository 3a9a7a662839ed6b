------------------------- MODULE ServiceInstanceSteps ------------------------
(***************************************************************************)
(* Proofs of what the steps of ServiceInstance may do: the operation keys  *)
(* of the registry entries implement OperationLock, an entry is frozen     *)
(* while its operation is in progress, one poll at most is told an         *)
(* outcome, an incarnation is provisioned once, what is stored was         *)
(* validated, and a write of the directory changes one entry of it.        *)
(*                                                                         *)
(* The steps are sorted twice.  RegistryStep says what a step does to the  *)
(* registry: it registers an entry, starts, completes, acknowledges or     *)
(* removes with an operation of one entry, ends provisioners, or leaves    *)
(* all of it alone.  Moves says what it does to a handler.  With the       *)
(* inductive invariant of ServiceInstanceSafety, each property follows     *)
(* from these and the strengthening that its own section gives.            *)
(***************************************************************************)
EXTENDS ServiceInstanceSafety

-----------------------------------------------------------------------------
(* What a step may do to the registry and the provisioners.                *)

(* Write number revision + 1 stores n under k. *)
Stores(k, n) ==
    /\ secrets' = [secrets EXCEPT ![k] = n]
    /\ revision' = revision + 1
    /\ n.exists /\ n.rv = revision + 1

(* A commit leaves the attributes of the cached entry as they are. *)
SameData(n, e) == n.service = e.service /\ n.plan = e.plan /\ n.params = e.params

Quiet == UNCHANGED <<secrets, revision, workers, history, acked>>

Registers(k, n) ==
    /\ secrets[k] = Absent
    /\ Stores(k, n)
    /\ \E h \in Handlers : handler[h].pc = "create" /\ SameData(n, handler[h].entry)
    /\ n.op = "none" /\ n.opid = 0 /\ n.status = "unset" /\ n.uid = revision + 1
    /\ UNCHANGED <<workers, history, acked>>

(* The cached copy of a handler at operation.Start is the stored entry, up *)
(* to the parameters.                                                      *)
StartsFor(h, k, n) ==
    LET c == handler[h].entry
    IN  /\ handler[h].pc = "start" /\ k = KeyOf(h)
        /\ n.op = OperationOf(handler[h].req)
        /\ n.opid = revision + 1 /\ n.uid = c.uid /\ SameData(n, c)
        /\ secrets[k] = [c EXCEPT !.params = secrets[k].params]

Begins(k, n) ==
    /\ secrets[k].exists /\ secrets[k].op = "none"
    /\ \E h \in Handlers : StartsFor(h, k, n)
    /\ Stores(k, n)
    /\ n.op \in OpType /\ n.status = "unset" /\ n.uid = secrets[k].uid
    /\ workers' = workers \/ workers' = workers \cup {[key |-> k, entry |-> n]}
    /\ UNCHANGED <<history, acked>>

Acknowledges(k, n) ==
    /\ secrets[k].exists /\ secrets[k].op # "none" /\ secrets[k].status # "unset"
    /\ Stores(k, n)
    /\ \E h \in Handlers : handler[h].pc = "end" /\ SameData(n, handler[h].entry)
    /\ n.op = "none" /\ n.opid = 0 /\ n.status = "unset" /\ n.uid = secrets[k].uid
    /\ acked' = acked \cup {secrets[k].opid}
    /\ UNCHANGED <<workers, history>>

(* The provisioner w ends and reports s. *)
Ends(w, s) ==
    /\ workers' = workers \ {w}
    /\ history' = history \cup {Finished(w, s)}
    /\ UNCHANGED acked

Finishes(w, s) ==
    /\ Ends(w, s)
    /\ Stores(w.key, Committed(Complete(w.entry, s), revision + 1))

Removes(w) ==
    /\ w.entry.op = "deprovision"
    /\ Ends(w, "ok")
    /\ secrets' = [secrets EXCEPT ![w.key] = Absent]
    /\ UNCHANGED revision

Dies(w, s) ==
    /\ Ends(w, s)
    /\ UNCHANGED <<secrets, revision>>

AllDie ==
    /\ workers' = {}
    /\ UNCHANGED <<secrets, revision, history, acked>>

RegistryStep ==
    \/ Quiet
    \/ \E k \in Keys : \E n \in Entry :
          Registers(k, n) \/ Begins(k, n) \/ Acknowledges(k, n)
    \/ \E w \in workers : \E s \in {"ok", "error"} : Finishes(w, s) \/ Dies(w, s)
    \/ \E w \in workers : Removes(w)
    \/ AllDie

(* Entry.Commit of a new entry registers it, or does nothing. *)
LEMMA CommitNewKind ==
    ASSUME TypeOK, Inv, NEW h \in Handlers, NEW fate \in Fates, CommitNew(h, fate)
    PROVE  RegistryStep
<1>0. /\ KeyOf(h) \in Keys /\ handler[h].entry \in Entry
      /\ revision \in Nat /\ revision + 1 \in Nat
  BY HandlerTypes
<1>k. PICK k \in Keys : k = KeyOf(h)
  BY <1>0
<1>e. PICK e \in Entry : e = handler[h].entry
  BY <1>0
<1>n. PICK n \in Entry : n = Committed(e, revision + 1)
  BY <1>0, EntryTypes
<1>1. ~e.exists /\ e.op = "none" /\ e.opid = 0 /\ e.status = "unset"
  BY <1>e DEF CommitNew, Inv, CacheCoherent, HandlerCoherent
<1>2. UNCHANGED <<workers, history, acked>>
  BY DEF CommitNew
<1>3. \/ UNCHANGED <<secrets, revision>>
      \/ CommitAccepted(secrets[k], e) /\ Write(k, e)
  BY <1>k, <1>e DEF CommitNew
<1>4. CASE UNCHANGED <<secrets, revision>>
  BY <1>2, <1>4 DEF RegistryStep, Quiet
<1>5. CASE CommitAccepted(secrets[k], e) /\ Write(k, e)
  <2>1. secrets[k] = Absent
    BY <1>1, <1>5 DEF CommitAccepted, Inv, StoredConsistent, EntryConsistent
  <2>2. secrets' = [secrets EXCEPT ![k] = n] /\ revision' = revision + 1
    BY <1>5, <1>n DEF Write
  <2>3. /\ n.exists /\ n.rv = revision + 1 /\ n.uid = revision + 1
        /\ n.op = "none" /\ n.opid = 0 /\ n.status = "unset" /\ SameData(n, e)
    BY <1>0, <1>1, <1>n DEF Committed, Entry, SameData
  <2>4. handler[h].pc = "create" /\ SameData(n, handler[h].entry)
    BY <1>e, <2>3 DEF CommitNew
  <2>5. Registers(k, n)
    BY <1>2, <2>1, <2>2, <2>3, <2>4 DEF Registers, Stores
  <2> QED
    BY <2>5 DEF RegistryStep
<1> QED
  BY <1>3, <1>4, <1>5

(* operation.Start begins an operation, or does nothing. *)
LEMMA StartKind ==
    ASSUME TypeOK, Inv, NEW h \in Handlers, NEW fate \in Fates,
           StartOperation(h, fate)
    PROVE  RegistryStep
<1>0. /\ KeyOf(h) \in Keys /\ handler[h].entry \in Entry
      /\ revision \in Nat /\ revision + 1 \in Nat
      /\ OperationOf(handler[h].req) \in OpType
  BY HandlerTypes DEF OperationOf, OpType
<1>k. PICK k \in Keys : k = KeyOf(h)
  BY <1>0
<1>c. PICK c \in Entry : c = handler[h].entry
  BY <1>0
<1>o. PICK op \in OpType : op = OperationOf(handler[h].req)
  BY <1>0
<1>e. PICK e \in Entry : e = Start(c, op, revision + 1)
  BY <1>0, EntryTypes
<1>n. PICK n \in Entry : n = Committed(e, revision + 1)
  BY <1>0, EntryTypes
<1>1. secrets[k] \in Entry /\ handler[h].pc = "start"
  BY DEF TypeOK, StartOperation
<1>2. UNCHANGED <<history, acked>>
  BY DEF StartOperation
<1>3. \/ UNCHANGED <<secrets, revision, workers>>
      \/ /\ ~StartRefused(c) /\ CommitAccepted(secrets[k], e) /\ Write(k, e)
         /\ \/ UNCHANGED workers
            \/ workers' = workers \cup {[key |-> k, entry |-> n]}
  BY <1>k, <1>c, <1>o, <1>e, <1>n DEF StartOperation
<1>4. CASE UNCHANGED <<secrets, revision, workers>>
  BY <1>2, <1>4 DEF RegistryStep, Quiet
<1>5. ASSUME ~StartRefused(c), CommitAccepted(secrets[k], e), Write(k, e),
             \/ UNCHANGED workers
             \/ workers' = workers \cup {[key |-> k, entry |-> n]}
      PROVE  RegistryStep
  <2>1. secrets' = [secrets EXCEPT ![k] = n] /\ revision' = revision + 1
    BY <1>5, <1>n DEF Write
  <2>2. /\ e.exists = c.exists /\ e.rv = c.rv /\ e.op = op /\ e.uid = c.uid
        /\ e.opid = revision + 1 /\ e.status = c.status /\ SameData(e, c)
    BY <1>e DEF Start, Entry, SameData
  <2>3. /\ c.exists
        /\ c.rv = secrets[k].rv => secrets[k] = [c EXCEPT !.params = secrets[k].params]
    BY <1>k, <1>c, <1>1 DEF Inv, CacheCoherent, HandlerCoherent
  <2>4. secrets[k] = [c EXCEPT !.params = secrets[k].params]
    BY <2>2, <2>3, <1>5 DEF CommitAccepted
  <2>5. /\ secrets[k].op = "none" /\ secrets[k].exists
        /\ c.status = secrets[k].status /\ c.uid = secrets[k].uid
    BY <2>3, <2>4, <1>5 DEF StartRefused, Entry
  <2>6. secrets[k].status = "unset"
    BY <2>5, <1>1 DEF Inv, StoredConsistent, EntryConsistent, Entry
  <2>7. /\ n.exists /\ n.rv = revision + 1 /\ n.op = op /\ n.uid = c.uid
        /\ n.opid = revision + 1 /\ n.status = "unset" /\ SameData(n, c)
    BY <1>n, <2>2, <2>3, <2>5, <2>6 DEF Committed, Entry, SameData
  <2>8. StartsFor(h, k, n)
    BY <1>1, <1>k, <1>c, <1>o, <2>4, <2>7 DEF StartsFor
  <2>9. Begins(k, n)
    BY <1>2, <1>5, <2>1, <2>5, <2>7, <2>8 DEF Begins, Stores
  <2> QED
    BY <2>9 DEF RegistryStep
<1> QED
  BY <1>3, <1>4, <1>5

(* operation.End acknowledges an outcome, or does nothing. *)
LEMMA EndKind ==
    ASSUME TypeOK, Inv, NEW h \in Handlers, NEW fate \in Fates,
           EndOperation(h, fate)
    PROVE  /\ RegistryStep
           /\ \A p \in reply' :
                 p.state \in {"succeeded", "failed"} => p.opid \notin acked
<1>0. KeyOf(h) \in Keys /\ handler[h].entry \in Entry
      /\ revision \in Nat /\ revision + 1 \in Nat
  BY HandlerTypes
<1>k. PICK k \in Keys : k = KeyOf(h)
  BY <1>0
<1>c. PICK c \in Entry : c = handler[h].entry
  BY <1>0
<1>e. PICK e \in Entry : e = End(c)
  BY <1>0, EntryTypes
<1>n. PICK n \in Entry : n = Committed(e, revision + 1)
  BY <1>0, EntryTypes
<1>1. secrets[k] \in Entry
  BY DEF TypeOK
<1>2. UNCHANGED <<workers, history>>
  BY DEF EndOperation
<1>3. \/ Fail(h, 500) /\ UNCHANGED <<secrets, revision, acked>>
      \/ /\ CommitAccepted(secrets[k], e) /\ Write(k, e)
         /\ acked' = acked \cup {c.opid}
         /\ \/ Fail(h, 500)
            \/ Respond(h, 200, IF c.status = "ok" THEN "succeeded" ELSE "failed",
                       c.opid, c.uid)
  BY <1>k, <1>c, <1>e DEF EndOperation
<1>4. CASE Fail(h, 500) /\ UNCHANGED <<secrets, revision, acked>>
  BY <1>2, <1>4, FailShape DEF RegistryStep, Quiet, NoOutcome
<1>5. ASSUME CommitAccepted(secrets[k], e), Write(k, e), acked' = acked \cup {c.opid},
             \/ Fail(h, 500)
             \/ Respond(h, 200, IF c.status = "ok" THEN "succeeded" ELSE "failed",
                        c.opid, c.uid)
      PROVE  /\ RegistryStep
             /\ \A p \in reply' :
                   p.state \in {"succeeded", "failed"} => p.opid \notin acked
  <2>1. secrets' = [secrets EXCEPT ![k] = n] /\ revision' = revision + 1
    BY <1>5, <1>n DEF Write
  <2>2. /\ e.exists = c.exists /\ e.rv = c.rv /\ e.op = "none"
        /\ e.opid = 0 /\ e.status = "unset" /\ e.uid = c.uid /\ SameData(e, c)
    BY <1>e DEF End, Entry, SameData
  <2>3. /\ c.exists /\ c.opid # 0 /\ c.status # "unset"
        /\ (c.rv = secrets[k].rv => secrets[k] = [c EXCEPT !.params = secrets[k].params])
    BY <1>k, <1>c DEF EndOperation, Inv, CacheCoherent, HandlerCoherent
  <2>4. secrets[k] = [c EXCEPT !.params = secrets[k].params]
    BY <2>2, <2>3, <1>5 DEF CommitAccepted
  <2>5. /\ secrets[k].exists /\ secrets[k].opid = c.opid
        /\ secrets[k].status # "unset" /\ secrets[k].uid = c.uid
    BY <2>3, <2>4 DEF Entry
  <2>6. secrets[k].op # "none"
    BY <2>5, <1>1 DEF Inv, StoredConsistent, EntryConsistent
  <2>7. /\ n.exists /\ n.rv = revision + 1 /\ n.op = "none" /\ n.uid = c.uid
        /\ n.opid = 0 /\ n.status = "unset" /\ SameData(n, c)
    BY <1>n, <2>2, <2>3 DEF Committed, Entry, SameData
  <2>a. handler[h].pc = "end" /\ SameData(n, handler[h].entry)
    BY <1>c, <2>7 DEF EndOperation
  <2>8. Acknowledges(k, n)
    BY <1>2, <1>5, <2>1, <2>5, <2>6, <2>7, <2>a DEF Acknowledges, Stores
  <2>9. c.opid \notin acked
    BY <2>5 DEF Inv, NeverResurrected
  <2>10. \A p \in reply' :
            p.state \in {"succeeded", "failed"} => p.opid \notin acked
    <3>1. CASE Fail(h, 500)
      BY <3>1, FailShape DEF NoOutcome
    <3>2. CASE Respond(h, 200, IF c.status = "ok" THEN "succeeded" ELSE "failed",
                       c.opid, c.uid)
      BY <2>9, <3>2, RespondShape
    <3> QED
      BY <1>5, <3>1, <3>2
  <2> QED
    BY <2>8, <2>10 DEF RegistryStep
<1> QED
  BY <1>3, <1>4, <1>5

(* A provisioner ends with or without its last write.  It holds its entry, *)
(* so its Complete is of what is stored.                                   *)
LEMMA WorkerKind ==
    ASSUME TypeOK, Inv, NEW w \in workers, WorkerStep(w)
    PROVE  RegistryStep /\ reply' = {}
<1>0. w \in Worker /\ w.key \in Keys /\ w.entry \in Entry
      /\ revision \in Nat /\ revision + 1 \in Nat
  BY DEF TypeOK, Worker
<1>1. ASSUME NEW s \in {"ok", "error"}, NEW fate \in Fates,
             CompleteOperation(w, s, fate)
      PROVE  RegistryStep /\ reply' = {}
  <2>1. Ends(w, s) /\ reply' = {}
    BY <1>1 DEF CompleteOperation, Ends
  <2>2. PICK e \in Entry : e = Complete(w.entry, s)
    BY <1>0, EntryTypes DEF Status
  <2>3. PICK n \in Entry : n = Committed(e, revision + 1)
    BY <1>0, EntryTypes
  <2>4. n.exists /\ n.rv = revision + 1
    BY <1>0, <2>3 DEF Committed, Entry
  <2>5. \/ UNCHANGED <<secrets, revision>>
        \/ secrets' = [secrets EXCEPT ![w.key] = n] /\ revision' = revision + 1
    BY <1>1, <2>2, <2>3 DEF CompleteOperation, Write
  <2>6. Finishes(w, s) \/ Dies(w, s)
    BY <2>1, <2>2, <2>3, <2>4, <2>5 DEF Finishes, Dies, Stores
  <2> QED
    BY <2>1, <2>6 DEF RegistryStep
<1>2. ASSUME NEW fate \in Fates, DeleteEntry(w, fate)
      PROVE  RegistryStep /\ reply' = {}
  <2>1. reply' = {} /\ w.entry.op = "deprovision" /\ UNCHANGED <<revision, acked>>
        /\ workers' = workers \ {w}
    BY <1>2 DEF DeleteEntry
  <2>2. CASE fate = "lost"
    <3>1. Dies(w, "error")
      BY <1>2, <2>1, <2>2 DEF DeleteEntry, Dies, Ends
    <3> QED
      BY <2>1, <3>1 DEF RegistryStep
  <2>3. CASE fate # "lost"
    <3>1. Removes(w)
      BY <1>2, <2>1, <2>3 DEF DeleteEntry, Removes, Ends
    <3> QED
      BY <2>1, <3>1 DEF RegistryStep
  <2> QED
    BY <2>2, <2>3
<1> QED
  BY <1>1, <1>2 DEF WorkerStep

(* A handler that only reads, or edits the directory, tells no outcome. *)
LEMMA QuietKind ==
    ASSUME TypeOK, NEW h \in Handlers,
           \/ \E r \in Requests, op \in issued \cup {0} : Receive(h, r, op)
           \/ \E fate \in Fates : \/ GetDirectoryInstance(h, fate)
                                  \/ NewDirectory(h, fate)
                                  \/ RegisterInstance(h, fate)
                                  \/ DeregisterInstance(h, fate)
           \/ OpenFails(h) \/ PrepareFails(h)
           \/ OpenCreate(h) \/ OpenRead(h) \/ OpenUpdate(h)
           \/ OpenDelete(h) \/ OpenPoll(h)
    PROVE  Quiet
BY DEF Quiet, Receive, GetDirectoryInstance, NewDirectory, RegisterInstance,
       DeregisterInstance, OpenFails, PrepareFails, OpenCreate, OpenRead,
       OpenUpdate, OpenDelete, OpenPoll, Opens

(* Every step of the broker is one of these. *)
LEMMA StepKinds == TypeOK /\ Inv /\ [Next]_vars => RegistryStep
<1> SUFFICES ASSUME TypeOK, Inv, [Next]_vars PROVE RegistryStep
  OBVIOUS
<1>1. ASSUME NEW h \in Handlers, ClientStep(h) PROVE RegistryStep
  BY <1>1, QuietKind DEF ClientStep, RegistryStep
<1>2. ASSUME NEW h \in Handlers, HandlerStep(h) PROVE RegistryStep
  <2>1. {"ok", "lost"} \subseteq Fates
    BY DEF Fates
  <2>2. CASE \/ \E fate \in Fates : \/ GetDirectoryInstance(h, fate)
                                    \/ NewDirectory(h, fate)
                                    \/ RegisterInstance(h, fate)
                                    \/ DeregisterInstance(h, fate)
             \/ OpenFails(h) \/ PrepareFails(h)
             \/ OpenCreate(h) \/ OpenRead(h) \/ OpenUpdate(h)
             \/ OpenDelete(h) \/ OpenPoll(h)
    BY <2>2, QuietKind DEF RegistryStep
  <2>3. CASE \E fate \in Fates : \/ CommitNew(h, fate)
                                 \/ StartOperation(h, fate)
                                 \/ EndOperation(h, fate)
    BY <2>3, CommitNewKind, StartKind, EndKind
  <2> QED
    BY <1>2, <2>1, <2>2, <2>3 DEF HandlerStep
<1>3. ASSUME NEW w \in workers, WorkerStep(w) PROVE RegistryStep
  BY <1>3, WorkerKind
<1>4. CASE Crash
  BY <1>4 DEF Crash, RegistryStep, AllDie
<1>5. CASE UNCHANGED vars
  BY <1>5 DEF vars, RegistryStep, Quiet
<1> QED
  BY <1>1, <1>2, <1>3, <1>4, <1>5 DEF Next

-----------------------------------------------------------------------------
(* The entry of an operation in progress.                                  *)

(* No step writes the entry of an operation in progress but the one that   *)
(* records its outcome and the one that deletes the instance.              *)
THEOREM FrozenWhileInProgress == Spec => FrozenInProgress
<1>1. ASSUME TypeOK, Inv, [Next]_vars, NEW k \in Keys,
             secrets[k].op # "none", secrets[k].status = "unset"
      PROVE  \/ secrets'[k] = secrets[k]
             \/ secrets'[k] = Absent /\ secrets[k].op = "deprovision"
             \/ \E s \in {"ok", "error"} :
                   secrets'[k] = Committed(Complete(secrets[k], s), revision')
  <2>0. secrets \in [Keys -> Entry]
    BY <1>1 DEF TypeOK
  <2>1. CASE Quiet \/ AllDie
    BY <2>1 DEF Quiet, AllDie
  <2>2. ASSUME NEW j \in Keys, NEW n \in Entry,
               Registers(j, n) \/ Begins(j, n) \/ Acknowledges(j, n)
        PROVE  secrets'[k] = secrets[k]
    <3>1. j # k
      BY <1>1, <2>2 DEF Registers, Begins, Acknowledges, Absent
    <3>2. secrets' = [secrets EXCEPT ![j] = n]
      BY <2>2 DEF Registers, Begins, Acknowledges, Stores
    <3> QED
      BY <2>0, <3>1, <3>2
  <2>3. ASSUME NEW w \in workers, NEW s \in {"ok", "error"}, Finishes(w, s)
        PROVE  \/ secrets'[k] = secrets[k]
               \/ secrets'[k] = Committed(Complete(secrets[k], s), revision')
    <3>1. w.key \in Keys /\ secrets[w.key] = w.entry
      BY <1>1 DEF TypeOK, Worker, Inv, WorkerHoldsEntry
    <3>2. PICK n : n = Committed(Complete(w.entry, s), revision + 1)
      OBVIOUS
    <3>3. secrets' = [secrets EXCEPT ![w.key] = n] /\ revision' = revision + 1
      BY <2>3, <3>2 DEF Finishes, Stores
    <3>4. CASE w.key = k
      BY <2>0, <3>1, <3>2, <3>3, <3>4
    <3>5. CASE w.key # k
      BY <2>0, <3>1, <3>3, <3>5
    <3> QED
      BY <3>4, <3>5
  <2>4. ASSUME NEW w \in workers, NEW s \in {"ok", "error"}, Dies(w, s)
        PROVE  secrets'[k] = secrets[k]
    BY <2>4 DEF Dies
  <2>5. ASSUME NEW w \in workers, Removes(w)
        PROVE  \/ secrets'[k] = secrets[k]
               \/ secrets'[k] = Absent /\ secrets[k].op = "deprovision"
    <3>1. w.key \in Keys /\ secrets[w.key] = w.entry
      BY <1>1 DEF TypeOK, Worker, Inv, WorkerHoldsEntry
    <3> QED
      BY <2>0, <2>5, <3>1 DEF Removes
  <2> QED
    BY <1>1, <2>1, <2>2, <2>3, <2>4, <2>5, StepKinds DEF RegistryStep
<1>2. TypeOK /\ Inv /\ [Next]_vars =>
        [\A k \in Keys :
           secrets[k].op # "none" /\ secrets[k].status = "unset" =>
             \/ secrets'[k] = secrets[k]
             \/ secrets'[k] = Absent /\ secrets[k].op = "deprovision"
             \/ \E s \in {"ok", "error"} :
                   secrets'[k] = Committed(Complete(secrets[k], s), revision')]_vars
  BY <1>1
<1> QED
  BY <1>2, TypeCorrect, Invariance, PTL DEF Spec, FrozenInProgress

-----------------------------------------------------------------------------
(* The refinement.                                                         *)

(* What a write of one entry does to the lock's phase and current. *)
LEMMA BarWrite ==
    ASSUME TypeOK, NEW k \in Keys, NEW n \in Entry,
           secrets' = [secrets EXCEPT ![k] = n]
    PROVE  /\ PhaseBar' = [PhaseBar EXCEPT ![k] = Phase(n)]
           /\ CurrentBar' = [CurrentBar EXCEPT ![k] = n.opid]
<1>1. secrets'[k] = n /\ \A j \in Keys \ {k} : secrets'[j] = secrets[j]
  BY DEF TypeOK
<1>2. \A j \in Keys : Phase(secrets'[j]) = IF j = k THEN Phase(n)
                                                  ELSE Phase(secrets[j])
  BY <1>1
<1>3. \A j \in Keys : secrets'[j].opid = IF j = k THEN n.opid ELSE secrets[j].opid
  BY <1>1
<1>4. PhaseBar' = [PhaseBar EXCEPT ![k] = Phase(n)]
  BY <1>2 DEF PhaseBar
<1> QED
  BY <1>3, <1>4 DEF CurrentBar

(* The phases of entries. *)
LEMMA Phases ==
    ASSUME NEW e \in Entry
    PROVE  /\ ~e.exists => Phase(e) = "absent"
           /\ e.exists /\ e.op = "none" => Phase(e) = "idle"
           /\ e.exists /\ e.op # "none" /\ e.status = "unset" => Phase(e) = "busy"
           /\ e.exists /\ e.op # "none" /\ e.status # "unset" => Phase(e) = "done"
BY DEF Phase, Entry

(* Of what is stored, the lock sees phase and ID. *)
LEMMA BarValues ==
    ASSUME NEW k \in Keys
    PROVE  PhaseBar[k] = Phase(secrets[k]) /\ CurrentBar[k] = secrets[k].opid
BY DEF PhaseBar, CurrentBar

(* The jobs of the lock are the running provisioners, one per entry.  *)
LEMMA JobsOf ==
    ASSUME TypeOK, Inv
    PROVE  /\ \A w \in workers : /\ w.key \in Keys
                                 /\ JobsBar[w.key] = {w.entry.opid}
                                 /\ w.entry.opid = secrets[w.key].opid
                                 /\ Phase(secrets[w.key]) = "busy"
           /\ \A k \in Keys : (\A w \in workers : w.key # k) => JobsBar[k] = {}
<1>1. ASSUME NEW w \in workers
      PROVE  /\ w.key \in Keys /\ w.entry.opid = secrets[w.key].opid
             /\ Phase(secrets[w.key]) = "busy"
  <2>1. w.key \in Keys /\ secrets[w.key] = w.entry /\ w.entry \in Entry
    BY DEF TypeOK, Worker, Inv, WorkerHoldsEntry
  <2>2. w.entry.exists /\ w.entry.op # "none" /\ w.entry.status = "unset"
    BY DEF Inv, WorkerHoldsEntry
  <2> QED
    BY <2>1, <2>2, Phases
<1>2. ASSUME NEW w \in workers PROVE JobsBar[w.key] = {w.entry.opid}
  <2>1. \A v \in workers : v.key = w.key => v = w
    BY OtherWorkers
  <2>2. {v \in workers : v.key = w.key} = {w}
    BY <2>1
  <2> QED
    BY <1>1, <2>2 DEF JobsBar
<1>3. ASSUME NEW k \in Keys, \A w \in workers : w.key # k PROVE JobsBar[k] = {}
  BY <1>3 DEF JobsBar
<1> QED
  BY <1>1, <1>2, <1>3

(* A provisioner that starts is the only job of its entry. *)
LEMMA JobStarts ==
    ASSUME TypeOK, Inv, NEW k \in Keys, NEW n \in Entry,
           \A w \in workers : w.key # k,
           workers' = workers \cup {[key |-> k, entry |-> n]}
    PROVE  JobsBar' = [JobsBar EXCEPT ![k] = {n.opid}]
<1>1. {v \in workers' : v.key = k} = {[key |-> k, entry |-> n]}
  OBVIOUS
<1>2. \A j \in Keys \ {k} : {v \in workers' : v.key = j} = {v \in workers : v.key = j}
  OBVIOUS
<1>3. {w.entry.opid : w \in {v \in workers' : v.key = k}} = {n.opid}
  <2>1. {w.entry.opid : w \in {[key |-> k, entry |-> n]}} = {n.opid}
    OBVIOUS
  <2> QED
    BY <1>1, <2>1
<1>4. \A j \in Keys \ {k} : {u.entry.opid : u \in {v \in workers' : v.key = j}}
                          = {u.entry.opid : u \in {v \in workers : v.key = j}}
  BY <1>2
<1> QED
  BY <1>3, <1>4 DEF JobsBar

(* The entry of a provisioner that ends has no job left. *)
LEMMA JobEnds ==
    ASSUME TypeOK, Inv, NEW w \in workers, workers' = workers \ {w}
    PROVE  JobsBar' = [JobsBar EXCEPT ![w.key] = {}]
<1>0. w.key \in Keys
  BY DEF TypeOK, Worker
<1>1. {v \in workers' : v.key = w.key} = {}
  BY OtherWorkers
<1>2. \A j \in Keys \ {w.key} :
         {v \in workers' : v.key = j} = {v \in workers : v.key = j}
  OBVIOUS
<1>3. {u.entry.opid : u \in {v \in workers' : v.key = w.key}} = {}
  BY <1>1
<1>4. \A j \in Keys \ {w.key} : {u.entry.opid : u \in {v \in workers' : v.key = j}}
                              = {u.entry.opid : u \in {v \in workers : v.key = j}}
  BY <1>2
<1> QED
  BY <1>0, <1>3, <1>4 DEF JobsBar

(* Every kind of step is a step of the lock, or invisible to it. *)
LEMMA RegistryStepIsLockStep ==
    ASSUME TypeOK, Inv, RegistryStep
    PROVE  Lock!LockNext \/ UNCHANGED <<PhaseBar, CurrentBar, JobsBar>>
<1>0. secrets \in [Keys -> Entry] /\ revision \in Nat
      /\ \A k \in Keys : secrets[k].opid \in 0 .. revision
  BY DEF TypeOK, Inv, StoredConsistent, EntryConsistent, Entry
<1>1. CASE Quiet
  BY <1>1 DEF Quiet, PhaseBar, CurrentBar, JobsBar
<1>2. ASSUME NEW k \in Keys, NEW n \in Entry, Registers(k, n)
      PROVE  Lock!Register(k)
  <2>1. PhaseBar[k] = "absent" /\ CurrentBar[k] = 0
    BY <1>0, <1>2, BarValues, Phases DEF Registers, Absent
  <2>2. PhaseBar' = [PhaseBar EXCEPT ![k] = "idle"]
        /\ CurrentBar' = [CurrentBar EXCEPT ![k] = 0]
    BY <1>2, BarWrite, Phases DEF Registers, Stores
  <2>3. CurrentBar' = CurrentBar
    BY <2>1, <2>2 DEF CurrentBar
  <2>4. JobsBar' = JobsBar
    BY <1>2 DEF Registers, JobsBar
  <2> QED
    BY <2>1, <2>2, <2>3, <2>4 DEF Lock!Register
<1>3. ASSUME NEW k \in Keys, NEW n \in Entry, Begins(k, n)
      PROVE  Lock!Begin(k)
  <2>1. PhaseBar[k] = "idle"
    BY <1>0, <1>3, BarValues, Phases DEF Begins
  <2>2. PhaseBar' = [PhaseBar EXCEPT ![k] = "busy"]
        /\ CurrentBar' = [CurrentBar EXCEPT ![k] = n.opid]
    <3>1. Phase(n) = "busy" /\ secrets' = [secrets EXCEPT ![k] = n]
      BY <1>3, Phases DEF Begins, Stores, OpType
    <3> QED
      BY <3>1, BarWrite
  <2>3. n.opid = revision + 1
    BY <1>3 DEF Begins, StartsFor
  <2>4. n.opid \in Nat \ {0} /\ \A j \in Keys : CurrentBar[j] # n.opid
    BY <1>0, <2>3, BarValues
  <2>5. CurrentBar'[k] = n.opid
    BY <2>2 DEF CurrentBar
  <2>6. JobsBar' = JobsBar \/ JobsBar' = [JobsBar EXCEPT ![k] = {n.opid}]
    <3>1. \A w \in workers : w.key # k
      BY <1>3 DEF Begins, Inv, WorkerHoldsEntry
    <3>2. CASE workers' = workers
      BY <3>2 DEF JobsBar
    <3>3. CASE workers' = workers \cup {[key |-> k, entry |-> n]}
      BY <3>1, <3>3, JobStarts
    <3> QED
      BY <1>3, <3>2, <3>3 DEF Begins
  <2> QED
    BY <2>1, <2>2, <2>4, <2>5, <2>6 DEF Lock!Begin
<1>4. ASSUME NEW k \in Keys, NEW n \in Entry, Acknowledges(k, n)
      PROVE  Lock!Acknowledge(k)
  <2>1. PhaseBar[k] = "done"
    BY <1>0, <1>4, BarValues, Phases DEF Acknowledges
  <2>2. PhaseBar' = [PhaseBar EXCEPT ![k] = "idle"]
        /\ CurrentBar' = [CurrentBar EXCEPT ![k] = 0]
    BY <1>4, BarWrite, Phases DEF Acknowledges, Stores
  <2>3. JobsBar' = JobsBar
    BY <1>4 DEF Acknowledges, JobsBar
  <2> QED
    BY <2>1, <2>2, <2>3 DEF Lock!Acknowledge
<1>5. ASSUME NEW w \in workers, NEW s \in {"ok", "error"}, Ends(w, s)
      PROVE  /\ w.key \in Keys /\ w.entry \in Entry /\ secrets[w.key] = w.entry
             /\ w.entry.exists /\ w.entry.op # "none"
             /\ PhaseBar[w.key] = "busy" /\ JobsBar[w.key] = {CurrentBar[w.key]}
             /\ JobsBar' = [JobsBar EXCEPT ![w.key] = {}]
  <2>1. /\ w.key \in Keys /\ w.entry \in Entry /\ secrets[w.key] = w.entry
        /\ w.entry.exists /\ w.entry.op # "none"
    BY DEF TypeOK, Worker, Inv, WorkerHoldsEntry
  <2>2. PhaseBar[w.key] = "busy" /\ JobsBar[w.key] = {CurrentBar[w.key]}
    BY <2>1, JobsOf, BarValues
  <2>3. workers' = workers \ {w}
    BY <1>5 DEF Ends
  <2> QED
    BY <2>1, <2>2, <2>3, JobEnds
<1>6. ASSUME NEW w \in workers, NEW s \in {"ok", "error"}, Finishes(w, s)
      PROVE  Lock!Finish(w.key) /\ w.key \in Keys
  <2>1. Ends(w, s)
    BY <1>6 DEF Finishes
  <2>2. revision + 1 \in Nat /\ s \in Status
    BY <1>0 DEF Status
  <2>3. PICK e \in Entry : e = Complete(w.entry, s)
    BY <1>5, <2>1, <2>2, EntryTypes
  <2>4. PICK n \in Entry : n = Committed(e, revision + 1)
    BY <2>2, EntryTypes
  <2>5. n.exists /\ n.op = w.entry.op /\ n.opid = w.entry.opid /\ n.status = s
    <3>1. e.op = w.entry.op /\ e.opid = w.entry.opid /\ e.status = s
      BY <1>5, <2>1, <2>3 DEF Complete, Entry
    <3> QED
      BY <3>1, <2>4 DEF Committed, Entry
  <2>6. secrets' = [secrets EXCEPT ![w.key] = n]
    BY <1>6, <2>3, <2>4 DEF Finishes, Stores
  <2>7. Phase(n) = "done"
    BY <1>5, <2>1, <2>5, Phases
  <2>8. PhaseBar' = [PhaseBar EXCEPT ![w.key] = "done"]
        /\ CurrentBar' = [CurrentBar EXCEPT ![w.key] = n.opid]
    <3>1. PICK k \in Keys : k = w.key
      BY <1>5, <2>1
    <3>2. secrets' = [secrets EXCEPT ![k] = n]
      BY <2>6, <3>1
    <3> QED
      BY <2>7, <3>1, <3>2, BarWrite
  <2>9. CurrentBar' = CurrentBar
    <3>1. n.opid = CurrentBar[w.key]
      BY <1>5, <2>1, <2>5, BarValues
    <3> QED
      BY <2>8, <3>1 DEF CurrentBar
  <2> QED
    BY <1>5, <2>1, <2>8, <2>9 DEF Lock!Finish
<1>7. ASSUME NEW w \in workers, Removes(w)
      PROVE  Lock!Remove(w.key) /\ w.key \in Keys
  <2>1. Ends(w, "ok") /\ "ok" \in {"ok", "error"}
    BY <1>7 DEF Removes
  <2>2. secrets' = [secrets EXCEPT ![w.key] = Absent]
    BY <1>7 DEF Removes
  <2>3. Absent \in Entry /\ Phase(Absent) = "absent" /\ Absent.opid = 0
    <3>1. Absent \in Entry
      BY IdleType
    <3>2. ~Absent.exists /\ Absent.opid = 0
      BY DEF Absent
    <3> QED
      BY <3>1, <3>2, Phases
  <2>4. PhaseBar' = [PhaseBar EXCEPT ![w.key] = "absent"]
        /\ CurrentBar' = [CurrentBar EXCEPT ![w.key] = 0]
    <3>1. PICK k \in Keys : k = w.key
      BY <1>5, <2>1
    <3>2. secrets' = [secrets EXCEPT ![k] = Absent]
      BY <2>2, <3>1
    <3> QED
      BY <2>3, <3>1, <3>2, BarWrite
  <2> QED
    BY <1>5, <2>1, <2>4 DEF Lock!Remove
<1>8. ASSUME NEW w \in workers, NEW s \in {"ok", "error"}, Dies(w, s)
      PROVE  Lock!Die
  <2>1. Ends(w, s) /\ UNCHANGED secrets
    BY <1>8 DEF Dies
  <2>2. UNCHANGED <<PhaseBar, CurrentBar>>
    BY <2>1 DEF PhaseBar, CurrentBar
  <2>3. w.key \in Keys /\ JobsBar' = [JobsBar EXCEPT ![w.key] = {}]
    BY <1>5, <2>1
  <2> QED
    BY <2>2, <2>3 DEF Lock!Die
<1>9. CASE AllDie
  <2>1. UNCHANGED <<PhaseBar, CurrentBar>>
    BY <1>9 DEF AllDie, PhaseBar, CurrentBar
  <2>2. JobsBar' = [k \in Keys |-> {}]
    BY <1>9 DEF AllDie, JobsBar
  <2>3. Lock!Die
    BY <2>1, <2>2 DEF Lock!Die
  <2> QED
    BY <2>3 DEF Lock!LockNext
<1> QED
  BY <1>1, <1>2, <1>3, <1>4, <1>6, <1>7, <1>8, <1>9 DEF RegistryStep, Lock!LockNext

(* The registry entries' operation keys implement the lock, for any number *)
(* of instances, handlers, faults and crashes.                             *)
THEOREM RegistryImplementsLock == Spec => ImplementsLock
<1>1. Init => Lock!LockInit
  <2> SUFFICES ASSUME Init PROVE Lock!LockInit
    OBVIOUS
  <2>1. \A k \in Keys : secrets[k] = Absent
    BY DEF Init
  <2>2. Phase(Absent) = "absent" /\ Absent.opid = 0
    BY DEF Phase, Absent
  <2>3. PhaseBar = [k \in Keys |-> "absent"] /\ CurrentBar = [k \in Keys |-> 0]
    BY <2>1, <2>2 DEF PhaseBar, CurrentBar
  <2>4. JobsBar = [k \in Keys |-> {}]
    BY DEF Init, JobsBar
  <2> QED
    BY <2>3, <2>4 DEF Lock!LockInit
<1>2. TypeOK /\ Inv /\ [Next]_vars => [Lock!LockNext]_(Lock!lockVars)
  BY StepKinds, RegistryStepIsLockStep DEF Lock!lockVars
<1> QED
  BY <1>1, <1>2, TypeCorrect, Invariance, PTL
  DEF Spec, ImplementsLock, Lock!LockSpec

-----------------------------------------------------------------------------
(* Outcomes.                                                               *)

(* Only operation.End is followed by a response that tells an outcome. *)
LEMMA OutcomesElsewhere ==
    ASSUME TypeOK, NEW h \in Handlers,
           \/ \E r \in Requests, op \in issued \cup {0} : Receive(h, r, op)
           \/ \E fate \in Fates : \/ GetDirectoryInstance(h, fate)
                                  \/ NewDirectory(h, fate)
                                  \/ RegisterInstance(h, fate)
                                  \/ DeregisterInstance(h, fate)
                                  \/ CommitNew(h, fate)
                                  \/ StartOperation(h, fate)
           \/ OpenFails(h) \/ PrepareFails(h)
           \/ OpenCreate(h) \/ OpenRead(h) \/ OpenUpdate(h)
           \/ OpenDelete(h) \/ OpenPoll(h)
    PROVE  NoOutcome(reply')
<1>1. \/ reply' = {}
      \/ \E code : Fail(h, code)
      \/ \E code, opid, uid : Respond(h, code, "none", opid, uid)
      \/ \E code, opid, uid : Respond(h, code, "inProgress", opid, uid)
      \/ \E r \in Requests : reply' = {[req |-> r, code |-> Admission(r),
                                        state |-> "none", opid |-> 0, uid |-> 0]}
  <2>1. CASE \E r \in Requests, op \in issued \cup {0} : Receive(h, r, op)
    BY <2>1 DEF Receive
  <2>2. CASE \E fate \in Fates : \/ GetDirectoryInstance(h, fate)
                                 \/ DeregisterInstance(h, fate)
    BY <2>2 DEF GetDirectoryInstance, DeregisterInstance
  <2>3. CASE \E fate \in Fates : NewDirectory(h, fate)
    BY <2>3 DEF NewDirectory, Goto
  <2>4. CASE \E fate \in Fates : RegisterInstance(h, fate)
    BY <2>4 DEF RegisterInstance
  <2>5. CASE \E fate \in Fates : CommitNew(h, fate)
    BY <2>5 DEF CommitNew, GotoWith
  <2>6. CASE \E fate \in Fates : StartOperation(h, fate)
    BY <2>6 DEF StartOperation
  <2>7. CASE OpenFails(h) \/ PrepareFails(h)
    BY <2>7 DEF OpenFails, PrepareFails
  <2>8. CASE OpenCreate(h)
    BY <2>8 DEF OpenCreate, GotoWith
  <2>9. CASE OpenRead(h)
    BY <2>9 DEF OpenRead
  <2>10. CASE OpenUpdate(h)
    BY <2>10 DEF OpenUpdate, GotoWith
  <2>11. CASE OpenDelete(h)
    BY <2>11 DEF OpenDelete, GotoWith
  <2>12. CASE OpenPoll(h)
    BY <2>12 DEF OpenPoll, GotoWith
  <2> QED
    BY <2>1, <2>2, <2>3, <2>4, <2>5, <2>6, <2>7, <2>8, <2>9, <2>10, <2>11, <2>12
<1>2. CASE \E code : Fail(h, code)
  BY <1>2, FailShape
<1>3. CASE \E code, opid, uid : Respond(h, code, "none", opid, uid)
  BY <1>3, RespondShape
<1>4. CASE \E code, opid, uid : Respond(h, code, "inProgress", opid, uid)
  BY <1>4, RespondShape
<1> QED
  BY <1>1, <1>2, <1>3, <1>4 DEF NoOutcome

(* However many polls of one operation run at once, the outcome is told to *)
(* one of them: the Commit of operation.End is of the stored version, and  *)
(* what is stored carries no operation ID whose outcome was told before.   *)
THEOREM OneOutcomePerOperation == Spec => OutcomeToldOnce
<1>1. ASSUME TypeOK, Inv, Next
      PROVE  \A p \in reply' :
                p.state \in {"succeeded", "failed"} => p.opid \notin acked
  <2>1. ASSUME NEW h \in Handlers, ClientStep(h) PROVE NoOutcome(reply')
    BY <1>1, <2>1, OutcomesElsewhere DEF ClientStep
  <2>2. ASSUME NEW h \in Handlers, HandlerStep(h)
        PROVE  \/ NoOutcome(reply')
               \/ \E fate \in Fates : EndOperation(h, fate)
    <3>1. {"ok", "lost"} \subseteq Fates
      BY DEF Fates
    <3> QED
      BY <1>1, <2>2, <3>1, OutcomesElsewhere DEF HandlerStep
  <2>3. ASSUME NEW h \in Handlers, HandlerStep(h)
        PROVE  \A p \in reply' :
                  p.state \in {"succeeded", "failed"} => p.opid \notin acked
    BY <1>1, <2>2, <2>3, EndKind DEF NoOutcome
  <2>4. ASSUME NEW w \in workers, WorkerStep(w) PROVE NoOutcome(reply')
    BY <1>1, <2>4, WorkerKind DEF NoOutcome
  <2>5. CASE Crash
    BY <2>5 DEF Crash
  <2> QED
    BY <1>1, <2>1, <2>3, <2>4, <2>5 DEF Next, NoOutcome
<1>2. TypeOK /\ Inv /\ [Next]_vars =>
        [\A p \in reply' :
            p.state \in {"succeeded", "failed"} => p.opid \notin acked]_vars
  BY <1>1
<1> QED
  BY <1>2, TypeCorrect, Invariance, PTL DEF Spec, OutcomeToldOnce

-----------------------------------------------------------------------------
(* What a step may do to a handler.                                        *)

(* An idle handler takes an admitted request. *)
Takes(g) ==
    /\ Unladen(handler'[g])
    /\ handler'[g].req.type = "create" => Admission(handler'[g].req) = 200

(* A handler goes on with its request and caches an entry, or none. *)
Caches(g) ==
    LET r == handler[g].req
        s == secrets[KeyOf(g)]
        e == handler'[g].entry
    IN  /\ handler'[g].req = r
        /\ \/ Unladen(handler'[g])
           \/ handler'[g].pc = "create" /\ r.type = "create" /\ e = NewEntry(r)
           \/ /\ handler'[g].pc = "start" /\ handler[g].pc = "create"
              /\ e = Committed(handler[g].entry, revision + 1)
           \/ /\ handler'[g].pc = "start" /\ r.type = "update"
              /\ s.exists /\ UpdateValid(s, r)
              /\ e = [s EXCEPT !.params = Marshal(r.params)]
           \/ handler'[g].pc = "start" /\ r.type = "delete" /\ s.exists /\ e = s
           \/ handler'[g].pc = "end" /\ s.exists /\ e = s

Moves(g) == handler'[g] = handler[g] \/ handler'[g] = Idle \/ Takes(g) \/ Caches(g)

(* An operation ID makes no difference to the checks of a request. *)
LEMMA AdmissionIgnoresOp ==
    ASSUME NEW r \in Request, NEW op \in Nat
    PROVE  Admission([r EXCEPT !.op = op]) = Admission(r)
<1> DEFINE q == [r EXCEPT !.op = op]
<1>1. /\ q.type = r.type /\ q.async = r.async /\ q.service = r.service
      /\ q.plan = r.plan /\ q.context = r.context /\ q.params = r.params
  BY DEF Request, AnyRequest
<1> HIDE DEF q
<1>2. SP(q) = SP(r)
  BY <1>1 DEF SP
<1>3. Admission(q) = Admission(r)
  BY <1>1, <1>2 DEF Admission, AsyncRequired, Authorized, Mutating
<1> QED
  BY <1>3 DEF q

(* Every step of the broker moves every handler so. *)
LEMMA HandlerMoves ==
    ASSUME TypeOK, [Next]_vars, NEW g \in Handlers
    PROVE  Moves(g)
<1>0. handler \in [Handlers -> Handler] /\ handler[g] \in Handler
  BY DEF TypeOK
<1>1. ASSUME NEW h \in Handlers, NEW r \in Requests, NEW op \in issued \cup {0},
             Receive(h, r, op)
      PROVE  Moves(g)
  <2>1. CASE UNCHANGED handler
    BY <2>1 DEF Moves
  <2>2. CASE /\ Admission(r) = 200
             /\ handler' = [handler EXCEPT
                             ![h] = [@ EXCEPT !.pc = FirstCall(r),
                                              !.req = [r EXCEPT !.op = op]]]
    <3>1. r \in Request /\ op \in Nat
      BY RequestAssumption DEF TypeOK
    <3>2. Admission([r EXCEPT !.op = op]) = 200
      BY <2>2, <3>1, AdmissionIgnoresOp
    <3>3. CASE g = h
      <4>1. handler'[g].pc = FirstCall(r) /\ handler'[g].req = [r EXCEPT !.op = op]
        BY <1>0, <2>2, <3>3 DEF Handler
      <4>2. FirstCall(r) \in {"getDirectory", "lookup"}
        BY DEF FirstCall
      <4> QED
        BY <3>2, <4>1, <4>2 DEF Moves, Takes, Unladen
    <3>4. CASE g # h
      BY <1>0, <2>2, <3>4 DEF Moves
    <3> QED
      BY <3>3, <3>4
  <2> QED
    BY <1>1, <2>1, <2>2 DEF Receive
<1>2. ASSUME NEW h \in Handlers, NEW code, NEW state, NEW opid, NEW uid,
             Respond(h, code, state, opid, uid)
      PROVE  Moves(g)
  BY <1>2, RespondShape DEF Moves
<1>3. ASSUME NEW h \in Handlers, NEW code, Fail(h, code)
      PROVE  Moves(g)
  BY <1>3, FailShape DEF Moves
<1>4. ASSUME NEW h \in Handlers, NEW x,
             handler' = [handler EXCEPT ![h] = x], x.req = handler[h].req, Unladen(x)
      PROVE  Moves(g)
  BY <1>0, <1>4 DEF Moves, Caches
<1>5. ASSUME NEW h \in Handlers, NEW fate \in Fates,
             \/ GetDirectoryInstance(h, fate) \/ NewDirectory(h, fate)
             \/ RegisterInstance(h, fate) \/ DeregisterInstance(h, fate)
      PROVE  Moves(g)
  <2>0. handler[h] \in Handler
    BY <1>0
  <2>1. CASE GetDirectoryInstance(h, fate)
    <3>1. PICK loc, label : /\ label \in {"getDirectory", "open"}
                            /\ handler' = [handler EXCEPT
                                   ![h] = [@ EXCEPT !.loc = loc, !.pc = label]]
      BY <2>1 DEF GetDirectoryInstance
    <3>2. PICK x : x = [handler[h] EXCEPT !.loc = loc, !.pc = label]
      OBVIOUS
    <3>3. x.req = handler[h].req /\ Unladen(x) /\ handler' = [handler EXCEPT ![h] = x]
      BY <2>0, <3>1, <3>2 DEF Handler, Unladen
    <3> QED
      BY <1>4, <3>3
  <2>2. CASE NewDirectory(h, fate)
    <3>1. CASE handler' = [handler EXCEPT ![h] = [@ EXCEPT !.pc = "commitDirectory",
                                                           !.dir = directory]]
      <4>1. PICK x : x = [handler[h] EXCEPT !.pc = "commitDirectory",
                                            !.dir = directory]
        OBVIOUS
      <4>2. x.req = handler[h].req /\ Unladen(x) /\ handler' = [handler EXCEPT ![h] = x]
        BY <2>0, <3>1, <4>1 DEF Handler, Unladen
      <4> QED
        BY <1>4, <4>2
    <3>2. CASE Fail(h, 500)
      BY <1>3, <3>2
    <3>3. CASE Goto(h, "open")
      <4>1. PICK x : x = [handler[h] EXCEPT !.pc = "open"]
        OBVIOUS
      <4>2. x.req = handler[h].req /\ Unladen(x) /\ handler' = [handler EXCEPT ![h] = x]
        BY <2>0, <3>3, <4>1 DEF Handler, Unladen, Goto
      <4> QED
        BY <1>4, <4>2
    <3> QED
      BY <2>2, <3>1, <3>2, <3>3 DEF NewDirectory
  <2>3. CASE RegisterInstance(h, fate)
    <3>1. CASE Fail(h, 500)
      BY <1>3, <3>1
    <3>2. CASE ~Fail(h, 500)
      <4>1. PICK ns : handler' = [handler EXCEPT
                         ![h] = [@ EXCEPT !.pc = "open", !.loc = ns,
                                          !.dir = EmptyDirectory]]
        BY <2>3, <3>2 DEF RegisterInstance
      <4>2. PICK x : x = [handler[h] EXCEPT !.pc = "open", !.loc = ns,
                                            !.dir = EmptyDirectory]
        OBVIOUS
      <4>3. x.req = handler[h].req /\ Unladen(x) /\ handler' = [handler EXCEPT ![h] = x]
        BY <2>0, <4>1, <4>2 DEF Handler, Unladen
      <4> QED
        BY <1>4, <4>3
    <3> QED
      BY <3>1, <3>2
  <2>4. CASE DeregisterInstance(h, fate)
    <3>1. PICK x : x = [handler[h] EXCEPT !.pc = "open", !.dir = EmptyDirectory]
      OBVIOUS
    <3>2. x.req = handler[h].req /\ Unladen(x) /\ handler' = [handler EXCEPT ![h] = x]
      BY <2>0, <2>4, <3>1 DEF Handler, Unladen, DeregisterInstance
    <3> QED
      BY <1>4, <3>2
  <2> QED
    BY <1>5, <2>1, <2>2, <2>3, <2>4
<1>6. ASSUME NEW h \in Handlers, NEW label, NEW e, GotoWith(h, label, e)
      PROVE  /\ g # h => Moves(g)
             /\ handler'[h].pc = label /\ handler'[h].entry = e
             /\ handler'[h].req = handler[h].req
  BY <1>6, GotoShape DEF Moves
<1>7. ASSUME NEW h \in Handlers,
             \/ OpenCreate(h) \/ OpenRead(h) \/ OpenUpdate(h)
             \/ OpenDelete(h) \/ OpenPoll(h)
      PROVE  Moves(g)
  <2>1. CASE \E code, state, opid, uid : Respond(h, code, state, opid, uid)
    BY <1>2, <2>1
  <2>2. CASE /\ OpenCreate(h)
             /\ ~\E code, state, opid, uid : Respond(h, code, state, opid, uid)
    <3>1. handler[h].req.type = "create" /\ GotoWith(h, "create", NewEntry(handler[h].req))
      BY <2>2 DEF OpenCreate, Opens
    <3> QED
      BY <1>6, <3>1 DEF Moves, Caches
  <2>3. CASE /\ OpenUpdate(h)
             /\ ~\E code, state, opid, uid : Respond(h, code, state, opid, uid)
    <3>1. PICK s : s = secrets[KeyOf(h)]
      OBVIOUS
    <3>2. /\ handler[h].req.type = "update" /\ s.exists /\ UpdateValid(s, handler[h].req)
          /\ GotoWith(h, "start", [s EXCEPT !.params = Marshal(handler[h].req.params)])
      BY <2>3, <3>1 DEF OpenUpdate, Opens
    <3> QED
      BY <1>6, <3>1, <3>2 DEF Moves, Caches
  <2>4. CASE /\ OpenDelete(h)
             /\ ~\E code, state, opid, uid : Respond(h, code, state, opid, uid)
    <3>1. /\ handler[h].req.type = "delete" /\ secrets[KeyOf(h)].exists
          /\ GotoWith(h, "start", secrets[KeyOf(h)])
      BY <2>4 DEF OpenDelete, Opens
    <3> QED
      BY <1>6, <3>1 DEF Moves, Caches
  <2>5. CASE /\ OpenPoll(h)
             /\ ~\E code, state, opid, uid : Respond(h, code, state, opid, uid)
    <3>1. secrets[KeyOf(h)].exists /\ GotoWith(h, "end", secrets[KeyOf(h)])
      BY <2>5 DEF OpenPoll, Opens
    <3> QED
      BY <1>6, <3>1 DEF Moves, Caches
  <2>6. CASE OpenRead(h)
    BY <1>2, <2>6 DEF OpenRead
  <2> QED
    BY <1>7, <2>1, <2>2, <2>3, <2>4, <2>5, <2>6
<1>8. ASSUME NEW h \in Handlers, NEW fate \in Fates, CommitNew(h, fate)
      PROVE  Moves(g)
  <2>1. CASE Fail(h, 500)
    BY <1>3, <2>1
  <2>2. CASE ~Fail(h, 500)
    <3>1. /\ handler[h].pc = "create"
          /\ GotoWith(h, "start", Committed(handler[h].entry, revision + 1))
      BY <1>8, <2>2 DEF CommitNew
    <3> QED
      BY <1>6, <3>1 DEF Moves, Caches
  <2> QED
    BY <2>1, <2>2
<1>9. ASSUME NEW h \in Handlers,
             \/ OpenFails(h) \/ PrepareFails(h)
             \/ \E fate \in Fates : StartOperation(h, fate) \/ EndOperation(h, fate)
      PROVE  Moves(g)
  <2>1. \/ \E code : Fail(h, code)
        \/ \E code, state, opid, uid : Respond(h, code, state, opid, uid)
    BY <1>9 DEF OpenFails, PrepareFails, StartOperation, EndOperation
  <2> QED
    BY <1>2, <1>3, <2>1
<1>10. ASSUME NEW h \in Handlers, ClientStep(h) \/ HandlerStep(h) PROVE Moves(g)
  <2>1. {"ok", "lost"} \subseteq Fates
    BY DEF Fates
  <2> QED
    BY <1>1, <1>5, <1>7, <1>8, <1>9, <1>10, <2>1 DEF ClientStep, HandlerStep
<1>11. ASSUME NEW w \in workers, WorkerStep(w) PROVE Moves(g)
  BY <1>11 DEF WorkerStep, CompleteOperation, DeleteEntry, Moves
<1>12. CASE Crash
  BY <1>12 DEF Crash, Moves
<1>13. CASE UNCHANGED vars
  BY <1>13 DEF vars, Moves
<1> QED
  BY <1>10, <1>11, <1>12, <1>13 DEF Next

-----------------------------------------------------------------------------
(* Incarnations are provisioned once.                                      *)
(*                                                                         *)
(* ProvisionedOnce is not inductive: nothing in it keeps a create from     *)
(* starting an operation on an incarnation that another one provisioned.   *)
(* A create gets to operation.Start only with the entry it has just        *)
(* written, which still has the version of its creation; an entry whose    *)
(* provisioning has started has a later one.                               *)

(* The number of a write names one incarnation. *)
Incarnations ==
    /\ \A k \in Keys : secrets[k].uid <= revision
    /\ \A j, k \in Keys :
          secrets[j].exists /\ secrets[k].exists /\ secrets[j].uid = secrets[k].uid
             => j = k
    /\ \A f \in Provisions : f.uid <= revision

(* What was provisioned has been written since its creation. *)
ProvisionedSince ==
    \A f \in Provisions : \A k \in Keys :
        secrets[k].exists /\ secrets[k].uid = f.uid => secrets[k].rv # secrets[k].uid

(* The handler of a create starts the operation on the entry it wrote. *)
FreshCopies ==
    \A h \in Handlers :
        handler[h].pc = "start" /\ handler[h].req.type = "create" =>
            handler[h].entry.uid = handler[h].entry.rv

ProvisionInv ==
    Incarnations /\ ProvisionedSince /\ FreshCopies /\ ProvisionedOnce

(* operation.Start for a create starts provisioning. *)
BeginsProvision(n) == \E k \in Keys : Begins(k, n) /\ n.op = "provision"

(* A provision on record after a step was one before, or is being started. *)
LEMMA ProvisionsGrow ==
    ASSUME TypeOK, Inv, RegistryStep, NEW f \in Provisions'
    PROVE  \/ \E g \in Provisions : g.uid = f.uid /\ g.opid = f.opid
           \/ \E n \in Entry : /\ BeginsProvision(n)
                               /\ f.uid = n.uid /\ f.opid = n.opid
<1>1. \/ f \in history' /\ f.type = "provision"
      \/ \E w \in workers' : w.entry.op = "provision" /\ f = Finished(w, "ok")
  BY DEF Provisions
<1>2. ASSUME f \in history, f.type = "provision" PROVE f \in Provisions
  BY <1>2 DEF Provisions
<1>3. ASSUME NEW w \in workers, NEW s, w.entry.op = "provision", f = Finished(w, s)
      PROVE  \E g \in Provisions : g.uid = f.uid /\ g.opid = f.opid
  <2>1. Finished(w, "ok") \in Provisions
    BY <1>3 DEF Provisions
  <2>2. Finished(w, "ok").uid = f.uid /\ Finished(w, "ok").opid = f.opid
    BY <1>3 DEF Finished
  <2> QED
    BY <2>1, <2>2
<1>4. CASE workers' \subseteq workers /\ history' = history
  BY <1>1, <1>2, <1>3, <1>4
<1>5. ASSUME NEW w \in workers, NEW s, Ends(w, s)
      PROVE  \E g \in Provisions : g.uid = f.uid /\ g.opid = f.opid
  <2>1. workers' \subseteq workers /\ history' = history \cup {Finished(w, s)}
    BY <1>5 DEF Ends
  <2>2. Finished(w, s).type = w.entry.op
    BY DEF Finished
  <2> QED
    BY <1>1, <1>2, <1>3, <2>1, <2>2
<1>6. ASSUME NEW k \in Keys, NEW n \in Entry, Begins(k, n)
      PROVE  \/ \E g \in Provisions : g.uid = f.uid /\ g.opid = f.opid
             \/ BeginsProvision(n) /\ f.uid = n.uid /\ f.opid = n.opid
  <2>1. /\ history' = history
        /\ workers' = workers \/ workers' = workers \cup {[key |-> k, entry |-> n]}
    BY <1>6 DEF Begins
  <2>2. CASE \E w \in workers' \ workers : w.entry.op = "provision" /\ f = Finished(w, "ok")
    <3>1. n.op = "provision" /\ f = Finished([key |-> k, entry |-> n], "ok")
      BY <2>1, <2>2
    <3>2. f.uid = n.uid /\ f.opid = n.opid
      BY <3>1 DEF Finished
    <3> QED
      BY <1>6, <3>1, <3>2 DEF BeginsProvision
  <2> QED
    BY <1>1, <1>2, <1>3, <2>1, <2>2
<1>7. ASSUME NEW k \in Keys, NEW n \in Entry, Registers(k, n) \/ Acknowledges(k, n)
      PROVE  workers' \subseteq workers /\ history' = history
  BY <1>7 DEF Registers, Acknowledges
<1> QED
  BY <1>4, <1>5, <1>6, <1>7
  DEF RegistryStep, Quiet, AllDie, Finishes, Dies, Removes

(* A write that keeps the incarnation of its entry and no other, and adds  *)
(* no provision of another incarnation.                                    *)
LEMMA IncarnationKept ==
    ASSUME TypeOK, Inv, ProvisionInv, NEW k \in Keys, NEW n \in Entry,
           Stores(k, n), secrets[k].exists, n.uid = secrets[k].uid,
           \A f \in Provisions' : \/ \E g \in Provisions : g.uid = f.uid
                                  \/ f.uid = n.uid
    PROVE  Incarnations' /\ ProvisionedSince'
<1>0. secrets \in [Keys -> Entry] /\ revision \in Nat /\ revision' = revision + 1
      /\ \A j \in Keys : secrets[j].uid \in 0 .. revision
  BY DEF TypeOK, Entry, Stores, ProvisionInv, Incarnations
<1>1. secrets'[k] = n /\ \A j \in Keys \ {k} : secrets'[j] = secrets[j]
  BY DEF TypeOK, Stores
<1>2. \A f \in Provisions' : f.uid \in Nat /\ f.uid <= revision
  <2>1. \A g \in Provisions : g.uid \in Nat /\ g.uid <= revision
    BY DEF ProvisionInv, Incarnations, TypeOK, Provisions, Outcome, Finished, Worker, Entry
  <2> QED
    BY <1>0, <2>1
<1>3. Incarnations'
  BY <1>0, <1>1, <1>2 DEF ProvisionInv, Incarnations
<1>4. n.rv # n.uid
  BY <1>0 DEF Stores
<1>5. ASSUME NEW f \in Provisions', NEW j \in Keys, secrets'[j].exists,
             secrets'[j].uid = f.uid
      PROVE  secrets'[j].rv # secrets'[j].uid
  <2>1. CASE j = k
    BY <1>1, <1>4, <2>1
  <2>2. CASE j # k
    <3>1. f.uid # n.uid
      BY <1>1, <1>5, <2>2 DEF ProvisionInv, Incarnations
    <3> QED
      BY <1>1, <1>5, <2>2, <3>1 DEF ProvisionInv, ProvisionedSince
  <2> QED
    BY <2>1, <2>2
<1> QED
  BY <1>3, <1>5 DEF ProvisionedSince

(* Every step keeps what ProvisionInv says of what is stored. *)
LEMMA ProvisionStep ==
    ASSUME TypeOK, Inv, ProvisionInv, RegistryStep
    PROVE  Incarnations' /\ ProvisionedSince' /\ ProvisionedOnce'
<1>0. secrets \in [Keys -> Entry] /\ revision \in Nat
      /\ \A j \in Keys : secrets[j].uid \in 0 .. revision
  BY DEF TypeOK, Entry, ProvisionInv, Incarnations
<1>1. \A g \in Provisions : g.uid \in Nat /\ g.uid <= revision
  BY DEF ProvisionInv, Incarnations, TypeOK, Provisions, Outcome, Finished, Worker, Entry
<1>2. ASSUME NEW n \in Entry, BeginsProvision(n)
      PROVE  n.opid = revision + 1 /\ \A g \in Provisions : g.uid # n.uid
  <2>1. PICK k \in Keys : Begins(k, n) /\ n.op = "provision"
    BY <1>2 DEF BeginsProvision
  <2>2. PICK h \in Handlers : StartsFor(h, k, n)
    BY <2>1 DEF Begins
  <2>3. handler[h].req.type = "create" /\ handler[h].pc = "start"
    BY <2>1, <2>2 DEF StartsFor, OperationOf
  <2>4. PICK c \in Entry : c = handler[h].entry
    BY DEF TypeOK, Handler
  <2>5. c.uid = c.rv
    BY <2>3, <2>4 DEF ProvisionInv, FreshCopies
  <2>6. secrets[k] = [c EXCEPT !.params = secrets[k].params] /\ n.uid = secrets[k].uid
        /\ secrets[k].exists
    BY <2>1, <2>2, <2>4 DEF StartsFor, Begins
  <2>7. secrets[k].rv = secrets[k].uid
    BY <2>5, <2>6 DEF Entry
  <2>8. n.opid = revision + 1
    BY <2>2 DEF StartsFor
  <2> QED
    BY <2>6, <2>7, <2>8 DEF ProvisionInv, ProvisionedSince
<1>3. ProvisionedOnce'
  <2>1. ASSUME NEW f \in Provisions', NEW g \in Provisions', f.uid = g.uid
        PROVE  f.opid = g.opid
    <3>1. \/ \E x \in Provisions : x.uid = f.uid /\ x.opid = f.opid
          \/ \E n \in Entry : BeginsProvision(n) /\ f.uid = n.uid /\ f.opid = n.opid
      BY ProvisionsGrow
    <3>2. \/ \E x \in Provisions : x.uid = g.uid /\ x.opid = g.opid
          \/ \E n \in Entry : BeginsProvision(n) /\ g.uid = n.uid /\ g.opid = n.opid
      BY ProvisionsGrow
    <3> QED
      BY <1>2, <2>1, <3>1, <3>2 DEF ProvisionInv, ProvisionedOnce
  <2> QED
    BY <2>1 DEF ProvisionedOnce
<1>4. ASSUME ~\E n \in Entry : BeginsProvision(n)
      PROVE  \A f \in Provisions' : \E g \in Provisions : g.uid = f.uid
  BY <1>4, ProvisionsGrow
<1>5. ASSUME UNCHANGED <<secrets, revision>>, workers' \subseteq workers,
             \A f \in Provisions' : \E g \in Provisions : g.uid = f.uid
      PROVE  Incarnations' /\ ProvisionedSince'
  BY <1>5 DEF ProvisionInv, Incarnations, ProvisionedSince
<1>6. ASSUME UNCHANGED <<secrets, revision>> PROVE ~\E n \in Entry : BeginsProvision(n)
  BY <1>0, <1>6 DEF BeginsProvision, Begins, Stores
<1>7. CASE Quiet \/ AllDie
  <2>1. UNCHANGED <<secrets, revision>> /\ workers' \subseteq workers
    BY <1>7 DEF Quiet, AllDie
  <2>2. \A f \in Provisions' : \E g \in Provisions : g.uid = f.uid
    BY <1>4, <1>6, <2>1
  <2>3. Incarnations' /\ ProvisionedSince'
    BY <1>5, <2>1, <2>2
  <2> QED
    BY <1>3, <2>3
<1>8. ASSUME NEW w \in workers, NEW s \in {"ok", "error"}, Dies(w, s)
      PROVE  Incarnations' /\ ProvisionedSince'
  BY <1>4, <1>5, <1>6, <1>8 DEF Dies, Ends
<1>9. ASSUME NEW k \in Keys, NEW n \in Entry, Registers(k, n)
      PROVE  Incarnations' /\ ProvisionedSince'
  <2>1. secrets'[k] = n /\ \A j \in Keys \ {k} : secrets'[j] = secrets[j]
    BY <1>0, <1>9 DEF Registers, Stores
  <2>2. revision' = revision + 1 /\ n.uid = revision + 1
    BY <1>9 DEF Registers, Stores
  <2>3. Provisions' = Provisions
    BY <1>9 DEF Registers, Provisions, Finished
  <2>4. Incarnations'
    BY <1>0, <1>1, <2>1, <2>2, <2>3 DEF ProvisionInv, Incarnations
  <2>5. ProvisionedSince'
    BY <1>0, <1>1, <2>1, <2>2, <2>3 DEF ProvisionInv, ProvisionedSince
  <2> QED
    BY <2>4, <2>5
<1>10. ASSUME NEW k \in Keys, NEW n \in Entry, Begins(k, n)
       PROVE  Incarnations' /\ ProvisionedSince'
  <2>1. Stores(k, n) /\ secrets[k].exists /\ n.uid = secrets[k].uid
    BY <1>10 DEF Begins
  <2>2. ASSUME NEW m \in Entry, BeginsProvision(m) PROVE m.uid = n.uid
    <3>1. PICK j \in Keys : Begins(j, m)
      BY <2>2 DEF BeginsProvision
    <3>2. secrets'[j] = m /\ m.rv = revision + 1 /\ m.opid = revision + 1
      BY <1>0, <3>1 DEF Begins, Stores, StartsFor
    <3>3. j = k
      <4>1. secrets[j].opid # revision + 1
        BY <1>0 DEF Inv, StoredConsistent, EntryConsistent, TypeOK, Entry
      <4> QED
        BY <1>0, <2>1, <3>2, <4>1 DEF Stores
    <3> QED
      BY <1>0, <2>1, <3>2, <3>3 DEF Stores
  <2>3. \A f \in Provisions' : (\E g \in Provisions : g.uid = f.uid) \/ f.uid = n.uid
    BY <2>2, ProvisionsGrow
  <2> QED
    BY <2>1, <2>3, IncarnationKept
<1>11. ASSUME NEW k \in Keys, NEW n \in Entry, Acknowledges(k, n)
       PROVE  Incarnations' /\ ProvisionedSince'
  <2>1. Stores(k, n) /\ secrets[k].exists /\ n.uid = secrets[k].uid
    BY <1>11 DEF Acknowledges
  <2>2. Provisions' = Provisions
    BY <1>11 DEF Acknowledges, Provisions, Finished
  <2> QED
    BY <2>1, <2>2, IncarnationKept
<1>12. ASSUME NEW w \in workers, NEW s \in {"ok", "error"}, Ends(w, s)
       PROVE  \A f \in Provisions' : \E g \in Provisions : g.uid = f.uid
  <2>1. ~\E n \in Entry : BeginsProvision(n)
    BY <1>12 DEF BeginsProvision, Begins, Ends
  <2> QED
    BY <1>4, <2>1
<1>13. ASSUME NEW w \in workers, NEW s \in {"ok", "error"}, Finishes(w, s)
       PROVE  Incarnations' /\ ProvisionedSince'
  <2>1. /\ w.key \in Keys /\ w.entry \in Entry /\ secrets[w.key] = w.entry
        /\ w.entry.exists /\ s \in Status /\ revision + 1 \in Nat
    BY <1>0 DEF TypeOK, Worker, Inv, WorkerHoldsEntry, Status
  <2>2. PICK e \in Entry : e = Complete(w.entry, s)
    BY <2>1, EntryTypes
  <2>3. PICK n \in Entry : n = Committed(e, revision + 1)
    BY <2>1, EntryTypes
  <2>4. n.uid = w.entry.uid
    <3>1. e.exists = w.entry.exists /\ e.uid = w.entry.uid
      BY <2>1, <2>2 DEF Complete, Entry
    <3> QED
      BY <2>1, <2>3, <3>1 DEF Committed, Entry
  <2>5. Ends(w, s) /\ Stores(w.key, n)
    BY <1>13, <2>2, <2>3 DEF Finishes
  <2> QED
    BY <1>12, <2>1, <2>4, <2>5, IncarnationKept
<1>14. ASSUME NEW w \in workers, Removes(w)
       PROVE  Incarnations' /\ ProvisionedSince'
  <2>1. w.key \in Keys /\ Ends(w, "ok") /\ UNCHANGED revision
    BY <1>14 DEF TypeOK, Worker, Removes
  <2>2. secrets'[w.key] = Absent /\ \A j \in Keys \ {w.key} : secrets'[j] = secrets[j]
    BY <1>0, <1>14, <2>1 DEF Removes
  <2>3. ~Absent.exists /\ Absent.uid = 0
    BY DEF Absent
  <2>4. \A f \in Provisions' : \E g \in Provisions : g.uid = f.uid
    BY <1>12, <2>1
  <2>5. Incarnations'
    BY <1>0, <1>1, <2>1, <2>2, <2>3, <2>4 DEF ProvisionInv, Incarnations
  <2>6. ProvisionedSince'
    BY <2>2, <2>3, <2>4 DEF ProvisionInv, ProvisionedSince
  <2> QED
    BY <2>5, <2>6
<1> QED
  BY <1>3, <1>7, <1>8, <1>9, <1>10, <1>11, <1>13, <1>14 DEF RegistryStep

(* A create that has just written its entry caches it. *)
LEMMA FreshCopiesStep ==
    ASSUME TypeOK, Inv, ProvisionInv, [Next]_vars
    PROVE  FreshCopies'
<1> SUFFICES ASSUME NEW h \in Handlers, handler'[h].pc = "start",
                    handler'[h].req.type = "create"
             PROVE  handler'[h].entry.uid = handler'[h].entry.rv
  BY DEF FreshCopies
<1>1. CASE handler'[h] = handler[h]
  BY <1>1 DEF ProvisionInv, FreshCopies
<1>2. CASE handler'[h] = Idle \/ Takes(h)
  BY <1>2 DEF Idle, Takes, Unladen
<1>3. CASE Caches(h)
  <2>1. handler[h].pc = "create"
        /\ handler'[h].entry = Committed(handler[h].entry, revision + 1)
    BY <1>3 DEF Caches, Unladen
  <2>2. PICK e \in Entry : e = handler[h].entry
    BY HandlerTypes
  <2>3. ~e.exists
    BY <2>1, <2>2 DEF Inv, CacheCoherent, HandlerCoherent
  <2>4. Committed(e, revision + 1).uid = Committed(e, revision + 1).rv
    BY <2>3 DEF Committed, Entry
  <2> QED
    BY <2>1, <2>2, <2>4
<1> QED
  BY <1>1, <1>2, <1>3, HandlerMoves DEF Moves

(* ProvisionInv is an invariant. *)
THEOREM ProvisionInvariance == Spec => []ProvisionInv
<1>1. Init => ProvisionInv
  <2> SUFFICES ASSUME Init PROVE ProvisionInv
    OBVIOUS
  <2>1. \A k \in Keys : secrets[k] = Absent
    BY DEF Init
  <2>2. ~Absent.exists /\ Absent.uid = 0
    BY DEF Absent
  <2>3. Provisions = {}
    BY DEF Init, Provisions
  <2>4. FreshCopies
    BY DEF Init, FreshCopies, Idle
  <2> QED
    BY <2>1, <2>2, <2>3, <2>4
    DEF Init, ProvisionInv, Incarnations, ProvisionedSince, ProvisionedOnce
<1>2. TypeOK /\ Inv /\ ProvisionInv /\ [Next]_vars => ProvisionInv'
  BY StepKinds, ProvisionStep, FreshCopiesStep DEF ProvisionInv
<1> QED
  BY <1>1, <1>2, TypeCorrect, Invariance, PTL DEF Spec

(* However many creates of an instance race, are retried or fail, no       *)
(* incarnation of it is provisioned twice.                                 *)
THEOREM ProvisionedAtMostOnce == Spec => []ProvisionedOnce
<1>1. ProvisionInv => ProvisionedOnce
  BY DEF ProvisionInv
<1> QED
  BY <1>1, ProvisionInvariance, PTL

-----------------------------------------------------------------------------
(* What is on record was allowed.                                          *)

(* StoredValid says nothing of the copies that handlers are about to       *)
(* commit; Carried does.                                                   *)
Carried ==
    \A h \in Handlers :
        /\ handler[h].req.type = "create" => Admission(handler[h].req) = 200
        /\ ~Unladen(handler[h]) => EntryValid(handler[h].entry)

ValidInv == StoredValid /\ Carried

(* The attributes decide whether an entry is valid. *)
LEMMA ValidData ==
    ASSUME NEW e, NEW n, EntryValid(e), SameData(n, e)
    PROVE  EntryValid(n)
BY DEF EntryValid, SameData

(* A create that was admitted stores a valid entry. *)
LEMMA NewEntryValid ==
    ASSUME NEW r \in Request, r.type = "create", Admission(r) = 200
    PROVE  EntryValid(NewEntry(r))
<1>1. SP(r) \in Bought \cap Catalog /\ r.params \in Schema[<<SP(r), "create">>]
  BY DEF Admission, Authorized, ValidServicePlan, ValidParameters
<1>2. PICK n : n = NewEntry(r)
  OBVIOUS
<1>3. n.service = r.service /\ n.plan = r.plan /\ n.params = Marshal(r.params)
  BY <1>2 DEF NewEntry, Absent
<1>4. EntryValid(n)
  BY <1>1, <1>3 DEF EntryValid, SP
<1> QED
  BY <1>2, <1>4

(* An update that was validated keeps a valid entry valid, if the plan of  *)
(* the entry is a plan of one service only.                                *)
LEMMA UpdateKeepsValid ==
    ASSUME PlanIDsUnique, NEW e \in Entry, NEW r \in Request,
           EntryValid(e), UpdateValid(e, r)
    PROVE  EntryValid([e EXCEPT !.params = Marshal(r.params)])
<1>1. /\ <<r.service, e.plan>> \in Catalog /\ <<e.service, e.plan>> \in Catalog
      /\ r.params \in Schema[<<<<r.service, e.plan>>, "update">>]
  BY DEF UpdateValid, ValidServicePlan, ValidParameters, EntryValid
<1>2. <<r.service, e.plan>> = <<e.service, e.plan>>
  BY <1>1 DEF PlanIDsUnique
<1>3. PICK n : n = [e EXCEPT !.params = Marshal(r.params)]
  OBVIOUS
<1>4. n.service = e.service /\ n.plan = e.plan /\ n.params = Marshal(r.params)
  BY <1>3 DEF Entry
<1>5. EntryValid(n)
  BY <1>1, <1>2, <1>4 DEF EntryValid
<1> QED
  BY <1>3, <1>5

(* Every write is of a valid entry. *)
LEMMA StoredValidStep ==
    ASSUME TypeOK, Inv, ValidInv, RegistryStep
    PROVE  StoredValid'
<1>0. secrets \in [Keys -> Entry] /\ revision \in Nat /\ revision + 1 \in Nat
  BY DEF TypeOK
<1>1. ASSUME NEW k \in Keys, NEW n, secrets' = [secrets EXCEPT ![k] = n],
             n.exists => EntryValid(n)
      PROVE  StoredValid'
  BY <1>0, <1>1 DEF ValidInv, StoredValid
<1>2. ASSUME secrets' = secrets PROVE StoredValid'
  BY <1>2 DEF ValidInv, StoredValid
<1>3. ASSUME NEW k \in Keys, NEW n \in Entry,
             Registers(k, n) \/ Begins(k, n) \/ Acknowledges(k, n)
      PROVE  StoredValid'
  <2>1. PICK h \in Handlers : /\ handler[h].pc \in {"create", "start", "end"}
                              /\ SameData(n, handler[h].entry)
    BY <1>3 DEF Registers, Begins, Acknowledges, StartsFor
  <2>2. EntryValid(n)
    BY <2>1, ValidData DEF ValidInv, Carried, Unladen
  <2>3. secrets' = [secrets EXCEPT ![k] = n]
    BY <1>3 DEF Registers, Begins, Acknowledges, Stores
  <2> QED
    BY <1>1, <2>2, <2>3
<1>4. ASSUME NEW w \in workers, NEW s \in {"ok", "error"}, Finishes(w, s)
      PROVE  StoredValid'
  <2>1. /\ w.key \in Keys /\ w.entry \in Entry /\ secrets[w.key] = w.entry
        /\ w.entry.exists /\ s \in Status
    BY DEF TypeOK, Worker, Inv, WorkerHoldsEntry, Status
  <2>2. PICK e \in Entry : e = Complete(w.entry, s)
    BY <2>1, EntryTypes, <1>0
  <2>3. PICK n \in Entry : n = Committed(e, revision + 1)
    BY <1>0, EntryTypes
  <2>4. SameData(e, w.entry) /\ SameData(n, e)
    BY <2>1, <2>2, <2>3 DEF Complete, Committed, Entry, SameData
  <2>5. EntryValid(n)
    BY <2>1, <2>4, ValidData DEF ValidInv, StoredValid
  <2>6. secrets' = [secrets EXCEPT ![w.key] = n]
    BY <1>4, <2>2, <2>3 DEF Finishes, Stores
  <2> QED
    BY <1>1, <2>1, <2>5, <2>6
<1>5. ASSUME NEW w \in workers, Removes(w) PROVE StoredValid'
  <2>1. w.key \in Keys /\ secrets' = [secrets EXCEPT ![w.key] = Absent]
    BY <1>5 DEF TypeOK, Worker, Removes
  <2>2. ~Absent.exists
    BY DEF Absent
  <2> QED
    BY <1>1, <2>1, <2>2
<1> QED
  BY <1>2, <1>3, <1>4, <1>5 DEF RegistryStep, Quiet, AllDie, Dies

(* Every copy that is to be committed is valid. *)
LEMMA CarriedStep ==
    ASSUME PlanIDsUnique, TypeOK, Inv, ValidInv, [Next]_vars, NEW h \in Handlers
    PROVE  /\ handler'[h].req.type = "create" => Admission(handler'[h].req) = 200
           /\ ~Unladen(handler'[h]) => EntryValid(handler'[h].entry)
<1>1. CASE handler'[h] = handler[h]
  BY <1>1 DEF ValidInv, Carried
<1>2. CASE handler'[h] = Idle
  BY <1>2 DEF Idle, NoRequest, Unladen
<1>3. CASE Takes(h)
  BY <1>3 DEF Takes
<1>4. CASE Caches(h)
  <2>1. PICK r \in Request : r = handler[h].req
    BY DEF TypeOK, Handler
  <2>2. PICK s \in Entry : s = secrets[KeyOf(h)]
    BY HandlerTypes DEF TypeOK
  <2>3. s.exists => EntryValid(s)
    BY <2>2, HandlerTypes DEF ValidInv, StoredValid
  <2>4. r.type = "create" => Admission(r) = 200
    BY <2>1 DEF ValidInv, Carried
  <2>5. PICK e : e = handler'[h].entry
    OBVIOUS
  <2>6. /\ handler'[h].req = r
        /\ \/ Unladen(handler'[h])
           \/ r.type = "create" /\ e = NewEntry(r)
           \/ handler[h].pc = "create" /\ e = Committed(handler[h].entry, revision + 1)
           \/ s.exists /\ UpdateValid(s, r) /\ e = [s EXCEPT !.params = Marshal(r.params)]
           \/ s.exists /\ e = s
    BY <1>4, <2>1, <2>2, <2>5 DEF Caches
  <2>7. CASE r.type = "create" /\ e = NewEntry(r)
    BY <2>4, <2>5, <2>6, <2>7, NewEntryValid
  <2>8. CASE handler[h].pc = "create" /\ e = Committed(handler[h].entry, revision + 1)
    <3>1. PICK c \in Entry : c = handler[h].entry
      BY HandlerTypes
    <3>2. SameData(e, c)
      BY <2>8, <3>1 DEF SameData, Committed, Entry
    <3>3. EntryValid(c)
      BY <2>8, <3>1 DEF ValidInv, Carried, Unladen
    <3>4. EntryValid(e)
      BY <3>2, <3>3, ValidData
    <3> QED
      BY <2>4, <2>5, <2>6, <3>4
  <2>9. CASE s.exists /\ UpdateValid(s, r) /\ e = [s EXCEPT !.params = Marshal(r.params)]
    <3>1. EntryValid(e)
      BY <2>3, <2>9, UpdateKeepsValid
    <3> QED
      BY <2>4, <2>5, <2>6, <3>1
  <2> QED
    BY <2>3, <2>4, <2>5, <2>6, <2>7, <2>8, <2>9
<1> QED
  BY <1>1, <1>2, <1>3, <1>4, HandlerMoves DEF Moves

(* If plan IDs are unique, every entry on record is of a plan in the       *)
(* catalog that the user has bought, with parameters that a schema of that *)
(* plan allows: no race of creates and updates gets around the checks.     *)
THEOREM StoredEntriesValid == PlanIDsUnique => (Spec => []StoredValid)
<1> SUFFICES ASSUME PlanIDsUnique PROVE Spec => []StoredValid
  OBVIOUS
<1>1. Init => ValidInv
  <2> SUFFICES ASSUME Init PROVE ValidInv
    OBVIOUS
  <2>1. ~Absent.exists
    BY DEF Absent
  <2>2. StoredValid
    BY <2>1 DEF Init, StoredValid
  <2>3. Carried
    BY DEF Init, Carried, Idle, NoRequest, Unladen
  <2> QED
    BY <2>2, <2>3 DEF ValidInv
<1>2. TypeOK /\ Inv /\ ValidInv /\ [Next]_vars => ValidInv'
  <2> SUFFICES ASSUME TypeOK, Inv, ValidInv, [Next]_vars PROVE ValidInv'
    OBVIOUS
  <2>1. StoredValid'
    BY StepKinds, StoredValidStep
  <2>2. Carried'
    BY CarriedStep DEF Carried
  <2> QED
    BY <2>1, <2>2 DEF ValidInv
<1>3. ValidInv => StoredValid
  BY DEF ValidInv
<1> QED
  BY <1>1, <1>2, <1>3, TypeCorrect, Invariance, PTL DEF Spec

-----------------------------------------------------------------------------
(* The directory.                                                          *)

(* DirectoryIsolated needs what CacheCoherent is to the registry entries:  *)
(* a directory that was read and still has its version has its data.       *)
DirectoryRead ==
    /\ ~directory.exists => directory = EmptyDirectory
    /\ \A h \in Handlers :
          LET d == handler[h].dir
          IN  handler[h].pc = "commitDirectory" =>
                 /\ ~d.exists => d = EmptyDirectory
                 /\ d.exists => directory.exists /\ d.rv <= directory.rv
                 /\ d.exists /\ d.rv = directory.rv => d.data = directory.data

(* The handler h replaces the entry of its instance by ns, in the copy it  *)
(* has read, and writes the copy back.                                     *)
Rewrites(h, ns) ==
    LET r == handler[h].req
        d == handler[h].dir
    IN  /\ handler[h].pc = "commitDirectory"
        /\ handler'[h].pc # "commitDirectory"
        /\ \/ r.type = "create" /\ ns = DirentNamespace(r)
           \/ r.type = "delete" /\ ns = None
        /\ DirectoryAccepted(d)
        /\ StoreDirectory([d.data EXCEPT ![r.instance] = ns])
        /\ \A g \in Handlers \ {h} : handler'[g] = handler[g]

(* A step leaves the directory alone, and at most reads it, or rewrites    *)
(* one entry.                                                              *)
DirectoryStep ==
    \/ /\ directory' = directory
       /\ \A g \in Handlers : \/ handler'[g] = handler[g]
                              \/ handler'[g].pc # "commitDirectory"
                              \/ handler'[g].dir = directory
    \/ \E h \in Handlers : \E ns : Rewrites(h, ns)

(* Every step of the broker is one of these. *)
LEMMA DirectorySteps == TypeOK /\ [Next]_vars => DirectoryStep
<1> SUFFICES ASSUME TypeOK, [Next]_vars PROVE DirectoryStep
  OBVIOUS
<1>0. handler \in [Handlers -> Handler]
  BY DEF TypeOK
<1>1. ASSUME NEW h \in Handlers, directory' = directory,
             \A g \in Handlers \ {h} : handler'[g] = handler[g],
             \/ handler'[h].pc # "commitDirectory" \/ handler'[h] = handler[h]
             \/ handler'[h].dir = directory
      PROVE  DirectoryStep
  BY <1>1 DEF DirectoryStep
<1>2. ASSUME NEW h \in Handlers, directory' = directory,
             \/ \E code : Fail(h, code)
             \/ \E code, state, opid, uid : Respond(h, code, state, opid, uid)
      PROVE  DirectoryStep
  <2>1. /\ handler'[h] = Idle
        /\ \A g \in Handlers \ {h} : handler'[g] = handler[g]
    BY <1>2, RespondShape, FailShape
  <2>2. Idle.pc = "idle"
    BY DEF Idle
  <2> QED
    BY <1>1, <1>2, <2>1, <2>2
<1>3. ASSUME NEW h \in Handlers, directory' = directory, NEW label, NEW e,
             GotoWith(h, label, e), label # "commitDirectory"
      PROVE  DirectoryStep
  <2>1. /\ handler'[h].pc = label
        /\ \A g \in Handlers \ {h} : handler'[g] = handler[g]
    BY <1>3, GotoShape
  <2> QED
    BY <1>1, <1>3, <2>1
<1>4. ASSUME NEW h \in Handlers, ClientStep(h) PROVE DirectoryStep
  <2>1. PICK r \in Requests, op \in issued \cup {0} : Receive(h, r, op)
    BY <1>4 DEF ClientStep
  <2>2. directory' = directory
    BY <2>1 DEF Receive
  <2>3. CASE UNCHANGED handler
    BY <2>2, <2>3 DEF DirectoryStep
  <2>4. CASE handler' = [handler EXCEPT ![h] = [@ EXCEPT !.pc = FirstCall(r),
                                                  !.req = [r EXCEPT !.op = op]]]
    <3>1. /\ handler'[h].pc = FirstCall(r)
          /\ \A g \in Handlers \ {h} : handler'[g] = handler[g]
      BY <1>0, <2>4 DEF Handler
    <3>2. FirstCall(r) # "commitDirectory"
      BY DEF FirstCall
    <3> QED
      BY <1>1, <2>2, <3>1, <3>2
  <2> QED
    BY <2>1, <2>3, <2>4 DEF Receive
<1>5. ASSUME NEW h \in Handlers, NEW fate, GetDirectoryInstance(h, fate)
      PROVE  DirectoryStep
  <2>1. /\ handler'[h].pc # "commitDirectory" /\ directory' = directory
        /\ \A g \in Handlers \ {h} : handler'[g] = handler[g]
    BY <1>0, <1>5 DEF GetDirectoryInstance, Handler
  <2> QED
    BY <1>1, <2>1
<1>6. ASSUME NEW h \in Handlers, NEW fate, NewDirectory(h, fate)
      PROVE  DirectoryStep
  <2>1. directory' = directory
    BY <1>6 DEF NewDirectory
  <2>2. CASE Fail(h, 500)
    BY <1>2, <2>1, <2>2
  <2>3. CASE Goto(h, "open")
    <3>1. /\ handler'[h].pc # "commitDirectory"
          /\ \A g \in Handlers \ {h} : handler'[g] = handler[g]
      BY <1>0, <2>3 DEF Goto, Handler
    <3> QED
      BY <1>1, <2>1, <3>1
  <2>4. CASE handler' = [handler EXCEPT ![h] = [@ EXCEPT !.pc = "commitDirectory",
                                                         !.dir = directory]]
    <3>1. /\ handler'[h].dir = directory
          /\ \A g \in Handlers \ {h} : handler'[g] = handler[g]
      BY <1>0, <2>4 DEF Handler
    <3> QED
      BY <1>1, <2>1, <3>1
  <2> QED
    BY <1>6, <2>2, <2>3, <2>4 DEF NewDirectory
<1>7. ASSUME NEW h \in Handlers, NEW fate, RegisterInstance(h, fate)
      PROVE  DirectoryStep
  <2>1. /\ handler'[h].pc # "commitDirectory"
        /\ \A g \in Handlers \ {h} : handler'[g] = handler[g]
    <3>1. CASE Fail(h, 500)
      BY <3>1, FailShape DEF Idle
    <3>2. CASE ~Fail(h, 500)
      BY <1>0, <1>7, <3>2 DEF RegisterInstance, Handler
    <3> QED
      BY <3>1, <3>2
  <2>2. CASE directory' = directory
    BY <1>1, <2>1, <2>2
  <2>3. CASE directory' # directory
    <3>1. PICK ns : ns = DirentNamespace(handler[h].req)
      OBVIOUS
    <3>2. /\ handler[h].pc = "commitDirectory" /\ handler[h].req.type = "create"
          /\ DirectoryAccepted(handler[h].dir)
          /\ StoreDirectory([handler[h].dir.data EXCEPT ![handler[h].req.instance] = ns])
      BY <1>7, <2>3, <3>1 DEF RegisterInstance
    <3>3. Rewrites(h, ns)
      BY <2>1, <3>1, <3>2 DEF Rewrites
    <3> QED
      BY <3>3 DEF DirectoryStep
  <2> QED
    BY <2>2, <2>3
<1>8. ASSUME NEW h \in Handlers, NEW fate, DeregisterInstance(h, fate)
      PROVE  DirectoryStep
  <2>1. /\ handler'[h].pc # "commitDirectory"
        /\ \A g \in Handlers \ {h} : handler'[g] = handler[g]
    BY <1>0, <1>8 DEF DeregisterInstance, Handler
  <2>2. CASE directory' = directory
    BY <1>1, <2>1, <2>2
  <2>3. CASE directory' # directory
    <3>1. /\ DirectoryAccepted(handler[h].dir)
          /\ StoreDirectory([handler[h].dir.data EXCEPT
                               ![handler[h].req.instance] = None])
      BY <1>8, <2>3 DEF DeregisterInstance
    <3>2. Rewrites(h, None)
      BY <1>8, <2>1, <3>1 DEF DeregisterInstance, Rewrites
    <3> QED
      BY <3>2 DEF DirectoryStep
  <2> QED
    BY <2>2, <2>3
<1>9. ASSUME NEW h \in Handlers,
             \/ OpenFails(h) \/ PrepareFails(h)
             \/ OpenCreate(h) \/ OpenRead(h) \/ OpenUpdate(h)
             \/ OpenDelete(h) \/ OpenPoll(h)
             \/ \E fate : CommitNew(h, fate) \/ StartOperation(h, fate)
                        \/ EndOperation(h, fate)
      PROVE  DirectoryStep
  <2>1. directory' = directory
    BY <1>9 DEF OpenFails, PrepareFails, OpenCreate, OpenRead, OpenUpdate,
                OpenDelete, OpenPoll, Opens, CommitNew, StartOperation, EndOperation
  <2>2. CASE OpenFails(h) \/ PrepareFails(h) \/ OpenRead(h)
    BY <1>2, <2>1, <2>2 DEF OpenFails, PrepareFails, OpenRead
  <2>3. CASE OpenCreate(h)
    BY <1>2, <1>3, <2>1, <2>3 DEF OpenCreate
  <2>4. CASE OpenUpdate(h)
    BY <1>2, <1>3, <2>1, <2>4 DEF OpenUpdate
  <2>5. CASE OpenDelete(h)
    BY <1>2, <1>3, <2>1, <2>5 DEF OpenDelete
  <2>6. CASE OpenPoll(h)
    BY <1>2, <1>3, <2>1, <2>6 DEF OpenPoll
  <2>7. CASE \E fate : CommitNew(h, fate)
    BY <1>2, <1>3, <2>1, <2>7 DEF CommitNew
  <2>8. CASE \E fate : StartOperation(h, fate) \/ EndOperation(h, fate)
    BY <1>2, <2>1, <2>8 DEF StartOperation, EndOperation
  <2> QED
    BY <1>9, <2>2, <2>3, <2>4, <2>5, <2>6, <2>7, <2>8
<1>10. ASSUME NEW h \in Handlers, HandlerStep(h) PROVE DirectoryStep
  BY <1>5, <1>6, <1>7, <1>8, <1>9, <1>10 DEF HandlerStep
<1>11. ASSUME NEW w \in workers, WorkerStep(w) PROVE DirectoryStep
  BY <1>11 DEF WorkerStep, CompleteOperation, DeleteEntry, DirectoryStep
<1>12. CASE Crash
  BY <1>12 DEF Crash, Idle, DirectoryStep
<1>13. CASE UNCHANGED vars
  BY <1>13 DEF vars, DirectoryStep
<1> QED
  BY <1>4, <1>10, <1>11, <1>12, <1>13 DEF Next

(* A copy of the directory that the API server accepts agrees with what is *)
(* stored.                                                                 *)
LEMMA AcceptedDirectory ==
    ASSUME TypeOK, DirectoryRead, NEW h \in Handlers,
           handler[h].pc = "commitDirectory", DirectoryAccepted(handler[h].dir)
    PROVE  handler[h].dir.data = directory.data
BY DEF DirectoryRead, DirectoryAccepted

(* A write makes the copies of other handlers stale. *)
LEMMA DirectoryReadStep ==
    ASSUME TypeOK, DirectoryRead, DirectoryStep
    PROVE  DirectoryRead'
<1>0. directory \in Directory /\ directory.rv \in Nat
  BY DEF TypeOK, Directory
<1>1. CASE /\ directory' = directory
           /\ \A g \in Handlers : \/ handler'[g] = handler[g]
                                  \/ handler'[g].pc # "commitDirectory"
                                  \/ handler'[g].dir = directory
  <2>1. ASSUME NEW g \in Handlers, handler'[g].pc = "commitDirectory"
        PROVE  \/ handler'[g] = handler[g]
               \/ handler'[g].dir = directory
    BY <1>1, <2>1
  <2> QED
    BY <1>0, <1>1, <2>1 DEF DirectoryRead
<1>2. ASSUME NEW h \in Handlers, NEW ns, Rewrites(h, ns) PROVE DirectoryRead'
  <2>1. PICK data : StoreDirectory(data)
    BY <1>2 DEF Rewrites
  <2>2. \/ directory' = directory
        \/ directory' = [exists |-> TRUE, rv |-> directory.rv + 1, data |-> data]
    BY <2>1 DEF StoreDirectory
  <2>3. \A g \in Handlers : handler'[g].pc = "commitDirectory" => handler'[g] = handler[g]
    BY <1>2 DEF Rewrites
  <2>4. \A g \in Handlers : handler[g].dir.rv \in Nat
    BY DEF TypeOK, Handler, Directory
  <2>5. CASE directory' = directory
    BY <2>3, <2>5 DEF DirectoryRead
  <2>6. CASE directory' = [exists |-> TRUE, rv |-> directory.rv + 1, data |-> data]
    <3>1. directory'.exists /\ directory'.rv = directory.rv + 1
      BY <2>6
    <3> QED
      BY <1>0, <2>3, <2>4, <3>1 DEF DirectoryRead
  <2> QED
    BY <2>2, <2>5, <2>6
<1> QED
  BY <1>1, <1>2 DEF DirectoryStep

(* The read-modify-write of the directory changes the entry of one         *)
(* instance, for a create or delete of it, whatever other requests do.     *)
THEOREM DirectoryKeepsOthers == Spec => DirectoryIsolated
<1>1. Init => DirectoryRead
  BY DEF Init, DirectoryRead, EmptyDirectory, Idle
<1>2. TypeOK /\ DirectoryRead /\ [Next]_vars => DirectoryRead'
  BY DirectorySteps, DirectoryReadStep
<1>3. ASSUME TypeOK, DirectoryRead, [Next]_vars, NEW i \in Instances,
             directory'.data[i] # directory.data[i]
      PROVE  \E h \in Handlers :
                LET r == handler[h].req
                IN  /\ handler[h].pc = "commitDirectory"
                    /\ handler'[h].pc # "commitDirectory"
                    /\ r.instance = i
                    /\ \/ /\ r.type = "create"
                          /\ directory'.data[i] = DirentNamespace(r)
                       \/ /\ r.type = "delete"
                          /\ directory'.data[i] = None
  <2>1. PICK h \in Handlers : \E ns : Rewrites(h, ns)
    BY <1>3, DirectorySteps DEF DirectoryStep
  <2>2. PICK ns : Rewrites(h, ns)
    BY <2>1
  <2>3. PICK r \in Request : r = handler[h].req
    BY <1>3 DEF TypeOK, Handler
  <2>4. PICK d \in Directory : d = handler[h].dir
    BY <1>3 DEF TypeOK, Handler
  <2>5. d.data = directory.data
    BY <1>3, <2>2, <2>4, AcceptedDirectory DEF Rewrites
  <2>6. directory'.data = [d.data EXCEPT ![r.instance] = ns]
    BY <2>2, <2>3, <2>4 DEF Rewrites, StoreDirectory
  <2>7. d.data \in [Instances -> Namespaces \cup {None}] /\ r.instance \in Instances
    BY DEF Directory, Request, AnyRequest
  <2>8. r.instance = i /\ directory'.data[i] = ns
    BY <1>3, <2>5, <2>6, <2>7
  <2> QED
    BY <2>2, <2>3, <2>8 DEF Rewrites
<1>4. TypeOK /\ DirectoryRead /\ [Next]_vars =>
       [\A i \in Instances :
          directory'.data[i] # directory.data[i] =>
             \E h \in Handlers :
                LET r == handler[h].req
                IN  /\ handler[h].pc = "commitDirectory"
                    /\ handler'[h].pc # "commitDirectory"
                    /\ r.instance = i
                    /\ \/ /\ r.type = "create"
                          /\ directory'.data[i] = DirentNamespace(r)
                       \/ /\ r.type = "delete"
                          /\ directory'.data[i] = None]_vars
  BY <1>3
<1> QED
  BY <1>1, <1>2, <1>4, TypeCorrect, PTL DEF Spec, DirectoryIsolated
=============================================================================
