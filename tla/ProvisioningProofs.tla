------------------------- MODULE ProvisioningProofs -------------------------
(***************************************************************************)
(* Proofs about Provisioning, for every set of registries, goroutines and  *)
(* templates, every plan and every bound.                                  *)
(***************************************************************************)
EXTENDS Provisioning, SequenceTheorems, TLAPS

-----------------------------------------------------------------------------
(* Sequences, names and steps.                                             *)

(* What is left of a sequence after its head. *)
LEMMA TailFacts ==
    ASSUME NEW S, NEW s \in Seq(S), s # << >>
    PROVE  /\ Head(s) \in S /\ Head(s) \in Range(s)
           /\ Tail(s) \in Seq(S)
           /\ Range(s) = {Head(s)} \cup Range(Tail(s))
<1>1. Len(s) \in Nat /\ Len(s) >= 1 /\ DOMAIN s = 1 .. Len(s)
  OBVIOUS
<1>2. Head(s) = s[1] /\ Tail(s) \in Seq(S)
  OBVIOUS
<1>3. /\ DOMAIN Tail(s) = 1 .. (Len(s) - 1)
      /\ \A i \in 1 .. (Len(s) - 1) : Tail(s)[i] = s[i + 1]
  BY <1>1, <1>2
<1>4. Head(s) \in S /\ Head(s) \in Range(s)
  BY <1>1, <1>2 DEF Range
<1>5. ASSUME NEW x \in Range(s) PROVE x = Head(s) \/ x \in Range(Tail(s))
  <2>1. PICK i \in 1 .. Len(s) : x = s[i]
    BY <1>1, <1>5 DEF Range
  <2>2. CASE i = 1
    BY <1>2, <2>1, <2>2
  <2>3. CASE i # 1
    <3>1. i - 1 \in 1 .. (Len(s) - 1) /\ (i - 1) + 1 = i
      BY <1>1, <2>3
    <3> QED
      BY <1>3, <2>1, <3>1 DEF Range
  <2> QED
    BY <2>2, <2>3
<1>6. ASSUME NEW x \in Range(Tail(s)) PROVE x \in Range(s)
  <2>1. PICK i \in 1 .. (Len(s) - 1) : x = s[i + 1]
    BY <1>3 DEF Range
  <2>2. i + 1 \in 1 .. Len(s)
    BY <1>1
  <2> QED
    BY <1>1, <2>1, <2>2 DEF Range
<1> QED
  BY <1>2, <1>4, <1>5, <1>6

(* What is in a sequence after an element is appended. *)
LEMMA AppendFacts ==
    ASSUME NEW S, NEW s \in Seq(S), NEW x \in S
    PROVE  /\ Append(s, x) \in Seq(S)
           /\ Range(Append(s, x)) = Range(s) \cup {x}
<1>1. /\ Append(s, x) \in Seq(S) /\ Len(s) \in Nat
      /\ DOMAIN s = 1 .. Len(s) /\ DOMAIN Append(s, x) = 1 .. (Len(s) + 1)
      /\ Append(s, x)[Len(s) + 1] = x
      /\ \A i \in 1 .. Len(s) : Append(s, x)[i] = s[i]
  OBVIOUS
<1>2. ASSUME NEW y \in Range(Append(s, x)) PROVE y \in Range(s) \cup {x}
  <2>1. PICK i \in 1 .. (Len(s) + 1) : y = Append(s, x)[i]
    BY <1>1 DEF Range
  <2>2. i = Len(s) + 1 \/ i \in 1 .. Len(s)
    BY <1>1
  <2> QED
    BY <1>1, <2>1, <2>2 DEF Range
<1>3. ASSUME NEW y \in Range(s) \cup {x} PROVE y \in Range(Append(s, x))
  <2>1. CASE y = x
    <3>1. Len(s) + 1 \in 1 .. (Len(s) + 1)
      BY <1>1
    <3> QED
      BY <1>1, <2>1, <3>1 DEF Range
  <2>2. CASE y \in Range(s)
    <3>1. PICK i \in 1 .. Len(s) : y = s[i]
      BY <1>1, <2>2 DEF Range
    <3>2. i \in 1 .. (Len(s) + 1)
      BY <1>1
    <3> QED
      BY <1>1, <3>1, <3>2 DEF Range
  <2> QED
    BY <1>3, <2>1, <2>2
<1> QED
  BY <1>1, <1>2, <1>3

(* The elements of a sequence. *)
LEMMA RangeFacts ==
    /\ Range(<< >>) = {}
    /\ \A S : \A s \in Seq(S) : Range(s) \subseteq S
BY DEF Range

(* An object has one name; names of different registries are different,    *)
(* but for singletons.                                                     *)
LEMMA NameFacts ==
    ASSUME NEW r \in Registries, NEW t \in Templates
    PROVE  /\ Name(r, t) \in Names
           /\ t \notin Singletons =>
                \A q \in Registries, u \in Templates :
                    Name(q, u) = Name(r, t) => q = r /\ u = t
           /\ t \in Singletons =>
                \A q \in Registries, u \in Templates :
                    Name(q, u) = Name(r, t) => u = t
BY TemplateAssumption DEF Name, Names

(* A plan has steps, and each has templates and checks. *)
LEMMA StepFacts ==
    ASSUME NEW r \in Registries
    PROVE  /\ Len(Steps[r]) \in Nat /\ DOMAIN Steps[r] = 1 .. Len(Steps[r])
           /\ 1 \in 1 .. Len(Steps[r])
           /\ \A i \in 1 .. Len(Steps[r]) : /\ Steps[r][i].templates \in Seq(Templates)
                                            /\ Steps[r][i].checks \in Seq(Templates)
<1>1. Steps[r] \in Seq(Step) /\ Steps[r] # << >>
  BY TemplateAssumption
<1>2. \A i \in 1 .. Len(Steps[r]) : Steps[r][i] \in Step
  BY <1>1
<1> QED
  BY <1>1, <1>2 DEF Step

(* Values of the specified types. *)
LEMMA ConstantTypes ==
    /\ NoEntry \in Entry
    /\ Idle \in Job
    /\ NoObject \in Deleted
    /\ \A r \in Registries, t \in Templates, p \in Params : NewObject(r, t, p) \in Object
<1>1. (CHOOSE p \in Params : TRUE) \in Params /\ (CHOOSE r \in Registries : TRUE) \in Registries
  BY TemplateAssumption
<1>2. << >> \in Seq(Templates) /\ << >> \in Seq([name : Names, object : Object])
  BY EmptySeq
<1>3. \A t \in Templates, p \in Params : Render[<<t, p>>] \in Specs
  BY DEF Specs
<1>4. NoEntry \in Entry
  BY <1>1 DEF NoEntry, Entry
<1>5. Idle \in Job
  BY <1>1, <1>2 DEF Idle, Job, Labels
<1>6. \A r \in Registries, t \in Templates, p \in Params : NewObject(r, t, p) \in Object
  BY <1>3 DEF NewObject, Object
<1> QED
  BY <1>4, <1>5, <1>6 DEF NoObject, Deleted

-----------------------------------------------------------------------------
(* Type correctness.                                                       *)

Creating(x) == x.pc \in {"create", "get", "own", "check"}

(* Where a Creator is: within a step of the plan, and at a singleton when  *)
(* it reads or writes an object that is there already.  Without this       *)
(* EnterBarrier could leave the plan.                                      *)
AtStep(x) ==
    /\ Creating(x) => x.step \in 1 .. Len(Steps[x.r])
    /\ x.pc \in {"get", "own"} => x.rest # << >> /\ Head(x.rest) \in Singletons
    /\ x.pc = "own" => x.cache \in Object

JobsType == job \in [Jobs -> Job] /\ \A j \in Jobs : AtStep(job[j])

(* A goroutine is replaced by a well-formed one. *)
LEMMA JobsTypeKept ==
    ASSUME JobsType, NEW j \in Jobs, NEW x \in Job, AtStep(x),
           job' = [job EXCEPT ![j] = x]
    PROVE  JobsType'
<1>1. \A k \in Jobs : job'[k] = IF k = j THEN x ELSE job[k]
  BY DEF JobsType
<1>2. \A k \in Jobs : AtStep(job[k])'
  BY <1>1 DEF JobsType, AtStep, Creating
<1> QED
  BY <1>2 DEF JobsType

(* The fields of a goroutine. *)
LEMMA JobFields ==
    ASSUME NEW x \in Job
    PROVE  /\ x.r \in Registries /\ x.step \in Nat /\ x.rest \in Seq(Templates)
           /\ x.rv \in Nat /\ x.params \in Params
           /\ x.todo \in Seq([name : Names, object : Object])
           /\ x.cache \in Object \cup {NoObject}
           /\ x.result \in {"none", "ok", "error"}
BY DEF Job

(* An object that is written or left is an object. *)
LEMMA ObjectFields ==
    /\ \A o \in Object \cup Deleted : o.rv \in Nat /\ (o.exists => o \in Object)
    /\ \A o \in Object : /\ o.exists /\ o.owners \subseteq Registries
                         /\ o.desired \in Specs /\ o.foreign \in Nat
BY DEF Object, Deleted

(* Finish ends well-formed, with the job at its end. *)
LEMMA FinishFacts ==
    ASSUME JobsType, NEW j \in Jobs, NEW result \in {"ok", "error"}, Finish(j, result)
    PROVE  \E x \in Job :
              /\ job' = [job EXCEPT ![j] = x] /\ AtStep(x)
              /\ x.pc = "complete" /\ x.result = result
              /\ x.r = job[j].r /\ x.todo = job[j].todo /\ x.params = job[j].params
<1>1. PICK y \in Job : y = job[j]
  BY DEF JobsType
<1>2. PICK x : x = [y EXCEPT !.pc = "complete", !.result = result]
  OBVIOUS
<1>3. /\ x \in Job /\ x.pc = "complete" /\ x.result = result
      /\ x.r = y.r /\ x.todo = y.todo /\ x.params = y.params
  BY <1>2 DEF Job, Labels
<1>4. AtStep(x)
  BY <1>3 DEF AtStep, Creating
<1> QED
  BY <1>1, <1>2, <1>3, <1>4 DEF Finish

(* The next template of the step. *)
LEMMA NextTemplateFacts ==
    ASSUME JobsType, NEW j \in Jobs, Creating(job[j]), job[j].rest # << >>,
           NextTemplate(j)
    PROVE  \E x \in Job :
              /\ job' = [job EXCEPT ![j] = x] /\ AtStep(x)
              /\ x.pc = "create" /\ x.rest = Tail(job[j].rest)
              /\ x.r = job[j].r /\ x.step = job[j].step /\ x.todo = job[j].todo
              /\ x.params = job[j].params
<1>1. PICK y \in Job : y = job[j] /\ AtStep(y)
  BY DEF JobsType
<1>2. PICK rest \in Seq(Templates) : rest = Tail(y.rest)
  BY <1>1, JobFields, TailFacts
<1>3. PICK x : x = [y EXCEPT !.pc = "create", !.rest = rest, !.cache = NoObject]
  OBVIOUS
<1>4. /\ x \in Job /\ x.pc = "create" /\ x.rest = rest
      /\ x.r = y.r /\ x.step = y.step /\ x.todo = y.todo /\ x.params = y.params
  BY <1>3 DEF Job, Labels
<1>5. AtStep(x)
  BY <1>1, <1>4 DEF AtStep, Creating
<1>6. job' = [job EXCEPT ![j] = x]
  BY <1>1, <1>2, <1>3 DEF NextTemplate
<1> QED
  BY <1>1, <1>2, <1>4, <1>5, <1>6

(* The next step, or the end. *)
LEMMA EnterStepFacts ==
    ASSUME JobsType, NEW j \in Jobs, Creating(job[j]), EnterStep(j, job[j].step + 1)
    PROVE  \E x \in Job :
              /\ job' = [job EXCEPT ![j] = x] /\ AtStep(x)
              /\ x.r = job[j].r /\ x.todo = job[j].todo /\ x.params = job[j].params
              /\ \/ /\ x.pc = "complete" /\ x.result = "ok"
                    /\ job[j].step = Len(Steps[x.r])
                 \/ /\ x.pc = "create" /\ x.step = job[j].step + 1
                    /\ x.step \in 1 .. Len(Steps[x.r])
                    /\ x.rest = Steps[x.r][x.step].templates
<1>1. PICK y \in Job : y = job[j] /\ AtStep(y)
  BY DEF JobsType
<1>2. y.step \in 1 .. Len(Steps[y.r]) /\ Len(Steps[y.r]) \in Nat
  BY <1>1, JobFields, StepFacts DEF AtStep
<1>3. CASE y.step + 1 > Len(Steps[y.r])
  <2>1. Finish(j, "ok") /\ y.step = Len(Steps[y.r])
    BY <1>1, <1>2, <1>3 DEF EnterStep, CreatorSteps
  <2> QED
    BY <1>1, <2>1, FinishFacts
<1>4. CASE ~(y.step + 1 > Len(Steps[y.r]))
  <2>1. PICK s \in 1 .. Len(Steps[y.r]) : s = y.step + 1
    BY <1>2, <1>4
  <2>2. PICK rest \in Seq(Templates) : rest = Steps[y.r][s].templates
    BY JobFields, StepFacts
  <2>3. PICK x : x = [y EXCEPT !.pc = "create", !.step = s, !.rest = rest,
                               !.cache = NoObject]
    OBVIOUS
  <2>4. s \in Nat
    BY <1>2
  <2>5. /\ x \in Job /\ x.pc = "create" /\ x.rest = rest /\ x.step = s
        /\ x.r = y.r /\ x.todo = y.todo /\ x.params = y.params
    BY <2>3, <2>4 DEF Job, Labels
  <2>6. AtStep(x)
    BY <2>5 DEF AtStep, Creating
  <2>7. job' = [job EXCEPT ![j] = x]
    BY <1>1, <1>4, <2>1, <2>2, <2>3 DEF EnterStep, CreatorSteps
  <2> QED
    BY <1>1, <2>1, <2>2, <2>5, <2>6, <2>7
<1> QED
  BY <1>3, <1>4

-----------------------------------------------------------------------------
(* The inductive invariant.                                                *)

(* x holds the lock of its registry. *)
Busy(x) == x.pc \in {"create", "get", "own", "check", "apply", "complete"}

(* The lock: who provisions holds a provision, who updates an update.  An  *)
(* update that is being prepared holds nothing but the version it read.    *)
Locked(x) ==
    /\ Busy(x) => registry[x.r].state = "live"
    /\ Creating(x) => registry[x.r].op = "provision"
    /\ x.pc = "apply" => registry[x.r].op = "update"
    /\ x.pc = "complete" => registry[x.r].op # "none" /\ x.result # "none"
    /\ x.pc = "prepare" => /\ registry[x.r].state # "none"
                           /\ registry[x.r].state = "live" => x.rv <= registry[x.r].rv
    /\ x.pc = "idle" \/ Creating(x) => x.todo = << >>

(* One goroutine at a time holds it. *)
Sole ==
    \A j, k \in Jobs :
        Busy(job[j]) /\ Busy(job[k]) /\ job[j].r = job[k].r => j = k

(* A copy o of object n is old; one with the version of the object is      *)
(* right in all but the annotation.                                        *)
Copy(n, o) ==
    /\ o.rv <= objects[n].rv
    /\ objects[n].exists /\ objects[n].rv = o.rv =>
          /\ objects[n].owners = o.owners
          /\ objects[n].foreign = o.foreign
          /\ objects[n].ready = o.ready

Copies(x) ==
    /\ x.pc = "own" => Copy(Name(x.r, Head(x.rest)), x.cache)
    /\ \A d \in Range(x.todo) : Copy(d.name, d.object)

ReadyMarked == \A n \in Names : objects[n].exists /\ objects[n].ready => n \in wasReady

Checked(r, t) == Name(r, t) \in wasReady
Owned(r, t) == objects[Name(r, t)].exists /\ r \in objects[Name(r, t)].owners

(* Step i of the plan of r is done. *)
StepOwned(r, i) == \A t \in Range(Steps[r][i].templates) : Owned(r, t)
StepChecked(r, i) == \A t \in Range(Steps[r][i].checks) : Checked(r, t)

(* What a Creator has done: the steps before its own, the templates and    *)
(* checks of its own but for the rest, and all of them when it succeeds.   *)
Progress(x) ==
    /\ Creating(x) =>
          \A i \in 1 .. x.step - 1 : StepOwned(x.r, i) /\ StepChecked(x.r, i)
    /\ x.pc \in {"create", "get", "own"} =>
          \A t \in Range(Steps[x.r][x.step].templates) :
              Owned(x.r, t) \/ t \in Range(x.rest)
    /\ x.pc = "check" =>
          /\ StepOwned(x.r, x.step)
          /\ \A t \in Range(Steps[x.r][x.step].checks) :
                Checked(x.r, t) \/ t \in Range(x.rest)
    /\ x.pc = "complete" /\ x.result = "ok" /\ registry[x.r].op = "provision" =>
          \A i \in DOMAIN Steps[x.r] : StepOwned(x.r, i) /\ StepChecked(x.r, i)

Done ==
    \A r \in provisioned :
        /\ registry[r].state # "none"
        /\ \A i \in DOMAIN Steps[r] : StepChecked(r, i)
        /\ registry[r].state = "live" => \A i \in DOMAIN Steps[r] : StepOwned(r, i)

(* The templates an update looks at. *)
Updates(r) == Range(UpdaterTemplates(r)) \ Singletons

(* The object of t, if any, is what the parameters p render to. *)
Rendered(r, t, p) ==
    objects[Name(r, t)].exists => objects[Name(r, t)].desired = Render[<<t, p>>]

(* An update has t done or on its list. *)
Listed(x, t) == \E d \in Range(x.todo) : d.name = Name(x.r, t)

Todo(x) ==
    \A d \in Range(x.todo) :
        \E t \in Templates \ Singletons :
            d.name = Name(x.r, t) /\ d.object.desired = Render[<<t, x.params>>]

(* What an Updater knows: as long as the registry has the version it read  *)
(* and no operation, what it compared is still so; and when it has the     *)
(* lock, what is not on its list is right.                                 *)
Merged(x) ==
    /\ /\ x.pc = "prepare" /\ registry[x.r].state = "live"
       /\ registry[x.r].op = "none" /\ registry[x.r].rv = x.rv
       => \A t \in Updates(x.r) :
             t \in Range(x.rest) \/ Rendered(x.r, t, x.params) \/ Listed(x, t)
    /\ x.pc = "apply" =>
          /\ registry[x.r].params = x.params
          /\ \A t \in Updates(x.r) : Rendered(x.r, t, x.params) \/ Listed(x, t)
    /\ x.pc = "complete" /\ x.result = "ok" /\ registry[x.r].op = "update" =>
          \A t \in Updates(x.r) : Rendered(x.r, t, registry[x.r].params)

Updated ==
    \A r \in Registries :
        /\ registry[r].state = "live" /\ registry[r].op = "none"
        /\ registry[r].last = "update" /\ registry[r].result = "ok"
        => \A t \in Updates(r) : Rendered(r, t, registry[r].params)

Steady(x) == Locked(x) /\ Copies(x) /\ Progress(x) /\ Todo(x) /\ Merged(x)

ProvisionInv ==
    /\ TypeOK /\ JobsType
    /\ Sole /\ ReadyMarked /\ Done /\ Updated
    /\ \A j \in Jobs : Steady(job[j])

-----------------------------------------------------------------------------
(* What a write leaves true.                                               *)

(* A write that puts o in the place of object n: it has a new version, no  *)
(* live registry loses its ownership, it forgets no change of another      *)
(* controller, and readiness is recorded.                                  *)
Harmless(n, o) ==
    /\ o.rv >= objects[n].rv
    /\ o.exists => o.rv > objects[n].rv
    /\ \A r \in Live : objects[n].exists /\ r \in objects[n].owners =>
                          o.exists /\ r \in o.owners
    /\ objects[n].exists /\ o.exists => o.foreign >= objects[n].foreign
    /\ o.exists /\ o.ready => n \in wasReady'

(* The annotation of an object of r does not change. *)
SameDesired(r, n, o) ==
    \A t \in Templates \ Singletons :
        Name(r, t) = n => (o.exists => objects[n].exists /\ o.desired = objects[n].desired)

(* Ownership by a live registry, and readiness, last. *)
LEMMA OwnedKept ==
    ASSUME TypeOK, NEW n \in Names, NEW o \in Object \cup Deleted,
           objects' = [objects EXCEPT ![n] = o], Harmless(n, o),
           wasReady \subseteq wasReady',
           NEW r \in Registries, NEW i \in 1 .. Len(Steps[r])
    PROVE  /\ \A t \in Templates : registry[r].state = "live" /\ Owned(r, t) => Owned(r, t)'
           /\ \A t \in Templates : Checked(r, t) => Checked(r, t)'
           /\ registry[r].state = "live" /\ StepOwned(r, i) => StepOwned(r, i)'
           /\ StepChecked(r, i) => StepChecked(r, i)'
<1>1. ASSUME NEW t \in Templates, registry[r].state = "live", Owned(r, t)
      PROVE  Owned(r, t)'
  <2>1. PICK m \in Names : m = Name(r, t)
    BY NameFacts
  <2>2. objects'[m] = IF m = n THEN o ELSE objects[m]
    BY DEF TypeOK
  <2> QED
    BY <1>1, <2>1, <2>2 DEF Owned, Harmless, Live
<1>2. \A t \in Templates : Checked(r, t) => Checked(r, t)'
  BY DEF Checked
<1>3. /\ Range(Steps[r][i].templates) \subseteq Templates
      /\ Range(Steps[r][i].checks) \subseteq Templates
  BY StepFacts, RangeFacts
<1> QED
  BY <1>1, <1>2, <1>3 DEF StepOwned, StepChecked

(* The objects of r are what they were rendered to. *)
LEMMA RenderedKept ==
    ASSUME TypeOK, NEW n \in Names, NEW o \in Object \cup Deleted,
           objects' = [objects EXCEPT ![n] = o],
           NEW r \in Registries, SameDesired(r, n, o),
           NEW t \in Templates \ Singletons, NEW p, Rendered(r, t, p)
    PROVE  Rendered(r, t, p)'
<1>1. PICK m \in Names : m = Name(r, t)
  BY NameFacts
<1>2. objects'[m] = IF m = n THEN o ELSE objects[m]
  BY DEF TypeOK
<1> QED
  BY <1>1, <1>2 DEF Rendered, SameDesired

(* The templates of an update are templates, none of them singletons. *)
LEMMA UpdatesType == \A r \in Registries : Updates(r) \subseteq Templates \ Singletons
BY StepFacts, RangeFacts DEF Updates, UpdaterTemplates

(* A copy stays a copy. *)
LEMMA CopyKept ==
    ASSUME TypeOK, NEW n \in Names, NEW o \in Object \cup Deleted,
           objects' = [objects EXCEPT ![n] = o], Harmless(n, o),
           NEW m \in Names, NEW c \in Object, Copy(m, c)
    PROVE  Copy(m, c)'
<1>1. objects'[m] = IF m = n THEN o ELSE objects[m]
  BY DEF TypeOK
<1>2. o.rv \in Nat /\ objects[m].rv \in Nat /\ objects[n].rv \in Nat /\ c.rv \in Nat
  BY ObjectFields DEF TypeOK
<1> QED
  BY <1>1, <1>2 DEF Copy, Harmless

(* The goroutines that do not write the object. *)
LEMMA OtherJob ==
    ASSUME ProvisionInv, NEW n \in Names, NEW o \in Object \cup Deleted,
           objects' = [objects EXCEPT ![n] = o], Harmless(n, o),
           wasReady \subseteq wasReady', registry' = registry,
           NEW k \in Jobs, job'[k] = job[k],
           \/ SameDesired(job[k].r, n, o)
           \/ ~Busy(job[k]) /\ registry[job[k].r].op # "none"
    PROVE  Steady(job[k])'
<1>1. PICK x \in Job : x = job[k]
  BY DEF ProvisionInv, JobsType
<1>2. TypeOK /\ Steady(job[k]) /\ AtStep(x)
  BY <1>1 DEF ProvisionInv, JobsType
<1>3. Locked(job[k])' /\ Todo(job[k])'
  BY <1>1, <1>2 DEF Steady, Locked, Todo, Busy, Creating
<1>4. Copies(job[k])'
  <2>1. /\ x.pc = "own" => Copy(Name(x.r, Head(x.rest)), x.cache)
        /\ \A d \in Range(x.todo) : Copy(d.name, d.object)
    BY <1>1, <1>2 DEF Steady, Copies
  <2>2. ASSUME x.pc = "own" PROVE Copy(Name(x.r, Head(x.rest)), x.cache)'
    <3>1. PICK c \in Object : c = x.cache
      BY <1>2, <2>2 DEF AtStep
    <3>2. Head(x.rest) \in Templates
      BY <1>2, <2>2, JobFields, TailFacts DEF AtStep
    <3>3. PICK m \in Names : m = Name(x.r, Head(x.rest))
      BY <3>2, JobFields, NameFacts
    <3>4. Copy(m, c)'
      BY <1>2, <2>1, <2>2, <3>1, <3>3, CopyKept
    <3> QED
      BY <3>1, <3>3, <3>4
  <2>3. ASSUME NEW d \in Range(x.todo) PROVE Copy(d.name, d.object)'
    <3>1. d \in [name : Names, object : Object]
      BY JobFields, RangeFacts
    <3>2. PICK m \in Names : m = d.name
      BY <3>1
    <3>3. PICK c \in Object : c = d.object
      BY <3>1
    <3>4. Copy(m, c)'
      BY <1>2, <2>1, <3>2, <3>3, CopyKept
    <3> QED
      BY <3>2, <3>3, <3>4
  <2> QED
    BY <1>1, <2>2, <2>3 DEF Copies, Copy
<1>5. Progress(job[k])'
  <2>1. PICK r \in Registries : r = x.r
    BY JobFields
  <2>2. Progress(x) /\ Locked(x)
    BY <1>1, <1>2 DEF Steady
  <2>3. /\ Len(Steps[r]) \in Nat /\ DOMAIN Steps[r] = 1 .. Len(Steps[r])
        /\ \A i \in 1 .. Len(Steps[r]) :
              /\ Range(Steps[r][i].templates) \subseteq Templates
              /\ Range(Steps[r][i].checks) \subseteq Templates
    BY StepFacts, RangeFacts
  <2>4. CASE Creating(x)
    <3>1. registry[r].state = "live" /\ x.step \in 1 .. Len(Steps[r])
      BY <1>2, <2>1, <2>2, <2>4 DEF Locked, AtStep, Busy, Creating
    <3>2. \A i \in 1 .. x.step - 1 : i \in 1 .. Len(Steps[r])
      BY <2>3, <3>1
    <3>3. \A i \in 1 .. x.step - 1 : StepOwned(r, i)' /\ StepChecked(r, i)'
      BY <1>2, <2>1, <2>2, <2>4, <3>1, <3>2, OwnedKept DEF Progress
    <3>4. \A t \in Templates : /\ Owned(r, t) => Owned(r, t)'
                               /\ Checked(r, t) => Checked(r, t)'
      BY <1>2, <3>1, OwnedKept
    <3>5. x.pc \in {"create", "get", "own"} =>
            \A t \in Range(Steps[r][x.step].templates) :
                Owned(r, t)' \/ t \in Range(x.rest)
      BY <2>1, <2>2, <2>3, <3>1, <3>4 DEF Progress
    <3>6. x.pc = "check" =>
            /\ StepOwned(r, x.step)'
            /\ \A t \in Range(Steps[r][x.step].checks) :
                   Checked(r, t)' \/ t \in Range(x.rest)
      BY <1>2, <2>1, <2>2, <2>3, <3>1, <3>4, OwnedKept DEF Progress
    <3> QED
      BY <1>1, <2>1, <2>4, <3>3, <3>5, <3>6
      DEF Progress, Creating, StepOwned, StepChecked, Owned, Checked
  <2>5. CASE x.pc = "complete"
    <3>1. registry[r].state = "live"
      BY <2>1, <2>2, <2>5 DEF Locked, Busy
    <3>2. x.result = "ok" /\ registry[r].op = "provision" =>
            \A i \in DOMAIN Steps[r] : StepOwned(r, i)' /\ StepChecked(r, i)'
      BY <1>2, <2>1, <2>2, <2>3, <2>5, <3>1, OwnedKept DEF Progress
    <3> QED
      BY <1>1, <2>1, <2>5, <3>2
      DEF Progress, Creating, StepOwned, StepChecked, Owned, Checked
  <2>6. CASE ~Creating(x) /\ x.pc # "complete"
    BY <1>1, <2>6 DEF Progress, Creating
  <2> QED
    BY <2>4, <2>5, <2>6
<1>6. Merged(job[k])'
  <2>1. PICK r \in Registries : r = x.r
    BY JobFields
  <2>2. Merged(x) /\ Locked(x)
    BY <1>1, <1>2 DEF Steady
  <2>3. Updates(r) \subseteq Templates \ Singletons
    BY UpdatesType
  <2>4. CASE SameDesired(r, n, o)
    <3>1. \A t \in Updates(r), p \in Params : Rendered(r, t, p) => Rendered(r, t, p)'
      BY <1>2, <2>3, <2>4, RenderedKept
    <3>2. x.params \in Params /\ registry[r].params \in Params
      BY <1>2, JobFields DEF TypeOK, Entry
    <3> QED
      BY <1>1, <2>1, <2>2, <3>1, <3>2 DEF Merged, Rendered, Listed
  <2>5. CASE ~Busy(x) /\ registry[r].op # "none"
    BY <1>1, <2>1, <2>2, <2>5 DEF Merged, Busy
  <2> QED
    BY <1>1, <2>1, <2>4, <2>5
<1> QED
  BY <1>3, <1>4, <1>5, <1>6 DEF Steady

(* The record of readiness, and what was promised to registries. *)
LEMMA PromisesKept ==
    ASSUME ProvisionInv, NEW n \in Names, NEW o \in Object \cup Deleted,
           objects' = [objects EXCEPT ![n] = o], Harmless(n, o),
           wasReady \subseteq wasReady', wasReady' \subseteq Names,
           UNCHANGED <<registry, provisioned>>,
           \A r \in Registries : registry[r].op = "none" => SameDesired(r, n, o)
    PROVE  /\ objects' \in [Names -> Object \cup Deleted]
           /\ ReadyMarked' /\ Done' /\ Updated'
<1>1. TypeOK /\ provisioned \subseteq Registries
  BY DEF ProvisionInv, TypeOK
<1>2. objects' \in [Names -> Object \cup Deleted]
  BY <1>1 DEF TypeOK
<1>3. ReadyMarked'
  <2>1. \A m \in Names : objects'[m] = IF m = n THEN o ELSE objects[m]
    BY <1>1 DEF TypeOK
  <2> QED
    BY <2>1 DEF ReadyMarked, ProvisionInv, Harmless
<1>4. Done'
  <2> SUFFICES ASSUME NEW r \in provisioned
               PROVE  /\ registry[r].state # "none"
                      /\ \A i \in DOMAIN Steps[r] : StepChecked(r, i)'
                      /\ registry[r].state = "live" =>
                            \A i \in DOMAIN Steps[r] : StepOwned(r, i)'
    BY DEF Done, StepChecked, StepOwned, Checked, Owned
  <2>1. r \in Registries /\ DOMAIN Steps[r] = 1 .. Len(Steps[r])
    BY <1>1, StepFacts
  <2>2. /\ registry[r].state # "none"
        /\ \A i \in DOMAIN Steps[r] : StepChecked(r, i)
        /\ registry[r].state = "live" => \A i \in DOMAIN Steps[r] : StepOwned(r, i)
    BY DEF ProvisionInv, Done
  <2> QED
    BY <1>1, <2>1, <2>2, OwnedKept
<1>5. Updated'
  <2> SUFFICES ASSUME NEW r \in Registries, NEW t \in Updates(r),
                      registry[r].state = "live", registry[r].op = "none",
                      registry[r].last = "update", registry[r].result = "ok"
               PROVE  Rendered(r, t, registry[r].params)'
    BY DEF Updated
  <2>1. t \in Templates \ Singletons /\ SameDesired(r, n, o)
    BY UpdatesType
  <2>2. PICK p : p = registry[r].params
    OBVIOUS
  <2>3. Rendered(r, t, p)
    BY <2>2 DEF ProvisionInv, Updated
  <2>4. Rendered(r, t, p)'
    BY <1>1, <2>1, <2>3, RenderedKept
  <2> QED
    BY <2>2, <2>4 DEF Rendered
<1> QED
  BY <1>2, <1>3, <1>4, <1>5

(* A goroutine that stays as it is while nothing around it changes. *)
LEMMA IdleJob ==
    ASSUME ProvisionInv, UNCHANGED <<registry, objects, wasReady>>,
           NEW k \in Jobs, job'[k] = job[k]
    PROVE  Steady(job[k])'
<1>1. Steady(job[k])
  BY DEF ProvisionInv
<1>2. Locked(job[k])' /\ Copies(job[k])' /\ Todo(job[k])'
  BY <1>1 DEF Steady, Locked, Copies, Todo, Copy, Busy, Creating
<1>3. Progress(job[k])'
  BY <1>1 DEF Steady, Progress, Creating, StepOwned, StepChecked, Owned, Checked
<1>4. Merged(job[k])'
  BY <1>1 DEF Steady, Merged, Rendered, Listed
<1> QED
  BY <1>2, <1>3, <1>4 DEF Steady

(* A goroutine that does not hold the lock of the registry that is written.*)
LEMMA OtherLock ==
    ASSUME ProvisionInv, UNCHANGED <<objects, wasReady>>,
           NEW q \in Registries, NEW e \in Entry,
           registry' = [registry EXCEPT ![q] = e],
           e.state # "none",
           e.state = "live" =>
               e.rv > registry[q].rv /\ registry[q].state \in {"none", "live"},
           NEW k \in Jobs, job'[k] = job[k], ~(Busy(job[k]) /\ job[k].r = q)
    PROVE  Steady(job[k])'
<1>1. PICK x \in Job : x = job[k] /\ Steady(job[k])
  BY DEF ProvisionInv, JobsType
<1>2. PICK r \in Registries : r = x.r
  BY JobFields
<1>3. registry'[r] = IF r = q THEN e ELSE registry[r]
  BY DEF ProvisionInv, TypeOK
<1>4. e.rv \in Nat /\ registry[q].rv \in Nat /\ x.rv \in Nat
  BY JobFields DEF ProvisionInv, TypeOK, Entry
<1>5. Copies(job[k])' /\ Todo(job[k])'
  BY <1>1 DEF Steady, Copies, Todo, Copy
<1>6. Locked(x) /\ Progress(x) /\ Merged(x)
  BY <1>1 DEF Steady
<1>7. CASE r # q
  <2>1. Locked(job[k])'
    BY <1>1, <1>2, <1>3, <1>6, <1>7 DEF Locked, Busy, Creating
  <2>2. Progress(job[k])'
    BY <1>1, <1>2, <1>3, <1>6, <1>7
    DEF Progress, Creating, StepOwned, StepChecked, Owned, Checked
  <2>3. Merged(job[k])'
    BY <1>1, <1>2, <1>3, <1>6, <1>7 DEF Merged, Rendered, Listed
  <2> QED
    BY <1>5, <2>1, <2>2, <2>3 DEF Steady
<1>8. CASE r = q
  <2>1. ~Busy(x)
    BY <1>1, <1>2, <1>8
  <2>2. x.pc = "prepare" /\ e.state = "live" => x.rv < e.rv
    BY <1>2, <1>4, <1>6, <1>8 DEF Locked
  <2>3. Locked(job[k])'
    BY <1>1, <1>2, <1>3, <1>4, <1>6, <1>8, <2>1, <2>2 DEF Locked, Busy, Creating
  <2>4. Progress(job[k])'
    BY <1>1, <2>1 DEF Progress, Busy, Creating
  <2>5. Merged(job[k])'
    BY <1>1, <1>2, <1>3, <1>4, <1>8, <2>1, <2>2 DEF Merged, Busy
  <2> QED
    BY <1>5, <2>3, <2>4, <2>5 DEF Steady
<1> QED
  BY <1>7, <1>8

(* The lock stays with one goroutine. *)
LEMMA SoleKept ==
    ASSUME ProvisionInv, NEW j \in Jobs, NEW x \in Job, job' = [job EXCEPT ![j] = x],
           Busy(x) => \/ Busy(job[j]) /\ x.r = job[j].r
                      \/ \A k \in Jobs : ~(Busy(job[k]) /\ job[k].r = x.r)
    PROVE  Sole'
<1>1. \A k \in Jobs : job'[k] = IF k = j THEN x ELSE job[k]
  BY DEF ProvisionInv, JobsType
<1>2. \A g, k \in Jobs :
         Busy(job[g]) /\ Busy(job[k]) /\ job[g].r = job[k].r => g = k
  BY DEF ProvisionInv, Sole
<1> SUFFICES ASSUME NEW g \in Jobs, NEW k \in Jobs,
                    Busy(job'[g]), Busy(job'[k]), job'[g].r = job'[k].r
             PROVE  g = k
  BY DEF Sole, Busy
<1>3. CASE g = j /\ k # j
  BY <1>1, <1>2, <1>3
<1>4. CASE g # j /\ k = j
  BY <1>1, <1>2, <1>4
<1>5. CASE g # j /\ k # j
  BY <1>1, <1>2, <1>5
<1> QED
  BY <1>3, <1>4, <1>5

(* A step of goroutine j that writes nothing. *)
LEMMA JobChange ==
    ASSUME ProvisionInv, NEW j \in Jobs, NEW x \in Job, AtStep(x),
           job' = [job EXCEPT ![j] = x],
           UNCHANGED <<registry, objects, foreign, wasReady, provisioned>>,
           updates' \in 0 .. MaxUpdates,
           Busy(x) => Busy(job[j]) /\ x.r = job[j].r,
           Steady(job[j])'
    PROVE  ProvisionInv'
<1>1. JobsType'
  BY JobsTypeKept DEF ProvisionInv
<1>2. TypeOK'
  BY <1>1 DEF ProvisionInv, TypeOK, JobsType
<1>3. ASSUME NEW k \in Jobs, k # j PROVE Steady(job[k])'
  <2>1. job'[k] = job[k]
    BY <1>3 DEF ProvisionInv, JobsType
  <2> QED
    BY <2>1, IdleJob
<1>4. Sole'
  BY SoleKept
<1>5. ReadyMarked' /\ Done' /\ Updated'
  BY DEF ProvisionInv, ReadyMarked, Done, Updated, StepOwned, StepChecked, Owned,
         Checked, Rendered
<1> QED
  BY <1>1, <1>2, <1>3, <1>4, <1>5 DEF ProvisionInv

(* A step of a goroutine j with the lock that writes an object. *)
LEMMA ObjectChange ==
    ASSUME ProvisionInv, NEW j \in Jobs, NEW x \in Job, AtStep(x),
           job' = [job EXCEPT ![j] = x],
           NEW n \in Names, NEW o \in Object \cup Deleted,
           objects' = [objects EXCEPT ![n] = o], Harmless(n, o),
           UNCHANGED <<registry, foreign, updates, wasReady, provisioned>>,
           Busy(job[j]), x.r = job[j].r,
           \A r \in Registries : r # job[j].r => SameDesired(r, n, o),
           Steady(job[j])'
    PROVE  ProvisionInv'
<1>1. JobsType'
  BY JobsTypeKept DEF ProvisionInv
<1>2. registry[job[j].r].op # "none"
  BY DEF ProvisionInv, Steady, Locked, Busy, Creating
<1>3. ASSUME NEW k \in Jobs, k # j PROVE Steady(job[k])'
  <2>1. job'[k] = job[k]
    BY <1>3 DEF ProvisionInv, JobsType
  <2>2. job[k].r \in Registries
    BY JobFields DEF ProvisionInv, JobsType
  <2>3. \/ SameDesired(job[k].r, n, o)
        \/ ~Busy(job[k]) /\ registry[job[k].r].op # "none"
    BY <1>2, <1>3, <2>2 DEF ProvisionInv, Sole
  <2> QED
    BY <2>1, <2>3, OtherJob
<1>4. Sole'
  BY SoleKept
<1>5. wasReady' \subseteq Names
  BY DEF ProvisionInv, TypeOK
<1>6. /\ objects' \in [Names -> Object \cup Deleted]
      /\ ReadyMarked' /\ Done' /\ Updated'
  BY <1>2, <1>5, PromisesKept
<1>7. TypeOK'
  BY <1>1, <1>6 DEF ProvisionInv, TypeOK, JobsType
<1> QED
  BY <1>1, <1>3, <1>4, <1>6, <1>7 DEF ProvisionInv

(* A write of an object by the cluster. *)
LEMMA ClusterChange ==
    ASSUME ProvisionInv, NEW n \in Names, NEW o \in Object \cup Deleted,
           objects' = [objects EXCEPT ![n] = o], Harmless(n, o),
           UNCHANGED <<registry, job, updates, provisioned>>,
           wasReady \subseteq wasReady', wasReady' \subseteq Names,
           foreign' \in 0 .. MaxWrites,
           o.exists => objects[n].exists /\ o.desired = objects[n].desired
    PROVE  ProvisionInv'
<1>1. JobsType' /\ Sole'
  BY DEF ProvisionInv, JobsType, AtStep, Creating, Sole, Busy
<1>2. \A r \in Registries : SameDesired(r, n, o)
  BY DEF SameDesired
<1>3. ASSUME NEW k \in Jobs PROVE Steady(job[k])'
  <2>1. job'[k] = job[k] /\ job[k].r \in Registries
    BY JobFields DEF ProvisionInv, JobsType
  <2> QED
    BY <1>2, <2>1, OtherJob
<1>4. /\ objects' \in [Names -> Object \cup Deleted]
      /\ ReadyMarked' /\ Done' /\ Updated'
  BY <1>2, PromisesKept
<1>5. TypeOK'
  BY <1>4 DEF ProvisionInv, TypeOK
<1> QED
  BY <1>1, <1>3, <1>4, <1>5 DEF ProvisionInv

(* A write of a registry. *)
LEMMA RegistryChange ==
    ASSUME ProvisionInv, NEW q \in Registries, NEW e \in Entry,
           registry' = [registry EXCEPT ![q] = e],
           UNCHANGED <<objects, foreign, updates, wasReady>>,
           e.state # "none",
           e.state = "live" =>
               e.rv > registry[q].rv /\ registry[q].state \in {"none", "live"},
           JobsType', Sole',
           \A k \in Jobs : \/ job'[k] = job[k] /\ ~(Busy(job[k]) /\ job[k].r = q)
                           \/ Steady(job[k])',
           provisioned' \subseteq Registries, provisioned' \subseteq provisioned \cup {q},
           q \in provisioned' =>
               \A i \in DOMAIN Steps[q] :
                   StepChecked(q, i) /\ (e.state = "live" => StepOwned(q, i)),
           /\ e.state = "live" /\ e.op = "none"
           /\ e.last = "update" /\ e.result = "ok"
           => \A t \in Updates(q) : Rendered(q, t, e.params)
    PROVE  ProvisionInv'
<1>1. \A r \in Registries : registry'[r] = IF r = q THEN e ELSE registry[r]
  BY DEF ProvisionInv, TypeOK
<1>2. \A k \in Jobs : Steady(job[k])'
  BY OtherLock
<1>3. TypeOK'
  BY DEF ProvisionInv, TypeOK, JobsType
<1>4. ReadyMarked'
  BY DEF ProvisionInv, ReadyMarked
<1>5. Done'
  <2> SUFFICES ASSUME NEW r \in provisioned'
               PROVE  /\ registry'[r].state # "none"
                      /\ \A i \in DOMAIN Steps[r] : StepChecked(r, i)
                      /\ registry'[r].state = "live" =>
                            \A i \in DOMAIN Steps[r] : StepOwned(r, i)
    BY DEF Done, StepChecked, StepOwned, Checked, Owned
  <2>1. CASE r = q
    BY <1>1, <2>1
  <2>2. CASE r # q
    BY <1>1, <2>2 DEF ProvisionInv, Done
  <2> QED
    BY <2>1, <2>2
<1>6. Updated'
  <2> SUFFICES ASSUME NEW r \in Registries, NEW t \in Updates(r),
                      registry'[r].state = "live", registry'[r].op = "none",
                      registry'[r].last = "update", registry'[r].result = "ok"
               PROVE  Rendered(r, t, registry'[r].params)
    BY DEF Updated, Rendered
  <2>1. CASE r = q
    BY <1>1, <2>1
  <2>2. CASE r # q
    BY <1>1, <2>2 DEF ProvisionInv, Updated
  <2> QED
    BY <2>1, <2>2
<1> QED
  BY <1>2, <1>3, <1>4, <1>5, <1>6 DEF ProvisionInv

(* Nothing runs for a registry that has no operation. *)
LEMMA FreeRegistry ==
    ASSUME ProvisionInv, NEW r \in Registries,
           registry[r].op = "none" \/ registry[r].state # "live",
           NEW k \in Jobs
    PROVE  ~(Busy(job[k]) /\ job[k].r = r)
BY DEF ProvisionInv, Steady, Locked, Busy, Creating

(* An idle goroutine is steady. *)
LEMMA IdleSteady ==
    ASSUME NEW j \in Jobs, job'[j] = Idle
    PROVE  Steady(job[j])' /\ ~Busy(Idle) /\ AtStep(Idle)
<1>1. Idle.pc = "idle" /\ Idle.todo = << >>
  BY DEF Idle
<1>2. Range(Idle.todo) = {}
  BY <1>1, RangeFacts
<1>3. Locked(job[j])' /\ Copies(job[j])' /\ Todo(job[j])'
  BY <1>1, <1>2 DEF Locked, Copies, Todo, Busy, Creating
<1>4. Progress(job[j])' /\ Merged(job[j])'
  BY <1>1 DEF Progress, Merged, Creating
<1> QED
  BY <1>1, <1>3, <1>4 DEF Steady, Busy, AtStep, Creating

(* A goroutine that ended with an error is steady. *)
LEMMA FailedSteady ==
    ASSUME ProvisionInv, NEW j \in Jobs, NEW x \in Job, job'[j] = x,
           UNCHANGED <<registry, objects>>, Busy(job[j]),
           x.pc = "complete", x.result = "error", x.r = job[j].r,
           x.todo = job[j].todo, x.params = job[j].params
    PROVE  Steady(job[j])'
<1>1. Steady(job[j])
  BY DEF ProvisionInv
<1>2. Locked(job[j])'
  BY <1>1 DEF Steady, Locked, Busy, Creating
<1>3. Copies(job[j])' /\ Todo(job[j])'
  BY <1>1 DEF Steady, Copies, Todo, Copy
<1>4. Progress(job[j])' /\ Merged(job[j])'
  BY DEF Progress, Merged, Creating
<1> QED
  BY <1>2, <1>3, <1>4 DEF Steady

-----------------------------------------------------------------------------
(* The Creator keeps the invariant.                                        *)

(* A create request. *)
LEMMA StartCreateStep ==
    ASSUME ProvisionInv, NEW j \in Jobs, NEW r \in Registries, NEW p \in Params,
           StartCreate(j, r, p)
    PROVE  ProvisionInv'
<1>1. PICK y \in Job : y = job[j] /\ y.pc = "idle" /\ y.todo = << >>
  BY DEF ProvisionInv, JobsType, StartCreate, Steady, Locked
<1>2. PICK rest \in Seq(Templates) : rest = Steps[r][1].templates
  BY StepFacts
<1>3. PICK x : x = [y EXCEPT !.pc = "create", !.r = r, !.step = 1, !.params = p,
                             !.rest = rest]
  OBVIOUS
<1>4. /\ x \in Job /\ x.pc = "create" /\ x.r = r /\ x.step = 1 /\ x.rest = rest
      /\ x.todo = << >>
  BY <1>1, <1>3 DEF Job, Labels
<1>5. AtStep(x)
  BY <1>4, StepFacts DEF AtStep, Creating
<1>6. job' = [job EXCEPT ![j] = x]
  BY <1>1, <1>2, <1>3 DEF StartCreate, CreatorSteps
<1>7. PICK c \in Entry : c = registry[r]
  BY DEF ProvisionInv, TypeOK
<1>8. c.rv \in Nat
  BY DEF Entry
<1>9. PICK v \in Nat : v = c.rv + 1 /\ v > c.rv
  BY <1>8
<1>10. PICK e : e = [c EXCEPT !.state = "live", !.params = p, !.rv = v,
                             !.op = "provision"]
  OBVIOUS
<1>11. e \in Entry /\ e.state = "live" /\ e.op = "provision" /\ e.rv = v
  BY <1>10 DEF Entry
<1>12. /\ registry' = [registry EXCEPT ![r] = e] /\ registry[r].state = "none"
       /\ UNCHANGED <<objects, foreign, updates, wasReady, provisioned>>
  BY <1>7, <1>10, <1>9 DEF StartCreate, history
<1>13. JobsType'
  BY <1>4, <1>5, <1>6, JobsTypeKept DEF ProvisionInv
<1>14. \A k \in Jobs : ~(Busy(job[k]) /\ job[k].r = r)
  BY <1>12, FreeRegistry
<1>15. Sole'
  BY <1>4, <1>6, <1>14, SoleKept
<1>16. \A k \in Jobs : job'[k] = IF k = j THEN x ELSE job[k]
  BY <1>6 DEF ProvisionInv, JobsType
<1>17. registry'[r] = e
  BY <1>12 DEF ProvisionInv, TypeOK
<1>18. Steady(job[j])'
  <2>1. Range(x.todo) = {}
    BY <1>4, RangeFacts
  <2>2. Locked(job[j])'
    BY <1>4, <1>11, <1>16, <1>17 DEF Locked, Busy, Creating
  <2>3. Copies(job[j])' /\ Todo(job[j])'
    BY <1>4, <1>16, <2>1 DEF Copies, Todo
  <2>4. Progress(job[j])'
    BY <1>2, <1>4, <1>16 DEF Progress, Creating
  <2>5. Merged(job[j])'
    BY <1>4, <1>16 DEF Merged
  <2> QED
    BY <2>2, <2>3, <2>4, <2>5 DEF Steady
<1>19. r \notin provisioned /\ provisioned \subseteq Registries
  BY <1>12 DEF ProvisionInv, Done, TypeOK
<1>20. \A k \in Jobs : \/ job'[k] = job[k] /\ ~(Busy(job[k]) /\ job[k].r = r)
                       \/ Steady(job[k])'
  BY <1>14, <1>16, <1>18
<1>21. e.state = "live" =>
          e.rv > registry[r].rv /\ registry[r].state \in {"none", "live"}
  BY <1>7, <1>11, <1>12, <1>9
<1> QED
  BY <1>11, <1>12, <1>13, <1>15, <1>19, <1>20, <1>21, RegistryChange

(* What is known of a Creator. *)
LEMMA CreatorFacts ==
    ASSUME ProvisionInv, NEW j \in Jobs, Creating(job[j])
    PROVE  /\ job[j] \in Job /\ job[j].r \in Registries /\ Busy(job[j])
           /\ registry[job[j].r].state = "live"
           /\ registry[job[j].r].op = "provision"
           /\ job[j].step \in 1 .. Len(Steps[job[j].r])
           /\ job[j].rest \in Seq(Templates)
           /\ job[j].todo = << >>
           /\ Progress(job[j])
BY JobFields DEF ProvisionInv, JobsType, AtStep, Steady, Locked, Busy, Creating

(* A Creator goes on. *)
LEMMA CreatorSteady ==
    ASSUME NEW j \in Jobs, NEW x \in Job, job'[j] = x, Creating(x),
           registry'[x.r].state = "live", registry'[x.r].op = "provision",
           x.todo = << >>,
           x.pc = "own" => Copy(Name(x.r, Head(x.rest)), x.cache)',
           \A i \in 1 .. x.step - 1 : StepOwned(x.r, i)' /\ StepChecked(x.r, i)',
           x.pc \in {"create", "get", "own"} =>
               \A t \in Range(Steps[x.r][x.step].templates) :
                   Owned(x.r, t)' \/ t \in Range(x.rest),
           x.pc = "check" =>
               /\ StepOwned(x.r, x.step)'
               /\ \A t \in Range(Steps[x.r][x.step].checks) :
                      Checked(x.r, t)' \/ t \in Range(x.rest)
    PROVE  Steady(job[j])'
<1>1. Range(x.todo) = {}
  BY RangeFacts
<1>2. Locked(job[j])'
  BY DEF Locked, Busy, Creating
<1>3. Copies(job[j])' /\ Todo(job[j])'
  BY <1>1 DEF Copies, Todo, Copy
<1>4. Progress(job[j])'
  BY DEF Progress, Creating, StepOwned, StepChecked, Owned, Checked
<1>5. Merged(job[j])'
  BY DEF Merged, Creating
<1> QED
  BY <1>2, <1>3, <1>4, <1>5 DEF Steady

(* createResource: the Create call. *)
LEMMA CreateStep ==
    ASSUME ProvisionInv, NEW j \in Jobs, CreateResource(j)
    PROVE  ProvisionInv'
<1>1. Creating(job[j]) /\ job[j].pc = "create" /\ job[j].rest # << >>
  BY DEF CreateResource, Creating
<1>2. PICK y \in Job : y = job[j]
  BY <1>1, CreatorFacts
<1>3. PICK r \in Registries : r = y.r
  BY JobFields
<1>4. /\ registry[r].state = "live" /\ registry[r].op = "provision"
      /\ y.step \in 1 .. Len(Steps[r]) /\ y.rest \in Seq(Templates)
      /\ y.todo = << >> /\ Busy(y) /\ Progress(y)
  BY <1>1, <1>2, <1>3, CreatorFacts
<1>5. PICK t \in Templates : t = Head(y.rest)
  BY <1>1, <1>2, <1>4, TailFacts
<1>6. PICK n \in Names : n = Name(r, t)
  BY NameFacts
<1>7. UNCHANGED <<registry, foreign, updates, wasReady, provisioned>>
  BY DEF CreateResource, history
<1>8. TypeOK /\ JobsType /\ updates \in 0 .. MaxUpdates
  BY DEF ProvisionInv, TypeOK
<1>9. /\ \A i \in 1 .. y.step - 1 : StepOwned(r, i) /\ StepChecked(r, i)
      /\ \A u \in Range(Steps[r][y.step].templates) : Owned(r, u) \/ u \in Range(y.rest)
  BY <1>1, <1>2, <1>3, <1>4 DEF Progress
<1>10. \/ /\ ~objects[n].exists
          /\ Store(n, NewObject(r, t, y.params))
          /\ NextTemplate(j)
       \/ /\ t \in Singletons
          /\ job' = [job EXCEPT ![j].pc = "get"]
          /\ UNCHANGED objects
       \/ Finish(j, "error") /\ UNCHANGED objects
  BY <1>2, <1>3, <1>5, <1>6 DEF CreateResource, CurrentName, Current
<1>11. CASE Finish(j, "error") /\ UNCHANGED objects
  <2>1. PICK x \in Job :
              /\ job' = [job EXCEPT ![j] = x] /\ AtStep(x)
              /\ x.pc = "complete" /\ x.result = "error"
              /\ x.r = job[j].r /\ x.todo = job[j].todo /\ x.params = job[j].params
    BY <1>8, <1>11, FinishFacts
  <2>2. job'[j] = x
    BY <1>8, <2>1 DEF JobsType
  <2>3. Steady(job[j])'
    BY <1>2, <1>4, <1>7, <1>11, <2>1, <2>2, FailedSteady
  <2> QED
    BY <1>2, <1>4, <1>7, <1>8, <1>11, <2>1, <2>3, JobChange
<1>12. CASE /\ t \in Singletons
            /\ job' = [job EXCEPT ![j].pc = "get"]
            /\ UNCHANGED objects
  <2>1. PICK x : x = [y EXCEPT !.pc = "get"]
    OBVIOUS
  <2>2. /\ x \in Job /\ x.pc = "get" /\ x.r = r /\ x.step = y.step
        /\ x.rest = y.rest /\ x.todo = y.todo
    BY <1>3, <2>1 DEF Job, Labels
  <2>3. job' = [job EXCEPT ![j] = x] /\ job'[j] = x
    BY <1>2, <1>8, <1>12, <2>1 DEF JobsType
  <2>4. AtStep(x) /\ Creating(x) /\ Busy(x)
    BY <1>1, <1>2, <1>4, <1>5, <1>12, <2>2 DEF AtStep, Creating, Busy
  <2>5. \A i \in 1 .. x.step - 1 : StepOwned(r, i)' /\ StepChecked(r, i)'
    BY <1>7, <1>9, <1>12, <2>2 DEF StepOwned, StepChecked, Owned, Checked
  <2>6. \A u \in Range(Steps[r][x.step].templates) : Owned(r, u)' \/ u \in Range(x.rest)
    BY <1>9, <1>12, <2>2 DEF Owned
  <2>7. Steady(job[j])'
    BY <1>4, <1>7, <2>2, <2>3, <2>4, <2>5, <2>6, CreatorSteady
  <2> QED
    BY <1>2, <1>3, <1>4, <1>7, <1>8, <1>12, <2>2, <2>3, <2>4, <2>7, JobChange
<1>13. CASE /\ ~objects[n].exists
            /\ Store(n, NewObject(r, t, y.params))
            /\ NextTemplate(j)
  <2>1. PICK x \in Job :
              /\ job' = [job EXCEPT ![j] = x] /\ AtStep(x)
              /\ x.pc = "create" /\ x.rest = Tail(job[j].rest)
              /\ x.r = job[j].r /\ x.step = job[j].step /\ x.todo = job[j].todo
              /\ x.params = job[j].params
    BY <1>1, <1>8, <1>13, NextTemplateFacts
  <2>2. PICK v \in Nat : v = objects[n].rv + 1 /\ v > objects[n].rv
    <3>1. objects[n].rv \in Nat
      BY <1>8, ObjectFields DEF TypeOK
    <3> QED
      BY <3>1
  <2>3. PICK c \in Object : c = NewObject(r, t, y.params)
    BY JobFields, ConstantTypes
  <2>4. PICK o : o = [c EXCEPT !.rv = v]
    OBVIOUS
  <2>5. /\ o \in Object /\ o.exists /\ o.rv = v
        /\ o.owners = {r} /\ o.ready = FALSE
    BY <2>3, <2>4 DEF Object, NewObject
  <2>6. objects' = [objects EXCEPT ![n] = o] /\ objects'[n] = o
    BY <1>8, <1>13, <2>2, <2>3, <2>4 DEF Store, TypeOK
  <2>7. Harmless(n, o)
    <3>1. objects[n].rv \in Nat
      BY <1>8, ObjectFields DEF TypeOK
    <3> QED
      BY <1>13, <2>2, <2>5, <3>1 DEF Harmless
  <2>8. \A q \in Registries : q # r => SameDesired(q, n, o)
    BY <1>6, NameFacts DEF SameDesired
  <2>9. job'[j] = x /\ Creating(x)
    BY <1>8, <2>1 DEF JobsType, Creating
  <2>10. \A i \in 1 .. x.step - 1 : StepOwned(r, i)' /\ StepChecked(r, i)'
    <3>1. \A i \in 1 .. y.step - 1 : i \in 1 .. Len(Steps[r])
      BY <1>4, StepFacts
    <3> QED
      BY <1>2, <1>4, <1>7, <1>8, <1>9, <2>1, <2>5, <2>6, <2>7, <3>1, OwnedKept
  <2>11. \A u \in Range(Steps[r][x.step].templates) : Owned(r, u)' \/ u \in Range(x.rest)
    <3> TAKE u \in Range(Steps[r][x.step].templates)
    <3>1. u \in Templates
      BY <1>2, <1>4, <2>1, StepFacts, RangeFacts
    <3>2. CASE Owned(r, u)
      BY <1>4, <1>7, <1>8, <2>5, <2>6, <2>7, <3>1, <3>2, OwnedKept
    <3>3. CASE u = t
      BY <1>6, <2>5, <2>6, <3>3 DEF Owned
    <3>4. Range(y.rest) = {t} \cup Range(x.rest)
      BY <1>1, <1>2, <1>4, <1>5, <2>1, TailFacts
    <3> QED
      BY <1>2, <1>9, <2>1, <3>2, <3>3, <3>4
  <2>12. Steady(job[j])'
    BY <1>2, <1>3, <1>4, <1>7, <2>1, <2>9, <2>10, <2>11, CreatorSteady
  <2> QED
    BY <1>2, <1>3, <1>4, <1>7, <2>1, <2>5, <2>6, <2>7, <2>8, <2>12, ObjectChange
<1> QED
  BY <1>10, <1>11, <1>12, <1>13

(* createResource: the existing singleton is read. *)
LEMMA GetStep ==
    ASSUME ProvisionInv, NEW j \in Jobs, GetSingleton(j)
    PROVE  ProvisionInv'
<1>1. Creating(job[j]) /\ job[j].pc = "get"
  BY DEF GetSingleton, Creating
<1>2. PICK y \in Job : y = job[j]
  BY <1>1, CreatorFacts
<1>3. PICK r \in Registries : r = y.r
  BY JobFields
<1>4. /\ registry[r].state = "live" /\ registry[r].op = "provision"
      /\ y.todo = << >> /\ Busy(y) /\ Progress(y)
  BY <1>1, <1>2, <1>3, CreatorFacts
<1>5. /\ TypeOK /\ JobsType /\ updates \in 0 .. MaxUpdates /\ AtStep(y)
  BY <1>2 DEF ProvisionInv, TypeOK, JobsType
<1>6. y.rest # << >> /\ y.rest \in Seq(Templates) /\ Head(y.rest) \in Templates
  BY <1>1, <1>2, <1>5, JobFields, TailFacts DEF AtStep
<1>7. PICK n \in Names : n = Name(r, Head(y.rest))
  BY <1>6, NameFacts
<1>8. UNCHANGED <<registry, objects, foreign, updates, wasReady, provisioned>>
  BY DEF GetSingleton, history
<1>9. CASE Finish(j, "error")
  <2>1. PICK x \in Job :
              /\ job' = [job EXCEPT ![j] = x] /\ AtStep(x)
              /\ x.pc = "complete" /\ x.result = "error"
              /\ x.r = job[j].r /\ x.todo = job[j].todo /\ x.params = job[j].params
    BY <1>5, <1>9, FinishFacts
  <2>2. job'[j] = x
    BY <1>5, <2>1 DEF JobsType
  <2>3. Steady(job[j])'
    BY <1>2, <1>4, <1>8, <2>1, <2>2, FailedSteady
  <2> QED
    BY <1>2, <1>4, <1>5, <1>8, <2>1, <2>3, JobChange
<1>10. CASE /\ objects[n].exists
            /\ job' = [job EXCEPT ![j] = [@ EXCEPT !.pc = "own", !.cache = objects[n]]]
  <2>1. PICK o \in Object : o = objects[n]
    BY <1>5, <1>10, ObjectFields DEF TypeOK
  <2>2. PICK x : x = [y EXCEPT !.pc = "own", !.cache = o]
    OBVIOUS
  <2>3. /\ x \in Job /\ x.pc = "own" /\ x.r = r /\ x.step = y.step
        /\ x.rest = y.rest /\ x.todo = y.todo /\ x.cache = o
    BY <1>3, <2>2 DEF Job, Labels
  <2>4. job' = [job EXCEPT ![j] = x] /\ job'[j] = x
    BY <1>2, <1>5, <1>10, <2>1, <2>2 DEF JobsType
  <2>5. AtStep(x) /\ Creating(x) /\ Busy(x)
    BY <1>1, <1>2, <1>3, <1>5, <2>3 DEF AtStep, Creating, Busy
  <2>6. \A i \in 1 .. x.step - 1 : StepOwned(r, i)' /\ StepChecked(r, i)'
    BY <1>1, <1>2, <1>3, <1>4, <1>8, <2>3
    DEF Progress, Creating, StepOwned, StepChecked, Owned, Checked
  <2>7. \A u \in Range(Steps[r][x.step].templates) : Owned(r, u)' \/ u \in Range(x.rest)
    BY <1>1, <1>2, <1>3, <1>4, <1>8, <2>3 DEF Progress, Owned
  <2>8. Copy(n, o)'
    <3>1. o.rv \in Nat
      BY ObjectFields
    <3> QED
      BY <1>8, <2>1, <3>1 DEF Copy
  <2>9. x.pc = "own" => Copy(Name(x.r, Head(x.rest)), x.cache)'
    BY <1>7, <2>3, <2>8
  <2>10. Steady(job[j])'
    BY <1>4, <1>8, <2>3, <2>4, <2>5, <2>6, <2>7, <2>9, CreatorSteady
  <2> QED
    BY <1>2, <1>3, <1>4, <1>5, <1>8, <2>3, <2>4, <2>5, <2>10, JobChange
<1> QED
  BY <1>2, <1>3, <1>7, <1>9, <1>10 DEF GetSingleton, CurrentName, Current

(* createResource: the singleton is written back with one more owner, and  *)
(* with all the owners it has: the version tells.                          *)
LEMMA AppendStep ==
    ASSUME ProvisionInv, NEW j \in Jobs, AppendOwner(j)
    PROVE  ProvisionInv'
<1>1. Creating(job[j]) /\ job[j].pc = "own"
  BY DEF AppendOwner, Creating
<1>2. PICK y \in Job : y = job[j]
  BY <1>1, CreatorFacts
<1>3. PICK r \in Registries : r = y.r
  BY JobFields
<1>4. /\ registry[r].state = "live" /\ registry[r].op = "provision"
      /\ y.step \in 1 .. Len(Steps[r])
      /\ y.todo = << >> /\ Busy(y) /\ Progress(y)
  BY <1>1, <1>2, <1>3, CreatorFacts
<1>5. TypeOK /\ JobsType /\ updates \in 0 .. MaxUpdates /\ AtStep(y) /\ Copies(y)
  BY <1>2 DEF ProvisionInv, TypeOK, JobsType, Steady
<1>6. PICK t \in Singletons : t = Head(y.rest) /\ t \in Templates
  BY <1>1, <1>2, <1>5, TemplateAssumption DEF AtStep
<1>7. y.rest # << >> /\ y.rest \in Seq(Templates)
  BY <1>1, <1>2, <1>5, JobFields DEF AtStep
<1>8. PICK n \in Names : n = Name(r, t)
  BY <1>6, NameFacts
<1>9. PICK c \in Object : c = y.cache
  BY <1>1, <1>2, <1>5 DEF AtStep
<1>10. UNCHANGED <<registry, foreign, updates, wasReady, provisioned>>
  BY DEF AppendOwner, history
<1>11. CASE Finish(j, "error") /\ UNCHANGED objects
  <2>1. PICK x \in Job :
              /\ job' = [job EXCEPT ![j] = x] /\ AtStep(x)
              /\ x.pc = "complete" /\ x.result = "error"
              /\ x.r = job[j].r /\ x.todo = job[j].todo /\ x.params = job[j].params
    BY <1>5, <1>11, FinishFacts
  <2>2. job'[j] = x
    BY <1>5, <2>1 DEF JobsType
  <2>3. Steady(job[j])'
    BY <1>2, <1>4, <1>10, <1>11, <2>1, <2>2, FailedSteady
  <2> QED
    BY <1>2, <1>4, <1>5, <1>10, <1>11, <2>1, <2>3, JobChange
<1>12. CASE /\ Accepts(n, c)
            /\ Store(n, [c EXCEPT !.owners = OwnersAppended(c, r)])
            /\ NextTemplate(j)
  <2>1. PICK x \in Job :
              /\ job' = [job EXCEPT ![j] = x] /\ AtStep(x)
              /\ x.pc = "create" /\ x.rest = Tail(job[j].rest)
              /\ x.r = job[j].r /\ x.step = job[j].step /\ x.todo = job[j].todo
              /\ x.params = job[j].params
    BY <1>1, <1>2, <1>5, <1>7, <1>12, NextTemplateFacts
  <2>2. objects[n].rv \in Nat
    BY <1>5, ObjectFields DEF TypeOK
  <2>3. PICK v \in Nat : v = objects[n].rv + 1 /\ v > objects[n].rv
    BY <2>2
  <2>4. PICK owners \in SUBSET Registries : owners = c.owners \cup {r}
    BY ObjectFields
  <2>5. PICK o : o = [c EXCEPT !.owners = owners, !.rv = v]
    OBVIOUS
  <2>6. /\ o \in Object /\ o.exists /\ o.rv = v /\ o.owners = owners
        /\ o.ready = c.ready /\ o.foreign = c.foreign
    BY <2>5 DEF Object
  <2>7. objects' = [objects EXCEPT ![n] = o] /\ objects'[n] = o
    <3>1. OwnersAppended(c, r) = owners
      BY <2>4 DEF OwnersAppended
    <3>2. [[c EXCEPT !.owners = owners] EXCEPT !.rv = v] = o
      BY <2>5 DEF Object
    <3> QED
      BY <1>5, <1>12, <2>3, <3>1, <3>2 DEF Store, TypeOK
  <2>8. /\ objects[n].exists /\ objects[n].owners = c.owners
        /\ objects[n].foreign = c.foreign /\ objects[n].ready = c.ready
    BY <1>1, <1>2, <1>3, <1>5, <1>6, <1>8, <1>9, <1>12 DEF Copies, Copy, Accepts
  <2>9. Harmless(n, o)
    <3>1. o.ready => n \in wasReady
      BY <2>6, <2>8 DEF ProvisionInv, ReadyMarked
    <3>2. o.foreign >= objects[n].foreign
      BY <2>6, <2>8, ObjectFields
    <3> QED
      BY <1>10, <2>2, <2>3, <2>4, <2>6, <2>8, <3>1, <3>2 DEF Harmless
  <2>10. \A q \in Registries : SameDesired(q, n, o)
    BY <1>6, <1>8, NameFacts DEF SameDesired
  <2>11. job'[j] = x /\ Creating(x)
    BY <1>5, <2>1 DEF JobsType, Creating
  <2>12. \A i \in 1 .. x.step - 1 : StepOwned(r, i)' /\ StepChecked(r, i)'
    <3>1. \A i \in 1 .. y.step - 1 : i \in 1 .. Len(Steps[r])
      BY <1>4, StepFacts
    <3>2. \A i \in 1 .. y.step - 1 : StepOwned(r, i) /\ StepChecked(r, i)
      BY <1>1, <1>2, <1>3, <1>4 DEF Progress
    <3> QED
      BY <1>2, <1>4, <1>5, <1>10, <2>1, <2>6, <2>7, <2>9, <3>1, <3>2, OwnedKept
  <2>13. \A u \in Range(Steps[r][x.step].templates) : Owned(r, u)' \/ u \in Range(x.rest)
    <3> TAKE u \in Range(Steps[r][x.step].templates)
    <3>1. u \in Templates
      BY <1>2, <1>4, <2>1, StepFacts, RangeFacts
    <3>2. CASE Owned(r, u)
      BY <1>4, <1>5, <1>10, <2>6, <2>7, <2>9, <3>1, <3>2, OwnedKept
    <3>3. CASE u = t
      BY <1>8, <2>4, <2>6, <2>7, <3>3 DEF Owned
    <3>4. Range(y.rest) = {t} \cup Range(x.rest)
      BY <1>2, <1>6, <1>7, <2>1, TailFacts
    <3>5. Owned(r, u) \/ u \in Range(y.rest)
      BY <1>1, <1>2, <1>3, <1>4, <2>1 DEF Progress
    <3> QED
      BY <3>2, <3>3, <3>4, <3>5
  <2>14. Steady(job[j])'
    BY <1>2, <1>3, <1>4, <1>10, <2>1, <2>11, <2>12, <2>13, CreatorSteady
  <2> QED
    BY <1>2, <1>3, <1>4, <1>10, <2>1, <2>6, <2>7, <2>9, <2>10, <2>14, ObjectChange
<1> QED
  BY <1>2, <1>3, <1>6, <1>8, <1>9, <1>11, <1>12 DEF AppendOwner, CurrentName, Current

(* All templates of the step are there. *)
LEMMA EnterBarrierStep ==
    ASSUME ProvisionInv, NEW j \in Jobs, EnterBarrier(j)
    PROVE  ProvisionInv'
<1>1. Creating(job[j]) /\ job[j].pc = "create" /\ job[j].rest = << >>
  BY DEF EnterBarrier, Creating
<1>2. PICK y \in Job : y = job[j]
  BY <1>1, CreatorFacts
<1>3. PICK r \in Registries : r = y.r
  BY JobFields
<1>4. /\ registry[r].state = "live" /\ registry[r].op = "provision"
      /\ y.step \in 1 .. Len(Steps[r])
      /\ y.todo = << >> /\ Busy(y) /\ Progress(y)
  BY <1>1, <1>2, <1>3, CreatorFacts
<1>5. TypeOK /\ JobsType /\ updates \in 0 .. MaxUpdates
  BY DEF ProvisionInv, TypeOK
<1>6. UNCHANGED <<registry, objects, foreign, updates, wasReady, provisioned>>
  BY DEF EnterBarrier, history
<1>7. PICK rest \in Seq(Templates) : rest = Steps[r][y.step].checks
  BY <1>4, StepFacts
<1>8. PICK x : x = [y EXCEPT !.pc = "check", !.rest = rest]
  OBVIOUS
<1>9. /\ x \in Job /\ x.pc = "check" /\ x.r = r /\ x.step = y.step
      /\ x.rest = rest /\ x.todo = y.todo
  BY <1>3, <1>8 DEF Job, Labels
<1>10. job' = [job EXCEPT ![j] = x]
  BY <1>2, <1>3, <1>7, <1>8 DEF EnterBarrier, CreatorSteps
<1>11. job'[j] = x
  BY <1>5, <1>10 DEF JobsType
<1>12. AtStep(x) /\ Creating(x) /\ Busy(x)
  BY <1>4, <1>9 DEF AtStep, Creating, Busy
<1>13. Range(y.rest) = {}
  BY <1>1, <1>2, RangeFacts
<1>14. /\ \A i \in 1 .. y.step - 1 : StepOwned(r, i) /\ StepChecked(r, i)
       /\ \A t \in Range(Steps[r][y.step].templates) : Owned(r, t)
  BY <1>1, <1>2, <1>3, <1>4, <1>13 DEF Progress
<1>15. \A i \in 1 .. x.step - 1 : StepOwned(r, i)' /\ StepChecked(r, i)'
  BY <1>6, <1>9, <1>14 DEF StepOwned, StepChecked, Owned, Checked
<1>16. StepOwned(r, x.step)'
  BY <1>6, <1>9, <1>14 DEF StepOwned, Owned
<1>17. \A t \in Range(Steps[r][x.step].checks) : Checked(r, t)' \/ t \in Range(x.rest)
  BY <1>7, <1>9
<1>18. Steady(job[j])'
  BY <1>4, <1>6, <1>9, <1>11, <1>12, <1>15, <1>16, <1>17, CreatorSteady
<1> QED
  BY <1>2, <1>3, <1>4, <1>5, <1>6, <1>9, <1>10, <1>12, <1>18, JobChange

(* The barrier: a check passes when its object is ready, and its readiness *)
(* has been recorded.                                                      *)
LEMMA BarrierStep ==
    ASSUME ProvisionInv, NEW j \in Jobs, Barrier(j)
    PROVE  ProvisionInv'
<1>1. Creating(job[j]) /\ job[j].pc = "check"
  BY DEF Barrier, Creating
<1>2. PICK y \in Job : y = job[j]
  BY <1>1, CreatorFacts
<1>3. PICK r \in Registries : r = y.r
  BY JobFields
<1>4. /\ registry[r].state = "live" /\ registry[r].op = "provision"
      /\ y.step \in 1 .. Len(Steps[r]) /\ y.rest \in Seq(Templates)
      /\ y.todo = << >> /\ Busy(y) /\ Progress(y)
  BY <1>1, <1>2, <1>3, CreatorFacts
<1>5. TypeOK /\ JobsType /\ updates \in 0 .. MaxUpdates
  BY DEF ProvisionInv, TypeOK
<1>6. UNCHANGED <<registry, objects, foreign, updates, wasReady, provisioned>>
  BY DEF Barrier, history
<1>7. /\ \A i \in 1 .. y.step - 1 : StepOwned(r, i) /\ StepChecked(r, i)
      /\ StepOwned(r, y.step)
      /\ \A t \in Range(Steps[r][y.step].checks) : Checked(r, t) \/ t \in Range(y.rest)
  BY <1>1, <1>2, <1>3, <1>4 DEF Progress
<1>8. CASE y.rest = << >> /\ EnterStep(j, y.step + 1)
  <2>1. PICK x \in Job :
              /\ job' = [job EXCEPT ![j] = x] /\ AtStep(x)
              /\ x.r = job[j].r /\ x.todo = job[j].todo /\ x.params = job[j].params
              /\ \/ /\ x.pc = "complete" /\ x.result = "ok"
                    /\ job[j].step = Len(Steps[x.r])
                 \/ /\ x.pc = "create" /\ x.step = job[j].step + 1
                    /\ x.step \in 1 .. Len(Steps[x.r])
                    /\ x.rest = Steps[x.r][x.step].templates
    BY <1>1, <1>2, <1>5, <1>8, EnterStepFacts
  <2>2. job'[j] = x /\ Busy(x) /\ x.todo = << >> /\ x.r = r
    BY <1>2, <1>3, <1>4, <1>5, <2>1 DEF JobsType, Busy
  <2>3. Range(y.rest) = {} /\ Range(x.todo) = {}
    BY <1>8, <2>2, RangeFacts
  <2>4. StepChecked(r, y.step)
    BY <1>7, <2>3 DEF StepChecked
  <2>5. \A i \in 1 .. y.step : StepOwned(r, i) /\ StepChecked(r, i)
    <3>1. \A i \in 1 .. y.step : i \in 1 .. y.step - 1 \/ i = y.step
      BY <1>4
    <3> QED
      BY <1>7, <2>4, <3>1
  <2>6. \A i \in 1 .. y.step : StepOwned(r, i)' /\ StepChecked(r, i)'
    BY <1>6, <2>5 DEF StepOwned, StepChecked, Owned, Checked
  <2>7. ASSUME x.pc = "create" PROVE Steady(job[j])'
    <3>1. x.step = y.step + 1 /\ x.rest = Steps[r][x.step].templates
      BY <1>2, <2>1, <2>2, <2>7
    <3>2. 1 .. x.step - 1 = 1 .. y.step
      BY <1>4, <3>1
    <3>3. Creating(x)
      BY <2>7 DEF Creating
    <3> QED
      BY <1>4, <1>6, <2>2, <2>6, <2>7, <3>1, <3>2, <3>3, CreatorSteady
  <2>8. ASSUME x.pc = "complete" PROVE Steady(job[j])'
    <3>1. y.step = Len(Steps[r]) /\ x.result = "ok"
      BY <1>2, <2>1, <2>2, <2>8
    <3>2. DOMAIN Steps[r] = 1 .. y.step
      BY <3>1, StepFacts
    <3>3. Progress(job[j])'
      BY <2>2, <2>6, <2>8, <3>2
      DEF Progress, Creating, StepOwned, StepChecked, Owned, Checked
    <3>4. Locked(job[j])'
      BY <1>4, <1>6, <2>2, <2>8, <3>1 DEF Locked, Busy, Creating
    <3>5. Copies(job[j])' /\ Todo(job[j])'
      BY <2>2, <2>3, <2>8 DEF Copies, Todo
    <3>6. Merged(job[j])'
      BY <1>4, <1>6, <2>2, <2>8 DEF Merged
    <3> QED
      BY <3>3, <3>4, <3>5, <3>6 DEF Steady
  <2>9. Steady(job[j])'
    BY <2>1, <2>7, <2>8
  <2> QED
    BY <1>2, <1>4, <1>5, <1>6, <2>1, <2>9, JobChange
<1>9. CASE /\ y.rest # << >> /\ ConditionReady(j, Head(y.rest))
           /\ job' = [job EXCEPT ![j].rest = Tail(y.rest)]
  <2>1. PICK rest \in Seq(Templates) : rest = Tail(y.rest)
    BY <1>4, <1>9, TailFacts
  <2>2. PICK t \in Templates : t = Head(y.rest) /\ Range(y.rest) = {t} \cup Range(rest)
    BY <1>4, <1>9, <2>1, TailFacts
  <2>3. PICK x : x = [y EXCEPT !.rest = rest]
    OBVIOUS
  <2>4. /\ x \in Job /\ x.pc = "check" /\ x.r = r /\ x.step = y.step
        /\ x.rest = rest /\ x.todo = y.todo
    BY <1>1, <1>2, <1>3, <2>3 DEF Job
  <2>5. job' = [job EXCEPT ![j] = x]
    BY <1>2, <1>9, <2>1, <2>3
  <2>6. job'[j] = x
    BY <1>5, <2>5 DEF JobsType
  <2>7. AtStep(x) /\ Creating(x) /\ Busy(x)
    BY <1>4, <2>4 DEF AtStep, Creating, Busy
  <2>8. PICK n \in Names : n = Name(r, t)
    BY NameFacts
  <2>9. objects[n].exists /\ objects[n].ready
    BY <1>2, <1>3, <1>9, <2>2, <2>8 DEF ConditionReady
  <2>10. Checked(r, t)
    BY <2>8, <2>9 DEF ProvisionInv, ReadyMarked, Checked
  <2>11. \A i \in 1 .. x.step - 1 : StepOwned(r, i)' /\ StepChecked(r, i)'
    BY <1>6, <1>7, <2>4 DEF StepOwned, StepChecked, Owned, Checked
  <2>12. StepOwned(r, x.step)'
    BY <1>6, <1>7, <2>4 DEF StepOwned, Owned
  <2>13. \A u \in Range(Steps[r][x.step].checks) : Checked(r, u)' \/ u \in Range(x.rest)
    BY <1>6, <1>7, <2>2, <2>4, <2>10 DEF Checked
  <2>14. Steady(job[j])'
    BY <1>4, <1>6, <2>4, <2>6, <2>7, <2>11, <2>12, <2>13, CreatorSteady
  <2> QED
    BY <1>2, <1>3, <1>4, <1>5, <1>6, <2>4, <2>5, <2>7, <2>14, JobChange
<1>10. CASE Finish(j, "error")
  <2>1. PICK x \in Job :
              /\ job' = [job EXCEPT ![j] = x] /\ AtStep(x)
              /\ x.pc = "complete" /\ x.result = "error"
              /\ x.r = job[j].r /\ x.todo = job[j].todo /\ x.params = job[j].params
    BY <1>5, <1>10, FinishFacts
  <2>2. job'[j] = x
    BY <1>5, <2>1 DEF JobsType
  <2>3. Steady(job[j])'
    BY <1>2, <1>4, <1>6, <2>1, <2>2, FailedSteady
  <2> QED
    BY <1>2, <1>4, <1>5, <1>6, <2>1, <2>3, JobChange
<1> QED
  BY <1>2, <1>8, <1>9, <1>10 DEF Barrier, Current

-----------------------------------------------------------------------------
(* The Updater keeps the invariant.                                        *)

(* An update request. *)
LEMMA BeginUpdateStep ==
    ASSUME ProvisionInv, NEW j \in Jobs, NEW r \in Registries, NEW p \in Params,
           BeginUpdate(j, r, p)
    PROVE  ProvisionInv'
<1>1. PICK y \in Job : y = job[j] /\ y.pc = "idle" /\ y.todo = << >>
  BY DEF ProvisionInv, JobsType, BeginUpdate, Steady, Locked
<1>2. PICK rest \in Seq(Templates) : rest = UpdaterTemplates(r)
  BY StepFacts, EmptySeq DEF UpdaterTemplates
<1>3. PICK v \in Nat : v = registry[r].rv
  BY DEF ProvisionInv, TypeOK, Entry
<1>4. PICK x : x = [y EXCEPT !.pc = "prepare", !.r = r, !.params = p, !.rv = v,
                             !.rest = rest]
  OBVIOUS
<1>5. /\ x \in Job /\ x.pc = "prepare" /\ x.r = r /\ x.rv = v /\ x.rest = rest
      /\ x.todo = << >>
  BY <1>1, <1>4 DEF Job, Labels
<1>6. AtStep(x) /\ ~Busy(x) /\ ~Creating(x)
  BY <1>5 DEF AtStep, Creating, Busy
<1>7. job' = [job EXCEPT ![j] = x]
  BY <1>1, <1>2, <1>3, <1>4 DEF BeginUpdate
<1>8. /\ UNCHANGED <<registry, objects, foreign, wasReady, provisioned>>
      /\ registry[r].state = "live"
  BY DEF BeginUpdate
<1>9. updates' \in 0 .. MaxUpdates
  BY BoundAssumption DEF BeginUpdate, ProvisionInv, TypeOK
<1>10. job'[j] = x
  BY <1>7 DEF ProvisionInv, JobsType
<1>11. Range(x.todo) = {}
  BY <1>5, RangeFacts
<1>12. Locked(job[j])'
  BY <1>3, <1>5, <1>6, <1>8, <1>10 DEF Locked, Busy, Creating
<1>13. Copies(job[j])' /\ Todo(job[j])'
  BY <1>5, <1>10, <1>11 DEF Copies, Todo
<1>14. Progress(job[j])'
  BY <1>5, <1>10 DEF Progress, Creating
<1>15. Merged(job[j])'
  BY <1>2, <1>5, <1>10 DEF Merged, Updates
<1>16. Steady(job[j])'
  BY <1>12, <1>13, <1>14, <1>15 DEF Steady
<1> QED
  BY <1>5, <1>6, <1>7, <1>8, <1>9, <1>16, JobChange

(* An update that has compared one more object. *)
LEMMA PreparedSteady ==
    ASSUME ProvisionInv, NEW j \in Jobs, NEW x \in Job, job'[j] = x,
           UNCHANGED <<registry, objects>>,
           job[j].pc = "prepare", x.pc = "prepare",
           x.r = job[j].r, x.rv = job[j].rv, x.params = job[j].params,
           Range(job[j].todo) \subseteq Range(x.todo),
           \A d \in Range(x.todo) \ Range(job[j].todo) :
               /\ Copy(d.name, d.object)
               /\ \E t \in Templates \ Singletons :
                     d.name = Name(x.r, t) /\ d.object.desired = Render[<<t, x.params>>],
           \A t \in Updates(x.r) : t \in Range(job[j].rest) =>
               t \in Range(x.rest) \/ Rendered(x.r, t, x.params) \/ Listed(x, t)
    PROVE  Steady(job[j])'
<1>1. Steady(job[j])
  BY DEF ProvisionInv
<1>2. Locked(job[j])'
  BY <1>1 DEF Steady, Locked, Busy, Creating
<1>3. Copies(job[j])'
  <2>1. \A d \in Range(x.todo) : Copy(d.name, d.object)
    BY <1>1 DEF Steady, Copies
  <2> QED
    BY <2>1 DEF Copies, Copy
<1>4. Todo(job[j])'
  BY <1>1 DEF Steady, Todo
<1>5. Progress(job[j])'
  BY DEF Progress, Creating
<1>6. Merged(job[j])'
  <2> SUFFICES ASSUME registry[x.r].state = "live", registry[x.r].op = "none",
                      registry[x.r].rv = x.rv, NEW t \in Updates(x.r)
               PROVE  t \in Range(x.rest) \/ Rendered(x.r, t, x.params) \/ Listed(x, t)
    BY DEF Merged, Rendered, Listed
  <2>1. \/ t \in Range(job[j].rest) \/ Rendered(x.r, t, x.params)
        \/ Listed(job[j], t)
    BY <1>1 DEF Steady, Merged
  <2>2. Listed(job[j], t) => Listed(x, t)
    BY DEF Listed
  <2> QED
    BY <2>1, <2>2
<1> QED
  BY <1>2, <1>3, <1>4, <1>5, <1>6 DEF Steady

(* Updater.Prepare: what is right stays right, what is not is on the list. *)
LEMMA PrepareStep ==
    ASSUME ProvisionInv, NEW j \in Jobs, PrepareUpdate(j)
    PROVE  ProvisionInv'
<1>1. PICK y \in Job : y = job[j] /\ y.pc = "prepare" /\ y.rest # << >>
  BY DEF ProvisionInv, JobsType, PrepareUpdate
<1>2. PICK r \in Registries : r = y.r
  BY JobFields
<1>3. TypeOK /\ JobsType /\ updates \in 0 .. MaxUpdates
  BY DEF ProvisionInv, TypeOK
<1>4. UNCHANGED <<registry, objects, foreign, updates, wasReady, provisioned>>
  BY DEF PrepareUpdate, history
<1>5. PICK rest \in Seq(Templates) : rest = Tail(y.rest)
  BY <1>1, JobFields, TailFacts
<1>6. PICK t \in Templates : t = Head(y.rest) /\ Range(y.rest) = {t} \cup Range(rest)
  BY <1>1, <1>5, JobFields, TailFacts
<1>7. PICK n \in Names : n = Name(r, t)
  BY NameFacts
<1>8. PICK p \in Params : p = y.params
  BY JobFields
<1>9. PICK new \in Specs : new = Render[<<t, p>>]
  BY DEF Specs
<1>10. PICK todo \in Seq([name : Names, object : Object]) : todo = y.todo
  BY JobFields
<1>11. \/ job' = [job EXCEPT ![j] = Idle]
       \/ /\ t \in Singletons \/ (objects[n].exists /\ objects[n].desired = new)
          /\ job' = [job EXCEPT ![j].rest = rest]
       \/ /\ t \notin Singletons /\ objects[n].exists
          /\ job' = [job EXCEPT
                       ![j] = [@ EXCEPT !.rest = rest,
                                        !.todo = Append(todo,
                                           [name |-> n,
                                            object |-> [objects[n] EXCEPT !.desired = new]])]]
  BY <1>1, <1>2, <1>5, <1>6, <1>7, <1>8, <1>9, <1>10
  DEF PrepareUpdate, CurrentName, Current, Skipped
<1>12. CASE job' = [job EXCEPT ![j] = Idle]
  <2>1. job'[j] = Idle
    BY <1>3, <1>12 DEF JobsType
  <2>2. Steady(job[j])' /\ ~Busy(Idle) /\ AtStep(Idle)
    BY <2>1, IdleSteady
  <2> QED
    BY <1>3, <1>4, <1>12, <2>2, ConstantTypes, JobChange
<1>13. CASE /\ t \in Singletons \/ (objects[n].exists /\ objects[n].desired = new)
            /\ job' = [job EXCEPT ![j].rest = rest]
  <2>1. PICK x : x = [y EXCEPT !.rest = rest]
    OBVIOUS
  <2>2. /\ x \in Job /\ x.pc = "prepare" /\ x.r = r /\ x.rv = y.rv
        /\ x.params = y.params /\ x.todo = y.todo /\ x.rest = rest
    BY <1>1, <1>2, <2>1 DEF Job
  <2>3. job' = [job EXCEPT ![j] = x]
    BY <1>1, <1>13, <2>1
  <2>4. job'[j] = x
    BY <1>3, <2>3 DEF JobsType
  <2>5. AtStep(x) /\ ~Busy(x)
    BY <2>2 DEF AtStep, Creating, Busy
  <2>6. t \in Updates(r) => Rendered(r, t, p)
    BY <1>7, <1>9, <1>13 DEF Updates, Rendered
  <2>7. \A u \in Updates(r) : u \in Range(y.rest) =>
            u \in Range(x.rest) \/ Rendered(r, u, p) \/ Listed(x, u)
    BY <1>6, <2>2, <2>6
  <2>8. Range(y.todo) = Range(x.todo)
    BY <2>2
  <2>9. Steady(job[j])'
    BY <1>1, <1>2, <1>4, <1>8, <2>2, <2>4, <2>7, <2>8, PreparedSteady
  <2> QED
    BY <1>3, <1>4, <2>2, <2>3, <2>5, <2>9, JobChange
<1>14. CASE /\ t \notin Singletons /\ objects[n].exists
            /\ job' = [job EXCEPT
                        ![j] = [@ EXCEPT !.rest = rest,
                                         !.todo = Append(todo,
                                            [name |-> n,
                                             object |-> [objects[n] EXCEPT !.desired = new]])]]
  <2>1. PICK o \in Object : o = objects[n]
    BY <1>3, <1>14, ObjectFields DEF TypeOK
  <2>2. PICK c \in Object : c = [o EXCEPT !.desired = new]
    BY DEF Object
  <2>3. PICK d \in [name : Names, object : Object] : d = [name |-> n, object |-> c]
    OBVIOUS
  <2>4. PICK list \in Seq([name : Names, object : Object]) :
            list = Append(todo, d) /\ Range(list) = Range(todo) \cup {d}
    <3>1. PICK S : S = [name : Names, object : Object]
      OBVIOUS
    <3>2. todo \in Seq(S) /\ d \in S
      BY <3>1
    <3>3. Append(todo, d) \in Seq(S) /\ Range(Append(todo, d)) = Range(todo) \cup {d}
      BY <3>2, AppendFacts
    <3> QED
      BY <3>1, <3>3
  <2>5. PICK x : x = [y EXCEPT !.rest = rest, !.todo = list]
    OBVIOUS
  <2>6. /\ x \in Job /\ x.pc = "prepare" /\ x.r = r /\ x.rv = y.rv
        /\ x.params = y.params /\ x.todo = list /\ x.rest = rest
    BY <1>1, <1>2, <2>5 DEF Job
  <2>7. job' = [job EXCEPT ![j] = x]
    BY <1>1, <1>14, <2>1, <2>2, <2>3, <2>4, <2>5
  <2>8. job'[j] = x
    BY <1>3, <2>7 DEF JobsType
  <2>9. AtStep(x) /\ ~Busy(x)
    BY <2>6 DEF AtStep, Creating, Busy
  <2>10. /\ c.rv = o.rv /\ c.owners = o.owners /\ c.foreign = o.foreign
         /\ c.ready = o.ready /\ c.desired = new /\ o.rv \in Nat
    BY <2>2 DEF Object
  <2>11. Copy(d.name, d.object)
    BY <2>1, <2>3, <2>10 DEF Copy
  <2>12. d.name = Name(r, t) /\ d.object.desired = Render[<<t, p>>]
    BY <1>7, <1>9, <2>3, <2>10
  <2>13. Listed(x, t)
    BY <2>4, <2>6, <2>12 DEF Listed
  <2>14. \A u \in Updates(r) : u \in Range(y.rest) =>
            u \in Range(x.rest) \/ Rendered(r, u, p) \/ Listed(x, u)
    BY <1>6, <2>6, <2>13
  <2>15. /\ Range(y.todo) \subseteq Range(x.todo)
         /\ \A e \in Range(x.todo) \ Range(y.todo) : e = d
    BY <1>10, <2>4, <2>6
  <2>16. \A e \in Range(x.todo) \ Range(job[j].todo) :
            /\ Copy(e.name, e.object)
            /\ \E u \in Templates \ Singletons :
                  e.name = Name(x.r, u) /\ e.object.desired = Render[<<u, x.params>>]
    BY <1>1, <1>8, <1>14, <2>6, <2>11, <2>12, <2>15
  <2>17. Steady(job[j])'
    <3>1. /\ job[j].pc = "prepare" /\ x.r = job[j].r /\ x.rv = job[j].rv
          /\ x.params = job[j].params
      BY <1>1, <1>2, <2>6
    <3>2. Range(job[j].todo) \subseteq Range(x.todo)
      BY <1>1, <2>15
    <3>3. \A u \in Updates(x.r) : u \in Range(job[j].rest) =>
              u \in Range(x.rest) \/ Rendered(x.r, u, x.params) \/ Listed(x, u)
      BY <1>1, <1>8, <2>6, <2>14
    <3> QED
      BY <1>4, <2>6, <2>8, <2>16, <3>1, <3>2, <3>3, PreparedSteady
  <2> QED
    BY <1>3, <1>4, <2>6, <2>7, <2>9, <2>17, JobChange
<1> QED
  BY <1>11, <1>12, <1>13, <1>14

(* operation.Start: the lock is taken at the version that was read.  That  *)
(* no operation came between makes what was compared still true.           *)
LEMMA StartUpdateStep ==
    ASSUME ProvisionInv, NEW j \in Jobs, StartUpdate(j)
    PROVE  ProvisionInv'
<1>1. PICK y \in Job : y = job[j] /\ y.pc = "prepare" /\ y.rest = << >>
  BY DEF ProvisionInv, JobsType, StartUpdate
<1>2. PICK r \in Registries : r = y.r
  BY JobFields
<1>3. TypeOK /\ JobsType /\ updates \in 0 .. MaxUpdates
  BY DEF ProvisionInv, TypeOK
<1>4. UNCHANGED <<objects, foreign, updates, wasReady, provisioned>>
  BY DEF StartUpdate, history
<1>5. CASE job' = [job EXCEPT ![j] = Idle] /\ UNCHANGED registry
  <2>1. job'[j] = Idle
    BY <1>3, <1>5 DEF JobsType
  <2>2. Steady(job[j])' /\ ~Busy(Idle) /\ AtStep(Idle)
    BY <2>1, IdleSteady
  <2> QED
    BY <1>3, <1>4, <1>5, <2>2, ConstantTypes, JobChange
<1>6. CASE /\ registry[r].state = "live" /\ registry[r].op = "none"
           /\ registry[r].rv = y.rv
           /\ registry' = [registry EXCEPT
                            ![r] = [@ EXCEPT !.op = "update",
                                             !.params = y.params,
                                             !.rv = registry[r].rv + 1]]
           /\ job' = [job EXCEPT ![j].pc = "apply"]
  <2>1. PICK p \in Params : p = y.params
    BY JobFields
  <2>2. PICK c \in Entry : c = registry[r]
    BY <1>3 DEF TypeOK
  <2>3. c.rv \in Nat
    BY DEF Entry
  <2>4. PICK v \in Nat : v = c.rv + 1 /\ v > c.rv
    BY <2>3
  <2>5. PICK e : e = [c EXCEPT !.op = "update", !.params = p, !.rv = v]
    OBVIOUS
  <2>6. /\ e \in Entry /\ e.state = "live" /\ e.op = "update" /\ e.params = p
        /\ e.rv = v
    BY <1>6, <2>2, <2>5 DEF Entry
  <2>7. registry' = [registry EXCEPT ![r] = e]
    BY <1>6, <2>1, <2>2, <2>4, <2>5
  <2>8. registry'[r] = e
    BY <1>3, <2>7 DEF TypeOK
  <2>9. PICK x : x = [y EXCEPT !.pc = "apply"]
    OBVIOUS
  <2>10. /\ x \in Job /\ x.pc = "apply" /\ x.r = r /\ x.params = p /\ x.todo = y.todo
    BY <1>2, <2>1, <2>9 DEF Job, Labels
  <2>11. job' = [job EXCEPT ![j] = x]
    BY <1>1, <1>6, <2>9
  <2>12. \A k \in Jobs : job'[k] = IF k = j THEN x ELSE job[k]
    BY <1>3, <2>11 DEF JobsType
  <2>13. AtStep(x)
    BY <2>10 DEF AtStep, Creating
  <2>14. JobsType'
    BY <1>3, <2>10, <2>11, <2>13, JobsTypeKept
  <2>15. \A k \in Jobs : ~(Busy(job[k]) /\ job[k].r = r)
    BY <1>6, FreeRegistry
  <2>16. Sole'
    BY <2>10, <2>11, <2>15, SoleKept
  <2>17. Steady(job[j])'
    <3>1. Copies(y) /\ Todo(y) /\ Merged(y)
      BY <1>1 DEF ProvisionInv, Steady
    <3>2. Range(y.rest) = {}
      BY <1>1, RangeFacts
    <3>3. Locked(job[j])'
      BY <2>6, <2>8, <2>10, <2>12 DEF Locked, Busy, Creating
    <3>4. Copies(job[j])' /\ Todo(job[j])'
      BY <1>2, <1>4, <2>1, <2>10, <2>12, <3>1 DEF Copies, Todo, Copy
    <3>5. Progress(job[j])'
      BY <2>10, <2>12 DEF Progress, Creating
    <3>6. \A t \in Updates(r) : Rendered(r, t, p) \/ Listed(y, t)
      BY <1>1, <1>2, <1>6, <2>1, <3>1, <3>2 DEF Merged
    <3>7. Merged(job[j])'
      BY <1>2, <1>4, <2>6, <2>8, <2>10, <2>12, <3>6 DEF Merged, Rendered, Listed
    <3> QED
      BY <3>3, <3>4, <3>5, <3>7 DEF Steady
  <2>18. \A k \in Jobs : \/ job'[k] = job[k] /\ ~(Busy(job[k]) /\ job[k].r = r)
                         \/ Steady(job[k])'
    BY <2>12, <2>15, <2>17
  <2>19. provisioned \subseteq Registries
    BY <1>3 DEF TypeOK
  <2>20. r \in provisioned =>
            \A i \in DOMAIN Steps[r] : StepChecked(r, i) /\ StepOwned(r, i)
    BY <1>6 DEF ProvisionInv, Done
  <2>21. e.rv > registry[r].rv
    BY <2>2, <2>4, <2>6
  <2> QED
    BY <1>4, <1>6, <2>6, <2>7, <2>14, <2>16, <2>18, <2>19, <2>20, <2>21, RegistryChange
<1> QED
  BY <1>1, <1>2, <1>5, <1>6 DEF StartUpdate

(* Updater.run: the objects on the list become what they should be. *)
LEMMA ApplyStep ==
    ASSUME ProvisionInv, NEW j \in Jobs, ApplyUpdate(j)
    PROVE  ProvisionInv'
<1>1. PICK y \in Job : y = job[j] /\ y.pc = "apply"
  BY DEF ProvisionInv, JobsType, ApplyUpdate
<1>2. PICK r \in Registries : r = y.r
  BY JobFields
<1>3. TypeOK /\ JobsType /\ updates \in 0 .. MaxUpdates
  BY DEF ProvisionInv, TypeOK
<1>4. UNCHANGED <<registry, foreign, updates, wasReady, provisioned>>
  BY DEF ApplyUpdate, history
<1>5. PICK p \in Params : p = y.params
  BY JobFields
<1>6. Locked(y) /\ Copies(y) /\ Todo(y) /\ Merged(y) /\ Busy(y)
  BY <1>1 DEF ProvisionInv, Steady, Busy
<1>7. /\ registry[r].state = "live" /\ registry[r].op = "update"
      /\ registry[r].params = p
      /\ \A t \in Updates(r) : Rendered(r, t, p) \/ Listed(y, t)
  BY <1>1, <1>2, <1>5, <1>6 DEF Locked, Merged
<1>8. CASE y.todo = << >> /\ Finish(j, "ok") /\ UNCHANGED objects
  <2>1. PICK x \in Job :
              /\ job' = [job EXCEPT ![j] = x] /\ AtStep(x)
              /\ x.pc = "complete" /\ x.result = "ok"
              /\ x.r = job[j].r /\ x.todo = job[j].todo /\ x.params = job[j].params
    BY <1>3, <1>8, FinishFacts
  <2>2. job'[j] = x /\ x.r = r /\ x.todo = << >>
    BY <1>1, <1>2, <1>3, <1>8, <2>1 DEF JobsType
  <2>3. Range(x.todo) = {} /\ Range(y.todo) = {}
    BY <1>8, <2>2, RangeFacts
  <2>4. Locked(job[j])'
    BY <1>4, <1>7, <2>1, <2>2 DEF Locked, Busy, Creating
  <2>5. Copies(job[j])' /\ Todo(job[j])'
    BY <2>1, <2>2, <2>3 DEF Copies, Todo
  <2>6. Progress(job[j])'
    BY <1>4, <1>7, <2>1, <2>2 DEF Progress, Creating
  <2>7. \A t \in Updates(r) : Rendered(r, t, p)
    BY <1>7, <2>3 DEF Listed
  <2>8. Merged(job[j])'
    BY <1>4, <1>7, <1>8, <2>1, <2>2, <2>7 DEF Merged, Rendered
  <2>9. Steady(job[j])'
    BY <2>4, <2>5, <2>6, <2>8 DEF Steady
  <2> QED
    BY <1>1, <1>3, <1>4, <1>6, <1>8, <2>1, <2>9, JobChange
<1>9. CASE Finish(j, "error") /\ UNCHANGED objects
  <2>1. PICK x \in Job :
              /\ job' = [job EXCEPT ![j] = x] /\ AtStep(x)
              /\ x.pc = "complete" /\ x.result = "error"
              /\ x.r = job[j].r /\ x.todo = job[j].todo /\ x.params = job[j].params
    BY <1>3, <1>9, FinishFacts
  <2>2. job'[j] = x
    BY <1>3, <2>1 DEF JobsType
  <2>3. Steady(job[j])'
    BY <1>1, <1>4, <1>6, <1>9, <2>1, <2>2, FailedSteady
  <2> QED
    BY <1>1, <1>3, <1>4, <1>6, <1>9, <2>1, <2>3, JobChange
<1>10. CASE /\ y.todo # << >>
            /\ Accepts(Head(y.todo).name, Head(y.todo).object)
            /\ Store(Head(y.todo).name, Head(y.todo).object)
            /\ job' = [job EXCEPT ![j].todo = Tail(y.todo)]
  <2>1. PICK S : S = [name : Names, object : Object]
    OBVIOUS
  <2>2. y.todo \in Seq(S)
    BY <2>1, JobFields
  <2>3. PICK todo \in Seq(S) : todo = Tail(y.todo)
    BY <1>10, <2>2, TailFacts
  <2>4. PICK d \in S : d = Head(y.todo) /\ Range(y.todo) = {d} \cup Range(todo)
    BY <1>10, <2>2, <2>3, TailFacts
  <2>5. PICK n \in Names : n = d.name
    BY <2>1
  <2>6. PICK c \in Object : c = d.object
    BY <2>1
  <2>7. PICK t \in Templates \ Singletons : n = Name(r, t) /\ c.desired = Render[<<t, p>>]
    BY <1>2, <1>5, <1>6, <2>4, <2>5, <2>6 DEF Todo
  <2>8. PICK x : x = [y EXCEPT !.todo = todo]
    OBVIOUS
  <2>9. /\ x \in Job /\ x.pc = "apply" /\ x.r = r /\ x.params = p /\ x.todo = todo
    BY <1>1, <1>2, <1>5, <2>1, <2>8 DEF Job
  <2>10. job' = [job EXCEPT ![j] = x]
    BY <1>1, <1>10, <2>3, <2>8
  <2>11. job'[j] = x
    BY <1>3, <2>10 DEF JobsType
  <2>12. AtStep(x) /\ Busy(x)
    BY <2>9 DEF AtStep, Creating, Busy
  <2>13. objects[n].rv \in Nat
    BY <1>3, ObjectFields DEF TypeOK
  <2>14. PICK v \in Nat : v = objects[n].rv + 1 /\ v > objects[n].rv
    BY <2>13
  <2>15. PICK o : o = [c EXCEPT !.rv = v]
    OBVIOUS
  <2>16. /\ o \in Object /\ o.exists /\ o.rv = v /\ o.owners = c.owners
         /\ o.desired = c.desired /\ o.foreign = c.foreign /\ o.ready = c.ready
    BY <2>15 DEF Object
  <2>17. objects' = [objects EXCEPT ![n] = o]
    BY <1>10, <2>4, <2>5, <2>6, <2>14, <2>15 DEF Store
  <2>18. \A m \in Names : objects'[m] = IF m = n THEN o ELSE objects[m]
    BY <1>3, <2>17 DEF TypeOK
  <2>19. /\ objects[n].exists /\ objects[n].owners = c.owners
         /\ objects[n].foreign = c.foreign /\ objects[n].ready = c.ready
    BY <1>6, <1>10, <2>4, <2>5, <2>6 DEF Copies, Copy, Accepts
  <2>20. Harmless(n, o)
    <3>1. o.ready => n \in wasReady'
      BY <1>4, <2>16, <2>19 DEF ProvisionInv, ReadyMarked
    <3>2. o.foreign >= objects[n].foreign
      BY <2>16, <2>19, ObjectFields
    <3> QED
      BY <2>13, <2>14, <2>16, <2>19, <3>1, <3>2 DEF Harmless
  <2>21. \A q \in Registries : q # r => SameDesired(q, n, o)
    BY <2>7, NameFacts DEF SameDesired
  <2>22. Locked(job[j])'
    BY <1>4, <1>7, <2>9, <2>11 DEF Locked, Busy, Creating
  <2>23. Progress(job[j])'
    BY <2>9, <2>11 DEF Progress, Creating
  <2>24. Todo(job[j])'
    BY <1>2, <1>5, <1>6, <2>4, <2>9, <2>11 DEF Todo
  <2>25. Copies(job[j])'
    <3>1. ASSUME NEW b \in Range(todo) PROVE Copy(b.name, b.object)'
      <4>1. b \in S /\ Copy(b.name, b.object)
        BY <1>6, <2>4, RangeFacts DEF Copies
      <4>2. PICK m \in Names : m = b.name
        BY <2>1, <4>1
      <4>3. PICK g \in Object : g = b.object
        BY <2>1, <4>1
      <4>4. Copy(m, g)'
        BY <1>3, <2>16, <2>17, <2>20, <4>1, <4>2, <4>3, CopyKept
      <4> QED
        BY <4>2, <4>3, <4>4
    <3> QED
      BY <2>9, <2>11, <3>1 DEF Copies, Copy
  <2>26. \A u \in Updates(r) : Rendered(r, u, p)' \/ Listed(x, u)
    <3> TAKE u \in Updates(r)
    <3>1. u \in Templates \ Singletons
      BY UpdatesType
    <3>2. PICK m \in Names : m = Name(r, u)
      BY <3>1, NameFacts
    <3>3. CASE u = t
      BY <2>7, <2>16, <2>18, <3>2, <3>3 DEF Rendered
    <3>4. CASE u # t
      <4>1. m # n
        BY <2>7, <3>1, <3>2, <3>4, NameFacts
      <4>2. Rendered(r, u, p) => Rendered(r, u, p)'
        BY <2>18, <3>2, <4>1 DEF Rendered
      <4>3. Listed(y, u) => Listed(x, u)
        BY <1>2, <2>4, <2>5, <2>9, <3>2, <4>1 DEF Listed
      <4> QED
        BY <1>7, <4>2, <4>3
    <3> QED
      BY <3>3, <3>4
  <2>27. Merged(job[j])'
    BY <1>4, <1>7, <2>9, <2>11, <2>26 DEF Merged, Rendered, Listed
  <2>28. Steady(job[j])'
    BY <2>22, <2>23, <2>24, <2>25, <2>27 DEF Steady
  <2> QED
    BY <1>1, <1>2, <1>4, <1>6, <2>9, <2>10, <2>12, <2>16, <2>17, <2>20, <2>21,
       <2>28, ObjectChange
<1> QED
  BY <1>1, <1>8, <1>9, <1>10 DEF ApplyUpdate

(* A call that fails ends the goroutine's work with an error, or ends a    *)
(* request that has no lock yet; nothing else changes.                     *)
LEMMA FailsStep ==
    ASSUME ProvisionInv, NEW j \in Jobs, CallFails(j)
    PROVE  ProvisionInv'
<1>1. TypeOK /\ JobsType /\ updates \in 0 .. MaxUpdates
  BY DEF ProvisionInv, TypeOK
<1>2. UNCHANGED <<registry, objects, foreign, updates, wasReady, provisioned>>
  BY DEF CallFails, history
<1>3. CASE Busy(job[j]) /\ Finish(j, "error")
  <2>1. PICK x \in Job :
              /\ job' = [job EXCEPT ![j] = x] /\ AtStep(x)
              /\ x.pc = "complete" /\ x.result = "error"
              /\ x.r = job[j].r /\ x.todo = job[j].todo /\ x.params = job[j].params
    BY <1>1, <1>3, FinishFacts
  <2>2. job'[j] = x
    BY <1>1, <2>1 DEF JobsType
  <2>3. Steady(job[j])'
    BY <1>2, <1>3, <2>1, <2>2, FailedSteady
  <2> QED
    BY <1>1, <1>2, <1>3, <2>1, <2>3, JobChange
<1>4. CASE job' = [job EXCEPT ![j] = Idle]
  <2>1. job'[j] = Idle
    BY <1>1, <1>4 DEF JobsType
  <2>2. Steady(job[j])' /\ ~Busy(Idle) /\ AtStep(Idle)
    BY <2>1, IdleSteady
  <2> QED
    BY <1>1, <1>2, <1>4, <2>2, ConstantTypes, JobChange
<1> QED
  BY <1>3, <1>4 DEF CallFails, Busy, Creating

-----------------------------------------------------------------------------
(* Ends of operations, and the cluster.                                    *)

(* operation.Complete: the outcome is on record, and what it promises is   *)
(* so.                                                                     *)
LEMMA CompleteStep ==
    ASSUME ProvisionInv, NEW j \in Jobs, CompleteJob(j)
    PROVE  ProvisionInv'
<1>1. PICK y \in Job : y = job[j] /\ y.pc = "complete"
  BY DEF ProvisionInv, JobsType, CompleteJob
<1>2. PICK r \in Registries : r = y.r
  BY JobFields
<1>3. TypeOK /\ JobsType
  BY DEF ProvisionInv
<1>4. UNCHANGED <<objects, foreign, updates, wasReady>>
  BY DEF CompleteJob
<1>5. PICK result \in {"none", "ok", "error"} : result = y.result
  BY JobFields
<1>6. PICK c \in Entry : c = registry[r]
  BY <1>3 DEF TypeOK
<1>7. Locked(y) /\ Progress(y) /\ Merged(y) /\ Busy(y)
  BY <1>1 DEF ProvisionInv, Steady, Busy
<1>8. c.state = "live" /\ c.op # "none" /\ c.rv \in Nat
  BY <1>1, <1>2, <1>6, <1>7 DEF Locked, Entry
<1>9. PICK v \in Nat : v = c.rv + 1 /\ v > c.rv
  BY <1>8
<1>10. PICK e : e = [c EXCEPT !.rv = v, !.last = c.op, !.op = "none", !.result = result]
  OBVIOUS
<1>11. /\ e \in Entry /\ e.state = "live" /\ e.rv = v /\ e.params = c.params
       /\ e.op = "none" /\ e.last = c.op /\ e.result = result
  BY <1>8, <1>10 DEF Entry
<1>12. registry' = [registry EXCEPT ![r] = e]
  BY <1>1, <1>2, <1>5, <1>6, <1>9, <1>10 DEF CompleteJob
<1>13. job' = [job EXCEPT ![j] = Idle]
  BY DEF CompleteJob
<1>14. \A k \in Jobs : job'[k] = IF k = j THEN Idle ELSE job[k]
  BY <1>3, <1>13 DEF JobsType
<1>15. Steady(job[j])' /\ ~Busy(Idle) /\ AtStep(Idle)
  BY <1>14, IdleSteady
<1>16. JobsType'
  BY <1>3, <1>13, <1>15, ConstantTypes, JobsTypeKept
<1>17. Sole'
  BY <1>13, <1>15, ConstantTypes, SoleKept
<1>18. \A k \in Jobs : \/ job'[k] = job[k] /\ ~(Busy(job[k]) /\ job[k].r = r)
                       \/ Steady(job[k])'
  <2>1. \A k \in Jobs : Busy(job[k]) /\ job[k].r = r => k = j
    BY <1>1, <1>2, <1>7 DEF ProvisionInv, Sole
  <2> QED
    BY <1>14, <1>15, <2>1
<1>19. /\ provisioned' \subseteq provisioned \cup {r}
       /\ r \in provisioned' => r \in provisioned \/ (c.op = "provision" /\ result = "ok")
  BY <1>1, <1>2, <1>5, <1>6 DEF CompleteJob
<1>20. provisioned' \subseteq Registries
  BY <1>3, <1>19 DEF TypeOK
<1>21. r \in provisioned' =>
          \A i \in DOMAIN Steps[r] : StepChecked(r, i) /\ StepOwned(r, i)
  <2>1. r \in provisioned =>
            \A i \in DOMAIN Steps[r] : StepChecked(r, i) /\ StepOwned(r, i)
    BY <1>6, <1>8 DEF ProvisionInv, Done
  <2>2. c.op = "provision" /\ result = "ok" =>
            \A i \in DOMAIN Steps[r] : StepChecked(r, i) /\ StepOwned(r, i)
    BY <1>1, <1>2, <1>5, <1>6, <1>7 DEF Progress
  <2> QED
    BY <1>19, <2>1, <2>2
<1>22. e.last = "update" /\ e.result = "ok" =>
          \A t \in Updates(r) : Rendered(r, t, e.params)
  BY <1>1, <1>2, <1>5, <1>6, <1>7, <1>11 DEF Merged
<1>23. e.rv > registry[r].rv /\ registry[r].state = "live"
  BY <1>6, <1>8, <1>9, <1>11
<1> QED
  BY <1>4, <1>11, <1>12, <1>16, <1>17, <1>18, <1>19, <1>20, <1>21, <1>22, <1>23,
     RegistryChange

(* Deleter.Run. *)
LEMMA DeleteStep ==
    ASSUME ProvisionInv, NEW r \in Registries, DeleteRegistry(r)
    PROVE  ProvisionInv'
<1>1. PICK e : e = [NoEntry EXCEPT !.state = "gone"]
  OBVIOUS
<1>2. e \in Entry /\ e.state = "gone"
  BY <1>1, ConstantTypes DEF Entry
<1>3. /\ registry' = [registry EXCEPT ![r] = e]
      /\ UNCHANGED <<objects, job, foreign, updates, wasReady, provisioned>>
      /\ registry[r].op = "none"
  BY <1>1 DEF DeleteRegistry, history
<1>4. \A k \in Jobs : job'[k] = job[k] /\ ~(Busy(job[k]) /\ job[k].r = r)
  BY <1>3, FreeRegistry
<1>5. JobsType' /\ Sole'
  BY <1>3 DEF ProvisionInv, JobsType, AtStep, Creating, Sole, Busy
<1>6. provisioned' \subseteq Registries /\ provisioned' \subseteq provisioned \cup {r}
  BY <1>3 DEF ProvisionInv, TypeOK
<1>7. r \in provisioned' => \A i \in DOMAIN Steps[r] : StepChecked(r, i)
  BY <1>3 DEF ProvisionInv, Done
<1> QED
  BY <1>2, <1>3, <1>4, <1>5, <1>6, <1>7, RegistryChange

(* What the cluster does to objects: it collects what no live registry     *)
(* owns, reports readiness and changes the rest.                           *)
LEMMA ClusterStepInv ==
    ASSUME ProvisionInv, NEW n \in Names, Collect(n) \/ BecomeReady(n) \/ ForeignWrite(n)
    PROVE  ProvisionInv'
<1>1. PICK c \in Object : c = objects[n]
  BY ObjectFields DEF ProvisionInv, TypeOK, Collect, BecomeReady, ForeignWrite
<1>2. /\ c.rv \in Nat /\ c.owners \subseteq Registries /\ c.foreign \in Nat /\ c.exists
      /\ TypeOK /\ wasReady \subseteq Names /\ foreign \in 0 .. MaxWrites
  BY ObjectFields DEF ProvisionInv, TypeOK
<1>3. PICK v \in Nat : v = c.rv + 1 /\ v > c.rv
  BY <1>2
<1>4. CASE Collect(n)
  <2>1. PICK o : o = [NoObject EXCEPT !.rv = c.rv]
    OBVIOUS
  <2>2. o \in Deleted /\ o.rv = c.rv /\ o.exists = FALSE
    BY <1>2, <2>1 DEF NoObject, Deleted
  <2>3. /\ objects' = [objects EXCEPT ![n] = o] /\ c.owners \cap Live = {}
        /\ UNCHANGED <<registry, job, foreign, updates, wasReady, provisioned>>
    BY <1>1, <1>4, <2>1 DEF Collect, history
  <2>4. Harmless(n, o)
    BY <1>1, <1>2, <2>2, <2>3 DEF Harmless
  <2> QED
    BY <1>2, <2>2, <2>3, <2>4, ClusterChange
<1>5. CASE BecomeReady(n)
  <2>1. PICK o : o = [c EXCEPT !.ready = TRUE, !.rv = v]
    OBVIOUS
  <2>2. /\ o \in Object /\ o.rv = v /\ o.exists /\ o.owners = c.owners
        /\ o.desired = c.desired /\ o.foreign = c.foreign
    BY <2>1 DEF Object
  <2>3. [[c EXCEPT !.ready = TRUE] EXCEPT !.rv = v] = o
    BY <2>1 DEF Object
  <2>4. /\ objects' = [objects EXCEPT ![n] = o]
        /\ wasReady' = wasReady \cup {n}
        /\ UNCHANGED <<registry, job, foreign, updates, provisioned>>
    BY <1>1, <1>3, <1>5, <2>3 DEF BecomeReady, Store
  <2>5. Harmless(n, o)
    BY <1>1, <1>2, <1>3, <2>2, <2>4 DEF Harmless
  <2> QED
    BY <1>1, <1>2, <2>2, <2>4, <2>5, ClusterChange
<1>6. CASE ForeignWrite(n)
  <2>1. PICK f \in Nat : f = c.foreign + 1 /\ f >= c.foreign
    BY <1>2
  <2>2. PICK o : o = [c EXCEPT !.foreign = f, !.rv = v]
    OBVIOUS
  <2>3. /\ o \in Object /\ o.rv = v /\ o.exists /\ o.owners = c.owners
        /\ o.desired = c.desired /\ o.foreign = f /\ o.ready = c.ready
    BY <2>2 DEF Object
  <2>4. [[c EXCEPT !.foreign = f] EXCEPT !.rv = v] = o
    BY <2>2 DEF Object
  <2>5. [c EXCEPT !.foreign = @ + 1] = [c EXCEPT !.foreign = f]
    BY <2>1
  <2>6. /\ objects' = [objects EXCEPT ![n] = o]
        /\ UNCHANGED <<registry, job, updates, wasReady, provisioned>>
    BY <1>1, <1>3, <1>6, <2>4, <2>5 DEF ForeignWrite, Store
  <2>7. foreign' \in 0 .. MaxWrites
    BY <1>2, <1>6, BoundAssumption DEF ForeignWrite
  <2>8. c.ready => n \in wasReady
    BY <1>1, <1>2 DEF ProvisionInv, ReadyMarked
  <2>9. Harmless(n, o)
    BY <1>1, <1>2, <1>3, <2>1, <2>3, <2>6, <2>8 DEF Harmless
  <2> QED
    BY <1>1, <1>2, <2>3, <2>6, <2>7, <2>9, ClusterChange
<1> QED
  BY <1>4, <1>5, <1>6

-----------------------------------------------------------------------------
(* The theorems.                                                           *)

(* Every step keeps the invariant. *)
LEMMA NextStep ==
    ASSUME ProvisionInv, [Next]_vars
    PROVE  ProvisionInv'
<1>1. ASSUME NEW j \in Jobs, JobStep(j) PROVE ProvisionInv'
  BY <1>1, CreateStep, GetStep, AppendStep, EnterBarrierStep, BarrierStep,
     PrepareStep, StartUpdateStep, ApplyStep, FailsStep, CompleteStep DEF JobStep
<1>2. CASE ClientStep
  <2>1. CASE \E j \in Jobs, r \in Registries, p \in Params : StartCreate(j, r, p)
    BY <2>1, StartCreateStep
  <2>2. CASE \E j \in Jobs, r \in Registries, p \in Params : BeginUpdate(j, r, p)
    BY <2>2, BeginUpdateStep
  <2>3. CASE \E r \in Registries : DeleteRegistry(r)
    BY <2>3, DeleteStep
  <2> QED
    BY <1>2, <2>1, <2>2, <2>3 DEF ClientStep
<1>3. CASE ClusterStep
  BY <1>3, ClusterStepInv DEF ClusterStep
<1>4. CASE UNCHANGED vars
  <2>1. UNCHANGED <<registry, objects, job, foreign, updates, wasReady, provisioned>>
    BY <1>4 DEF vars, history
  <2>2. \A k \in Jobs : Steady(job[k])'
    BY <2>1, IdleJob
  <2>3. TypeOK' /\ JobsType' /\ Sole'
    BY <2>1 DEF ProvisionInv, TypeOK, JobsType, AtStep, Creating, Sole, Busy
  <2>4. ReadyMarked' /\ Done' /\ Updated'
    BY <2>1 DEF ProvisionInv, ReadyMarked, Done, Updated, StepOwned, StepChecked,
                Owned, Checked, Rendered
  <2> QED
    BY <2>2, <2>3, <2>4 DEF ProvisionInv
<1> QED
  BY <1>1, <1>2, <1>3, <1>4 DEF Next

(* The invariant holds at the start. *)
LEMMA InitStep == Init => ProvisionInv
<1> SUFFICES ASSUME Init PROVE ProvisionInv
  OBVIOUS
<1>1. TypeOK
  BY ConstantTypes, BoundAssumption DEF Init, TypeOK
<1>2. \A j \in Jobs : job[j] = Idle
  BY DEF Init
<1>3. Idle.pc = "idle" /\ Idle.todo = << >> /\ Range(Idle.todo) = {}
  BY RangeFacts DEF Idle
<1>4. JobsType
  BY <1>1, <1>2, <1>3 DEF JobsType, TypeOK, AtStep, Creating
<1>5. Sole
  BY <1>2, <1>3 DEF Sole, Busy
<1>6. ReadyMarked
  <2>1. NoObject.exists = FALSE
    BY DEF NoObject
  <2> QED
    BY <2>1 DEF Init, ReadyMarked
<1>7. Done
  BY DEF Init, Done
<1>8. Updated
  <2>1. NoEntry.state = "none"
    BY DEF NoEntry
  <2> QED
    BY <2>1 DEF Init, Updated
<1>9. ASSUME NEW j \in Jobs PROVE Steady(job[j])
  <2>1. Locked(job[j]) /\ Copies(job[j]) /\ Todo(job[j])
    BY <1>2, <1>3 DEF Locked, Copies, Todo, Busy, Creating
  <2>2. Progress(job[j]) /\ Merged(job[j])
    BY <1>2, <1>3 DEF Progress, Merged, Creating
  <2> QED
    BY <2>1, <2>2 DEF Steady
<1> QED
  BY <1>1, <1>4, <1>5, <1>6, <1>7, <1>8, <1>9 DEF ProvisionInv

(* The inductive invariant: locks, progress and copies of the goroutines,  *)
(* whatever they, the clients and the cluster do.                          *)
THEOREM ProvisioningInvariance == Spec => []ProvisionInv
<1>1. Init => ProvisionInv
  BY InitStep
<1>2. ProvisionInv /\ [Next]_vars => ProvisionInv'
  BY NextStep
<1> QED
  BY <1>1, <1>2, PTL DEF Spec

(* Registries, objects and goroutines keep their shape: no goroutine works *)
(* beyond the last step of the plan or on a template that is not there.    *)
THEOREM ProvisioningTypeCorrect == Spec => []TypeOK
<1>1. ProvisionInv => TypeOK
  BY DEF ProvisionInv
<1> QED
  BY <1>1, ProvisioningInvariance, PTL

(* A registry whose provisioning succeeded has all its objects and owns    *)
(* each, until it is deleted: createResource appends an owner only to the  *)
(* version it read, and Kubernetes collects nothing that has an owner.     *)
THEOREM ProvisionedObjectsAreKept == Spec => []ObjectsKept
<1>1. ProvisionInv => ObjectsKept
  <2> SUFFICES ASSUME ProvisionInv, NEW r \in Registries,
                      registry[r].state = "live", r \in provisioned,
                      NEW t \in CreatorTemplates(r)
               PROVE  objects[Name(r, t)].exists /\ r \in objects[Name(r, t)].owners
    BY DEF ObjectsKept
  <2>1. PICK i \in DOMAIN Steps[r] : t \in Range(Steps[r][i].templates)
    BY DEF CreatorTemplates, CreatorSteps
  <2>2. StepOwned(r, i)
    BY DEF ProvisionInv, Done
  <2> QED
    BY <2>1, <2>2 DEF StepOwned, Owned
<1> QED
  BY <1>1, ProvisioningInvariance, PTL

(* Readiness checks are barriers: a Creator works on a step only when all  *)
(* that the earlier steps check has been ready, and reports success only   *)
(* when everything has.                                                    *)
THEOREM ReadinessIsABarrier == Spec => []BarriersHold
<1>1. ProvisionInv => BarriersHold
  <2> SUFFICES ASSUME ProvisionInv, NEW r \in Registries
               PROVE  /\ \A j \in Jobs :
                            job[j].r = r /\ job[j].pc \in {"create", "get", "own"} =>
                               \A t \in CreatorChecks(r, 1 .. job[j].step - 1) :
                                   Name(r, t) \in wasReady
                      /\ r \in provisioned =>
                            \A t \in CreatorChecks(r, DOMAIN CreatorSteps(r)) :
                                Name(r, t) \in wasReady
    BY DEF BarriersHold
  <2>1. ASSUME NEW j \in Jobs, job[j].r = r, job[j].pc \in {"create", "get", "own"},
               NEW t \in CreatorChecks(r, 1 .. job[j].step - 1)
        PROVE  Name(r, t) \in wasReady
    <3>1. PICK i \in 1 .. job[j].step - 1 : t \in Range(Steps[r][i].checks)
      BY DEF CreatorChecks, CreatorSteps
    <3>2. StepChecked(r, i)
      BY <2>1 DEF ProvisionInv, Steady, Progress, Creating
    <3> QED
      BY <3>1, <3>2 DEF StepChecked, Checked
  <2>2. ASSUME r \in provisioned, NEW t \in CreatorChecks(r, DOMAIN CreatorSteps(r))
        PROVE  Name(r, t) \in wasReady
    <3>1. PICK i \in DOMAIN Steps[r] : t \in Range(Steps[r][i].checks)
      BY DEF CreatorChecks, CreatorSteps
    <3>2. StepChecked(r, i)
      BY <2>2 DEF ProvisionInv, Done
    <3> QED
      BY <3>1, <3>2 DEF StepChecked, Checked
  <2> QED
    BY <2>1, <2>2
<1> QED
  BY <1>1, ProvisioningInvariance, PTL

(* After a successful update the objects are what the parameters on record *)
(* render to: what Updater.Prepare found unchanged before the lock was     *)
(* taken is still so when the update ends.                                 *)
THEOREM SuccessfulUpdatesApply == Spec => []UpdateApplied
<1>1. ProvisionInv => UpdateApplied
  <2> SUFFICES ASSUME ProvisionInv, NEW r \in Registries \ UseSteps,
                      registry[r].state = "live", registry[r].op = "none",
                      registry[r].last = "update", registry[r].result = "ok",
                      NEW t \in CreatorTemplates(r) \ Singletons
               PROVE  objects[Name(r, t)].exists =>
                         objects[Name(r, t)].desired = Render[<<t, registry[r].params>>]
    BY DEF UpdateApplied
  <2>1. PICK i \in DOMAIN Steps[r] : t \in Range(Steps[r][i].templates)
    BY DEF CreatorTemplates, CreatorSteps
  <2>2. i = 1
    <3>1. Len(Steps[r]) = 1 /\ DOMAIN Steps[r] = 1 .. Len(Steps[r])
      BY TemplateAssumption, StepFacts
    <3> QED
      BY <3>1
  <2>3. t \in Updates(r)
    BY <2>1, <2>2 DEF Updates, UpdaterTemplates
  <2> QED
    BY <2>3 DEF ProvisionInv, Updated, Rendered
<1> QED
  BY <1>1, ProvisioningInvariance, PTL

(* No change that another controller made is forgotten. *)
Remembered(n) ==
    objects[n].exists /\ objects'[n].exists => objects'[n].foreign >= objects[n].foreign

(* A write forgets nothing if what is written does not. *)
LEMMA WriteRemembers ==
    ASSUME TypeOK, NEW n \in Names, NEW o \in Object, Store(n, o),
           objects[n].exists => o.foreign >= objects[n].foreign
    PROVE  \A m \in Names : Remembered(m)
<1>1. PICK v : v = objects[n].rv + 1
  OBVIOUS
<1>2. PICK w : w = [o EXCEPT !.rv = v]
  OBVIOUS
<1>3. w.foreign = o.foreign
  BY <1>2 DEF Object
<1>4. \A m \in Names : objects'[m] = IF m = n THEN w ELSE objects[m]
  BY <1>1, <1>2 DEF Store, TypeOK
<1>5. \A m \in Names : objects[m].exists => objects[m].foreign \in Nat
  BY ObjectFields DEF TypeOK
<1> QED
  BY <1>3, <1>4, <1>5 DEF Remembered

(* Nothing is written. *)
LEMMA NoWriteRemembers ==
    ASSUME TypeOK, UNCHANGED objects
    PROVE  \A m \in Names : Remembered(m)
<1>1. \A m \in Names : objects[m].exists => objects[m].foreign \in Nat
  BY ObjectFields DEF TypeOK
<1> QED
  BY <1>1 DEF Remembered

(* A goroutine forgets nothing: a write is based on the version it read.   *)
LEMMA JobRemembers ==
    ASSUME ProvisionInv, NEW j \in Jobs, JobStep(j)
    PROVE  \A m \in Names : Remembered(m)
<1>1. PICK y \in Job : y = job[j] /\ Steady(job[j]) /\ AtStep(y)
  BY DEF ProvisionInv, JobsType
<1>2. PICK r \in Registries : r = y.r
  BY JobFields
<1>3. TypeOK
  BY DEF ProvisionInv
<1>4. CASE UNCHANGED objects
  BY <1>3, <1>4, NoWriteRemembers
<1>5. CASE CreateResource(j) /\ ~UNCHANGED objects
  <2>1. PICK t \in Templates : t = Head(y.rest)
    BY <1>1, <1>5, JobFields, TailFacts DEF CreateResource
  <2>2. PICK n \in Names : n = Name(r, t)
    BY NameFacts
  <2>3. PICK o \in Object : o = NewObject(r, t, y.params)
    BY JobFields, ConstantTypes
  <2>4. ~objects[n].exists /\ Store(n, o)
    BY <1>1, <1>2, <1>5, <2>1, <2>2, <2>3 DEF CreateResource, CurrentName, Current
  <2> QED
    BY <1>3, <2>4, WriteRemembers
<1>6. CASE AppendOwner(j) /\ ~UNCHANGED objects
  <2>1. PICK c \in Object : c = y.cache
    BY <1>1, <1>6 DEF AppendOwner, AtStep
  <2>2. PICK t \in Templates : t = Head(y.rest)
    BY <1>1, <1>6, TemplateAssumption DEF AppendOwner, AtStep
  <2>3. PICK n \in Names : n = Name(r, t)
    BY NameFacts
  <2>4. PICK owners \in SUBSET Registries : owners = OwnersAppended(c, r)
    BY ObjectFields DEF OwnersAppended
  <2>5. PICK o \in Object : o = [c EXCEPT !.owners = owners]
    BY DEF Object
  <2>6. Accepts(n, c) /\ Store(n, o) /\ y.pc = "own"
    BY <1>1, <1>2, <1>6, <2>1, <2>2, <2>3, <2>4, <2>5
    DEF AppendOwner, CurrentName, Current
  <2>7. o.foreign = c.foreign /\ o.foreign \in Nat
    BY <2>5 DEF Object
  <2>8. Copy(n, c)
    BY <1>1, <1>2, <2>1, <2>2, <2>3, <2>6 DEF Steady, Copies
  <2>9. o.foreign >= objects[n].foreign
    BY <2>6, <2>7, <2>8 DEF Copy, Accepts
  <2> QED
    BY <1>3, <2>6, <2>9, WriteRemembers
<1>7. CASE ApplyUpdate(j) /\ ~UNCHANGED objects
  <2>1. PICK S : S = [name : Names, object : Object]
    OBVIOUS
  <2>2. y.todo \in Seq(S) /\ y.todo # << >>
    BY <1>1, <1>7, <2>1, JobFields DEF ApplyUpdate
  <2>3. PICK d \in S : d = Head(y.todo) /\ d \in Range(y.todo)
    BY <2>2, TailFacts
  <2>4. PICK n \in Names : n = d.name
    BY <2>1
  <2>5. PICK o \in Object : o = d.object
    BY <2>1
  <2>6. Accepts(n, o) /\ Store(n, o)
    BY <1>1, <1>7, <2>3, <2>4, <2>5 DEF ApplyUpdate
  <2>7. Copy(n, o)
    BY <1>1, <2>3, <2>4, <2>5 DEF Steady, Copies
  <2>8. o.foreign >= objects[n].foreign
    BY <2>6, <2>7, ObjectFields DEF Copy, Accepts
  <2> QED
    BY <1>3, <2>6, <2>8, WriteRemembers
<1>8. \/ UNCHANGED objects
      \/ CreateResource(j) \/ AppendOwner(j) \/ ApplyUpdate(j)
  BY DEF JobStep, GetSingleton, EnterBarrier, Barrier, PrepareUpdate, StartUpdate,
         CallFails, CompleteJob
<1> QED
  BY <1>4, <1>5, <1>6, <1>7, <1>8

(* Neither does the cluster. *)
LEMMA ClusterRemembers ==
    ASSUME ProvisionInv, NEW n \in Names, Collect(n) \/ BecomeReady(n) \/ ForeignWrite(n)
    PROVE  \A m \in Names : Remembered(m)
<1>1. PICK c \in Object : c = objects[n]
  BY ObjectFields DEF ProvisionInv, TypeOK, Collect, BecomeReady, ForeignWrite
<1>2. c.foreign \in Nat /\ TypeOK
  BY ObjectFields DEF ProvisionInv
<1>3. CASE Collect(n)
  <2>1. \A m \in Names : m # n => objects'[m] = objects[m]
    BY <1>2, <1>3 DEF Collect, TypeOK
  <2>2. ~objects'[n].exists
    BY <1>2, <1>3 DEF Collect, TypeOK, NoObject
  <2>3. \A m \in Names : objects[m].exists => objects[m].foreign \in Nat
    BY <1>2, ObjectFields DEF TypeOK
  <2> QED
    BY <2>1, <2>2, <2>3 DEF Remembered
<1>4. CASE BecomeReady(n)
  <2>1. PICK o \in Object : o = [c EXCEPT !.ready = TRUE]
    BY DEF Object
  <2>2. Store(n, o) /\ o.foreign = c.foreign
    BY <1>1, <1>4, <2>1 DEF BecomeReady, Object
  <2>3. o.foreign >= objects[n].foreign
    BY <1>1, <1>2, <2>2
  <2> QED
    BY <1>2, <2>2, <2>3, WriteRemembers
<1>5. CASE ForeignWrite(n)
  <2>1. PICK f \in Nat : f = c.foreign + 1 /\ f >= c.foreign
    BY <1>2
  <2>2. PICK o \in Object : o = [c EXCEPT !.foreign = f]
    BY DEF Object
  <2>3. [c EXCEPT !.foreign = @ + 1] = o
    BY <2>1, <2>2
  <2>4. Store(n, o) /\ o.foreign = f
    BY <1>1, <1>5, <2>2, <2>3 DEF ForeignWrite, Object
  <2>5. o.foreign >= objects[n].foreign
    BY <1>1, <2>1, <2>4
  <2> QED
    BY <1>2, <2>4, <2>5, WriteRemembers
<1> QED
  BY <1>3, <1>4, <1>5

(* Neither an update nor a shared creation undoes what another controller  *)
(* wrote between its read and its write: the version it read is compared.  *)
THEOREM ForeignChangesAreKept == Spec => ForeignKept
<1>1. ProvisionInv /\ [Next]_vars =>
          [\A n \in Names : objects[n].exists /\ objects'[n].exists =>
               objects'[n].foreign >= objects[n].foreign]_vars
  <2> SUFFICES ASSUME ProvisionInv, Next
               PROVE  \A n \in Names : Remembered(n)
    BY DEF Remembered
  <2>1. TypeOK
    BY DEF ProvisionInv
  <2>2. CASE \E j \in Jobs : JobStep(j)
    BY <2>2, JobRemembers
  <2>3. CASE ClientStep
    <3>1. UNCHANGED objects
      BY <2>3 DEF ClientStep, StartCreate, BeginUpdate, DeleteRegistry
    <3> QED
      BY <2>1, <3>1, NoWriteRemembers
  <2>4. CASE ClusterStep
    BY <2>4, ClusterRemembers DEF ClusterStep
  <2> QED
    BY <2>2, <2>3, <2>4 DEF Next
<1> QED
  BY <1>1, ProvisioningInvariance, PTL DEF Spec, ForeignKept
=============================================================================
