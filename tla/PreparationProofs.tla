------------------------- MODULE PreparationProofs -------------------------
(***************************************************************************)
(* Proofs about Preparation, for all plans, configurations and parameters. *)
(* What does not depend on the values that templates render to is proved   *)
(* whatever Argument and Part are; what generators give, under a           *)
(* hypothesis on Argument, AtomicArguments.                                *)
(***************************************************************************)
EXTENDS Preparation, WellFoundedInduction, TLAPS

(* Read-only and reserved keys are as a request set them. *)
EntryOk(entry) ==
    /\ ReadOnlyKeys \cup {"context", "parameters"} \subseteq DOMAIN entry
    /\ \A k \in ReadOnlyKeys \ {"plan-id"} : entry[k] = Str(k)
    /\ \E p \in Plans : entry["plan-id"] = Str(p)
    /\ entry["context"] = Context
    /\ entry["parameters"] \in Params

(* Of the instance that is stored. *)
OfInstance(entry) ==
    /\ EntryOk(entry)
    /\ stored["instance"] # NoEntry
    /\ entry["plan-id"] = stored["instance"]["plan-id"]

(* A binding has its own ID, or what its list defines instead. *)
IdKept(entry, type) ==
    type = "binding" =>
        /\ "binding-id" \in DOMAIN entry
        /\ \/ entry["binding-id"] = Str("binding-id")
           \/ DefinedFor(entry, type, "binding-id")

(* Requests are served under configurations that were accepted. *)
Accepted ==
    /\ cfg \in Configs
    /\ verdict = "ok" \/ call # None \/ Ended => Valid(cfg)

Kept ==
    /\ DOMAIN stored = Types
    /\ \A t \in Types : stored[t] # NoEntry =>
          OfInstance(stored[t]) /\ IdKept(stored[t], t)

(* A call works on the list that its entry names, whose templates exist    *)
(* unless it has steps.                                                    *)
Running ==
    call # None =>
        /\ DOMAIN call = {"type", "plan", "entry", "items", "done",
                          "templates", "rendered"}
        /\ call.type \in Types
        /\ OfInstance(call.entry) /\ IdKept(call.entry, call.type)
        /\ IsList(ListOf(call)) /\ call.items = ListOf(call).registry
        /\ call.done \in 0 .. Len(call.items)
        /\ Len(call.rendered) \in Nat /\ IsSequence(call.rendered)
        /\ ListOf(call).steps = None =>
              /\ call.templates = ListOf(call).templates
              /\ Range(call.templates) \subseteq DOMAIN cfg.templates

(* The inductive invariant. *)
IInv == Accepted /\ Kept /\ Running /\ ReadyMeansComplete

-----------------------------------------------------------------------------
(* Lookups.                                                                *)

(* A set of naturals has a least element. *)
LEMMA LeastNatural ==
    ASSUME NEW T, T \subseteq Nat, T # {}
    PROVE  \E x \in T : \A y \in T : x <= y
<1>1. PICK R : R = OpToRel(<, Nat)
  OBVIOUS
<1>2. \A x, y \in Nat : x < y => <<x, y>> \in R
  BY <1>1 DEF OpToRel
<1>3. IsWellFoundedOn(R, Nat)
  BY <1>1, NatLessThanWellFounded
<1>4. PICK x \in T : \A y \in T : ~(<<y, x>> \in R)
  BY <1>3, WFMin
<1>5. \A y \in T : x <= y
  <2> TAKE y \in T
  <2>1. x \in Nat /\ y \in Nat
    OBVIOUS
  <2>2. ~(y < x)
    BY <1>2, <1>4, <2>1
  <2> QED
    BY <2>1, <2>2
<1> QED
  BY <1>5

(* GetTemplateBindings finds a binding of the plan, if there is one. *)
LEMMA BindingFound ==
    ASSUME NEW c \in Configs, NEW plan, GetBinding(c, plan) # None
    PROVE  GetBinding(c, plan) \in Range(c.bindings)
<1>1. PICK T : T = Matches(c, plan)
  OBVIOUS
<1>2. T # {} /\ GetBinding(c, plan) = c.bindings[Min(T)]
  BY <1>1 DEF GetBinding
<1>3. PICK S : S = Range(c.bindings)
  OBVIOUS
<1>4. c.bindings \in Seq(S)
  BY <1>3, ConfigAssumption DEF IsSequence
<1>5. T \subseteq Nat /\ T \subseteq DOMAIN c.bindings
  BY <1>1, <1>4 DEF Matches
<1>6. \E x \in T : \A y \in T : x <= y
  BY <1>2, <1>5, LeastNatural
<1>7. Min(T) \in T
  BY <1>6 DEF Min
<1> QED
  BY <1>2, <1>5, <1>7 DEF Range

(* getTemplateBinding returns a list, if anything. *)
LEMMA ListFound ==
    ASSUME NEW c \in Configs, NEW plan, NEW type,
           GetTemplateBinding(c, plan, type) # None
    PROVE  IsList(GetTemplateBinding(c, plan, type))
<1>1. GetBinding(c, plan) # None
  BY DEF GetTemplateBinding
<1>2. PICK b \in Range(c.bindings) : b = GetBinding(c, plan)
  BY <1>1, BindingFound
<1>3. IsList(b.serviceInstance) /\ (b.serviceBinding = None \/ IsList(b.serviceBinding))
  BY <1>2, ConfigAssumption
<1> QED
  BY <1>1, <1>2, <1>3 DEF GetTemplateBinding

(* What validate accepts has a list for every instance, and for every      *)
(* binding to a plan that can be bound to.                                 *)
LEMMA ValidList ==
    ASSUME NEW c \in Configs, Valid(c), NEW plan \in Plans, NEW type \in Types,
           type = "binding" => IsBindable(c, plan)
    PROVE  GetTemplateBinding(c, plan, type) # None
<1>1. GetBinding(c, plan) # None
      /\ (IsBindable(c, plan) <=> GetBinding(c, plan).serviceBinding # None)
  BY DEF Valid, PlanValid
<1>2. PICK b \in Range(c.bindings) : b = GetBinding(c, plan)
  BY <1>1, BindingFound
<1>3. IsList(b.serviceInstance)
  BY <1>2, ConfigAssumption
<1>4. b.serviceInstance # None
  BY <1>3 DEF IsList
<1> QED
  BY <1>1, <1>2, <1>4 DEF GetTemplateBinding, Types

(* The templates of such a list exist. *)
LEMMA ValidTemplates ==
    ASSUME NEW c \in Configs, Valid(c), NEW plan, NEW type,
           GetTemplateBinding(c, plan, type) # None
    PROVE  Range(GetTemplateBinding(c, plan, type).templates)
              \subseteq DOMAIN c.templates
<1>1. GetBinding(c, plan) # None
  BY DEF GetTemplateBinding
<1>2. PICK b \in Range(c.bindings) : b = GetBinding(c, plan)
  BY <1>1, BindingFound
<1>3. /\ ListValid(c, b.serviceInstance)
      /\ b.serviceBinding # None => ListValid(c, b.serviceBinding)
  BY <1>2 DEF Valid
<1>4. PICK list : list = GetTemplateBinding(c, plan, type)
  OBVIOUS
<1>5. ListValid(c, list)
  BY <1>1, <1>2, <1>3, <1>4 DEF GetTemplateBinding
<1> QED
  BY <1>4, <1>5 DEF ListValid

-----------------------------------------------------------------------------
(* Entries.                                                                *)

(* The plan on record is a plan, and only plan-id tells. *)
LEMMA PlanOnRecord ==
    ASSUME NEW entry, EntryOk(entry)
    PROVE  PlanOf(entry) \in Plans /\ Str(PlanOf(entry)) = entry["plan-id"]
<1>1. \E p \in Plans : Str(p) = entry["plan-id"]
  BY DEF EntryOk
<1> QED
  BY <1>1 DEF PlanOf

(* What a create stores. *)
LEMMA NewEntryOk ==
    ASSUME NEW plan \in Plans, NEW params \in Params
    PROVE  EntryOk(NewEntry(plan, params)) /\ PlanOf(NewEntry(plan, params)) = plan
<1>1. PICK e : e = NewEntry(plan, params)
  OBVIOUS
<1>2. EntryOk(e)
  BY <1>1 DEF NewEntry, EntryOk, ReadOnlyKeys
<1>3. e["plan-id"] = Str(plan)
  BY <1>1 DEF NewEntry, ReadOnlyKeys
<1>4. PICK q \in Plans : q = PlanOf(e) /\ Str(q) = e["plan-id"]
  BY <1>2, PlanOnRecord
<1>5. q = plan
  <2>1. Str(q).str = Str(plan).str
    BY <1>3, <1>4
  <2> QED
    BY <2>1 DEF Str
<1> QED
  BY <1>1, <1>2, <1>4, <1>5

(* What a bind stores. *)
LEMMA InheritOk ==
    ASSUME NEW entry, EntryOk(entry), NEW params \in Params
    PROVE  /\ EntryOk(Inherit(entry, params))
           /\ Inherit(entry, params)["plan-id"] = entry["plan-id"]
           /\ IdKept(Inherit(entry, params), "binding")
<1>1. PICK e : e = Set(entry, "parameters", params)
  OBVIOUS
<1>2. PICK f : f = Set(e, "binding-id", Str("binding-id"))
  OBVIOUS
<1>3. /\ DOMAIN e = DOMAIN entry \cup {"parameters"}
      /\ e["parameters"] = params
      /\ \A k \in DOMAIN entry \ {"parameters"} : e[k] = entry[k]
  BY <1>1 DEF Set
<1>4. /\ DOMAIN f = DOMAIN e \cup {"binding-id"}
      /\ f["binding-id"] = Str("binding-id")
      /\ \A k \in DOMAIN e \ {"binding-id"} : f[k] = e[k]
  BY <1>2 DEF Set
<1>5. EntryOk(f) /\ f["plan-id"] = entry["plan-id"]
  BY <1>3, <1>4 DEF EntryOk, ReadOnlyKeys
<1>6. IdKept(f, "binding")
  BY <1>4 DEF IdKept
<1> QED
  BY <1>1, <1>2, <1>5, <1>6 DEF Inherit

(* An entry is not nothing. *)
LEMMA EntryExists == ASSUME NEW entry, EntryOk(entry) PROVE entry # NoEntry
<1>1. "context" \in DOMAIN entry
  BY DEF EntryOk
<1>2. DOMAIN NoEntry = {}
  BY DEF NoEntry
<1> QED
  BY <1>1, <1>2

(* A registry definition leaves an entry as it is or sets one key, which   *)
(* is neither read-only nor reserved.                                      *)
LEMMA DefineReturns ==
    ASSUME NEW entry, NEW key, NEW value, Succeeded(Define(entry, key, value))
    PROVE  \/ IsNil(value) /\ Define(entry, key, value).ok = entry
           \/ /\ ~IsNil(value) /\ IsKeyWritable(key)
              /\ Define(entry, key, value).ok = Set(entry, key, value)
BY DEF Define, SetUser, Succeeded, Ok, Fail

(* So the broker's keys stay, and with them the plan. *)
LEMMA DefineKeeps ==
    ASSUME NEW entry, EntryOk(entry), NEW key, NEW value,
           Succeeded(Define(entry, key, value))
    PROVE  /\ EntryOk(Define(entry, key, value).ok)
           /\ Define(entry, key, value).ok["plan-id"] = entry["plan-id"]
<1>1. PICK e : e = Define(entry, key, value).ok
  OBVIOUS
<1>2. CASE e = entry
  BY <1>1, <1>2
<1>3. CASE IsKeyWritable(key) /\ e = Set(entry, key, value)
  <2>1. /\ DOMAIN e = DOMAIN entry \cup {key}
        /\ \A k \in DOMAIN entry \ {key} : e[k] = entry[k]
    BY <1>3 DEF Set
  <2>2. EntryOk(e) /\ e["plan-id"] = entry["plan-id"]
    BY <1>3, <2>1 DEF EntryOk, IsKeyWritable, ReadOnlyKeys, ReservedKeys
  <2> QED
    BY <1>1, <2>2
<1> QED
  BY <1>1, <1>2, <1>3, DefineReturns

-----------------------------------------------------------------------------
(* Steps.                                                                  *)

(* In the beginning nothing is stored and nothing runs. *)
LEMMA IInvInit == ASSUME Init PROVE IInv
BY DEF Init, IInv, Accepted, Kept, Running, ReadyMeansComplete, Ended

(* An error never says that something is missing, whatever was rendered. *)
LEMMA StopEnds ==
    ASSUME NEW o, Stop(o)
    PROVE  (Ends("overflow") \/ Ends("error")) /\ verdict' \in {verdict, "none"}
BY DEF Stop

(* A call that ends, unless for what is missing, leaves IInv. *)
LEMMA EndStep ==
    ASSUME IInv, call # None, NEW r \in {"ok", "overflow", "error"}, Ends(r),
           cfg' = cfg, stored' = stored, verdict' \in {verdict, "none"}
    PROVE  IInv'
<1>1. Accepted'
  BY DEF IInv, Accepted
<1>2. Kept'
  BY DEF IInv, Kept, OfInstance, IdKept, DefinedFor
<1>3. Running'
  BY DEF Ends, Running
<1>4. ReadyMeansComplete'
  BY DEF Ends, ReadyMeansComplete
<1> QED
  BY <1>1, <1>2, <1>3, <1>4 DEF IInv

(* validate decides what Valid says. *)
LEMMA ValidateStep == ASSUME IInv, Validate PROVE IInv'
<1>1. Accepted'
  BY DEF IInv, Accepted, Validate, Ended
<1>2. Kept'
  BY DEF IInv, Kept, OfInstance, IdKept, DefinedFor, Validate
<1>3. Running'
  BY DEF IInv, Running, OfInstance, IdKept, DefinedFor, ListOf, Validate
<1>4. ReadyMeansComplete'
  BY DEF IInv, ReadyMeansComplete, Ended, ListOf, Validate
<1> QED
  BY <1>1, <1>2, <1>3, <1>4 DEF IInv

(* One registry definition: rendering fails, writing fails, or the entry   *)
(* is what Define says.                                                    *)
LEMMA RegistryCases ==
    ASSUME RenderRegistry
    PROVE  /\ call # None /\ call.done < Len(call.items)
           /\ cfg' = cfg /\ stored' = stored
           /\ \E o \in RenderTemplateString(call.items[call.done + 1][2],
                                            ContextOf(call.entry, Site)) :
                \/ ~Succeeded(o) /\ Stop(o)
                \/ /\ Succeeded(o)
                   /\ ~Succeeded(Define(call.entry, call.items[call.done + 1][1], o.ok))
                   /\ Stop(Define(call.entry, call.items[call.done + 1][1], o.ok))
                \/ /\ Succeeded(o)
                   /\ Succeeded(Define(call.entry, call.items[call.done + 1][1], o.ok))
                   /\ call' = [call EXCEPT
                                !.entry = Define(call.entry, call.items[call.done + 1][1],
                                                 o.ok).ok,
                                !.done = @ + 1]
                   /\ verdict' = verdict /\ outcome' = outcome
BY DEF RenderRegistry

(* A definition that was written keeps IInv. *)
LEMMA DefinedStep ==
    ASSUME IInv, call # None, call.done < Len(call.items),
           cfg' = cfg, stored' = stored, verdict' = verdict, outcome' = outcome,
           NEW key, key = call.items[call.done + 1][1],
           NEW value, Succeeded(Define(call.entry, key, value)),
           call' = [call EXCEPT !.entry = Define(call.entry, key, value).ok,
                                !.done = @ + 1]
    PROVE  IInv'
<1>1. PICK e : e = Define(call.entry, key, value).ok
  OBVIOUS
<1>2. Running
  BY DEF IInv
<1>3. /\ DOMAIN call' = DOMAIN call
      /\ call'.type = call.type /\ call'.entry = e /\ call'.items = call.items
      /\ call'.done = call.done + 1 /\ call'.templates = call.templates
      /\ call'.rendered = call.rendered
  BY <1>1, <1>2 DEF Running
<1>4. EntryOk(e) /\ e["plan-id"] = call.entry["plan-id"]
  BY <1>1, <1>2, DefineKeeps DEF Running, OfInstance
<1>5. ListOf(call)' = ListOf(call)
  BY <1>3, <1>4 DEF ListOf, PlanOf
<1>6. IsSequence(call.items)
  BY <1>2 DEF Running, IsList
<1>7. call.done + 1 \in 0 .. Len(call.items)
  <2>1. PICK S : S = Range(call.items)
    OBVIOUS
  <2>2. Len(call.items) \in Nat
    BY <1>6, <2>1 DEF IsSequence
  <2> QED
    BY <1>2, <2>2 DEF Running
<1>8. OfInstance(call.entry)'
  BY <1>2, <1>3, <1>4 DEF OfInstance, Running
<1>9. Running'
  <2>1. IdKept(call.entry, call.type)'
    <3> DEFINE old == call.entry
    <3>4. e = old \/ e = Set(old, key, value)
      BY <1>1, DefineReturns
    <3>5. /\ \A k \in DOMAIN old : k \in DOMAIN e
          /\ \A k \in DOMAIN old : k # key => e[k] = old[k]
      BY <3>4 DEF Set
    <3>6. PlanOf(call.entry)' = PlanOf(call.entry)
      BY <1>3, <1>4 DEF PlanOf
    <3>7. IdKept(old, call.type)
      BY <1>2 DEF Running
    <3> HIDE DEF old
    <3>1. CASE call.type # "binding"
      BY <1>3, <3>1 DEF IdKept
    <3>2. CASE call.type = "binding" /\ key = "binding-id"
      <4>1. PICK list : list = ListOf(call)
        OBVIOUS
      <4>2. call.items = list.registry /\ list # None /\ call.done \in Nat
        BY <1>2, <4>1 DEF Running, IsList
      <4>3. PICK S : S = Range(call.items)
        OBVIOUS
      <4>4. call.items \in Seq(S)
        BY <1>6, <4>3 DEF IsSequence
      <4>5. call.done + 1 \in DOMAIN list.registry
        BY <4>2, <4>4
      <4>6. list.registry[call.done + 1][1] = "binding-id"
        BY <3>2, <4>2
      <4>7. DefinedFor(call.entry, call.type, "binding-id")'
        BY <1>3, <3>6, <4>1, <4>2, <4>5, <4>6 DEF DefinedFor, ListOf
      <4>8. "binding-id" \in DOMAIN e
        BY <3>2, <3>5, <3>7 DEF IdKept
      <4> QED
        BY <1>3, <4>7, <4>8 DEF IdKept
    <3>3. CASE call.type = "binding" /\ key # "binding-id"
      <4>1. "binding-id" \in DOMAIN e /\ e["binding-id"] = old["binding-id"]
        BY <3>3, <3>5, <3>7 DEF IdKept
      <4>2. DefinedFor(old, call.type, "binding-id")
              => DefinedFor(call.entry, call.type, "binding-id")'
        BY <1>3, <3>6 DEF DefinedFor, old
      <4> QED
        BY <1>3, <3>3, <3>7, <4>1, <4>2 DEF IdKept
    <3> QED
      BY <3>1, <3>2, <3>3
  <2> QED
    BY <1>2, <1>3, <1>5, <1>7, <1>8, <2>1 DEF Running
<1>10. Accepted'
  BY DEF IInv, Accepted, Ended
<1>11. Kept'
  BY DEF IInv, Kept, OfInstance, IdKept, DefinedFor
<1>12. ReadyMeansComplete'
  BY DEF IInv, ReadyMeansComplete, Ended, ListOf
<1> QED
  BY <1>9, <1>10, <1>11, <1>12 DEF IInv

(* The registry part of Prepare. *)
LEMMA RegistryStep == ASSUME IInv, RenderRegistry PROVE IInv'
<1>1. PICK o : 
        \/ Stop(o)
        \/ Succeeded(o) /\ Stop(Define(call.entry, call.items[call.done + 1][1], o.ok))
        \/ /\ Succeeded(Define(call.entry, call.items[call.done + 1][1], o.ok))
           /\ call' = [call EXCEPT
                        !.entry = Define(call.entry, call.items[call.done + 1][1],
                                         o.ok).ok,
                        !.done = @ + 1]
           /\ verdict' = verdict /\ outcome' = outcome
  BY RegistryCases
<1>2. call # None /\ call.done < Len(call.items) /\ cfg' = cfg /\ stored' = stored
  BY RegistryCases
<1>3. ASSUME NEW x, Stop(x) PROVE IInv'
  <2>1. verdict' \in {verdict, "none"} /\ (Ends("overflow") \/ Ends("error"))
    BY <1>3, StopEnds
  <2> QED
    BY <1>2, <2>1, EndStep
<1>4. PICK key, value : key = call.items[call.done + 1][1] /\ value = o.ok
  OBVIOUS
<1>5. ASSUME /\ Succeeded(Define(call.entry, key, value))
             /\ call' = [call EXCEPT !.entry = Define(call.entry, key, value).ok,
                                     !.done = @ + 1]
             /\ verdict' = verdict /\ outcome' = outcome
      PROVE  IInv'
  BY <1>2, <1>4, <1>5, DefinedStep
<1> QED
  BY <1>1, <1>3, <1>4, <1>5

(* One template: it does not exist, rendering fails, or it is added. *)
LEMMA TemplateCases ==
    ASSUME RenderNext
    PROVE  /\ call # None /\ Len(call.rendered) < Len(call.templates)
           /\ cfg' = cfg /\ stored' = stored
           /\ \/ /\ call.templates[Len(call.rendered) + 1] \notin DOMAIN cfg.templates
                 /\ Ends("missing") /\ verdict' = verdict
              \/ \E o : Stop(o)
              \/ \E x : /\ call' = [call EXCEPT !.rendered = Append(@, x)]
                        /\ verdict' = verdict /\ outcome' = outcome
BY DEF RenderNext

(* The templates of a list without steps were looked at by validate. *)
LEMMA TemplateStep == ASSUME IInv, RenderNext PROVE IInv'
<1>1. Running
  BY DEF IInv
<1>2. call # None /\ cfg' = cfg /\ stored' = stored
  BY TemplateCases
<1>3. PICK n \in Nat : n = Len(call.rendered)
  BY <1>1, <1>2 DEF Running
<1>4. CASE call.templates[n + 1] \notin DOMAIN cfg.templates
           /\ Ends("missing") /\ verdict' = verdict
  <2>1. IsList(ListOf(call)) /\ ListOf(call).steps # None
    <3>1. IsList(ListOf(call))
      BY <1>1, <1>2 DEF Running
    <3>2. ASSUME ListOf(call).steps = None PROVE FALSE
      <4>1. /\ call.templates = ListOf(call).templates
            /\ Range(call.templates) \subseteq DOMAIN cfg.templates
        BY <1>1, <1>2, <3>2 DEF Running
      <4>2. PICK S : S = Range(call.templates)
        OBVIOUS
      <4>3. call.templates \in Seq(S)
        BY <3>1, <4>1, <4>2 DEF IsList, IsSequence
      <4>4. n + 1 \in DOMAIN call.templates
        BY <1>3, <4>3, TemplateCases
      <4>5. call.templates[n + 1] \in DOMAIN cfg.templates
        BY <4>1, <4>4 DEF Range
      <4> QED
        BY <1>4, <4>5
    <3> QED
      BY <3>1, <3>2
  <2>2. outcome'.entry = call.entry /\ outcome'.type = call.type
    BY <1>4 DEF Ends
  <2>3. ListOf(outcome)' = ListOf(call)
    BY <1>2, <2>2 DEF ListOf
  <2>4. ReadyMeansComplete'
    BY <2>1, <2>3 DEF ReadyMeansComplete, IsList
  <2>5. Accepted' /\ Kept' /\ Running'
    BY <1>2, <1>4 DEF IInv, Accepted, Kept, OfInstance, IdKept, DefinedFor,
                      Running, Ends
  <2> QED
    BY <2>4, <2>5 DEF IInv
<1>5. ASSUME NEW o, Stop(o) PROVE IInv'
  <2>1. verdict' \in {verdict, "none"} /\ (Ends("overflow") \/ Ends("error"))
    BY <1>5, StopEnds
  <2> QED
    BY <1>2, <2>1, EndStep
<1>6. ASSUME NEW x, call' = [call EXCEPT !.rendered = Append(@, x)],
             verdict' = verdict, outcome' = outcome
      PROVE  IInv'
  <2>1. PICK s : s = call.rendered
    OBVIOUS
  <2>2. /\ DOMAIN call' = DOMAIN call
        /\ call'.type = call.type /\ call'.entry = call.entry
        /\ call'.items = call.items /\ call'.done = call.done
        /\ call'.templates = call.templates /\ call'.rendered = Append(s, x)
    BY <1>1, <1>2, <1>6, <2>1 DEF Running
  <2>3. Len(Append(s, x)) \in Nat /\ IsSequence(Append(s, x))
    <3>1. PICK S : S = Range(s)
      OBVIOUS
    <3>2. s \in Seq(S)
      BY <1>1, <1>2, <2>1, <3>1 DEF Running, IsSequence
    <3>3. PICK t : t = Append(s, x)
      OBVIOUS
    <3>4. /\ Len(t) = Len(s) + 1 /\ Len(s) \in Nat /\ DOMAIN t = 1 .. Len(t)
          /\ t \in Seq(S \cup {x})
      BY <3>2, <3>3
    <3>5. PICK T : T = Range(t)
      OBVIOUS
    <3>6. \A i \in 1 .. Len(t) : t[i] \in T
      BY <3>4, <3>5 DEF Range
    <3>7. t \in Seq(T)
      BY <3>4, <3>6
    <3> QED
      BY <3>3, <3>4, <3>5, <3>7 DEF IsSequence
  <2>4. ListOf(call)' = ListOf(call)
    BY <1>2, <2>2 DEF ListOf
  <2>5. OfInstance(call.entry)' /\ IdKept(call.entry, call.type)'
    BY <1>1, <1>2, <2>2 DEF OfInstance, IdKept, DefinedFor, Running
  <2>6. Running'
    BY <1>1, <1>2, <2>2, <2>3, <2>4, <2>5 DEF Running
  <2>7. Accepted' /\ Kept'
    BY <1>2, <1>6 DEF IInv, Accepted, Kept, OfInstance, IdKept, DefinedFor, Ended
  <2>8. ReadyMeansComplete'
    BY <1>2, <1>6 DEF IInv, ReadyMeansComplete, Ended, ListOf
  <2> QED
    BY <2>6, <2>7, <2>8 DEF IInv
<1> QED
  BY <1>3, <1>4, <1>5, <1>6, TemplateCases

(* The entry that is stored in the end has the keys of the one it replaces.*)
LEMMA FinishStep == ASSUME IInv, Finish PROVE IInv'
<1>1. /\ call # None /\ cfg' = cfg /\ verdict' = verdict /\ Ends("ok")
      /\ stored' = [stored EXCEPT ![call.type] = call.entry]
  BY DEF Finish
<1>2. Running /\ Kept
  BY DEF IInv
<1>3. PICK type \in Types : type = call.type
  BY <1>1, <1>2 DEF Running
<1>4. /\ EntryOk(call.entry) /\ stored["instance"] # NoEntry
      /\ call.entry["plan-id"] = stored["instance"]["plan-id"]
  BY <1>1, <1>2 DEF Running, OfInstance
<1>5. call.entry # NoEntry
  BY <1>4, EntryExists
<1>6. /\ DOMAIN stored' = Types /\ stored'[type] = call.entry
      /\ \A t \in Types \ {type} : stored'[t] = stored[t]
  BY <1>1, <1>2, <1>3 DEF Kept
<1>7. /\ stored'["instance"] # NoEntry
      /\ stored'["instance"]["plan-id"] = stored["instance"]["plan-id"]
  BY <1>3, <1>4, <1>5, <1>6 DEF Types
<1>8. ASSUME NEW t \in Types, stored'[t] # NoEntry
      PROVE  OfInstance(stored[t])' /\ IdKept(stored[t], t)'
  <2>1. CASE t = type
    <3>1. OfInstance(stored[t])'
      BY <1>4, <1>6, <1>7, <2>1 DEF OfInstance
    <3>2. IdKept(stored[t], t)'
      BY <1>1, <1>2, <1>3, <1>6, <2>1 DEF Running, IdKept, DefinedFor
    <3> QED
      BY <3>1, <3>2
  <2>2. CASE t # type
    <3>1. stored'[t] = stored[t] /\ OfInstance(stored[t]) /\ IdKept(stored[t], t)
      BY <1>2, <1>6, <1>8, <2>2 DEF Kept
    <3> QED
      BY <1>1, <1>7, <3>1 DEF OfInstance, IdKept, DefinedFor
  <2> QED
    BY <2>1, <2>2
<1>9. Kept'
  BY <1>6, <1>8 DEF Kept
<1>10. Accepted' /\ Running'
  BY <1>1 DEF IInv, Accepted, Running, Ends
<1>11. ReadyMeansComplete'
  BY <1>1 DEF Ends, ReadyMeansComplete
<1> QED
  BY <1>9, <1>10, <1>11 DEF IInv

(* A request stores an entry with the broker's keys, and finds its list    *)
(* unless it is a bind by another plan.                                    *)
LEMMA BeginStep ==
    ASSUME IInv, NEW type \in Types, NEW plan \in Plans, NEW params \in Params,
           Begin(type, plan, params)
    PROVE  IInv'
<1>1. PICK entry : entry = IF type = "instance" THEN NewEntry(plan, params)
                           ELSE Inherit(stored["instance"], params)
  OBVIOUS
<1>2. PICK list : list = GetTemplateBinding(cfg, PlanOf(entry), type)
  OBVIOUS
<1>3. /\ verdict = "ok" /\ call = None /\ stored[type] = NoEntry
      /\ type = "binding" => IsBindable(cfg, plan) /\ stored["instance"] # NoEntry
      /\ stored' = [stored EXCEPT ![type] = entry]
      /\ cfg' = cfg /\ verdict' = verdict
  BY <1>1 DEF Begin
<1>4. list = None => /\ outcome' = [type |-> type, plan |-> plan,
                                    result |-> "missing", entry |-> entry,
                                    done |-> 0, rendered |-> << >>]
                     /\ call' = None
  BY <1>1, <1>2 DEF Begin
<1>5. list # None => /\ call' = [type |-> type, plan |-> plan, entry |-> entry,
                                 items |-> list.registry, done |-> 0,
                                 templates |-> TemplatesOf(list),
                                 rendered |-> << >>]
                     /\ outcome' = None
  BY <1>1, <1>2 DEF Begin
<1>6. cfg \in Configs /\ Valid(cfg) /\ Kept
  BY <1>3 DEF IInv, Accepted
<1>7. EntryOk(entry)
      /\ (type = "binding" => entry["plan-id"] = stored["instance"]["plan-id"])
      /\ IdKept(entry, type)
  <2>1. CASE type = "instance"
    BY <1>1, <2>1, NewEntryOk DEF IdKept
  <2>2. CASE type = "binding"
    <3>1. EntryOk(stored["instance"])
      BY <1>3, <1>6, <2>2 DEF Kept, OfInstance, Types
    <3> QED
      BY <1>1, <2>2, <3>1, InheritOk
  <2> QED
    BY <2>1, <2>2 DEF Types
<1>8. /\ DOMAIN stored' = Types /\ stored'[type] = entry
      /\ \A t \in Types \ {type} : stored'[t] = stored[t]
  BY <1>3, <1>6 DEF Kept
<1>9. /\ stored'["instance"] # NoEntry
      /\ entry["plan-id"] = stored'["instance"]["plan-id"]
      /\ \A t \in Types : stored[t] # NoEntry =>
            stored["instance"]["plan-id"] = stored'["instance"]["plan-id"]
  <2>1. CASE type = "instance"
    <3>1. \A t \in Types : stored[t] = NoEntry
      BY <1>3, <1>6, <2>1 DEF Kept, OfInstance
    <3> QED
      BY <1>7, <1>8, <2>1, <3>1, EntryExists
  <2>2. CASE type = "binding"
    BY <1>3, <1>7, <1>8, <2>2 DEF Types
  <2> QED
    BY <2>1, <2>2 DEF Types
<1>10. Kept'
  <2>1. ASSUME NEW t \in Types, stored'[t] # NoEntry
        PROVE  OfInstance(stored[t])' /\ IdKept(stored[t], t)'
    <3>1. CASE t = type
      BY <1>3, <1>7, <1>8, <1>9, <3>1 DEF OfInstance, IdKept, DefinedFor
    <3>2. CASE t # type
      <4>1. /\ stored'[t] = stored[t] /\ stored[t] # NoEntry
            /\ OfInstance(stored[t]) /\ IdKept(stored[t], t)
        BY <1>6, <1>8, <2>1, <3>2 DEF Kept
      <4> QED
        BY <1>3, <1>9, <4>1 DEF OfInstance, IdKept, DefinedFor
    <3> QED
      BY <3>1, <3>2
  <2> QED
    BY <1>8, <2>1 DEF Kept
<1>11. Accepted'
  BY <1>3, <1>6 DEF Accepted
<1>12. Running'
  <2>1. CASE list = None
    BY <1>4, <2>1 DEF Running
  <2>2. CASE list # None
    <3>1. IsList(list)
      BY <1>2, <1>6, <2>2, ListFound
    <3>2. /\ DOMAIN call' = {"type", "plan", "entry", "items", "done",
                             "templates", "rendered"}
          /\ call'.type = type /\ call'.entry = entry
          /\ call'.items = list.registry /\ call'.done = 0
          /\ call'.templates = TemplatesOf(list) /\ call'.rendered = << >>
      BY <1>5, <2>2
    <3>3. ListOf(call)' = list
      BY <1>2, <1>3, <3>2 DEF ListOf
    <3>4. 0 \in 0 .. Len(list.registry)
      <4>1. PICK S : S = Range(list.registry)
        OBVIOUS
      <4>2. list.registry \in Seq(S)
        BY <3>1, <4>1 DEF IsList, IsSequence
      <4> QED
        BY <4>2
    <3>5. Len(<< >>) \in Nat /\ IsSequence(<< >>)
      BY DEF IsSequence
    <3>6. list.steps = None =>
             /\ TemplatesOf(list) = list.templates
             /\ Range(list.templates) \subseteq DOMAIN cfg.templates
      BY <1>2, <1>6, <2>2, ValidTemplates DEF TemplatesOf
    <3>7. OfInstance(call.entry)' /\ IdKept(call.entry, call.type)'
      BY <1>3, <1>7, <1>9, <3>2 DEF OfInstance, IdKept, DefinedFor
    <3> QED
      BY <1>3, <3>1, <3>2, <3>3, <3>4, <3>5, <3>6, <3>7 DEF Running
  <2> QED
    BY <2>1, <2>2
<1>13. ReadyMeansComplete'
  <2>1. CASE list # None
    BY <1>5, <2>1 DEF ReadyMeansComplete, Ended
  <2>2. CASE list = None
    <3>1. PICK p \in Plans : p = PlanOf(entry)
      BY <1>7, PlanOnRecord
    <3>2. plan # p
      BY <1>2, <1>3, <1>6, <2>2, <3>1, ValidList
    <3>3. outcome'.plan = plan /\ outcome'.entry = entry
      BY <1>4, <2>2
    <3> QED
      BY <3>1, <3>2, <3>3 DEF ReadyMeansComplete
  <2> QED
    BY <2>1, <2>2
<1> QED
  BY <1>10, <1>11, <1>12, <1>13 DEF IInv

(* IInv is inductive. *)
LEMMA IInvStep == ASSUME IInv, [Next]_vars PROVE IInv'
<1>1. CASE Validate
  BY <1>1, ValidateStep
<1>2. CASE \E type \in Types, plan \in Plans, params \in Params :
              Begin(type, plan, params)
  BY <1>2, BeginStep
<1>3. CASE RenderRegistry
  BY <1>3, RegistryStep
<1>4. CASE RenderNext
  BY <1>4, TemplateStep
<1>5. CASE Finish
  BY <1>5, FinishStep
<1>6. CASE UNCHANGED vars
  BY <1>6 DEF vars, IInv, Accepted, Kept, OfInstance, IdKept, DefinedFor,
              Running, ReadyMeansComplete, Ended, ListOf
<1> QED
  BY <1>1, <1>2, <1>3, <1>4, <1>5, <1>6 DEF Next

(* So it always holds. *)
LEMMA IInvHolds == Spec => []IInv
<1>1. Init => IInv
  BY IInvInit
<1>2. IInv /\ [Next]_vars => IInv'
  BY IInvStep
<1> QED
  BY <1>1, <1>2, PTL DEF Spec

(* A configuration that validate accepts has what creates and binds look   *)
(* for, whatever language the templates are in.                            *)
THEOREM ReadyMeansCompleteHolds == Spec => []ReadyMeansComplete
<1>1. IInv => ReadyMeansComplete
  BY DEF IInv
<1> QED
  BY <1>1, IInvHolds, PTL

(* Whatever the registry definitions of a configuration render to, they    *)
(* cannot change the keys that have a policy, of an instance or of what a  *)
(* binding inherits; the ID of a binding only its own list can change.     *)
THEOREM BrokerKeysKeptHolds == Spec => []BrokerKeysKept
<1>1. IInv => BrokerKeysKept
  <2> SUFFICES ASSUME IInv, NEW t \in Types, stored[t] # NoEntry
               PROVE  /\ \A k \in ReadOnlyKeys :
                           /\ stored[t][k] = stored["instance"][k]
                           /\ k # "plan-id" => stored[t][k] = Str(k)
                      /\ stored[t]["context"] = Context
                      /\ stored[t]["parameters"] \in Params
                      /\ t = "binding" =>
                           \/ stored[t]["binding-id"] = Str("binding-id")
                           \/ DefinedFor(stored[t], t, "binding-id")
    BY DEF BrokerKeysKept
  <2>1. /\ EntryOk(stored[t]) /\ EntryOk(stored["instance"])
        /\ stored[t]["plan-id"] = stored["instance"]["plan-id"]
        /\ IdKept(stored[t], t)
    BY DEF IInv, Kept, OfInstance, Types
  <2> QED
    BY <2>1 DEF EntryOk, ReadOnlyKeys, IdKept
<1> QED
  BY <1>1, IInvHolds, PTL

-----------------------------------------------------------------------------
(* Generators.                                                             *)

(* Argument does what Eval does of an argument that has no arguments       *)
(* itself: all that these proofs need of what the parameter stands for.    *)
(* It holds in every run, where a configuration file makes it Eval.        *)
AtomicArguments ==
    \A e, ctx : e.fn \in {"literal", "registry"} => Argument(e, ctx) = Eval(e, ctx)

(* A literal argument is the value it is written as. *)
LEMMA LiteralArgument ==
    ASSUME AtomicArguments, NEW e, NEW ctx, e.fn = "literal"
    PROVE  Argument(e, ctx) = {Ok(e.value)}
BY DEF AtomicArguments, Eval

(* With two characters to draw from, templateFunctionGeneratePassword      *)
(* stays within the dictionary.                                            *)
LEMMA PasswordDrawn ==
    ASSUME NEW length, Is("int", length), length.int \in Nat,
           NEW dictionary,
           \/ IsNil(dictionary)
           \/ /\ Is("chars", dictionary) /\ IsSequence(dictionary.chars)
              /\ Len(dictionary.chars) > 1,
           NEW o \in GeneratePassword(length, dictionary)
    PROVE  /\ Succeeded(o) /\ DOMAIN o.ok = {"chars"}
           /\ Len(o.ok.chars) = length.int
           /\ Range(o.ok.chars) \subseteq
                 Range(IF IsNil(dictionary) THEN Alphabet ELSE dictionary.chars)
<1>1. PICK d : d = IF IsNil(dictionary) THEN Alphabet ELSE dictionary.chars
  OBVIOUS
<1>2. PICK S : S = Range(d)
  OBVIOUS
<1>3. d \in Seq(S) /\ Len(d) > 1
  <2>1. CASE IsNil(dictionary)
    <3>1. d = <<"a", "Z", "9">>
      BY <1>1, <2>1 DEF Alphabet
    <3>2. d[1] \in S /\ d[2] \in S /\ d[3] \in S
      BY <1>2, <3>1 DEF Range
    <3> QED
      BY <3>1, <3>2
  <2>2. CASE ~IsNil(dictionary)
    BY <1>1, <1>2, <2>2 DEF IsSequence
  <2> QED
    BY <2>1, <2>2
<1>4. PICK m \in Nat : m = Len(d)
  BY <1>3
<1>5. DictionaryLength(d) = m - 1 /\ m - 1 > 0
  BY <1>3, <1>4 DEF DictionaryLength
<1>6. PICK n \in Nat : n = length.int
  OBVIOUS
<1>7. PICK index \in [1 .. n -> 0 .. m - 1 - 1] :
        o = IF \A i \in DOMAIN index : index[i] < m
            THEN Ok(Chars([i \in DOMAIN index |-> d[index[i] + 1]]))
            ELSE Fail("config")
  <2>1. /\ Is("int", length)
        /\ IsNil(dictionary) \/ Is("chars", dictionary)
        /\ ~(length.int > 0 /\ DictionaryLength(d) <= 0)
    BY <1>4, <1>5
  <2>2. GeneratePassword(length, dictionary) =
          {IF \A i \in DOMAIN index : index[i] < Len(d)
           THEN Ok(Chars([i \in DOMAIN index |-> d[index[i] + 1]]))
           ELSE Fail("config") :
              index \in [1 .. length.int -> 0 .. DictionaryLength(d) - 1]}
    BY <1>1, <2>1, Zenon DEF GeneratePassword
  <2>3. PICK index \in [1 .. length.int -> 0 .. DictionaryLength(d) - 1] :
          o = IF \A i \in DOMAIN index : index[i] < Len(d)
              THEN Ok(Chars([i \in DOMAIN index |-> d[index[i] + 1]]))
              ELSE Fail("config")
    BY <2>2, Zenon
  <2> QED
    BY <1>4, <1>5, <1>6, <2>3
<1>8. PICK s : s = [i \in 1 .. n |-> d[index[i] + 1]]
  OBVIOUS
<1>9. \A i \in 1 .. n : index[i] \in Nat /\ index[i] < m /\ index[i] + 1 \in 1 .. m
  BY <1>4, <1>5, <1>7
<1>10. \A i \in 1 .. n : s[i] \in S
  BY <1>3, <1>4, <1>8, <1>9
<1>11. s \in Seq(S) /\ Len(s) = n /\ DOMAIN s = 1 .. n
  BY <1>8, <1>10
<1>12. o = Ok(Chars(s))
  BY <1>7, <1>8, <1>9
<1>13. Range(s) \subseteq S
  BY <1>10, <1>11 DEF Range
<1>14. Succeeded(o) /\ o.ok = [chars |-> s]
  BY <1>12 DEF Ok, Succeeded, Chars
<1> QED
  BY <1>1, <1>2, <1>6, <1>11, <1>13, <1>14

(* What renderTemplateString makes of an expression. *)
LEMMA ExpressionRendered ==
    ASSUME NEW v, IsExpr(v), v.expr.fn # "unparsable",
           NEW ctx, NEW o \in RenderTemplateString(v, ctx)
    PROVE  \E x \in Eval(v.expr, ctx) : o = Wrapped(x)
BY DEF RenderTemplateString, IsExpr, Is

(* A string is a string in JSON, too. *)
LEMMA WrappedString ==
    ASSUME NEW x, Succeeded(x),
           DOMAIN x.ok = {"chars"} \/ DOMAIN x.ok = {"pem"}
    PROVE  Succeeded(Wrapped(x)) /\ Wrapped(x).ok = x.ok /\ ~IsNil(x.ok)
<1>1. ~Is("int", x.ok) /\ ~Is("arr", x.ok) /\ ~IsNil(x.ok)
  BY DEF Is, IsNil
<1>2. Jsonify(x.ok) = x.ok
  BY <1>1 DEF Jsonify
<1> QED
  BY <1>1, <1>2 DEF Wrapped, Ok, Succeeded

(* A password is generated, as it was asked for. *)
LEMMA PasswordRendered ==
    ASSUME AtomicArguments, NEW v, IsExpr(v), ProperPassword(v.expr), NEW ctx,
           NEW o \in RenderTemplateString(v, ctx)
    PROVE  Succeeded(o) /\ ~IsNil(o.ok) /\ Generated(v.expr, o.ok)
<1>1. PICK e : e = v.expr
  OBVIOUS
<1>2. ProperPassword(e) /\ e.fn = "generatePassword"
  BY <1>1 DEF ProperPassword
<1>3. PICK x \in Eval(e, ctx) : o = Wrapped(x)
  BY <1>1, <1>2, ExpressionRendered
<1>4. x \in GeneratedPassword(e, ctx)
  BY <1>2, <1>3 DEF Eval
<1>5. Argument(e.dictionary, ctx) = {Ok(e.dictionary.value)}
  BY <1>2, LiteralArgument DEF ProperPassword
<1>6. x \in GeneratePassword(e.length, e.dictionary.value)
  BY <1>4, <1>5 DEF GeneratedPassword, Then, Succeeded, Ok
<1>7. PICK length, dictionary : length = e.length /\ dictionary = e.dictionary.value
  OBVIOUS
<1>8. /\ Succeeded(x) /\ DOMAIN x.ok = {"chars"}
      /\ Len(x.ok.chars) = length.int
      /\ Range(x.ok.chars) \subseteq
            Range(IF IsNil(dictionary) THEN Alphabet ELSE dictionary.chars)
  BY <1>2, <1>6, <1>7, PasswordDrawn DEF ProperPassword
<1>9. Generated(e, x.ok)
  BY <1>2, <1>7, <1>8 DEF Generated, Is
<1> QED
  BY <1>1, <1>3, <1>8, <1>9, WrappedString

(* The encodings have different names. *)
LEMMA EncodingsDiffer ==
    /\ KeyEncodingPKCS1 # KeyEncodingPKCS8
    /\ KeyEncodingPKCS1 # KeyEncodingSEC1
    /\ KeyEncodingPKCS8 # KeyEncodingSEC1
BY DEF KeyEncodingPKCS1, KeyEncodingPKCS8, KeyEncodingSEC1

(* A key is generated, and DecodePrivateKey reads it back. *)
LEMMA KeyRendered ==
    ASSUME AtomicArguments, NEW v, IsExpr(v), ProperKey(v.expr), NEW ctx,
           NEW o \in RenderTemplateString(v, ctx)
    PROVE  Succeeded(o) /\ ~IsNil(o.ok) /\ Generated(v.expr, o.ok)
<1>1. PICK e : e = v.expr
  OBVIOUS
<1>2. ProperKey(e) /\ e.fn = "generatePrivateKey"
  BY <1>1 DEF ProperKey
<1>3. PICK x \in Eval(e, ctx) : o = Wrapped(x)
  BY <1>1, <1>2, ExpressionRendered
<1>4. x \in GeneratedKey(e, ctx)
  BY <1>2, <1>3 DEF Eval
<1>5. Argument(e.bits, ctx) = {Ok(e.bits.value)}
  BY <1>2, LiteralArgument DEF ProperKey
<1>6. x = GeneratePrivateKey(e.type, e.encoding, e.bits.value, ctx.site)
  BY <1>4, <1>5 DEF GeneratedKey, Then, Succeeded, Ok
<1>7. PICK bits : bits = IF IsNil(e.bits.value) THEN 0 ELSE e.bits.value.int
  OBVIOUS
<1>8. PICK type, encoding, id : type = e.type /\ encoding = e.encoding /\ id = ctx.site
  OBVIOUS
<1>9. PICK key : key = GenerateKey(type, encoding, bits, id)
  OBVIOUS
<1>10. PICK label : label = Label[encoding]
  OBVIOUS
<1>11. /\ type \in KeyTypes /\ ~(type = "RSA" /\ bits < RSAMinimum)
       /\ encoding \in DOMAIN Label
       /\ type \in Holds(label)
  <2>1. type \in KeyTypes /\ ~(type = "RSA" /\ bits < RSAMinimum)
    BY <1>2, <1>7, <1>8, SizeAssumption DEF ProperKey
  <2>2. CASE encoding = KeyEncodingPKCS8
    BY <1>10, <2>1, <2>2, EncodingsDiffer DEF Label, Holds
  <2>3. CASE encoding = KeyEncodingPKCS1 /\ type = "RSA"
    BY <1>10, <2>1, <2>3, EncodingsDiffer DEF Label, Holds
  <2>4. CASE encoding = KeyEncodingSEC1 /\ type \in Elliptic
    BY <1>10, <2>1, <2>4, EncodingsDiffer DEF Label, Holds
  <2> QED
    BY <1>2, <1>8, <2>2, <2>3, <2>4 DEF ProperKey
<1>12. key = Ok(KeyDocument(label, type, bits, id))
  BY <1>9, <1>10, <1>11 DEF GenerateKey
<1>13. /\ Succeeded(key) /\ key.ok.extra = FALSE
       /\ key.ok.type = type /\ key.ok.label = label
  BY <1>12 DEF Ok, Succeeded, KeyDocument
<1>14. Succeeded(DecodePrivateKey(key.ok))
  BY <1>11, <1>13 DEF DecodePrivateKey, Ok, Succeeded
<1>15. x = Ok(Pem(key.ok))
  BY <1>2, <1>6, <1>7, <1>8, <1>9, <1>13 DEF GeneratePrivateKey, ProperKey
<1>16. Succeeded(x) /\ DOMAIN x.ok = {"pem"} /\ x.ok.pem = key.ok
  BY <1>15 DEF Ok, Succeeded, Pem
<1>17. Generated(e, x.ok)
  BY <1>2, <1>8, <1>13, <1>14, <1>16 DEF Generated, Is
<1> QED
  BY <1>1, <1>3, <1>16, <1>17, WrappedString

(* A generator with proper arguments generates. *)
LEMMA GeneratorRendered ==
    ASSUME AtomicArguments, NEW v, ProperGenerator(v), NEW ctx,
           NEW o \in RenderTemplateString(v, ctx)
    PROVE  Succeeded(o) /\ ~IsNil(o.ok) /\ Generated(v.expr, o.ok)
BY PasswordRendered, KeyRendered DEF ProperGenerator

-----------------------------------------------------------------------------
(* Certificates.                                                           *)

(* Whatever keys and certificates are given: a certificate of the key,     *)
(* signed by itself or by the owner of the certificate given for the CA.   *)
LEMMA SignReturns ==
    ASSUME NEW key, NEW usage, NEW caKey, NEW caCert, NEW c,
           Sign(key, usage, caKey, caCert) = Ok(c)
    PROVE  /\ c.label = "CERTIFICATE" /\ c.id = key.id /\ c.isCA = IsCA(usage)
           /\ caKey = << >> => SelfSigned(c)
           /\ caKey # << >> => /\ caCert # << >> /\ caCert[1].label = "CERTIFICATE"
                               /\ IssuedBy(c, caCert[1])
<1>1. \A x, y : Ok(x) = Ok(y) => x = y
  <2> SUFFICES ASSUME NEW x, NEW y, Ok(x) = Ok(y) PROVE x = y
    OBVIOUS
  <2>1. Ok(x).ok = Ok(y).ok
    OBVIOUS
  <2> QED
    BY <2>1 DEF Ok
<1>2. \A x, why : Ok(x) # Fail(why)
  BY DEF Ok, Fail
<1>3. CASE caKey = << >>
  <2>1. c = Certificate(key, usage, key.id, key.id)
    BY <1>1, <1>3 DEF Sign
  <2> QED
    BY <1>3, <2>1 DEF Certificate, SelfSigned
<1>4. CASE caKey # << >>
  <2>1. PICK k : k = DecodePrivateKey(caKey[1])
    OBVIOUS
  <2>2. PICK d : d = DecodeCertificate(caCert[1])
    OBVIOUS
  <2>3. /\ caCert # << >> /\ Succeeded(d) /\ d.ok.id = k.ok.id
        /\ c = Certificate(key, usage, k.ok.id, d.ok.id)
    BY <1>1, <1>2, <1>4, <2>1, <2>2 DEF Sign
  <2>4. d.ok = caCert[1] /\ caCert[1].label = "CERTIFICATE"
    BY <2>2, <2>3 DEF DecodeCertificate, Succeeded, Ok, Fail
  <2> QED
    BY <1>4, <2>3, <2>4 DEF Certificate, IssuedBy
<1> QED
  BY <1>3, <1>4

(* So with generateCertificate, of the values of its arguments. *)
CertifiedBy(c, usage, key, caKey, caCert) ==
    /\ c.isCA = IsCA(usage)
    /\ Is("pem", key) /\ c.id = key.pem.id
    /\ IF IsNil(caKey) THEN SelfSigned(c)
       ELSE HasCertificate(caCert) /\ IssuedBy(c, caCert.pem)

(* What generateCertificate returns, if it does not fail. *)
LEMMA CertificateReturns ==
    ASSUME NEW key, NEW usage, NEW sans, NEW caKey, NEW caCert, NEW x, Succeeded(x),
           x = GenerateCertificateOf(key, usage, sans, caKey, caCert)
    PROVE  /\ DOMAIN x.ok = {"pem"} /\ x.ok.pem.label = "CERTIFICATE"
           /\ CertifiedBy(x.ok.pem, usage, key, caKey, caCert)
<1>1. PICK ck, cc : ck = Optional(caKey) /\ cc = Optional(caCert)
  OBVIOUS
<1>2. PICK cert : cert = GenerateCertificate(Document(key), usage, sans, ck, cc)
  OBVIOUS
<1>3. Succeeded(cert) /\ x = Ok(Pem(cert.ok))
  BY <1>1, <1>2 DEF GenerateCertificateOf, Succeeded, Fail
<1>4. PICK k : k = DecodePrivateKey(Document(key))
  OBVIOUS
<1>5. Succeeded(k) /\ cert = Sign(k.ok, usage, ck, cc)
  BY <1>2, <1>3, <1>4 DEF GenerateCertificate, Succeeded, Fail
<1>6. PICK c : c = cert.ok
  OBVIOUS
<1>7. cert = Ok(c)
  <2>1. \A why : ~Succeeded(Fail(why))
    BY DEF Succeeded, Fail
  <2>2. \E y : Sign(k.ok, usage, ck, cc) = Ok(y)
    BY <1>3, <1>5, <2>1 DEF Sign
  <2> QED
    BY <1>5, <1>6, <2>2 DEF Ok
<1>8. PICK kk : kk = k.ok
  OBVIOUS
<1>9. Sign(kk, usage, ck, cc) = Ok(c)
  BY <1>5, <1>7, <1>8
<1>10. /\ c.label = "CERTIFICATE" /\ c.id = kk.id /\ c.isCA = IsCA(usage)
       /\ ck = << >> => SelfSigned(c)
       /\ ck # << >> => /\ cc # << >> /\ cc[1].label = "CERTIFICATE"
                        /\ IssuedBy(c, cc[1])
  BY ONLY <1>9, SignReturns
<1>11. DOMAIN x.ok = {"pem"} /\ x.ok.pem = c
  BY <1>3, <1>6 DEF Ok, Pem
<1>12. Is("pem", key) /\ kk.id = key.pem.id
  <2>1. PICK d : d = Document(key)
    OBVIOUS
  <2>2. d.type \in Holds(d.label) /\ kk.id = d.id
    BY <1>4, <1>5, <1>8, <2>1 DEF DecodePrivateKey, Succeeded, Fail, Ok
  <2>3. ~Is("pem", key) => d.label = "none"
    BY <2>1 DEF Document, NotPem
  <2>4. d.label # "none"
    BY <2>2 DEF Holds
  <2> QED
    BY <2>1, <2>2, <2>3, <2>4 DEF Document
<1>13. cc # << >> /\ cc[1].label = "CERTIFICATE" =>
          HasCertificate(caCert) /\ cc[1] = caCert.pem
  BY <1>1 DEF Optional, Document, NotPem, HasCertificate
<1>14. (ck = << >>) <=> IsNil(caKey)
  BY <1>1 DEF Optional
<1> QED
  BY <1>10, <1>11, <1>12, <1>13, <1>14 DEF CertifiedBy

(* What is known of it by the entry, of arguments that have no arguments.  *)
Atomic(arg) == arg.fn \in {"literal", "registry"}

Certified(c, e, entry) ==
    /\ c.isCA = IsCA(e.usage)
    /\ Atomic(e.key) => c.id = Given(entry, e.key).pem.id
    /\ Atomic(e.caKey) /\ Atomic(e.caCert) =>
          IF IsNil(Given(entry, e.caKey)) THEN SelfSigned(c)
          ELSE /\ HasCertificate(Given(entry, e.caCert))
               /\ IssuedBy(c, Given(entry, e.caCert).pem)

(* What an argument that has no arguments evaluates to. *)
LEMMA ArgumentGiven ==
    ASSUME AtomicArguments, NEW arg, NEW ctx, arg.fn \in {"literal", "registry"},
           NEW o \in Argument(arg, ctx), Succeeded(o)
    PROVE  o.ok = Given(ctx.entry, arg)
<1>1. Argument(arg, ctx) = Eval(arg, ctx)
  BY DEF AtomicArguments
<1>2. CASE arg.fn = "literal"
  BY <1>1, <1>2 DEF Eval, Given, Ok
<1>3. CASE arg.fn = "registry"
  <2>1. o = GetUser(ctx.entry, arg.key)
    BY <1>1, <1>3 DEF Eval
  <2> QED
    BY <1>3, <2>1 DEF GetUser, Given, Succeeded, Fail, Ok
<1> QED
  BY <1>2, <1>3

(* A certificate that a dynamic attribute generates is that of the key and *)
(* of the CA it was given, as far as these come from the registry.         *)
LEMMA CertificateRendered ==
    ASSUME AtomicArguments, NEW v, IsCertificate(v), NEW ctx,
           NEW o \in RenderTemplateString(v, ctx), Succeeded(o)
    PROVE  /\ DOMAIN o.ok = {"pem"} /\ ~IsNil(o.ok) /\ o.ok.pem.label = "CERTIFICATE"
           /\ Certified(o.ok.pem, v.expr, ctx.entry)
<1>1. PICK e : e = v.expr
  OBVIOUS
<1>2. e.fn = "generateCertificate"
  BY <1>1 DEF IsCertificate
<1>3. PICK x \in Eval(e, ctx) : o = Wrapped(x)
  BY <1>1, <1>2, ExpressionRendered DEF IsCertificate
<1>4. Succeeded(x)
  BY <1>3 DEF Wrapped, Overflow, Succeeded, Fail
<1>5. x \in GeneratedCertificate(e, ctx)
  BY <1>2, <1>3 DEF Eval
<1>6. PICK key \in Argument(e.key, ctx) :
        /\ Succeeded(key)
        /\ x \in Then(Argument(e.caKey, ctx), LAMBDA caKey :
                   Then(Argument(e.caCert, ctx), LAMBDA caCert :
                     {GenerateCertificateOf(key.ok, e.usage, e.sans, caKey, caCert)}))
  BY <1>4, <1>5 DEF GeneratedCertificate, Then
<1>7. PICK caKey \in Argument(e.caKey, ctx) :
        /\ Succeeded(caKey)
        /\ x \in Then(Argument(e.caCert, ctx), LAMBDA caCert :
                   {GenerateCertificateOf(key.ok, e.usage, e.sans, caKey.ok, caCert)})
  BY <1>4, <1>6 DEF Then
<1>8. PICK caCert \in Argument(e.caCert, ctx) :
        /\ Succeeded(caCert)
        /\ x = GenerateCertificateOf(key.ok, e.usage, e.sans, caKey.ok, caCert.ok)
  BY <1>4, <1>7 DEF Then
<1>9. PICK k, ck, cc, usage, sans :
        /\ k = key.ok /\ ck = caKey.ok /\ cc = caCert.ok
        /\ usage = e.usage /\ sans = e.sans
  OBVIOUS
<1>10. x = GenerateCertificateOf(k, usage, sans, ck, cc)
  BY <1>8, <1>9
<1>11. /\ DOMAIN x.ok = {"pem"} /\ x.ok.pem.label = "CERTIFICATE"
       /\ CertifiedBy(x.ok.pem, usage, k, ck, cc)
  BY ONLY <1>4, <1>10, CertificateReturns
<1>12. /\ Atomic(e.key) => k = Given(ctx.entry, e.key)
       /\ Atomic(e.caKey) => ck = Given(ctx.entry, e.caKey)
       /\ Atomic(e.caCert) => cc = Given(ctx.entry, e.caCert)
  <2>1. ASSUME NEW arg, Atomic(arg), NEW y \in Argument(arg, ctx), Succeeded(y)
        PROVE  y.ok = Given(ctx.entry, arg)
    BY <2>1, ArgumentGiven DEF Atomic
  <2>2. Atomic(e.key) => key.ok = Given(ctx.entry, e.key)
    BY <1>6, <2>1
  <2>3. Atomic(e.caKey) => caKey.ok = Given(ctx.entry, e.caKey)
    BY <1>7, <2>1
  <2>4. Atomic(e.caCert) => caCert.ok = Given(ctx.entry, e.caCert)
    BY <1>8, <2>1
  <2> QED
    BY <1>9, <2>2, <2>3, <2>4
<1>13. Certified(x.ok.pem, e, ctx.entry)
  BY <1>9, <1>11, <1>12 DEF Certified, CertifiedBy
<1>14. Wrapped(x).ok = x.ok /\ ~IsNil(x.ok)
  BY <1>4, <1>11, WrappedString
<1> QED
  BY <1>1, <1>3, <1>11, <1>13, <1>14

-----------------------------------------------------------------------------
(* The registry definitions, one after the other.                          *)

(* What one definition is known to have given. *)
Defined(item, value, entry) ==
    /\ ProperGenerator(item[2]) => ~IsNil(value) /\ Generated(item[2].expr, value)
    /\ IsCertificate(item[2]) =>
          /\ DOMAIN value = {"pem"} /\ ~IsNil(value) /\ value.pem.label = "CERTIFICATE"
          /\ Certified(value.pem, item[2].expr, entry)

(* The definitions that last are the new one and those of before that it   *)
(* leaves alone.                                                           *)
LEMMA LastingMore ==
    ASSUME NEW items, NEW n \in Nat, NEW i \in Lasting(items, n + 1)
    PROVE  \/ i = n + 1
           \/ /\ i \in Lasting(items, n) /\ i \in 1 .. n
              /\ items[n + 1][1] # items[i][1]
<1>1. i \in 1 .. n + 1 /\ \A j \in i + 1 .. n + 1 : items[j][1] # items[i][1]
  BY DEF Lasting
<1>2. CASE i # n + 1
  <2>1. i \in 1 .. n /\ n + 1 \in i + 1 .. n + 1
    BY <1>1, <1>2
  <2>2. \A j \in i + 1 .. n : j \in i + 1 .. n + 1
    BY <2>1
  <2> QED
    BY <1>1, <2>1, <2>2 DEF Lasting
<1> QED
  BY <1>2

(* A definition adds what it generates and keeps what others did. *)
LEMMA GeneratedMore ==
    ASSUME NEW items, NEW n \in Nat, NEW entry, GeneratedSoFar(items, n, entry),
           NEW value, Defined(items[n + 1], value, entry),
           Succeeded(Define(entry, items[n + 1][1], value))
    PROVE  GeneratedSoFar(items, n + 1, Define(entry, items[n + 1][1], value).ok)
<1>1. PICK key, e : key = items[n + 1][1] /\ e = Define(entry, key, value).ok
  OBVIOUS
<1>2. \/ IsNil(value) /\ e = entry
      \/ ~IsNil(value) /\ e = Set(entry, key, value)
  BY <1>1, DefineReturns
<1>3. /\ ~IsNil(value) => key \in DOMAIN e /\ e[key] = value
      /\ \A k \in DOMAIN entry : k # key => k \in DOMAIN e /\ e[k] = entry[k]
  BY <1>2 DEF Set
<1>4. ASSUME NEW i \in Lasting(items, n + 1), ProperGenerator(items[i][2])
      PROVE  items[i][1] \in DOMAIN e /\ Generated(items[i][2].expr, e[items[i][1]])
  <2>1. CASE i = n + 1
    BY <1>1, <1>3, <1>4, <2>1 DEF Defined
  <2>2. CASE i \in Lasting(items, n) /\ key # items[i][1]
    <3>1. items[i][1] \in DOMAIN entry /\ Generated(items[i][2].expr, entry[items[i][1]])
      BY <1>4, <2>2 DEF GeneratedSoFar
    <3>2. items[i][1] \in DOMAIN e /\ e[items[i][1]] = entry[items[i][1]]
      BY <1>3, <2>2, <3>1
    <3> QED
      BY <3>1, <3>2
  <2> QED
    BY <1>1, <2>1, <2>2, LastingMore
<1>5. GeneratedSoFar(items, n + 1, e)
  BY <1>4 DEF GeneratedSoFar
<1> QED
  BY <1>1, <1>5

(* Entry e differs from entry in key alone. *)
Keeps(entry, e, key) ==
    /\ DOMAIN e \subseteq DOMAIN entry \cup {key}
    /\ \A k \in DOMAIN entry : k # key => k \in DOMAIN e /\ e[k] = entry[k]

(* What an argument was given is what the entry has, until a definition    *)
(* changes that.                                                           *)
LEMMA StillGiven ==
    ASSUME NEW items, NEW n \in Nat, NEW i \in 1 .. n + 1, NEW arg,
           Settled(items, i, n + 1, arg), NEW entry, NEW e,
           Keeps(entry, e, items[n + 1][1])
    PROVE  /\ Given(e, arg) = Given(entry, arg) /\ Atomic(arg)
           /\ Settled(items, i, n, arg)
<1>1. n + 1 \in i .. n + 1 /\ \A j \in i .. n : j \in i .. n + 1
  OBVIOUS
<1>2. CASE arg.fn = "literal"
  BY <1>2 DEF Given, Settled, Atomic
<1>3. CASE arg.fn = "registry"
  <2>1. \A j \in i .. n + 1 : items[j][1] # arg.key
    BY <1>3 DEF Settled
  <2>2. arg.key # items[n + 1][1]
    BY <1>1, <2>1
  <2>3. Settled(items, i, n, arg)
    BY <1>1, <1>3, <2>1 DEF Settled
  <2>4. Given(e, arg) = Given(entry, arg)
    BY <1>3, <2>2 DEF Given, Keeps
  <2> QED
    BY <1>3, <2>3, <2>4 DEF Atomic
<1> QED
  BY <1>2, <1>3 DEF Settled

(* What VerifiedSoFar says of definition i. *)
VerifiedOf(items, n, entry, i) ==
    LET e == items[i][2].expr
        c == entry[items[i][1]].pem
    IN  /\ items[i][1] \in DOMAIN entry /\ HasCertificate(entry[items[i][1]])
        /\ c.isCA <=> e.usage = "CA"
        /\ Settled(items, i, n, e.key) => c.id = Given(entry, e.key).pem.id
        /\ Settled(items, i, n, e.caKey) /\ Settled(items, i, n, e.caCert) =>
              IF IsNil(Given(entry, e.caKey)) THEN SelfSigned(c)
              ELSE /\ HasCertificate(Given(entry, e.caCert))
                   /\ IssuedBy(c, Given(entry, e.caCert).pem)

(* So with certificates. *)
LEMMA VerifiedMore ==
    ASSUME NEW items, NEW n \in Nat, NEW entry, VerifiedSoFar(items, n, entry),
           NEW value, Defined(items[n + 1], value, entry),
           Succeeded(Define(entry, items[n + 1][1], value))
    PROVE  VerifiedSoFar(items, n + 1, Define(entry, items[n + 1][1], value).ok)
<1>1. PICK key, e : key = items[n + 1][1] /\ e = Define(entry, key, value).ok
  OBVIOUS
<1>2. \/ IsNil(value) /\ e = entry
      \/ ~IsNil(value) /\ e = Set(entry, key, value)
  BY <1>1, DefineReturns
<1>3. /\ ~IsNil(value) => key \in DOMAIN e /\ e[key] = value
      /\ DOMAIN e \subseteq DOMAIN entry \cup {key}
      /\ \A k \in DOMAIN entry : k # key => k \in DOMAIN e /\ e[k] = entry[k]
  BY <1>2 DEF Set
<1>4. ASSUME NEW i \in Lasting(items, n + 1), IsCertificate(items[i][2])
      PROVE  VerifiedOf(items, n + 1, e, i)
  <2>1. PICK x, k : x = items[i][2].expr /\ k = items[i][1]
    OBVIOUS
  <2>2. i \in 1 .. n + 1
    BY DEF Lasting
  <2>3. ASSUME NEW arg, Settled(items, i, n + 1, arg)
        PROVE  /\ Given(e, arg) = Given(entry, arg) /\ Atomic(arg)
               /\ Settled(items, i, n, arg)
    <3>1. Keeps(entry, e, items[n + 1][1])
      BY <1>1, <1>3 DEF Keeps
    <3> QED
      BY ONLY n \in Nat, <2>2, <2>3, <3>1, StillGiven
  <2>4. CASE i = n + 1
    <3>1. /\ k \in DOMAIN e /\ e[k] = value /\ HasCertificate(value)
          /\ Certified(value.pem, x, entry)
      BY <1>1, <1>3, <1>4, <2>1, <2>4 DEF Defined, HasCertificate, Is
    <3>2. value.pem.isCA <=> x.usage = "CA"
      BY <3>1 DEF Certified, IsCA
    <3>3. Settled(items, i, n + 1, x.key) => value.pem.id = Given(e, x.key).pem.id
      BY <2>3, <3>1 DEF Certified
    <3>4. Settled(items, i, n + 1, x.caKey) /\ Settled(items, i, n + 1, x.caCert) =>
             IF IsNil(Given(e, x.caKey)) THEN SelfSigned(value.pem)
             ELSE /\ HasCertificate(Given(e, x.caCert))
                  /\ IssuedBy(value.pem, Given(e, x.caCert).pem)
      BY <2>3, <3>1 DEF Certified
    <3> QED
      BY <2>1, <3>1, <3>2, <3>3, <3>4 DEF VerifiedOf
  <2>5. CASE i \in Lasting(items, n) /\ i \in 1 .. n /\ key # items[i][1]
    <3>1. VerifiedOf(items, n, entry, i)
      BY <1>4, <2>5 DEF VerifiedSoFar, VerifiedOf
    <3>2. k \in DOMAIN e /\ e[k] = entry[k] /\ HasCertificate(e[k])
      BY <1>3, <2>1, <2>5, <3>1 DEF VerifiedOf
    <3>3. e[k].pem.isCA <=> x.usage = "CA"
      BY <2>1, <3>1, <3>2 DEF VerifiedOf
    <3>4. Settled(items, i, n + 1, x.key) => e[k].pem.id = Given(e, x.key).pem.id
      BY <2>1, <2>3, <3>1, <3>2 DEF VerifiedOf
    <3>5. Settled(items, i, n + 1, x.caKey) /\ Settled(items, i, n + 1, x.caCert) =>
             IF IsNil(Given(e, x.caKey)) THEN SelfSigned(e[k].pem)
             ELSE /\ HasCertificate(Given(e, x.caCert))
                  /\ IssuedBy(e[k].pem, Given(e, x.caCert).pem)
      BY <2>1, <2>3, <3>1, <3>2 DEF VerifiedOf
    <3> QED
      BY <2>1, <3>2, <3>3, <3>4, <3>5 DEF VerifiedOf
  <2> QED
    BY <1>1, <2>4, <2>5, LastingMore
<1>5. VerifiedSoFar(items, n + 1, e)
  BY <1>4 DEF VerifiedSoFar, VerifiedOf
<1> QED
  BY <1>1, <1>5

(* Then the certificate of a CA vouches for those it issued. *)
LEMMA ChainVerifies ==
    ASSUME NEW items, NEW n \in Nat, NEW entry, VerifiedSoFar(items, n, entry),
           NEW i \in Lasting(items, n), NEW j \in Lasting(items, n),
           Issues(items, n, entry, j, i)
    PROVE  Verifies(entry[items[i][1]].pem, entry[items[j][1]].pem)
<1>1. PICK x, y : x = items[i][2].expr /\ y = items[j][2].expr
  OBVIOUS
<1>2. VerifiedOf(items, n, entry, i) /\ VerifiedOf(items, n, entry, j)
  BY DEF VerifiedSoFar, VerifiedOf, Issues
<1>3. entry[items[j][1]].pem.isCA
  BY <1>2 DEF VerifiedOf, Issues
<1>4. items[j][1] \in DOMAIN entry
  BY <1>2 DEF VerifiedOf
<1>5. Given(entry, x.caCert) = entry[items[j][1]]
  BY <1>1, <1>4 DEF Issues, Given
<1>6. /\ Settled(items, i, n, x.caKey) /\ Settled(items, i, n, x.caCert)
      /\ ~IsNil(Given(entry, x.caKey))
  BY <1>1 DEF Issues
<1>7. IssuedBy(entry[items[i][1]].pem, Given(entry, x.caCert).pem)
  BY <1>1, <1>2, <1>6 DEF VerifiedOf
<1> QED
  BY <1>3, <1>5, <1>7 DEF Verifies

(* What the call that runs and the request that ended know of the          *)
(* registry.                                                               *)
SoFar ==
    call # None => /\ GeneratedSoFar(call.items, call.done, call.entry)
                   /\ VerifiedSoFar(call.items, call.done, call.entry)

(* The second inductive invariant, relative to IInv. *)
PInv == SoFar /\ GeneratorsGenerate /\ CertificatesVerify

(* Without a definition there is nothing to say. *)
LEMMA NothingSoFar ==
    ASSUME NEW items, NEW entry
    PROVE  GeneratedSoFar(items, 0, entry) /\ VerifiedSoFar(items, 0, entry)
<1>1. Lasting(items, 0) = {}
  <2>1. \A i \in 1 .. 0 : FALSE
    OBVIOUS
  <2> QED
    BY <2>1 DEF Lasting
<1> QED
  BY <1>1 DEF GeneratedSoFar, VerifiedSoFar

(* A call that ends hands on what it knows, unless it failed at a proper   *)
(* generator.                                                              *)
LEMMA EndKnows ==
    ASSUME IInv, PInv, call # None, NEW r, Ends(r), cfg' = cfg,
           NEW n \in Nat, n = call.done,
           n + 1 <= Len(call.items) =>
              ~(ProperGenerator(call.items[n + 1][2])
                /\ IsKeyWritable(call.items[n + 1][1]))
    PROVE  PInv'
<1>1. /\ call' = None /\ outcome'.entry = call.entry /\ outcome'.done = n
      /\ outcome'.type = call.type
  BY DEF Ends
<1>2. ListOf(outcome)' = ListOf(call)
  BY <1>1 DEF ListOf
<1>3. PICK items, entry : items = call.items /\ entry = call.entry
  OBVIOUS
<1>4. PICK list : list = ListOf(call)
  OBVIOUS
<1>5. list.registry = items
  BY <1>3, <1>4 DEF IInv, Running
<1>6. GeneratedSoFar(items, n, entry) /\ VerifiedSoFar(items, n, entry)
  BY <1>3 DEF PInv, SoFar
<1>7. SoFar'
  BY <1>1 DEF SoFar
<1>8. GeneratorsGenerate'
  BY <1>1, <1>2, <1>3, <1>4, <1>5, <1>6 DEF GeneratorsGenerate
<1>9. CertificatesVerify'
  <2>1. \A i, j \in Lasting(items, n) : Issues(items, n, entry, j, i) =>
           Verifies(entry[items[i][1]].pem, entry[items[j][1]].pem)
    BY <1>6, ChainVerifies
  <2> QED
    BY <1>1, <1>2, <1>3, <1>4, <1>5, <1>6, <2>1 DEF CertificatesVerify
<1> QED
  BY <1>7, <1>8, <1>9 DEF PInv

(* What ended before is not touched by a call that goes on. *)
LEMMA GoesOn ==
    ASSUME PInv, cfg' = cfg, outcome' = outcome, SoFar' PROVE PInv'
<1>1. GeneratorsGenerate' /\ CertificatesVerify'
  BY DEF PInv, GeneratorsGenerate, CertificatesVerify, Ended, ListOf
<1> QED
  BY <1>1 DEF PInv

(* A request begins with nothing defined. *)
LEMMA BeginKnows ==
    ASSUME PInv, NEW type, NEW plan, NEW params, Begin(type, plan, params)
    PROVE  PInv'
<1>1. PICK entry : entry = IF type = "instance" THEN NewEntry(plan, params)
                           ELSE Inherit(stored["instance"], params)
  OBVIOUS
<1>2. PICK list : list = GetTemplateBinding(cfg, PlanOf(entry), type)
  OBVIOUS
<1>3. cfg' = cfg
  BY DEF Begin
<1>4. CASE list = None
  <2>1. /\ call' = None /\ outcome'.entry = entry /\ outcome'.type = type
    BY <1>1, <1>2, <1>4 DEF Begin
  <2>2. ListOf(outcome)' = None
    BY <1>2, <1>3, <1>4, <2>1 DEF ListOf
  <2> QED
    BY <2>1, <2>2 DEF PInv, SoFar, GeneratorsGenerate, CertificatesVerify
<1>5. CASE list # None
  <2>1. /\ call'.items = list.registry /\ call'.entry = entry /\ call'.done = 0
        /\ outcome' = None
    BY <1>1, <1>2, <1>5 DEF Begin
  <2>2. GeneratedSoFar(list.registry, 0, entry) /\ VerifiedSoFar(list.registry, 0, entry)
    BY NothingSoFar
  <2> QED
    BY <2>1, <2>2 DEF PInv, SoFar, GeneratorsGenerate, CertificatesVerify, Ended
<1> QED
  BY <1>4, <1>5

(* What rendering a definition that succeeds has given. *)
LEMMA RenderingDefines ==
    ASSUME AtomicArguments, NEW item, NEW ctx,
           NEW o \in RenderTemplateString(item[2], ctx), Succeeded(o)
    PROVE  Defined(item, o.ok, ctx.entry)
<1>1. PICK v : v = item[2]
  OBVIOUS
<1>2. ProperGenerator(v) => ~IsNil(o.ok) /\ Generated(v.expr, o.ok)
  BY <1>1, GeneratorRendered
<1>3. IsCertificate(v) =>
          /\ DOMAIN o.ok = {"pem"} /\ ~IsNil(o.ok) /\ o.ok.pem.label = "CERTIFICATE"
          /\ Certified(o.ok.pem, v.expr, ctx.entry)
  BY <1>1, CertificateRendered
<1> QED
  BY <1>1, <1>2, <1>3 DEF Defined

(* A definition adds what it gives; one with a proper generator for a key  *)
(* that can be written does not fail.                                      *)
LEMMA RegistryKnows == ASSUME AtomicArguments, IInv, PInv, RenderRegistry PROVE PInv'
<1>1. call # None /\ call.done < Len(call.items) /\ cfg' = cfg
  BY RegistryCases
<1>2. PICK n \in Nat : n = call.done
  BY <1>1 DEF IInv, Running
<1>3. PICK items, entry, ctx : /\ items = call.items /\ entry = call.entry
                               /\ ctx = ContextOf(call.entry, Site)
  OBVIOUS
<1>4. PICK item : item = items[n + 1]
  OBVIOUS
<1>5. ctx.entry = entry
  BY <1>3 DEF ContextOf
<1>6. PICK o \in RenderTemplateString(item[2], ctx) :
        \/ ~Succeeded(o) /\ Stop(o)
        \/ /\ Succeeded(o) /\ ~Succeeded(Define(entry, item[1], o.ok))
           /\ Stop(Define(entry, item[1], o.ok))
        \/ /\ Succeeded(o) /\ Succeeded(Define(entry, item[1], o.ok))
           /\ call' = [call EXCEPT !.entry = Define(entry, item[1], o.ok).ok,
                                   !.done = @ + 1]
           /\ outcome' = outcome
  BY <1>2, <1>3, <1>4, RegistryCases
<1>7. PICK value : value = o.ok
  OBVIOUS
<1>8. ASSUME ProperGenerator(item[2]), IsKeyWritable(item[1])
      PROVE  Succeeded(o) /\ Succeeded(Define(entry, item[1], value))
  <2>1. Succeeded(o) /\ ~IsNil(value)
    BY <1>6, <1>7, <1>8, GeneratorRendered
  <2>2. Define(entry, item[1], value) = Ok(Set(entry, item[1], value))
    BY <1>8, <2>1 DEF Define, SetUser
  <2> QED
    BY <2>1, <2>2 DEF Succeeded, Ok
<1>9. ASSUME NEW x, Stop(x), ~Succeeded(o) \/ ~Succeeded(Define(entry, item[1], value))
      PROVE  PInv'
  <2>1. ~(ProperGenerator(item[2]) /\ IsKeyWritable(item[1]))
    BY <1>8, <1>9
  <2>2. PICK r : Ends(r)
    BY <1>9 DEF Stop
  <2> QED
    BY <1>1, <1>2, <1>3, <1>4, <2>1, <2>2, EndKnows
<1>10. ASSUME Succeeded(o), Succeeded(Define(entry, item[1], value)),
              call' = [call EXCEPT !.entry = Define(entry, item[1], value).ok,
                                   !.done = @ + 1],
              outcome' = outcome
       PROVE  PInv'
  <2>1. PICK e : e = Define(entry, item[1], value).ok
    OBVIOUS
  <2>2. /\ call'.items = items /\ call'.done = n + 1 /\ call'.entry = e
    BY <1>1, <1>2, <1>3, <1>10, <2>1 DEF IInv, Running
  <2>3. Defined(item, value, entry)
    BY <1>5, <1>6, <1>7, <1>10, RenderingDefines
  <2>4. GeneratedSoFar(items, n, entry) /\ VerifiedSoFar(items, n, entry)
    BY <1>1, <1>2, <1>3 DEF PInv, SoFar
  <2>5. GeneratedSoFar(items, n + 1, e)
    BY <1>4, <1>10, <2>1, <2>3, <2>4, GeneratedMore
  <2>6. VerifiedSoFar(items, n + 1, e)
    BY <1>4, <1>10, <2>1, <2>3, <2>4, VerifiedMore
  <2>7. SoFar'
    BY <2>2, <2>5, <2>6 DEF SoFar
  <2> QED
    BY <1>1, <1>10, <2>7, GoesOn
<1> QED
  BY <1>6, <1>7, <1>9, <1>10

(* When templates are rendered the registry is done. *)
LEMMA TemplateKnows == ASSUME IInv, PInv, RenderNext PROVE PInv'
<1>1. call # None /\ cfg' = cfg /\ call.done = Len(call.items)
  BY DEF RenderNext
<1>2. PICK n \in Nat : n = call.done
  BY <1>1 DEF IInv, Running
<1>3. ~(n + 1 <= Len(call.items))
  BY <1>1, <1>2
<1>4. ASSUME NEW r, Ends(r) PROVE PInv'
  BY <1>1, <1>2, <1>3, <1>4, EndKnows
<1>5. ASSUME NEW o, Stop(o) PROVE PInv'
  BY <1>4, <1>5 DEF Stop
<1>6. ASSUME NEW x, call' = [call EXCEPT !.rendered = Append(@, x)],
             outcome' = outcome
      PROVE  PInv'
  <2>1. /\ call'.items = call.items /\ call'.done = call.done
        /\ call'.entry = call.entry
    BY <1>1, <1>6 DEF IInv, Running
  <2>2. SoFar'
    BY <1>1, <2>1 DEF PInv, SoFar
  <2> QED
    BY <1>1, <1>6, <2>2, GoesOn
<1> QED
  BY <1>4, <1>5, <1>6, TemplateCases

(* PInv is inductive, relative to IInv. *)
LEMMA PInvStep == ASSUME AtomicArguments, IInv, PInv, [Next]_vars PROVE PInv'
<1>1. CASE Validate
  <2>1. cfg' = cfg /\ call' = call /\ outcome' = outcome
    BY <1>1 DEF Validate
  <2> QED
    BY <2>1, GoesOn DEF PInv, SoFar
<1>2. ASSUME NEW type \in Types, NEW plan \in Plans, NEW params \in Params,
             Begin(type, plan, params)
      PROVE  PInv'
  BY <1>2, BeginKnows
<1>3. CASE RenderRegistry
  BY <1>3, RegistryKnows
<1>4. CASE RenderNext
  BY <1>4, TemplateKnows
<1>5. CASE Finish
  <2>1. /\ call # None /\ cfg' = cfg /\ call.done = Len(call.items) /\ Ends("ok")
    BY <1>5 DEF Finish
  <2>2. PICK n \in Nat : n = call.done
    BY <2>1 DEF IInv, Running
  <2>3. ~(n + 1 <= Len(call.items))
    BY <2>1, <2>2
  <2> QED
    BY <2>1, <2>2, <2>3, EndKnows
<1>6. CASE UNCHANGED vars
  <2>1. cfg' = cfg /\ call' = call /\ outcome' = outcome
    BY <1>6 DEF vars
  <2> QED
    BY <2>1, GoesOn DEF PInv, SoFar
<1> QED
  BY <1>1, <1>2, <1>3, <1>4, <1>5, <1>6 DEF Next

(* Nothing has run yet. *)
LEMMA PInvInit == ASSUME Init PROVE PInv
BY DEF Init, PInv, SoFar, GeneratorsGenerate, CertificatesVerify, Ended

(* So it holds always. *)
LEMMA PInvHolds == ASSUME AtomicArguments PROVE Spec => []PInv
<1>1. Init => PInv
  BY PInvInit
<1>2. IInv /\ PInv /\ [Next]_vars => PInv'
  BY PInvStep
<1> QED
  BY <1>1, <1>2, IInvHolds, PTL DEF Spec

-----------------------------------------------------------------------------
(* Generators generate, of whatever configuration was accepted, between    *)
(* whatever other definitions: no request fails at one with arguments that *)
(* the functions accept, and what it generated is in the registry in the   *)
(* end.                                                                    *)
THEOREM GeneratorsGenerateHolds == ASSUME AtomicArguments PROVE Spec => []GeneratorsGenerate
<1>1. PInv => GeneratorsGenerate
  BY DEF PInv
<1> QED
  BY <1>1, PInvHolds, PTL

(* The certificates that definitions generated are those of their keys,    *)
(* signed by themselves or issued by what they were given as CA; where     *)
(* that was generated for usage CA, they verify with it.                   *)
THEOREM CertificatesVerifyHolds == ASSUME AtomicArguments PROVE Spec => []CertificatesVerify
<1>1. PInv => CertificatesVerify
  BY DEF PInv
<1> QED
  BY <1>1, PInvHolds, PTL
=============================================================================
