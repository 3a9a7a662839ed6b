---------------------------- MODULE Preparation ----------------------------
(***************************************************************************)
(* From a configuration to the objects of a service: pkg/config/           *)
(* validation.go and the lookups of helpers.go, against Creator.Prepare,   *)
(* which renders registry values and templates of a create or bind.        *)
(*                                                                         *)
(* A configuration is loaded and validated; one that is accepted serves a  *)
(* create and then a bind, whose entry inherits all of the instance's.     *)
(***************************************************************************)
EXTENDS Templates

CONSTANTS
    None,     \* nil: a field that is left out, or nothing yet
    Plans,    \* the service plans of the catalog
    Configs,  \* the configurations users may write
    Params    \* the parameters of requests

IsSequence(s) == s \in Seq(Range(s))

(* ServiceBrokerTemplateList.  registry holds pairs of a key and a value.  *)
(* steps, unless nil, replaces templates; a step is the sequence of its    *)
(* templates.                                                              *)
IsList(list) ==
    /\ list # None
    /\ DOMAIN list = {"registry", "templates", "steps"}
    /\ IsSequence(list.registry) /\ IsSequence(list.templates)

(* bindable is set for the service and may be overridden by a plan.  A     *)
(* binding may leave out its service binding list.                         *)
ASSUME ConfigAssumption ==
    \A c \in Configs :
        /\ c.bindable \in BOOLEAN
        /\ c.planBindable \in [Plans -> BOOLEAN \cup {None}]
        /\ IsSequence(c.bindings)
        /\ \A b \in Range(c.bindings) :
              /\ b.plan \in Plans
              /\ IsList(b.serviceInstance)
              /\ b.serviceBinding = None \/ IsList(b.serviceBinding)

Types == {"instance", "binding"}

(* An entry that does not exist has no keys. *)
NoEntry == << >>

VARIABLES
    cfg,      \* the configuration
    verdict,  \* what validate said of it: "none" before, then "ok", "error"
    stored,   \* the stored registry entries of an instance and a binding
    call,     \* the Prepare that runs, or None
    outcome   \* how the last one ended, or None

vars == <<cfg, verdict, stored, call, outcome>>

-----------------------------------------------------------------------------
(* Lookups in a configuration c.                                           *)

Matches(c, plan) == {i \in DOMAIN c.bindings : c.bindings[i].plan = plan}

(* getBindingForServicePlan and GetTemplateBindings: the first binding of  *)
(* the plan.                                                               *)
GetBinding(c, plan) ==
    IF Matches(c, plan) = {} THEN None ELSE c.bindings[Min(Matches(c, plan))]

IsBindable(c, plan) == IF c.planBindable[plan] = None
                       THEN c.bindable ELSE c.planBindable[plan]

(* getTemplateBinding: the list for this type of resource, or None.        *)
GetTemplateBinding(c, plan, type) ==
    IF GetBinding(c, plan) = None THEN None
    ELSE IF type = "instance" THEN GetBinding(c, plan).serviceInstance
                              ELSE GetBinding(c, plan).serviceBinding

-----------------------------------------------------------------------------
(* validate.                                                               *)

(* Mutant: a missing binding is not noticed.                               *)
PlanValidNoBinding(c, plan) ==
    GetBinding(c, plan) # None =>
        (IsBindable(c, plan) <=> GetBinding(c, plan).serviceBinding # None)

(* Every plan has a binding, with a service binding list exactly if it can *)
(* be bound to.                                                            *)
PlanValid(c, plan) ==
    /\ GetBinding(c, plan) # None
    /\ IsBindable(c, plan) <=> GetBinding(c, plan).serviceBinding # None

(* A list does something, and its templates exist.                         *)
ListValid(c, list) ==
    /\ list.registry # << >> \/ list.templates # << >>
    /\ Range(list.templates) \subseteq DOMAIN c.templates

Valid(c) ==
    /\ \A plan \in Plans : PlanValid(c, plan)
    /\ \A b \in Range(c.bindings) :
          /\ ListValid(c, b.serviceInstance)
          /\ b.serviceBinding # None => ListValid(c, b.serviceBinding)

Validate ==
    /\ verdict = "none"
    /\ verdict' = IF Valid(cfg) THEN "ok" ELSE "error"
    /\ UNCHANGED <<cfg, stored, call, outcome>>

-----------------------------------------------------------------------------
(* The entries that a request stores before Prepare.                       *)

Context == Str("context")

NewEntry(plan, params) ==
    [k \in ReadOnlyKeys \cup {"context", "parameters"} |->
        CASE k = "plan-id"    -> Str(plan)
          [] k = "parameters" -> params
          [] k = "context"    -> Context
          [] OTHER            -> Str(k)]

(* A binding gets all that the instance has; its own ID, context and       *)
(* parameters come on top.                                                 *)
Inherit(instance, params) ==
    Set(Set(instance, "parameters", params), "binding-id", Str("binding-id"))

(* The plan on record, by which Prepare goes. *)
PlanOf(entry) == CHOOSE p \in Plans : Str(p) = entry["plan-id"]

(* The templates of a list, step by step: one implicit step when none are  *)
(* given.                                                                  *)
TemplatesOf(list) ==
    IF list.steps = None THEN list.templates ELSE FlattenSeq(list.steps)

Ends(result) ==
    /\ outcome' = [type |-> call.type, plan |-> call.plan, result |-> result,
                   entry |-> call.entry, done |-> call.done,
                   rendered |-> call.rendered]
    /\ call' = None

(* A create or a bind that the handlers let pass, up to the lookups of     *)
(* Prepare.  A bind is checked by the plan it names.  An entry that exists *)
(* is not prepared again.                                                  *)
Begin(type, plan, params) ==
    /\ verdict = "ok" /\ call = None
    /\ stored[type] = NoEntry
    /\ type = "binding" => IsBindable(cfg, plan) /\ stored["instance"] # NoEntry
    /\ LET entry == IF type = "instance" THEN NewEntry(plan, params)
                    ELSE Inherit(stored["instance"], params)
           list == GetTemplateBinding(cfg, PlanOf(entry), type)
       IN  /\ stored' = [stored EXCEPT ![type] = entry]
           /\ IF list = None
              THEN /\ outcome' = [type |-> type, plan |-> plan,
                                  result |-> "missing", entry |-> entry,
                                  done |-> 0, rendered |-> << >>]
                   /\ call' = None
              ELSE /\ call' = [type |-> type, plan |-> plan, entry |-> entry,
                               items |-> list.registry, done |-> 0,
                               templates |-> TemplatesOf(list),
                               rendered |-> << >>]
                   /\ outcome' = None
    /\ UNCHANGED <<cfg, verdict>>

-----------------------------------------------------------------------------
(* Creator.Prepare.                                                        *)

(* What is rendered for an entry. *)
ContextOf(entry, site) ==
    [templates |-> cfg.templates, entry |-> entry, dot |-> Nil,
     stack |-> << >>, site |-> site]

(* Where a call is: told by what was done so far. *)
Site == <<call.type, call.done + Len(call.rendered)>>

(* An error ends Prepare: the entry is as it was stored.  A stack overflow *)
(* ends the broker, which starts again.                                    *)
Stop(o) ==
    IF o = Overflow THEN Ends("overflow") /\ verdict' = "none"
                    ELSE Ends("error") /\ UNCHANGED verdict

(* The registry entry after the definition of key rendered to value, which *)
(* is skipped if it is nil.                                                *)
Define(entry, key, value) ==
    IF IsNil(value) THEN Ok(entry) ELSE SetUser(entry, key, value)

(* One registry definition. *)
RenderRegistry ==
    /\ call # None /\ call.done < Len(call.items)
    /\ LET item == call.items[call.done + 1]
       IN  \E o \in RenderTemplateString(item[2], ContextOf(call.entry, Site)) :
             \/ ~Succeeded(o) /\ Stop(o)
             \/ /\ Succeeded(o)
                /\ LET set == Define(call.entry, item[1], o.ok)
                   IN  \/ ~Succeeded(set) /\ Stop(set)
                       \/ /\ Succeeded(set)
                          /\ call' = [call EXCEPT !.entry = set.ok,
                                                  !.done = @ + 1]
                          /\ UNCHANGED <<verdict, outcome>>
    /\ UNCHANGED <<cfg, stored>>

(* One template of a step: getTemplate, then renderTemplate. *)
RenderNext ==
    /\ call # None /\ call.done = Len(call.items)
    /\ Len(call.rendered) < Len(call.templates)
    /\ LET name == call.templates[Len(call.rendered) + 1]
       IN  \/ /\ name \notin DOMAIN cfg.templates
              /\ Ends("missing") /\ UNCHANGED verdict
           \/ /\ name \in DOMAIN cfg.templates
              /\ \E o \in RenderTemplate(name, Nil, ContextOf(call.entry, Site)) :
                    \/ ~Succeeded(o) /\ Stop(o)
                    \/ /\ Succeeded(o)
                       /\ call' = [call EXCEPT !.rendered =
                                     Append(@, <<name, o.ok>>)]
                       /\ UNCHANGED <<verdict, outcome>>
    /\ UNCHANGED <<cfg, stored>>

(* Prepare returns; operation.Start stores the entry. *)
Finish ==
    /\ call # None /\ call.done = Len(call.items)
    /\ Len(call.rendered) = Len(call.templates)
    /\ stored' = [stored EXCEPT ![call.type] = call.entry]
    /\ Ends("ok")
    /\ UNCHANGED <<cfg, verdict>>

-----------------------------------------------------------------------------
Init ==
    /\ cfg \in Configs
    /\ verdict = "none"
    /\ stored = [t \in Types |-> NoEntry]
    /\ call = None
    /\ outcome = None

Next ==
    \/ Validate
    \/ \E type \in Types, plan \in Plans, params \in Params :
          Begin(type, plan, params)
    \/ RenderRegistry
    \/ RenderNext
    \/ Finish

Spec == Init /\ [][Next]_vars

-----------------------------------------------------------------------------
(* Safety.                                                                 *)

Ended == outcome # None

(* The list of templates that a call or an outcome goes by. *)
ListOf(x) == GetTemplateBinding(cfg, PlanOf(x.entry), x.type)

(* kubernetes.adoc: a broker with an error in its configuration does not   *)
(* become ready.  So with one that is ready no request fails because its   *)
(* list of templates or one of its templates cannot be found, unless the   *)
(* list uses steps, which validate does not look into, or a bind names     *)
(* another plan than its instance has.                                     *)
ReadyMeansComplete ==
    Ended /\ outcome.result = "missing" =>
        \/ outcome.plan # PlanOf(outcome.entry)
        \/ ListOf(outcome) # None /\ ListOf(outcome).steps # None

(* Key is among those that the list for this type of resource defines. *)
DefinedFor(entry, type, key) ==
    LET list == GetTemplateBinding(cfg, PlanOf(entry), type)
    IN  list # None /\ \E i \in DOMAIN list.registry : list.registry[i][1] = key

(* The keys that keyPolicies protects stay as the broker set them, of an   *)
(* instance and of a binding that inherits them, whatever registry         *)
(* definitions were rendered: both are still named by what later requests  *)
(* look for, and reserved keys are those of the request.  registry.adoc    *)
(* lists binding-id among the read-only keys too, but it has no policy:    *)
(* what an instance makes of it is not inherited, but a definition of the  *)
(* binding itself overwrites it.                                           *)
BrokerKeysKept ==
    \A t \in Types : stored[t] # NoEntry =>
        /\ \A k \in ReadOnlyKeys :
              /\ stored[t][k] = stored["instance"][k]
              /\ k # "plan-id" => stored[t][k] = Str(k)
        /\ stored[t]["context"] = Context
        /\ stored[t]["parameters"] \in Params
        /\ t = "binding" =>
              \/ stored[t]["binding-id"] = Str("binding-id")
              \/ DefinedFor(stored[t], t, "binding-id")

(* The registry definitions among the first n that no later one of them    *)
(* defines again.                                                          *)
Lasting(items, n) ==
    {i \in 1 .. n : \A j \in i + 1 .. n : items[j][1] # items[i][1]}

IsExpr(v) == DOMAIN v = {"expr"}

(* A definition that generates something, with arguments that the          *)
(* functions accept.  The manual allows more: any string as a dictionary,  *)
(* any size of an RSA key, and encodings by other names.                   *)
ProperPassword(e) ==
    /\ e.fn = "generatePassword"
    /\ Is("int", e.length) /\ e.length.int \in Nat
    /\ e.dictionary.fn = "literal"
    /\ \/ IsNil(e.dictionary.value)
       \/ /\ Is("chars", e.dictionary.value)
          /\ IsSequence(e.dictionary.value.chars)
          /\ Len(e.dictionary.value.chars) > 1

ProperKey(e) ==
    /\ e.fn = "generatePrivateKey" /\ e.type \in KeyTypes
    /\ e.bits.fn = "literal"
    /\ IF IsNil(e.bits.value) THEN e.type # "RSA"
       ELSE /\ Is("int", e.bits.value) /\ e.bits.value.int \in Nat
            /\ e.type = "RSA" => e.bits.value.int >= RSAMinimum
    /\ \/ e.encoding = KeyEncodingPKCS8
       \/ e.encoding = KeyEncodingPKCS1 /\ e.type = "RSA"
       \/ e.encoding = KeyEncodingSEC1 /\ e.type \in Elliptic

ProperGenerator(v) == IsExpr(v) /\ (ProperPassword(v.expr) \/ ProperKey(v.expr))

(* A password has the length that was asked for and the characters of the  *)
(* dictionary; a key is of its type and can be read back.                  *)
Generated(e, v) ==
    /\ e.fn = "generatePassword" =>
          /\ Is("chars", v) /\ Len(v.chars) = e.length.int
          /\ Range(v.chars) \subseteq
               Range(IF IsNil(e.dictionary.value) THEN Alphabet
                     ELSE e.dictionary.value.chars)
    /\ e.fn = "generatePrivateKey" =>
          /\ Is("pem", v) /\ v.pem.type = e.type
          /\ Succeeded(DecodePrivateKey(v.pem))

(* After n definitions, what proper ones generated is in the entry. *)
GeneratedSoFar(items, n, entry) ==
    \A i \in Lasting(items, n) : ProperGenerator(items[i][2]) =>
        /\ items[i][1] \in DOMAIN entry
        /\ Generated(items[i][2].expr, entry[items[i][1]])

(* With arguments that the functions accept a generator generates: no      *)
(* request fails at one, and its value is in the registry in the end.      *)
GeneratorsGenerate ==
    Ended /\ ListOf(outcome) # None =>
        LET items == ListOf(outcome).registry
            next == outcome.done + 1
        IN  /\ GeneratedSoFar(items, outcome.done, outcome.entry)
            /\ next <= Len(items) =>
                  ~(ProperGenerator(items[next][2]) /\ IsKeyWritable(items[next][1]))

(* What an argument of the generator of definition i stands for, by the    *)
(* entry after n definitions, if none since i has changed that.            *)
Given(entry, arg) == IF arg.fn = "literal" THEN arg.value
                     ELSE IF arg.key \in DOMAIN entry THEN entry[arg.key] ELSE Nil

Settled(items, i, n, arg) ==
    \/ arg.fn = "literal"
    \/ /\ arg.fn = "registry"
       /\ \A j \in i .. n : items[j][1] # arg.key

IsCertificate(v) == IsExpr(v) /\ v.expr.fn = "generateCertificate"

HasCertificate(v) == Is("pem", v) /\ v.pem.label = "CERTIFICATE"

SelfSigned(c) == c.signer = c.id /\ c.issuer = c.id

(* Signed by the owner of certificate ca, in its name. *)
IssuedBy(c, ca) == c.signer = ca.id /\ c.issuer = ca.id

(* Whoever trusts ca accepts c. *)
Verifies(c, ca) == IssuedBy(c, ca) /\ ca.isCA

(* After n definitions: what they generated are certificates of the keys   *)
(* they were given, signed by themselves or issued by the CA they were     *)
(* given, and fit to issue others if their usage is CA.                    *)
VerifiedSoFar(items, n, entry) ==
    \A i \in Lasting(items, n) : IsCertificate(items[i][2]) =>
        LET e == items[i][2].expr
            c == entry[items[i][1]].pem
        IN  /\ items[i][1] \in DOMAIN entry /\ HasCertificate(entry[items[i][1]])
            /\ c.isCA <=> e.usage = "CA"
            /\ Settled(items, i, n, e.key) => c.id = Given(entry, e.key).pem.id
            /\ Settled(items, i, n, e.caKey) /\ Settled(items, i, n, e.caCert) =>
                  IF IsNil(Given(entry, e.caKey)) THEN SelfSigned(c)
                  ELSE /\ HasCertificate(Given(entry, e.caCert))
                       /\ IssuedBy(c, Given(entry, e.caCert).pem)

(* Definition j has generated the certificate of a CA, which definition i  *)
(* was given. *)
Issues(items, n, entry, j, i) ==
    /\ IsCertificate(items[i][2]) /\ IsCertificate(items[j][2])
    /\ items[j][2].expr.usage = "CA"
    /\ items[i][2].expr.caCert.fn = "registry"
    /\ items[i][2].expr.caCert.key = items[j][1]
    /\ Settled(items, i, n, items[i][2].expr.caCert)
    /\ Settled(items, i, n, items[i][2].expr.caKey)
    /\ ~IsNil(Given(entry, items[i][2].expr.caKey))

(* template-functions.adoc: certificates without a CA are self-signed,     *)
(* others signed by the CA.  So the certificates in a registry entry that  *)
(* definitions generated verify with each other: each is that of its key,  *)
(* and one that was generated for usage CA vouches for those it issued.    *)
(* (The code also issues in the name of a certificate for other usages;    *)
(* what it gives then verifies with nothing.)                              *)
CertificatesVerify ==
    Ended /\ ListOf(outcome) # None =>
        LET items == ListOf(outcome).registry
            n == outcome.done
        IN  /\ VerifiedSoFar(items, n, outcome.entry)
            /\ \A i, j \in Lasting(items, n) : Issues(items, n, outcome.entry, j, i) =>
                  Verifies(outcome.entry[items[i][1]].pem,
                           outcome.entry[items[j][1]].pem)
=============================================================================
