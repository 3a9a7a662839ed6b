------------------------------ MODULE Templates ------------------------------
(***************************************************************************)
(* The template language: pkg/provisioners/template.go, renderTemplate and *)
(* getTemplate of util.go, and what of the registry users may touch.       *)
(*                                                                         *)
(* A JSON value is a record whose only field names its kind.  A string     *)
(* that holds a dynamic attribute, {{ ... }}, is an expression.  Go visits *)
(* the attributes of a map in any order and generators draw at random, so  *)
(* rendering yields the set of its possible outcomes.                      *)
(***************************************************************************)
EXTENDS Certificates, SequencesExt

(* The language is recursive.  What a definition below needs of a smaller  *)
(* piece of the same language it takes from these two parameters; a        *)
(* configuration file ties the knot, by Eval and Recurse.                  *)
CONSTANTS
    Argument(_, _),  \* the outcomes of an argument of a function
    Part(_, _)       \* the outcomes of a part of a template

Nil == [nil |-> TRUE]
Str(s) == [str |-> s]             \* a string without a template in it
Chars(s) == [chars |-> s]         \* a string whose characters matter
Pem(doc) == [pem |-> doc]         \* a string that holds a PEM document
Num(n) == [num |-> n]             \* a JSON number: float64 in Go
Whole(n) == [int |-> n]           \* an integer constant of a template
Map(f) == [map |-> f]
Arr(s) == [arr |-> s]
Expr(e) == [expr |-> e]           \* "{{ ... }}"
BadTemplate == [malformed |-> TRUE]  \* "{{ ..." without the closing braces

Is(kind, v) == kind \in DOMAIN v
IsNil(v) == Is("nil", v)
IsString(v) == Is("str", v) \/ Is("chars", v) \/ Is("pem", v)

Overflow == [overflow |-> TRUE]   \* the goroutine's stack overflows

(* The outcomes of f for each value among outcomes. *)
Then(outcomes, f(_)) ==
    UNION {IF Succeeded(o) THEN f(o.ok) ELSE {o} : o \in outcomes}

Successes(outcomes) == {o.ok : o \in {x \in outcomes : Succeeded(x)}}
Failures(outcomes) == {o \in outcomes : ~Succeeded(o)}

(* One member of each of the sets. *)
Picks(sets) ==
    {f \in [DOMAIN sets -> UNION Range(sets)] :
        \A i \in DOMAIN sets : f[i] \in sets[i]}

(* An array is made element by element: the first failure ends it. *)
InOrder(outs) ==
    {Ok(Arr(s)) : s \in Picks([i \in DOMAIN outs |-> Successes(outs[i])])}
    \cup UNION {Failures(outs[i]) : i \in {n \in DOMAIN outs :
                    \A j \in 1 .. n - 1 : Successes(outs[j]) # {}}}

-----------------------------------------------------------------------------
(* Registry keys and who may use them.                                     *)

ReadOnlyKeys == {"namespace", "instance-id", "service-id", "plan-id"}
ReservedKeys == {"context", "parameters", "operation", "operation-id",
                 "operation-status"}

IsKeyReadable(key) == key \notin ReservedKeys

(* Mutant: keys that may be read may be written. *)
IsKeyWritableLoose(key) == key \notin ReservedKeys

(* binding-id has no policy: like a user's own key it may be written,      *)
(* although the manual lists it as read-only.                              *)
IsKeyWritable(key) == key \notin ReadOnlyKeys \cup ReservedKeys

GetUser(entry, key) ==
    IF ~IsKeyReadable(key) THEN Fail("config")
    ELSE Ok(IF key \in DOMAIN entry THEN entry[key] ELSE Nil)

Set(entry, key, value) ==
    [k \in DOMAIN entry \cup {key} |-> IF k = key THEN value ELSE entry[k]]

SetUser(entry, key, value) ==
    IF ~IsKeyWritable(key) THEN Fail("config") ELSE Ok(Set(entry, key, value))

-----------------------------------------------------------------------------
(* Functions of the language that take values.  Whatever error a function  *)
(* returns or raises, Execute returns and renderTemplateString makes a     *)
(* configuration error of.                                                 *)

(* External: a JSON pointer, the sequence of its fields. *)
Field(v, key) == IF Is("map", v) /\ key \in DOMAIN v.map THEN v.map[key] ELSE Nil
Pointer(v, path) == FoldLeft(Field, v, path)

(* templateFunctionParameter.  A pointer is malformed unless it starts     *)
(* with a slash.                                                           *)
Parameter(entry, path, slash) ==
    IF "parameters" \notin DOMAIN entry THEN Fail("config")
    ELSE IF IsNil(entry["parameters"]) THEN Ok(Nil)
    ELSE IF ~slash THEN Fail("config")
    ELSE Ok(Pointer(entry["parameters"], path))

Required(v) == IF IsNil(v) THEN Fail("config") ELSE Ok(v)

Default(def, v) == IF IsNil(v) THEN def ELSE v

(* upper, lower and title take a string; the text they make of one that is *)
(* not taken apart is the string itself.                                   *)
ChangeCase(v) == IF IsString(v) THEN Ok(v) ELSE Fail("config")

GeneratePetName(n) ==
    IF Is("int", n) /\ n.int > 0 THEN Ok(Str("pet-name")) ELSE Fail("config")

(* Mutant: the range of the index is not adjusted to the array's bounds. *)
DictionaryLengthUnadjusted(d) == Len(d) + 1

(* The limit below which an index is drawn. *)
DictionaryLength(d) == Len(d) - 1

(* The longest the dictionary gets, by default. *)
Alphabet == <<"a", "Z", "9">>

(* Each character is one of those at an index below the limit.  rand.Int   *)
(* panics unless the limit is positive; a slice out of range panics too,   *)
(* and text/template makes an error of both.  A dictionary is a string     *)
(* whose characters matter.                                                *)
GeneratePassword(length, dictionary) ==
    IF ~Is("int", length) \/ ~(IsNil(dictionary) \/ Is("chars", dictionary))
    THEN {Fail("config")}
    ELSE LET d == IF IsNil(dictionary) THEN Alphabet ELSE dictionary.chars
             limit == DictionaryLength(d)
         IN  IF length.int > 0 /\ limit <= 0 THEN {Fail("config")}
             ELSE {IF \A i \in DOMAIN index : index[i] < Len(d)
                   THEN Ok(Chars([i \in DOMAIN index |-> d[index[i] + 1]]))
                   ELSE Fail("config") :
                      index \in [1 .. length.int -> 0 .. limit - 1]}

(* bits must be an integer: a number that comes from JSON is not.          *)
GeneratePrivateKey(type, encoding, bits, id) ==
    IF ~(IsNil(bits) \/ Is("int", bits)) THEN Fail("config")
    ELSE LET key == GenerateKey(type, encoding,
                                IF IsNil(bits) THEN 0 ELSE bits.int, id)
         IN  IF Succeeded(key) THEN Ok(Pem(key.ok)) ELSE key

(* A text that is not PEM at all. *)
NotPem == [label |-> "none", type |-> "none", bits |-> 0, id |-> 0,
           extra |-> FALSE]
Document(v) == IF Is("pem", v) THEN v.pem ELSE NotPem
Optional(v) == IF IsNil(v) THEN << >> ELSE << Document(v) >>

(* templateFunctionGenerateCertificate: the types of its arguments. *)
GenerateCertificateOf(key, usage, sans, caKey, caCert) ==
    IF \/ ~IsString(key)
       \/ ~(IsNil(caKey) \/ IsString(caKey))
       \/ ~(IsNil(caCert) \/ IsString(caCert))
    THEN Fail("config")
    ELSE LET cert == GenerateCertificate(Document(key), usage, sans,
                                         Optional(caKey), Optional(caCert))
         IN  IF Succeeded(cert) THEN Ok(Pem(cert.ok)) ELSE cert

-----------------------------------------------------------------------------
(* Rendering, in a context: the templates of the configuration, the        *)
(* registry entry, dot, and the templates that are being rendered, each    *)
(* with its dot.  site tells the calls of a generator apart.               *)

(* A template is rendered with a dot of its own. *)
Enter(ctx, name, dot) ==
    [ctx EXCEPT !.dot = dot, !.stack = Append(@, <<name, dot>>)]

GetTemplate(templates, name) == templates[name]

(* getTemplate and renderTemplate.  A template that is entered again with  *)
(* the same dot while it is rendered never ends: the stack overflows and   *)
(* the process dies.                                                       *)
RenderTemplate(name, dot, ctx) ==
    IF name \notin DOMAIN ctx.templates THEN {Fail("config")}
    ELSE LET body == GetTemplate(ctx.templates, name)
         IN  IF Is("undefined", body) THEN {Fail("config")}
             ELSE IF <<name, dot>> \in Range(ctx.stack) THEN {Overflow}
             ELSE Part(body, Enter(ctx, name, dot))

(* templateFunctionSnippetArray: the template, once for each element. *)
SnippetElements(name, s, ctx) ==
    InOrder([i \in DOMAIN s |-> RenderTemplate(name, s[i], ctx)])

SnippetArray(e, ctx) ==
    Then(Argument(e.of, ctx),
         LAMBDA v : IF e.name \notin DOMAIN ctx.templates THEN {Fail("config")}
                    ELSE IF IsNil(v) THEN {Ok(Arr(<< >>))}
                    ELSE IF ~Is("arr", v) THEN {Fail("config")}
                    ELSE SnippetElements(e.name, v.arr, ctx))

(* The arguments of list, evaluated in order. *)
Elements(args, ctx) == InOrder([i \in DOMAIN args |-> Argument(args[i], ctx)])

(* The functions of one value. *)
Filtered(e, ctx) ==
    Then(Argument(e.of, ctx),
         LAMBDA v : {CASE e.fn = "required" -> Required(v)
                       [] e.fn = "default"  -> Ok(Default(e.def, v))
                       [] OTHER             -> ChangeCase(v)})

GeneratedPassword(e, ctx) ==
    Then(Argument(e.dictionary, ctx), LAMBDA v : GeneratePassword(e.length, v))

GeneratedKey(e, ctx) ==
    Then(Argument(e.bits, ctx),
         LAMBDA v : {GeneratePrivateKey(e.type, e.encoding, v, ctx.site)})

GeneratedCertificate(e, ctx) ==
    Then(Argument(e.key, ctx), LAMBDA key :
      Then(Argument(e.caKey, ctx), LAMBDA caKey :
        Then(Argument(e.caCert, ctx), LAMBDA caCert :
          {GenerateCertificateOf(key, e.usage, e.sans, caKey, caCert)})))

(* External: the evaluation of an expression by text/template.             *)
Eval(e, ctx) ==
    CASE e.fn = "literal"             -> {Ok(e.value)}
      [] e.fn = "dot"                 -> {Ok(ctx.dot)}
      [] e.fn = "field"               -> {IF Is("map", ctx.dot)
                                          THEN Ok(Field(ctx.dot, e.key))
                                          ELSE Fail("config")}
      [] e.fn = "registry"            -> {GetUser(ctx.entry, e.key)}
      [] e.fn = "parameter"           -> {Parameter(ctx.entry, e.path, e.slash)}
      [] e.fn = "snippet"             -> RenderTemplate(e.name, Nil, ctx)
      [] e.fn = "snippetArray"        -> SnippetArray(e, ctx)
      [] e.fn = "list"                -> Elements(e.of, ctx)
      [] e.fn \in {"required", "default", "upper", "lower", "title"} ->
            Filtered(e, ctx)
      [] e.fn = "generatePetName"     -> {GeneratePetName(e.words)}
      [] e.fn = "generatePassword"    -> GeneratedPassword(e, ctx)
      [] e.fn = "generatePrivateKey"  -> GeneratedKey(e, ctx)
      [] e.fn = "generateCertificate" -> GeneratedCertificate(e, ctx)

-----------------------------------------------------------------------------
(* External: an integer of a template becomes a JSON number when it is     *)
(* encoded and decoded again; all else keeps its type.                     *)
Jsonify(v) == IF Is("int", v) THEN Num(v.int)
              ELSE IF Is("arr", v)
              THEN Arr([i \in DOMAIN v.arr |->
                          IF Is("int", v.arr[i]) THEN Num(v.arr[i].int)
                                                 ELSE v.arr[i]])
              ELSE v

(* What renderTemplateString makes of the outcome of a template. *)
Wrapped(o) == IF Succeeded(o) THEN Ok(Jsonify(o.ok))
              ELSE IF o = Overflow THEN o ELSE Fail("config")

(* renderTemplateString: a parse error is returned as it is. *)
RenderTemplateString(v, ctx) ==
    CASE Is("malformed", v) -> {Fail("config")}
      [] Is("expr", v) /\ v.expr.fn = "unparsable" -> {Fail("internal")}
      [] Is("expr", v) /\ v.expr.fn # "unparsable" ->
            {Wrapped(o) : o \in Eval(v.expr, ctx)}
      [] OTHER -> {Ok(v)}

(* Mutant: the loop goes on after an attribute that is unset, and leaves   *)
(* it in place.                                                            *)
RenderMapKeepsNil(f, ctx) ==
    LET outs == [k \in DOMAIN f |-> Part(f[k], ctx)]
    IN  {Ok(Map(g)) : g \in Picks([k \in DOMAIN f |-> Successes(outs[k])])}
        \cup UNION {Failures(outs[k]) : k \in DOMAIN f}

(* The loop over a map.  A value that renders to nil removes its attribute *)
(* and ends the loop, at which any of the others may have been visited.    *)
RenderMap(f, ctx) ==
    LET outs == [k \in DOMAIN f |-> Part(f[k], ctx)]
        Visited(D) == Picks([k \in D |-> {v \in Successes(outs[k]) : ~IsNil(v)}])
        Without(k) == UNION {{Ok(Map(g @@ Restrict(f, DOMAIN f \ {k}))) :
                                g \in Visited(D)} : D \in SUBSET (DOMAIN f \ {k})}
    IN  {Ok(Map(g)) : g \in Visited(DOMAIN f)}
        \cup UNION {Failures(outs[k]) : k \in DOMAIN f}
        \cup UNION {Without(k) : k \in {j \in DOMAIN f :
                                         \E v \in Successes(outs[j]) : IsNil(v)}}

RenderArray(s, ctx) == InOrder([i \in DOMAIN s |-> Part(s[i], ctx)])

(* recurseRenderTemplate. *)
Recurse(v, ctx) ==
    CASE Is("map", v) -> RenderMap(v.map, ctx)
      [] Is("arr", v) -> RenderArray(v.arr, ctx)
      [] OTHER        -> RenderTemplateString(v, ctx)
=============================================================================
