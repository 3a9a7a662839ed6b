-------------------------- MODULE RenderedObjects --------------------------
(***************************************************************************)
(* What Preparation renders, against what the documentation says a         *)
(* template stands for.                                                    *)
(***************************************************************************)
EXTENDS Preparation

(* The arguments of a function that are expressions themselves. *)
Arguments(e) ==
    CASE e.fn \in {"required", "default", "upper", "lower", "title",
                   "snippetArray"}      -> {e.of}
      [] e.fn = "list"                -> Range(e.of)
      [] e.fn = "generatePassword"    -> {e.dictionary}
      [] e.fn = "generatePrivateKey"  -> {e.bits}
      [] e.fn = "generateCertificate" -> {e.key, e.caKey, e.caCert}
      [] OTHER                        -> {}

(* The snippets a value refers to, also in the arguments of functions. *)
RECURSIVE Refers(_)
Refers(v) ==
    CASE Is("map", v) -> UNION {Refers(v.map[k]) : k \in DOMAIN v.map}
      [] Is("arr", v) -> UNION {Refers(v.arr[i]) : i \in DOMAIN v.arr}
      [] Is("expr", v) ->
            (IF v.expr.fn \in {"snippet", "snippetArray"} THEN {v.expr.name} ELSE {})
            \cup UNION {Refers(Expr(a)) : a \in Arguments(v.expr)}
      [] OTHER -> {}

(* The templates reached from a set of names. *)
RECURSIVE Reached(_)
Reached(names) ==
    LET more == names \cup UNION {Refers(cfg.templates[n]) :
                                    n \in names \cap DOMAIN cfg.templates}
    IN  IF more = names THEN names ELSE Reached(more)

Cyclic == \E n \in DOMAIN cfg.templates :
             n \in Reached(Refers(cfg.templates[n]))

(* An expression has one value, unless it is in error. *)
Failed == [failed |-> TRUE]
Value(v, ctx) == LET o == CHOOSE o \in RenderTemplateString(v, ctx) : TRUE
                 IN  IF Succeeded(o) THEN o.ok ELSE Failed

(* The values over which a snippet is repeated. *)
Repeated(e, ctx) == LET v == Value(Expr(e.of), ctx)
                    IN  IF Is("arr", v) THEN v.arr ELSE << >>

Body(name) == IF name \in DOMAIN cfg.templates THEN cfg.templates[name] ELSE Failed

(* An attribute may be as it is written, but only if another of the same   *)
(* map was left out.                                                       *)
LeftRaw(k, v, out) == DOMAIN out.map # DOMAIN v.map /\ out.map[k] = v.map[k]

(* Out is what template v renders to: every attribute has its value, those *)
(* that are nil are left out, arrays keep their length, snippets do not    *)
(* see the dot of their user.  With raw, attributes may be left raw.       *)
RECURSIVE Renders(_, _, _, _)
Renders(v, out, ctx, raw) ==
    CASE Is("map", v) ->
            /\ Is("map", out) /\ DOMAIN out.map \subseteq DOMAIN v.map
            /\ \A k \in DOMAIN v.map \ DOMAIN out.map :
                  Renders(v.map[k], Nil, ctx, raw)
            /\ \A k \in DOMAIN out.map :
                  \/ ~IsNil(out.map[k]) /\ Renders(v.map[k], out.map[k], ctx, raw)
                  \/ raw /\ LeftRaw(k, v, out)
      [] Is("arr", v) ->
            /\ Is("arr", out) /\ Len(out.arr) = Len(v.arr)
            /\ \A i \in DOMAIN v.arr : Renders(v.arr[i], out.arr[i], ctx, raw)
      [] Is("expr", v) /\ v.expr.fn = "snippet" ->
            Renders(Body(v.expr.name), out, [ctx EXCEPT !.dot = Nil], raw)
      [] Is("expr", v) /\ v.expr.fn = "snippetArray" ->
            LET s == Repeated(v.expr, ctx)
            IN  /\ Is("arr", out) /\ Len(out.arr) = Len(s)
                /\ \A i \in DOMAIN s :
                      Renders(Body(v.expr.name), out.arr[i],
                              [ctx EXCEPT !.dot = s[i]], raw)
      [] Is("expr", v) /\ v.expr.fn = "list" ->
            /\ Is("arr", out) /\ Len(out.arr) = Len(v.expr.of)
            /\ \A i \in DOMAIN v.expr.of :
                  Renders(Expr(v.expr.of[i]), out.arr[i], ctx, raw)
      [] OTHER -> out = Value(v, ctx)

(* All that was rendered, of templates that do not refer to each other in  *)
(* a circle: those may end by chance.                                      *)
AllRender(raw) ==
    Ended /\ ~Cyclic => \A i \in DOMAIN outcome.rendered :
        Renders(cfg.templates[outcome.rendered[i][1]], outcome.rendered[i][2],
                ContextOf(outcome.entry, <<outcome.type, i>>), raw)

(* A value occurs in another. *)
RECURSIVE Occurs(_, _)
Occurs(x, v) ==
    \/ x = v
    \/ Is("map", v) /\ \E k \in DOMAIN v.map : Occurs(x, v.map[k])
    \/ Is("arr", v) /\ \E i \in DOMAIN v.arr : Occurs(x, v.arr[i])

-----------------------------------------------------------------------------
(* Whatever order the attributes of maps are visited in, the object that   *)
(* is handed to Kubernetes is the template with every dynamic attribute,   *)
(* also those of its snippets, replaced by its value; where an attribute   *)
(* of a map is nil and removed, the others may also be as they are         *)
(* written, for the loop ends there, but never something else.  And what   *)
(* registry.adoc says cannot be read, the context of a request, gets into  *)
(* no object and under no other key.                                       *)
RenderedUnlessNil ==
    /\ AllRender(TRUE)
    /\ Ended => \A i \in DOMAIN outcome.rendered :
          ~Occurs(Context, outcome.rendered[i][2])
    /\ \A t \in Types : \A k \in DOMAIN stored[t] \ {"context"} :
          ~Occurs(Context, stored[t][k])

(* dynamic-attributes.adoc, templates.adoc: every dynamic attribute is     *)
(* replaced by its value, and removed if that is null.                     *)
RenderedAsDocumented == AllRender(FALSE)
=============================================================================
