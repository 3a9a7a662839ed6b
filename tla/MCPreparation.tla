--------------------------- MODULE MCPreparation ---------------------------
(***************************************************************************)
(* Small instances of Preparation for TLC: three families of               *)
(* configurations and the few with two attributes that are nil, and        *)
(* requests with and without parameters.                                   *)
(***************************************************************************)
EXTENDS RenderedObjects

CONSTANTS p1, p2

(* The language recurses: an argument is evaluated as any expression is,   *)
(* a part of a template rendered as a template.  (TLC's coverage does not  *)
(* follow a substitution into a LET: it would not end.)                    *)
MCArgument(e, ctx) == LET outcomes == Eval(e, ctx) IN outcomes
MCPart(v, ctx) == LET outcomes == Recurse(v, ctx) IN outcomes

L(registry, templates, steps) ==
    [registry |-> registry, templates |-> templates, steps |-> steps]

B(plan, instance, binding) ==
    [plan |-> plan, serviceInstance |-> instance, serviceBinding |-> binding]

Registry(key) == Expr([fn |-> "registry", key |-> key])
Param(path) == [fn |-> "parameter", path |-> path, slash |-> TRUE]
Literal(v) == [fn |-> "literal", value |-> v]

-----------------------------------------------------------------------------
(* Structure: two plans, with bindings, lists and templates there or not.  *)

Fixed == Map([a |-> Str("a")])
Item == <<"user", Str("x")>>

FlatLists == {L(r, ts, None) : r \in {<< >>, <<Item>>}, ts \in {<< >>, <<"t1">>}}
StepLists == {L(r, << >>, << <<"t1">> >>) : r \in {<< >>, <<Item>>}}
Bindings == {B(p, i, b) : p \in Plans, i \in FlatLists \cup StepLists,
                          b \in FlatLists \cup {None}}

(* After a first binding: of the same plan or of the other. *)
SecondBindings == {B(p, i, b) : p \in Plans,
                                i \in {L(<<Item>>, <<"t1">>, None)} \cup StepLists,
                                b \in {None, L(<< >>, <<"t1">>, None)}}

Structures ==
    {[bindable |-> bindable, planBindable |-> [p \in Plans |-> IF p = p1 THEN None ELSE over],
      bindings |-> bs, templates |-> [t \in ts |-> Fixed]] :
        bindable \in BOOLEAN, over \in {TRUE, FALSE},
        bs \in {<< >>} \cup {<<b>> : b \in Bindings}
                 \cup (Bindings \X SecondBindings),
        ts \in {{}, {"t1"}}}

-----------------------------------------------------------------------------
(* Templates: one plan of use, its templates with two attributes each and  *)
(* a snippet, which may be missing or refer back.                          *)

One(registry, bind, templates, bodies) ==
    [bindable |-> TRUE, planBindable |-> [p \in Plans |-> None],
     bindings |-> <<B(p1, L(registry, templates, None), L(bind, << >>, None)),
                    B(p2, L(<<Item>>, << >>, None), L(<<Item>>, << >>, None))>>,
     templates |-> bodies]

Snip == Expr([fn |-> "snippet", name |-> "s"])
SnipArray(of) == Expr([fn |-> "snippetArray", name |-> "s", of |-> of])

Leaves ==
    {Str("x"), Registry("instance-id"), Registry("context"),
     Expr(Param(<<"size">>)), Expr([fn |-> "parameter", path |-> <<"size">>, slash |-> FALSE]),
     Expr([fn |-> "required", of |-> Param(<<"size">>)]),
     Expr([fn |-> "default", def |-> Whole(3), of |-> Param(<<"size">>)]),
     Expr([fn |-> "list", of |-> <<Param(<<"size">>), Literal(Whole(1))>>]),
     Expr([fn |-> "list", of |-> <<Snip.expr>>]),
     Expr([fn |-> "upper", of |-> Param(<<"size">>)]),
     Expr([fn |-> "generatePetName", words |-> Whole(2)]),
     Expr([fn |-> "unparsable"]), BadTemplate,
     Arr(<<Expr(Param(<<"size">>)), Snip>>),
     Map([c |-> Registry("instance-id")]),
     Snip, SnipArray(Param(<<"ports">>))}

Snippets ==
    {Fixed, Map([n |-> Expr([fn |-> "field", key |-> "name"]), m |-> Str("m")]),
     Map([n |-> Expr([fn |-> "dot"]), m |-> Expr([fn |-> "snippet", name |-> "u"])]),
     Map([n |-> Expr(Param(<<"size">>)), m |-> Registry("instance-id")]),
     Map([n |-> Expr([fn |-> "snippet", name |-> "t1"]), m |-> Expr(Param(<<"size">>))]),
     [undefined |-> TRUE]}

Renderings ==
    {One(<< >>, <<Item>>, <<"t1">>, [t \in {"t1", "s", "u"} |->
            CASE t = "t1" -> Map([a |-> x, b |-> y])
              [] t = "s"  -> s
              [] t = "u"  -> Map([d |-> Expr([fn |-> "dot"]), e |-> Str("e")])]) :
        x \in Leaves, y \in Leaves, s \in Snippets}
    \cup {One(<< >>, <<Item>>, <<"t1">>, [t \in {"t1"} |-> Map([a |-> Snip])])}

-----------------------------------------------------------------------------
(* Registry definitions: chains of keys, keys of all policies, generators. *)

Pets(n) == Expr([fn |-> "generatePetName", words |-> Whole(n)])
Password(d) == Expr([fn |-> "generatePassword", length |-> Whole(2), dictionary |-> Literal(d)])
Key(type, encoding, bits) ==
    Expr([fn |-> "generatePrivateKey", type |-> type, encoding |-> encoding, bits |-> bits])
Cert(key, usage, sans, caKey, caCert) ==
    Expr([fn |-> "generateCertificate", usage |-> usage, sans |-> sans,
          key |-> Registry(key).expr,
          caKey |-> IF caKey = "" THEN Literal(Nil) ELSE Registry(caKey).expr,
          caCert |-> IF caCert = "" THEN Literal(Nil) ELSE Registry(caCert).expr])

Values == {Str("x"), Registry("user"), Registry("context"), Registry("absent"),
           Expr(Param(<< >>)), Snip, Pets(0), Pets(2),
           Password(Nil), Password(Chars(<<"0", "1">>)), Password(Chars(<<"0">>)), Password(Num(5))}
Keys == {"user", "dashboard-url", "binding-id", "instance-id", "parameters"}

(* The encodings by the names of the code, by one of the manual's, and by  *)
(* one of neither; sizes that RSA refuses and that it takes.               *)
EncodedKeys ==
    {Key(t, e, b) : t \in {"RSA", "EllipticP256", "ED25519", "DSA"},
                    e \in DOMAIN Label \cup {"PKCS8", "DER"},
                    b \in {Literal(Nil), Literal(Whole(8)), Literal(Whole(2048)),
                           Param(<<"size">>)}}

(* A certificate and the one that issues it, which need not be a CA's.  An *)
(* RSA key of 64 bits can be generated but signs nothing.                  *)
Chains ==
    {<< <<"ca-key", Key("EllipticP256", KeyEncodingSEC1, Literal(Nil))>>,
        <<"ca", Cert("ca-key", caUsage, << >>, "", "")>>,
        <<"key", k>>,
        <<"cert", Cert("key", usage, sans, caKey, caCert)>> >> :
        caUsage \in {"CA", "Server"},
        k \in {Key("RSA", KeyEncodingPKCS1, Literal(Whole(2048))),
               Key("RSA", KeyEncodingPKCS1, Literal(Whole(64))),
               Key("ED25519", KeyEncodingPKCS8, Literal(Nil))},
        usage \in {"Server", "Client", "Peer"},
        sans \in {<< >>, << <<"DNS", "localhost">> >>, << <<"localhost">> >>},
        caKey \in {"", "ca-key", "key", "ca"}, caCert \in {"", "ca", "ca-key"}}

(* What a bind defines on top of a chain: another certificate of the same  *)
(* CA, or another certificate for the CA and one more that it signs; or    *)
(* the key that has the binding's own ID.                                  *)
Rebinds ==
    {<<Item>>, << <<"binding-id", Str("x")>> >>,
     << <<"peer-key", Key("EllipticP256", KeyEncodingPKCS8, Literal(Nil))>>,
        <<"peer", Cert("peer-key", "Client", << >>, "ca-key", "ca")>> >>,
     << <<"ca", Cert("key", "CA", << >>, "", "")>>,
        <<"peer", Cert("key", "Client", << >>, "key", "ca")>> >>}

Shown == [t \in {"t1"} |-> Map([a |-> Registry("user")])]

Definitions ==
    {One(items, <<Item>>, <<"t1">>, Shown) :
        items \in {<<i, j>> : i, j \in Keys \X Values}
                  \cup {<< <<"user", k>> >> : k \in EncodedKeys}}
    \cup {One(items, bind, <<"t1">>, Shown) : items \in Chains, bind \in Rebinds}

-----------------------------------------------------------------------------
(* Two attributes that are nil unless the request has parameters.          *)

NilConfigs ==
    {One(<< >>, <<Item>>, <<"t1">>, [t \in {"t1"} |-> Map([a |-> x, b |-> y, c |-> z])]) :
        x, y \in {Str("x"), Expr(Param(<<"size">>))},
        z \in {Expr(Param(<<"ports">>)), Expr(Param(<<"size">>))}}

-----------------------------------------------------------------------------
MCConfigs == Structures \cup Renderings \cup Definitions

(* No parameters at all, some, and all; numbers are JSON numbers. *)
MCParams == {Nil, Map([size |-> Num(1)]),
             Map([size |-> Str("L"),
                  ports |-> Arr(<<Map([name |-> Str("http")]), Str("https")>>)])}
=============================================================================
