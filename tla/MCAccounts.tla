----------------------------- MODULE MCAccounts -----------------------------
(***************************************************************************)
(* A small instance of Accounts for TLC.                                   *)
(***************************************************************************)
EXTENDS Accounts, TLC

CONSTANTS c1, c2, c3, r1, r2, k1, k2, admin, alice, pw1, pw2, x, y, z

MCItems == {<<x, y>>, <<x, z>>}

MCRegistrations == {<<alice, pw2>>}

Setting(mode, secret, set, tls) ==
    [environment |-> TRUE, files |-> TRUE, tls |-> tls, mode |-> mode,
     secret |-> secret, set |-> set]

Good == {Setting("token", k1, {}, TRUE), Setting("basic", k1, {}, TRUE),
         Setting("advancedToken", k1, {}, TRUE),
         Setting("advancedToken", k1, Fields, TRUE),
         Setting("advancedToken", k2, Fields, TRUE)}

(* What start-up refuses, and a certificate that is missing. *)
Bad == {Setting("advancedToken", None, Fields, TRUE),
        Setting("advancedToken", k1, Fields \ {"host"}, TRUE),
        Setting("advancedToken", k1, {"port"}, TRUE),
        Setting("advancedToken", k1, Fields, FALSE),
        [Setting("token", k1, {}, TRUE) EXCEPT !.files = FALSE],
        [Setting("basic", k1, {}, TRUE) EXCEPT !.environment = FALSE]}

MCSettings == Good \cup Bad

Static == {<<[scheme |-> s, credential |-> c]>> : s \in {"Bearer", "bearer", "Basic"},
                                                  c \in {None, k1}}

V(a, b) == <<[major |-> a, minor |-> b]>>

(* A request without fault, but for its credentials. *)
Proper(path) ==
    [path |-> path, auth |-> << >>, version |-> V(2, 13),
     contentType |-> <<"json">>, body |-> "json",
     user |-> None, password |-> None, item |-> None]

Logins ==
    {[Proper("login") EXCEPT !.user = a[1], !.password = a[2]] :
        a \in {<<admin, pw1>>, <<admin, pw2>>, <<alice, pw2>>}}
    \cup {Proper("login")}

Creates ==
    {[Proper("create") EXCEPT !.auth = a, !.item = i] : a \in Static, i \in MCItems}
    \cup {[Proper("create") EXCEPT !.auth = a, !.body = "malformed"] : a \in Static}

(* Headers at fault, and paths that are not checked. *)
Known == <<[scheme |-> "Bearer", credential |-> k1]>>
Others ==
    {[Proper("create") EXCEPT !.auth = a, !.item = i] :
        a \in {<< >>, Known \o Known}, i \in MCItems}
    \cup {[Proper("create") EXCEPT !.auth = Known, !.version = v, !.item = i] :
            v \in {<< >>, <<None>>, V(2, 9), V(2, 12)}, i \in MCItems}
    \cup {[Proper("create") EXCEPT !.auth = Known, !.contentType = t, !.body = None] :
            t \in {<< >>, <<"text">>}}
    \cup {[Proper("create") EXCEPT !.auth = Known, !.contentType = t, !.item = i] :
            t \in {<< >>, <<"text">>}, i \in MCItems}
    \cup {[Proper("other") EXCEPT !.auth = Known],
          Proper("readyz"), Proper("register")}

MCInputs == Logins \cup Creates \cup Others

Interchangeable == Permutations(Conns) \cup Permutations(Requests)
                     \cup Permutations({y, z})
=============================================================================
