------------------------------ MODULE Accounts ------------------------------
(***************************************************************************)
(* Who may use the broker: its start-up (cmd/broker/main.go), the header   *)
(* checks (pkg/broker/broker.go), login and the purchase check (handlers). *)
(*                                                                         *)
(* In the mode advancedToken accounts and purchases are rows of an SQL     *)
(* database, reached through the connection pool of database/sql.  The     *)
(* Postgres server is one database for all connections and for others who  *)
(* write to it.  Of SQLite's :memory: every connection is a new database.  *)
(***************************************************************************)
EXTENDS Naturals, Sequences, FiniteSets

CONSTANTS
    None,        \* an empty file, a NULL, nothing
    Server,      \* the Postgres database
    Conns,       \* connections; Postgres accepts no more at a time
    Requests,    \* request goroutines
    Settings,    \* the environments the broker may be started in
    Users, Passwords, Admin, AdminPassword,
    Registrations,  \* users with passwords that others register
    Items,       \* services with a plan, as pairs
    Inputs,      \* HTTP requests, but for a token that login gave
    MaxIdle,     \* idle connections that database/sql keeps
    MaxStarts,   \* bound: starts of the process
    MaxRows,     \* bound: rows of users
    MaxSales     \* bound: rows of bought_services

(* No request finds the pool empty unless connections have been lost.      *)
ASSUME ConnsAssumption ==
    /\ Server \notin Conns
    /\ IsFiniteSet(Conns) /\ IsFiniteSet(Requests)
    /\ Cardinality(Requests) < Cardinality(Conns)

ASSUME AccountAssumption ==
    /\ Admin \in Users /\ AdminPassword \in Passwords
    /\ Registrations \subseteq Users \X Passwords
    /\ None \notin Users \cup Passwords \cup Conns

ASSUME BoundAssumption ==
    /\ MaxIdle \in Nat \ {0} /\ MaxStarts \in Nat
    /\ MaxRows \in Nat /\ MaxSales \in Nat

Modes == {"token", "basic", "advancedToken"}
Fields == {"host", "port", "user", "password", "name"}

(* environment: NAMESPACE is set.  files: those of the mode exist.  tls:   *)
(* so do the key and the certificate.  set: the database settings that are *)
(* not empty.                                                              *)
ASSUME SettingsAssumption ==
    \A s \in Settings :
        /\ s.environment \in BOOLEAN /\ s.files \in BOOLEAN
        /\ s.tls \in BOOLEAN /\ s.mode \in Modes /\ s.set \subseteq Fields

Secrets == {s.secret : s \in Settings} \ {None}

(* A JWT that the broker signed. *)
Token == [user : Users, secret : Secrets]

(* SHA-256, which no two of the passwords share. *)
Hash(p) == [sha256 |-> p]

(* Rows of users.  SERIAL numbers them in Postgres; in SQLite the column   *)
(* has no default, and the id is NULL.                                     *)
Row == [id : (1 .. MaxRows) \cup {None}, name : Users,
        hash : {Hash(p) : p \in Passwords}]
Account == ((1 .. MaxRows) \cup {None}) \X Users
Database == [tables : SUBSET {"users", "bought_services"},
             users : SUBSET Row,
             bought : SUBSET [user : (1 .. MaxRows) \cup {None}, item : Items]]
NoDatabase == [tables |-> {}, users |-> {}, bought |-> {}]

(* HTTP status codes; 0 is a connection closed without an answer. *)
Dropped == 0
Replies == {200, 400, 401, 404, 412, 500, Dropped}
Paths == {"readyz", "login", "register", "create", "other"}

Request == [pc : {"free", "query", "run", "rows", "done"}, path : Paths,
            user : Users \cup {None}, password : Passwords \cup {None},
            item : Items \cup {None}, conn : Conns \cup {None},
            rows : SUBSET (Account \cup Items), reply : Replies \cup {None}]
Free == [pc |-> "free", path |-> "other", user |-> None, password |-> None,
         item |-> None, conn |-> None, rows |-> {}, reply |-> None]

(* Clients cannot sign: the tokens they have are those they were given. *)
ASSUME InputAssumption ==
    \A q \in Inputs :
        /\ q.path \in Paths
        /\ q.user \in Users \cup {None} /\ q.password \in Passwords \cup {None}
        /\ q.item \in Items \cup {None}
        /\ \A i \in DOMAIN q.auth : q.auth[i].credential \notin Token

VARIABLES
    settings,  \* those of the process
    boot,      \* where main is; "up" once it serves
    data,      \* the databases: the server's, and one per connection
    idle,      \* connections in the pool that nobody uses
    used,      \* connections in use
    overlap,   \* two requests have queried at a time
    logins,    \* logins of this process that gave a token
    request,
    tokens,    \* those that clients hold
    starts

vars == <<settings, boot, data, idle, used, overlap, logins, request, tokens,
          starts>>
pool == <<data, idle, used, overlap, logins>>

(* The shape of the whole state. *)
TypeOK ==
    /\ settings \in Settings
    /\ boot \in {"off", "users", "bought_services", "admin", "tls", "up"}
    /\ data \in [Conns \cup {Server} -> Database]
    /\ idle \subseteq Conns /\ used \subseteq Conns
    /\ overlap \in BOOLEAN /\ logins \in Nat
    /\ request \in [Requests -> Request]
    /\ tokens \subseteq Token
    /\ starts \in 0 .. MaxStarts

Init ==
    /\ settings \in Settings
    /\ boot = "off"
    /\ data = [d \in Conns \cup {Server} |-> NoDatabase]
    /\ idle = {} /\ used = {} /\ overlap = FALSE /\ logins = 0
    /\ request = [r \in Requests |-> Free]
    /\ tokens = {}
    /\ starts = 0

-----------------------------------------------------------------------------
(* The connection pool (database/sql).                                     *)

InMemory == settings.set = {}
Store(c) == IF InMemory THEN c ELSE Server

(* A connection is taken from the pool, or a new one is opened.  One that  *)
(* is given back is closed if enough are idle; its :memory: goes with it.  *)
Available == IF idle # {} THEN idle ELSE Conns \ used
Busy == {r \in Requests : request[r].pc \in {"run", "rows"}}

Take(c) ==
    /\ idle' = idle \ {c}
    /\ used' = used \cup {c}
    /\ overlap' = (overlap \/ Busy # {})

Release(c) ==
    /\ used' = used \ {c}
    /\ IF Cardinality(idle) < MaxIdle
       THEN idle' = idle \cup {c} /\ UNCHANGED data
       ELSE idle' = idle /\ data' = [data EXCEPT ![c] = NoDatabase]

-----------------------------------------------------------------------------
(* Start-up.                                                               *)

SettingsRefused(s) ==
    \/ ~s.environment \/ ~s.files
    \/ /\ s.mode = "advancedToken"
       /\ \/ s.secret = None
          \/ /\ ~({"host", "port"} \subseteq s.set)
             /\ {"user", "password", "name"} \cap s.set # {}
          \/ s.set # {} /\ s.set # Fields

(* main reads its flags and files, which may have changed since the last   *)
(* start.                                                                  *)
Start ==
    /\ boot = "off"
    /\ starts < MaxStarts
    /\ starts' = starts + 1
    /\ settings' \in Settings
    /\ boot' = IF SettingsRefused(settings') THEN "off"
               ELSE IF settings'.mode = "advancedToken" THEN "users" ELSE "tls"
    /\ UNCHANGED <<pool, request, tokens>>

Serial(rows) == IF InMemory THEN None ELSE Cardinality(rows) + 1

(* The effect of the statement that boot names.  ON CONFLICT DO NOTHING:   *)
(* but no column of users is unique, apart from the id.                    *)
Executed(d) ==
    CASE boot = "admin" ->
           [d EXCEPT !.users = @ \cup {[id |-> Serial(@), name |-> Admin,
                                        hash |-> Hash(AdminPassword)]}]
      [] OTHER -> [d EXCEPT !.tables = @ \cup {boot}]

(* Mutant: the second table is forgotten. *)
AfterBootSkips == [b \in {"users", "bought_services", "admin"} |->
                     IF b = "users" THEN "admin" ELSE "tls"]

AfterBoot == [b \in {"users", "bought_services", "admin"} |->
                CASE b = "users"           -> "bought_services"
                  [] b = "bought_services" -> "admin"
                  [] OTHER                 -> "tls"]

(* db.Exec of the next statement, which gives its connection back. *)
Exec ==
    /\ boot \in DOMAIN AfterBoot
    /\ boot = "admin" /\ ~InMemory => Cardinality(data[Server].users) < MaxRows
    /\ \E c \in Available :
          /\ data' = [data EXCEPT ![Store(c)] = Executed(@)]
          /\ idle' = idle \cup {c}
    /\ boot' = AfterBoot[boot]
    /\ UNCHANGED <<settings, used, overlap, logins, request, tokens, starts>>

Listen ==
    /\ boot = "tls"
    /\ settings.tls
    /\ boot' = "up"
    /\ UNCHANGED <<settings, pool, request, tokens, starts>>

(* The process ends: a statement of start-up failed, a certificate or the  *)
(* clients could not be had, or it crashed.  Connections are gone, and     *)
(* with them what was in memory.                                           *)
Exit ==
    /\ boot # "off"
    /\ boot' = "off"
    /\ data' = [d \in Conns \cup {Server} |->
                  IF d = Server THEN data[d] ELSE NoDatabase]
    /\ idle' = {} /\ used' = {} /\ overlap' = FALSE /\ logins' = 0
    /\ request' = [r \in Requests |-> Free]
    /\ UNCHANGED <<settings, tokens, starts>>

(* External: others register users, of names not in use, and sell items.   *)
OthersWrite ==
    /\ LET d == data[Server]
       IN  \/ /\ "users" \in d.tables
              /\ Cardinality(d.users) < MaxRows
              /\ \E a \in Registrations :
                    /\ \A u \in d.users : u.name # a[1]
                    /\ data' = [data EXCEPT ![Server].users = @ \cup
                                  {[id |-> Cardinality(@) + 1, name |-> a[1],
                                    hash |-> Hash(a[2])]}]
           \/ /\ "bought_services" \in d.tables
              /\ Cardinality(d.bought) < MaxSales
              /\ \E u \in d.users, i \in Items :
                    data' = [data EXCEPT ![Server].bought = @ \cup
                               {[user |-> u.id, item |-> i]}]
    /\ UNCHANGED <<settings, boot, idle, used, overlap, logins, request, tokens,
                   starts>>

-----------------------------------------------------------------------------
(* The checks before a request is routed.  What a header holds is a        *)
(* sequence of values; a value of Authorization is a scheme and what       *)
(* follows it.  A check returns 200 or the status to refuse with.          *)

Single(header) == Len(header) = 1

(* handleBrokerBearerToken and handleBrokerBasicAuth compare the value     *)
(* with the configured one.  handleJwtAuth wants a token that was signed   *)
(* with the secret.                                                        *)
Expected == [scheme |-> IF settings.mode = "token" THEN "Bearer" ELSE "Basic",
             credential |-> settings.secret]

IsBearer(value) == value.scheme \in {"Bearer", "bearer"}

Authenticate(auth) ==
    IF ~Single(auth) THEN 401
    ELSE IF settings.mode # "advancedToken"
    THEN IF auth[1] = Expected THEN 200 ELSE 401
    ELSE IF /\ IsBearer(auth[1])
            /\ auth[1].credential \in Token
            /\ auth[1].credential.secret = settings.secret
         THEN 200 ELSE 400

(* The version is read as a decimal fraction, here in hundredths, so 2.9   *)
(* is greater than 2.13.                                                   *)
MinVersion == 213
Hundredths(v) == 100 * v.major + (IF v.minor < 10 THEN 10 * v.minor ELSE v.minor)

APIVersion(version) ==
    IF ~Single(version) \/ version[1] = None THEN 400
    ELSE IF Hundredths(version[1]) < MinVersion THEN 412 ELSE 200

ContentType(q) == IF q.body = None \/ q.contentType = <<"json">>
                  THEN 200 ELSE 400

HandleRequestHeaders(q, auth) ==
    IF Authenticate(auth) # 200 THEN Authenticate(auth)
    ELSE IF APIVersion(q.version) # 200 THEN APIVersion(q.version)
    ELSE ContentType(q)

-----------------------------------------------------------------------------
(* What handlers answer before they query the database; 200 if they do.    *)

(* translateError. *)
Status(error) == IF error = "parameter" THEN 400 ELSE 500

(* handleLogin.  The database of another mode is a nil pointer: the        *)
(* handler panics, and net/http closes the connection without an answer.   *)
Login(q) ==
    IF q.body # "json" \/ q.user = None \/ q.password = None
    THEN Status("parameter")
    ELSE IF settings.mode # "advancedToken" THEN Dropped ELSE 200

(* handleCreateServiceInstance as far as authorize, which takes the mode   *)
(* for granted.                                                            *)
Authorize(q, auth) ==
    IF q.body # "json" THEN Status("parameter")
    ELSE IF ~IsBearer(auth[1]) THEN Status("malformed")
    ELSE IF settings.mode # "advancedToken" THEN Dropped ELSE 200

(* The reply to a request; what the request asked is kept if it was granted.*)
Answered(r, status) ==
    IF status = 200
    THEN [request[r] EXCEPT !.pc = "done", !.reply = 200, !.conn = None,
                            !.rows = {}]
    ELSE [Free EXCEPT !.pc = "done", !.reply = status, !.path = request[r].path]

(* ServeHTTP: three paths skip the checks; one of them has no handler.     *)
(* Two answers that need no query are left to other modules: the 503 of a  *)
(* broker without a configuration, before all this, to Configuration, and  *)
(* the 422 to a create that cannot be asynchronous, before Authorize, to   *)
(* ServiceInstance.                                                        *)
Route(q, auth) ==
    CASE q.path = "readyz"   -> 200
      [] q.path = "register" -> 404
      [] q.path = "login"    -> Login(q)
      [] OTHER -> IF HandleRequestHeaders(q, auth) # 200 \/ q.path # "create"
                  THEN HandleRequestHeaders(q, auth) ELSE Authorize(q, auth)

Queries(q, status) == status = 200 /\ q.path \in {"login", "create"}

(* Clients may also use any token that they were given. *)
Authorizations(q) == {q.auth} \cup
    {<<[scheme |-> "Bearer", credential |-> t]>> : t \in tokens}

(* What a request is after all that is done before it queries. *)
Received(r, q, auth) ==
    IF Queries(q, Route(q, auth))
    THEN [request[r] EXCEPT
            !.pc = "query", !.path = q.path, !.item = q.item,
            !.user = IF q.path = "login" THEN q.user
                     ELSE auth[1].credential.user,
            !.password = q.password]
    ELSE [Free EXCEPT !.pc = "done", !.path = q.path,
                      !.reply = Route(q, auth)]

Receive(r) ==
    /\ boot = "up"
    /\ request[r].pc = "free"
    /\ \E q \in Inputs : \E auth \in Authorizations(q) :
          request' = [request EXCEPT ![r] = Received(r, q, auth)]
    /\ UNCHANGED <<settings, boot, pool, tokens, starts>>

-----------------------------------------------------------------------------
(* The queries.                                                            *)

(* db.Query gets a connection; the server refuses one too many.            *)
Connect(r) ==
    /\ request[r].pc = "query"
    /\ \/ \E c \in Available :
             /\ Take(c)
             /\ request' = [request EXCEPT ![r] = [@ EXCEPT !.pc = "run",
                                                            !.conn = c]]
       \/ /\ Available = {}
          /\ request' = [request EXCEPT ![r] = Answered(r, Status("sql"))]
          /\ UNCHANGED <<idle, used, overlap>>
    /\ UNCHANGED <<settings, boot, data, logins, tokens, starts>>

Wanted(r) == IF request[r].path = "login" THEN {"users"}
             ELSE {"users", "bought_services"}

(* Mutant: any password will do. *)
SelectedByName(r, d) ==
    IF request[r].path = "login"
    THEN {<<u.id, u.name>> : u \in {w \in d.users : w.name = request[r].user}}
    ELSE {b.item : b \in {x \in d.bought :
            \E u \in d.users : u.name = request[r].user /\ u.id = x.user}}

(* The rows that the statement of the handler selects. *)
Selected(r, d) ==
    IF request[r].path = "login"
    THEN {<<u.id, u.name>> : u \in {w \in d.users :
            w.name = request[r].user /\ w.hash = Hash(request[r].password)}}
    ELSE {b.item : b \in {x \in d.bought :
            \E u \in d.users : u.name = request[r].user /\ u.id = x.user}}

(* It runs, or there is no such table, and Query gives the connection back.*)
RunQuery(r) ==
    /\ request[r].pc = "run"
    /\ LET c == request[r].conn
           d == data[Store(c)]
       IN  IF Wanted(r) \subseteq d.tables
           THEN /\ request' = [request EXCEPT ![r] = [@ EXCEPT
                                 !.pc = "rows", !.rows = Selected(r, d)]]
                /\ UNCHANGED <<data, idle, used>>
           ELSE /\ Release(c)
                /\ request' = [request EXCEPT ![r] = Answered(r, Status("sql"))]
    /\ UNCHANGED <<settings, boot, overlap, logins, tokens, starts>>

(* handleLogin after the query.  Next closes rows at their end; when there *)
(* is one it does not, and nor does the handler.                           *)
LoginRows(r) ==
    /\ request[r].pc = "rows"
    /\ request[r].path = "login"
    /\ IF request[r].rows = {}
       THEN /\ Release(request[r].conn)
            /\ request' = [request EXCEPT ![r] = Answered(r, Status("parameter"))]
            /\ UNCHANGED <<tokens, logins>>
       ELSE /\ tokens' = tokens \cup {[user |-> request[r].user,
                                       secret |-> settings.secret]}
            /\ logins' = logins + 1
            /\ request' = [request EXCEPT ![r] = Answered(r, 200)]
            /\ UNCHANGED <<data, idle, used>>
    /\ UNCHANGED <<settings, boot, overlap, starts>>

(* Mutant: the plan is not compared. *)
BoughtService(rows, item) == item # None /\ \E row \in rows : row[1] = item[1]

(* A row that is this service with this plan. *)
Bought(rows, item) == item \in rows

(* Mutant: the rows are not closed. *)
CheckBoughtServicesLeaks(r) ==
    /\ request[r].pc = "rows"
    /\ request[r].path = "create"
    /\ request' = [request EXCEPT ![r] =
         Answered(r, IF Bought(request[r].rows, request[r].item)
                     THEN 200 ELSE Status("unbought"))]
    /\ UNCHANGED <<settings, boot, pool, tokens, starts>>

(* checkBoughtServices after the query; the rows are closed in any case.   *)
CheckBoughtServices(r) ==
    /\ request[r].pc = "rows"
    /\ request[r].path = "create"
    /\ Release(request[r].conn)
    /\ request' = [request EXCEPT ![r] =
         Answered(r, IF Bought(request[r].rows, request[r].item)
                     THEN 200 ELSE Status("unbought"))]
    /\ UNCHANGED <<settings, boot, overlap, logins, tokens, starts>>

Leave(r) ==
    /\ request[r].pc = "done"
    /\ request' = [request EXCEPT ![r] = Free]
    /\ UNCHANGED <<settings, boot, pool, tokens, starts>>

Next ==
    \/ Start \/ Exec \/ Listen \/ Exit \/ OthersWrite
    \/ \E r \in Requests :
          \/ Receive(r) \/ Connect(r) \/ RunQuery(r)
          \/ LoginRows(r) \/ CheckBoughtServices(r) \/ Leave(r)

Spec == Init /\ [][Next]_vars

-----------------------------------------------------------------------------
Advanced == settings.mode = "advancedToken"
Done(r, path, reply) ==
    /\ request[r].pc = "done"
    /\ request[r].path = path
    /\ request[r].reply = reply

(* handleLogin never closes the rows of a login that succeeds: one         *)
(* connection in use is lost for each, and no other way.                   *)
LostPerLogin == Cardinality(used) = Cardinality(Busy) + logins

(* With a server that answers, a login is answered 500 only if an earlier  *)
(* one has cost a connection or, in memory, two requests queried at the    *)
(* same time, and one of them got an empty database.                       *)
RefusedOnlyIfLost ==
    \A r \in Requests :
        Done(r, "login", 500) =>
            logins > 0 \/ (InMemory /\ overlap)

(* A login succeeds only for a user and password on record.                *)
LoginMeansAccount ==
    \A r \in Requests :
        Done(r, "login", 200) =>
            \/ \E u \in data[Server].users :
                  /\ u.name = request[r].user
                  /\ u.hash = Hash(request[r].password)
            \/ /\ InMemory
               /\ request[r].user = Admin
               /\ request[r].password = AdminPassword

(* An instance is created only for a user who was given a token under the  *)
(* secret now in force and who has bought this plan of this service.       *)
CreateMeansBought ==
    \A r \in Requests :
        Done(r, "create", 200) =>
            /\ Advanced /\ ~InMemory
            /\ [user |-> request[r].user, secret |-> settings.secret] \in tokens
            /\ \E b \in data[Server].bought, u \in data[Server].users :
                  /\ u.name = request[r].user
                  /\ u.id = b.user
                  /\ b.item = request[r].item

(* Wherever earlier starts were cut off, a broker that serves finds both   *)
(* tables and the default user by every connection that it has; in memory, *)
(* until requests overlap or the first login.                              *)
UpMeansUsable ==
    LET found == IF InMemory THEN {data[c] : c \in idle \cup used}
                 ELSE {data[Server]}
    IN  boot = "up" /\ Advanced /\ (InMemory => ~overlap /\ logins = 0) =>
            /\ found # {}
            /\ \A d \in found :
                  /\ d.tables = {"users", "bought_services"}
                  /\ \E u \in d.users : /\ u.name = Admin
                                        /\ u.hash = Hash(AdminPassword)

=============================================================================
