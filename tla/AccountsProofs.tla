--------------------------- MODULE AccountsProofs ---------------------------
(***************************************************************************)
(* Proofs about Accounts: who is let in, what a login costs, and how long  *)
(* a broker can be logged in to, for every number of connections,          *)
(* requests, users, starts and sales.                                      *)
(***************************************************************************)
EXTENDS Accounts, FiniteSetTheorems, TLAPS

Stores == Conns \cup {Server}

(* The types, and that a table has finitely many rows. *)
Typed == TypeOK /\ \A d \in Stores : IsFiniteSet(data[d].users)

(* main serves only under settings that it accepts. *)
Accepted == boot # "off" => ~SettingsRefused(settings)

(* There are no requests where there is no process. *)
Quiet == boot = "off" => \A r \in Requests : request[r].pc = "free"

(* A request that queries, or that was granted an instance, has the mode   *)
(* right and a user; a create comes with a token under the secret in force.*)
Asks(r) ==
    request[r].pc \in {"query", "run", "rows"} \/ Done(r, "create", 200) =>
        /\ Advanced
        /\ request[r].path \in {"login", "create"}
        /\ request[r].user \in Users
        /\ request[r].path = "create" =>
              [user |-> request[r].user, secret |-> settings.secret] \in tokens

(* A connection is not both idle and in use; each query has its own. *)
Pooled ==
    /\ idle \cap used = {}
    /\ \A r \in Busy : request[r].conn \in used
    /\ \A r, s \in Busy : r # s => request[r].conn # request[s].conn

(* A database in memory has the default user at most, and no sales. *)
Memory ==
    \A c \in Conns :
        /\ data[c].bought = {}
        /\ \A u \in data[c].users :
              u.name = Admin /\ u.hash = Hash(AdminPassword)

(* What LoginMeansAccount and CreateMeansBought say of a request. *)
OnRecord(r) ==
    \/ \E u \in data[Server].users :
          /\ u.name = request[r].user
          /\ u.hash = Hash(request[r].password)
    \/ /\ InMemory
       /\ request[r].user = Admin
       /\ request[r].password = AdminPassword

Paid(r) ==
    /\ ~InMemory
    /\ \E b \in data[Server].bought, u \in data[Server].users :
          /\ u.name = request[r].user
          /\ u.id = b.user
          /\ b.item = request[r].item

(* The rows that a request has read, and a grant it was given, still hold. *)
Truthful(r) ==
    /\ request[r].pc = "rows" /\ request[r].path = "login"
          /\ request[r].rows # {} => OnRecord(r)
    /\ request[r].pc = "rows" /\ request[r].path = "create"
          /\ request[r].item \in request[r].rows => Paid(r)
    /\ Done(r, "login", 200) => OnRecord(r)
    /\ Done(r, "create", 200) => Paid(r)

(* The inductive invariant. *)
IInv ==
    /\ Typed
    /\ Accepted
    /\ Quiet
    /\ Pooled
    /\ LostPerLogin
    /\ Memory
    /\ \A r \in Requests : Asks(r) /\ Truthful(r)

-----------------------------------------------------------------------------
(* Types.                                                                  *)

(* An answer is a request record again. *)
LEMMA AnsweredType ==
    ASSUME TypeOK, NEW r \in Requests, NEW status \in Replies
    PROVE  Answered(r, status) \in Request
<1>1. request[r] \in Request /\ request[r].path \in Paths
  BY DEF TypeOK, Request
<1>2. Free \in Request
  BY DEF Free, Request, Paths
<1>3. CASE status = 200
  <2>1. status \in Replies \cup {None} /\ {} \in SUBSET (Account \cup Items)
    OBVIOUS
  <2>2. Answered(r, status) =
          [request[r] EXCEPT !.pc = "done", !.reply = status, !.conn = None,
                             !.rows = {}]
    BY <1>3 DEF Answered
  <2> QED
    BY <1>1, <2>1, <2>2 DEF Request
<1>4. CASE status # 200
  BY <1>1, <1>2, <1>4 DEF Answered, Request
<1> QED
  BY <1>3, <1>4

(* translateError gives a status. *)
LEMMA StatusType == ASSUME NEW e PROVE Status(e) \in Replies
BY DEF Status, Replies

(* The database of a connection is one that there is. *)
LEMMA StoreType == ASSUME NEW c \in Conns PROVE Store(c) \in Stores
BY DEF Store, Stores

(* A connection that is given back leaves the pool well formed. *)
LEMMA ReleaseType ==
    ASSUME Typed, NEW c \in Conns, Release(c)
    PROVE  /\ data' \in [Stores -> Database]
           /\ idle' \subseteq Conns /\ used' \subseteq Conns
           /\ \A d \in Stores : IsFiniteSet(data'[d].users)
<1>1. NoDatabase \in Database /\ IsFiniteSet(NoDatabase.users)
  BY FS_EmptySet DEF NoDatabase, Database
<1>2. CASE UNCHANGED data
  BY <1>2 DEF Typed, TypeOK, Release, Stores
<1>3. CASE data' = [data EXCEPT ![c] = NoDatabase]
  BY <1>1, <1>3 DEF Typed, TypeOK, Release, Stores
<1> QED
  BY <1>2, <1>3 DEF Release

(* Adding a row to a table that has room. *)
LEMMA AddRowType ==
    ASSUME Typed, NEW d \in Stores, NEW row \in Row
    PROVE  /\ [data EXCEPT ![d].users = @ \cup {row}] \in [Stores -> Database]
           /\ IsFiniteSet(data[d].users \cup {row})
<1>1. data \in [Stores -> Database]
  BY DEF Typed, TypeOK, Stores
<1>2. IsFiniteSet(data[d].users)
  BY DEF Typed
<1>3. IsFiniteSet(data[d].users \cup {row})
  BY <1>2, FS_AddElement
<1> QED
  BY <1>1, <1>3 DEF Database

(* A request that goes on to query names an account; a create does so by a *)
(* token that the client was given under the secret in force.              *)
LEMMA Authenticated ==
    ASSUME Typed, NEW q \in Inputs, NEW auth \in Authorizations(q),
           Queries(q, Route(q, auth))
    PROVE  /\ q.path \in {"login", "create"}
           /\ settings.mode = "advancedToken"
           /\ q.path = "login" => q.user \in Users
           /\ q.path = "create" =>
                /\ auth[1].credential \in tokens
                /\ auth[1].credential.user \in Users
                /\ auth[1].credential.secret = settings.secret
<1>1. q.path \in {"login", "create"} /\ Route(q, auth) = 200
  BY DEF Queries
<1>2. CASE q.path = "login"
  <2>1. Login(q) = 200
    BY <1>1, <1>2 DEF Route
  <2> QED
    BY <1>2, <2>1, InputAssumption DEF Login, Status, Dropped
<1>3. CASE q.path = "create"
  <2>1. HandleRequestHeaders(q, auth) = 200 /\ Authorize(q, auth) = 200
    BY <1>1, <1>3 DEF Route
  <2>2. Authenticate(auth) = 200 /\ settings.mode = "advancedToken"
    BY <2>1 DEF HandleRequestHeaders, Authorize, Status, Dropped
  <2>3. /\ auth[1].credential \in Token /\ Single(auth)
        /\ auth[1].credential.secret = settings.secret
    BY <2>2 DEF Authenticate
  <2>4. auth # q.auth
    BY <2>3, InputAssumption DEF Single
  <2>5. auth[1].credential \in tokens
    BY <2>4 DEF Authorizations
  <2> QED
    BY <1>3, <2>2, <2>3, <2>5 DEF Token
<1> QED
  BY <1>1, <1>2, <1>3

(* ServeHTTP has a reply for any request. *)
LEMMA RouteType == ASSUME NEW q, NEW auth PROVE Route(q, auth) \in Replies
BY DEF Route, HandleRequestHeaders, Authenticate, APIVersion, ContentType,
       Login, Authorize, Status, Replies, Dropped

(* A request that was received is a request record. *)
LEMMA ReceiveType ==
    ASSUME Typed, NEW r \in Requests, Receive(r)
    PROVE  request' \in [Requests -> Request]
<1> PICK q \in Inputs : \E auth \in Authorizations(q) :
            request' = [request EXCEPT ![r] = Received(r, q, auth)]
  BY DEF Receive
<1> PICK auth \in Authorizations(q) :
            request' = [request EXCEPT ![r] = Received(r, q, auth)]
  OBVIOUS
<1>1. Received(r, q, auth) \in Request
  <2>1. request[r] \in Request
    BY DEF Typed, TypeOK
  <2>2. CASE Queries(q, Route(q, auth))
    <3>1. (IF q.path = "login" THEN q.user ELSE auth[1].credential.user) \in Users
      BY <2>2, Authenticated
    <3> QED
      BY <2>1, <2>2, <3>1, InputAssumption DEF Received, Request
  <2>3. CASE ~Queries(q, Route(q, auth))
    BY <2>3, RouteType, InputAssumption DEF Received, Request, Free
  <2> QED
    BY <2>2, <2>3
<1> QED
  BY <1>1 DEF Typed, TypeOK

(* A statement of start-up leaves a well-formed database. *)
LEMMA ExecutedType ==
    ASSUME Typed, NEW d \in Stores, boot \in DOMAIN AfterBoot,
           boot = "admin" /\ ~InMemory => Cardinality(data[d].users) < MaxRows
    PROVE  /\ Executed(data[d]) \in Database
           /\ IsFiniteSet(Executed(data[d]).users)
<1>1. data[d] \in Database /\ IsFiniteSet(data[d].users)
  BY DEF Typed, TypeOK, Stores
<1>2. CASE boot = "admin"
  <2> DEFINE row == [id |-> Serial(data[d].users), name |-> Admin,
                     hash |-> Hash(AdminPassword)]
  <2>1. Cardinality(data[d].users) \in Nat
    BY <1>1, FS_CardinalityType
  <2>2. Serial(data[d].users) \in (1 .. MaxRows) \cup {None}
    BY <1>2, <2>1, BoundAssumption DEF Serial
  <2>3. row \in Row
    BY <2>2, AccountAssumption DEF Row
  <2>4. Executed(data[d]) = [data[d] EXCEPT !.users = @ \cup {row}]
    BY <1>2 DEF Executed
  <2>5. IsFiniteSet(data[d].users \cup {row})
    BY <1>1, FS_AddElement
  <2> HIDE DEF row
  <2> QED
    BY <1>1, <2>3, <2>4, <2>5 DEF Database
<1>3. CASE boot # "admin"
  <2>1. Executed(data[d]) = [data[d] EXCEPT !.tables = @ \cup {boot}]
    BY <1>3 DEF Executed
  <2>2. boot \in {"users", "bought_services"}
    BY <1>3 DEF AfterBoot
  <2> QED
    BY <1>1, <2>1, <2>2 DEF Database
<1> QED
  BY <1>2, <1>3

(* The rows that a query selects are accounts or items. *)
LEMMA SelectedType ==
    ASSUME Typed, NEW r \in Requests, NEW d \in Stores
    PROVE  Selected(r, data[d]) \subseteq Account \cup Items
<1>1. data[d] \in Database
  BY DEF Typed, TypeOK, Stores
<1>2. data[d].users \subseteq Row
      /\ data[d].bought \subseteq [user : (1 .. MaxRows) \cup {None}, item : Items]
  BY <1>1 DEF Database
<1>3. CASE request[r].path = "login"
  <2>1. \A u \in data[d].users : <<u.id, u.name>> \in Account
    BY <1>2 DEF Row, Account
  <2> QED
    BY <1>3, <2>1 DEF Selected
<1>4. CASE request[r].path # "login"
  <2>1. \A b \in data[d].bought : b.item \in Items
    BY <1>2
  <2> QED
    BY <1>4, <2>1 DEF Selected
<1> QED
  BY <1>3, <1>4

(* A request that has a connection has one of the pool's in use. *)
LEMMA ConnType ==
    ASSUME Typed, Pooled, NEW r \in Requests, request[r].pc \in {"run", "rows"}
    PROVE  /\ r \in Busy
           /\ request[r].conn \in Conns /\ request[r].conn \in used
BY DEF Typed, TypeOK, Pooled, Busy

(* The token that a login gives is one that the broker signs. *)
LEMMA SignedType ==
    ASSUME Typed, Accepted, Quiet, NEW r \in Requests, Asks(r),
           request[r].pc = "rows"
    PROVE  [user |-> request[r].user, secret |-> settings.secret] \in Token
<1>1. boot # "off"
  BY DEF Quiet
<1>2. settings \in Settings /\ settings.secret # None
  BY <1>1 DEF Typed, TypeOK, Accepted, SettingsRefused, Asks, Advanced
<1>3. request[r].user \in Users
  BY DEF Asks
<1> QED
  BY <1>2, <1>3 DEF Token, Secrets

(* Every step keeps the types. *)
LEMMA TypeStep ==
    ASSUME IInv, [Next]_vars
    PROVE  Typed'
<1> USE DEF IInv
<1>0. /\ TypeOK /\ \A d \in Stores : IsFiniteSet(data[d].users)
      /\ data \in [Stores -> Database]
  BY DEF Typed, TypeOK, Stores
<1>1. CASE Start
  <2>1. starts' \in 0 .. MaxStarts
    BY <1>0, <1>1, BoundAssumption DEF Start, TypeOK
  <2>2. boot' \in {"off", "users", "tls"} /\ settings' \in Settings
    BY <1>1 DEF Start
  <2> QED
    BY <1>0, <1>1, <2>1, <2>2 DEF Start, pool, Typed, TypeOK
<1>2. CASE Exec
  <2>1. PICK c \in Available :
          /\ data' = [data EXCEPT ![Store(c)] = Executed(data[Store(c)])]
          /\ idle' = idle \cup {c}
    BY <1>2 DEF Exec
  <2>2. c \in Conns
    BY <1>0 DEF Available, TypeOK
  <2>3. Store(c) \in Stores
    BY <2>2, StoreType
  <2>4. boot = "admin" /\ ~InMemory => Cardinality(data[Store(c)].users) < MaxRows
    BY <1>2 DEF Exec, Store
  <2>5. /\ Executed(data[Store(c)]) \in Database
        /\ IsFiniteSet(Executed(data[Store(c)]).users)
    BY <1>2, <2>3, <2>4, ExecutedType DEF Exec
  <2>6. data' \in [Stores -> Database] /\ \A d \in Stores : IsFiniteSet(data'[d].users)
    BY <1>0, <2>1, <2>3, <2>5
  <2>7. boot' \in {"bought_services", "admin", "tls"}
    BY <1>2 DEF Exec, AfterBoot
  <2> QED
    BY <1>0, <1>2, <2>1, <2>2, <2>6, <2>7 DEF Exec, Typed, TypeOK, Stores
<1>3. CASE Listen
  BY <1>0, <1>3 DEF Listen, pool, Typed, TypeOK
<1>4. CASE Exit
  <2>1. data' \in [Stores -> Database] /\ \A d \in Stores : IsFiniteSet(data'[d].users)
    BY <1>0, <1>4, FS_EmptySet DEF Exit, NoDatabase, Database, Stores
  <2>2. Free \in Request
    BY DEF Free, Request, Paths
  <2> QED
    BY <1>0, <1>4, <2>1, <2>2 DEF Exit, Typed, TypeOK, Stores
<1>5. CASE OthersWrite
  <2>1. Server \in Stores /\ data[Server] \in Database
    BY <1>0 DEF Stores
  <2>2. CASE \E a \in Registrations :
                data' = [data EXCEPT ![Server].users = @ \cup
                                  {[id |-> Cardinality(@) + 1, name |-> a[1],
                                    hash |-> Hash(a[2])]}]
             /\ Cardinality(data[Server].users) < MaxRows
    <3>1. PICK a \in Registrations :
                data' = [data EXCEPT ![Server].users = data[Server].users \cup
                           {[id |-> Cardinality(data[Server].users) + 1,
                             name |-> a[1], hash |-> Hash(a[2])]}]
      BY <2>2, <1>0, <2>1
    <3> DEFINE row == [id |-> Cardinality(data[Server].users) + 1,
                       name |-> a[1], hash |-> Hash(a[2])]
    <3>2. Cardinality(data[Server].users) + 1 \in 1 .. MaxRows
      BY <1>0, <2>1, <2>2, FS_CardinalityType, BoundAssumption
    <3>3. a[1] \in Users /\ a[2] \in Passwords
      BY AccountAssumption
    <3>4. row \in Row
      BY <3>2, <3>3 DEF Row
    <3>5. data' = [data EXCEPT ![Server].users = @ \cup {row}]
      BY <3>1
    <3> HIDE DEF row
    <3>6. data' \in [Stores -> Database] /\ IsFiniteSet(data'[Server].users)
      BY <1>0, <2>1, <3>4, <3>5, AddRowType
    <3>7. \A d \in Stores : d # Server => data'[d] = data[d]
      BY <1>0, <3>5
    <3> QED
      BY <1>0, <1>5, <3>6, <3>7 DEF OthersWrite, Typed, TypeOK, Stores
  <2>3. CASE \E u \in data[Server].users, i \in Items :
                data' = [data EXCEPT ![Server].bought = @ \cup
                           {[user |-> u.id, item |-> i]}]
    <3>1. PICK u \in data[Server].users, i \in Items :
                data' = [data EXCEPT ![Server].bought = @ \cup
                           {[user |-> u.id, item |-> i]}]
      BY <2>3
    <3>2. u.id \in (1 .. MaxRows) \cup {None}
      BY <2>1 DEF Database, Row
    <3>3. data' \in [Stores -> Database]
          /\ \A d \in Stores : data'[d].users = data[d].users
      BY <1>0, <2>1, <3>1, <3>2 DEF Database
    <3> QED
      BY <1>0, <1>5, <3>3 DEF OthersWrite, Typed, TypeOK, Stores
  <2> QED
    BY <1>5, <2>2, <2>3 DEF OthersWrite
<1>6. ASSUME NEW r \in Requests, Receive(r)
      PROVE  Typed'
  BY <1>0, <1>6, ReceiveType DEF Receive, pool, Typed, TypeOK
<1>7. ASSUME NEW r \in Requests, Connect(r)
      PROVE  Typed'
  <2>1. request[r] \in Request
    BY <1>0 DEF TypeOK
  <2>2. CASE \E c \in Available : Take(c) /\
                request' = [request EXCEPT ![r] = [request[r] EXCEPT
                                                    !.pc = "run", !.conn = c]]
    <3>1. PICK c \in Available : Take(c) /\
                request' = [request EXCEPT ![r] = [request[r] EXCEPT
                                                    !.pc = "run", !.conn = c]]
      BY <2>2
    <3>2. c \in Conns
      BY <1>0 DEF Available, TypeOK
    <3>3. [request[r] EXCEPT !.pc = "run", !.conn = c] \in Request
      BY <2>1, <3>2 DEF Request
    <3>4. overlap' \in BOOLEAN
      BY <3>1, ZenonT(20) DEF Take
    <3> QED
      BY <1>0, <1>7, <3>1, <3>2, <3>3, <3>4 DEF Connect, Take, Typed, TypeOK
  <2>3. CASE /\ request' = [request EXCEPT ![r] = Answered(r, Status("sql"))]
             /\ UNCHANGED <<idle, used, overlap>>
    <3>1. Answered(r, Status("sql")) \in Request
      BY <1>0, AnsweredType, StatusType
    <3> QED
      BY <1>0, <1>7, <2>3, <3>1 DEF Connect, Typed, TypeOK
  <2> QED
    BY <1>7, <2>2, <2>3 DEF Connect
<1>8. ASSUME NEW r \in Requests, RunQuery(r)
      PROVE  Typed'
  <2>1. request[r] \in Request /\ request[r].conn \in Conns
    BY <1>0, <1>8, ConnType DEF TypeOK, RunQuery
  <2> DEFINE d == data[Store(request[r].conn)]
  <2>2. Selected(r, d) \subseteq Account \cup Items
    BY <2>1, StoreType, SelectedType
  <2>3. CASE /\ request' = [request EXCEPT ![r] = [request[r] EXCEPT
                              !.pc = "rows", !.rows = Selected(r, d)]]
             /\ UNCHANGED <<data, idle, used>>
    <3> HIDE DEF d
    <3>1. [request[r] EXCEPT !.pc = "rows", !.rows = Selected(r, d)] \in Request
      BY <2>1, <2>2 DEF Request
    <3> QED
      BY <1>0, <1>8, <2>3, <3>1 DEF RunQuery, Typed, TypeOK
  <2>4. CASE /\ Release(request[r].conn)
             /\ request' = [request EXCEPT ![r] = Answered(r, Status("sql"))]
    <3>1. Answered(r, Status("sql")) \in Request
      BY <1>0, AnsweredType, StatusType
    <3> QED
      BY <1>0, <1>8, <2>1, <2>4, <3>1, ReleaseType DEF RunQuery, Typed, TypeOK, Stores
  <2> QED
    BY <1>8, <2>3, <2>4 DEF RunQuery
<1>9. ASSUME NEW r \in Requests, LoginRows(r)
      PROVE  Typed'
  <2>1. request[r] \in Request /\ request[r].conn \in Conns
    BY <1>0, <1>9, ConnType DEF TypeOK, LoginRows
  <2>2. CASE request[r].rows = {}
    <3>1. Answered(r, Status("parameter")) \in Request
      BY <1>0, AnsweredType, StatusType
    <3> QED
      BY <1>0, <1>9, <2>1, <2>2, <3>1, ReleaseType DEF LoginRows, Typed, TypeOK, Stores
  <2>3. CASE request[r].rows # {}
    <3>1. Answered(r, 200) \in Request
      BY <1>0, AnsweredType DEF Replies
    <3>2. [user |-> request[r].user, secret |-> settings.secret] \in Token
      BY <1>9, SignedType DEF LoginRows
    <3>3. tokens' \subseteq Token /\ logins' \in Nat
      BY <1>0, <1>9, <2>3, <3>2 DEF LoginRows, TypeOK
    <3> QED
      BY <1>0, <1>9, <2>3, <3>1, <3>3 DEF LoginRows, Typed, TypeOK
  <2> QED
    BY <2>2, <2>3
<1>10. ASSUME NEW r \in Requests, CheckBoughtServices(r)
       PROVE  Typed'
  <2> DEFINE status == IF Bought(request[r].rows, request[r].item)
                       THEN 200 ELSE Status("unbought")
  <2>1. request[r].conn \in Conns
    BY <1>0, <1>10, ConnType DEF TypeOK, CheckBoughtServices
  <2>2. status \in Replies
    BY StatusType DEF Replies
  <2>3. request' = [request EXCEPT ![r] = Answered(r, status)]
    BY <1>10 DEF CheckBoughtServices
  <2> HIDE DEF status
  <2>4. Answered(r, status) \in Request
    BY <1>0, <2>2, AnsweredType
  <2> QED
    BY <1>0, <1>10, <2>1, <2>3, <2>4, ReleaseType
    DEF CheckBoughtServices, Typed, TypeOK, Stores
<1>11. ASSUME NEW r \in Requests, Leave(r)
       PROVE  Typed'
  <2>1. Free \in Request
    BY DEF Free, Request, Paths
  <2> QED
    BY <1>0, <1>11, <2>1 DEF Leave, pool, Typed, TypeOK
<1>12. CASE UNCHANGED vars
  BY <1>0, <1>12 DEF vars, Typed, TypeOK
<1> QED
  BY <1>1, <1>2, <1>3, <1>4, <1>5, <1>6, <1>7, <1>8, <1>9, <1>10, <1>11, <1>12
  DEF Next

-----------------------------------------------------------------------------
(* Databases.                                                              *)

(* A connection that is given back leaves the server's data alone, and     *)
(* nothing in a database of its own.                                       *)
LEMMA ReleaseData ==
    ASSUME Typed, NEW c \in Conns, Release(c)
    PROVE  \A d \in Stores : data'[d] = data[d] \/ (d # Server /\ data'[d] = NoDatabase)
BY ConnsAssumption DEF Typed, TypeOK, Release, Stores

(* What a statement of start-up does to the rows of a database. *)
LEMMA ExecutedRows ==
    ASSUME NEW d \in Database, boot \in DOMAIN AfterBoot
    PROVE  /\ Executed(d).bought = d.bought
           /\ d.users \subseteq Executed(d).users
           /\ \A u \in Executed(d).users : u \in d.users \/
                 (u.name = Admin /\ u.hash = Hash(AdminPassword))
BY DEF Executed, Database, AfterBoot

(* Rows of the server are never removed, and memory holds no more than the *)
(* default user.                                                           *)
LEMMA DataStep ==
    ASSUME IInv, [Next]_vars
    PROVE  /\ data[Server].users \subseteq data'[Server].users
           /\ data[Server].bought \subseteq data'[Server].bought
           /\ Memory'
<1>0. /\ Typed /\ Pooled /\ Memory
      /\ data \in [Stores -> Database] /\ Server \in Stores /\ Server \notin Conns
      /\ Conns \subseteq Stores /\ data[Server] \in Database
  BY ConnsAssumption DEF IInv, Typed, TypeOK, Stores
<1>1. CASE UNCHANGED data
  BY <1>0, <1>1 DEF Memory
<1>2. CASE Exec
  <2>1. PICK c \in Available :
          data' = [data EXCEPT ![Store(c)] = Executed(data[Store(c)])]
    BY <1>2 DEF Exec
  <2>2. Store(c) \in Stores
    BY <1>0, StoreType DEF Available, Typed, TypeOK
  <2>3. \A d \in Stores :
          /\ data'[d].bought = data[d].bought
          /\ data[d].users \subseteq data'[d].users
          /\ \A u \in data'[d].users : u \in data[d].users \/
                (u.name = Admin /\ u.hash = Hash(AdminPassword))
    BY <1>0, <1>2, <2>1, <2>2, ExecutedRows DEF Exec
  <2> QED
    BY <1>0, <2>3 DEF Memory
<1>3. CASE Exit
  BY <1>0, <1>3 DEF Exit, Memory, NoDatabase, Stores
<1>4. CASE OthersWrite
  <2>1. \A c \in Conns : data'[c] = data[c]
    BY <1>0, <1>4 DEF OthersWrite
  <2>2. /\ data[Server].users \subseteq data'[Server].users
        /\ data[Server].bought \subseteq data'[Server].bought
    BY <1>0, <1>4 DEF OthersWrite, Database
  <2> QED
    BY <1>0, <2>1, <2>2 DEF Memory
<1>5. ASSUME NEW r \in Requests, request[r].pc \in {"run", "rows"},
             Release(request[r].conn)
      PROVE  /\ data[Server].users \subseteq data'[Server].users
             /\ data[Server].bought \subseteq data'[Server].bought
             /\ Memory'
  <2>1. \A d \in Stores :
          data'[d] = data[d] \/ (d # Server /\ data'[d] = NoDatabase)
    BY <1>0, <1>5, ConnType, ReleaseData
  <2> QED
    BY <1>0, <2>1 DEF Memory, NoDatabase
<1>6. ASSUME NEW r \in Requests,
             RunQuery(r) \/ LoginRows(r) \/ CheckBoughtServices(r)
      PROVE  \/ UNCHANGED data
             \/ request[r].pc \in {"run", "rows"} /\ Release(request[r].conn)
  BY <1>6 DEF RunQuery, LoginRows, CheckBoughtServices
<1>7. ASSUME NEW r \in Requests, Receive(r) \/ Connect(r) \/ Leave(r)
      PROVE  UNCHANGED data
  BY <1>7 DEF Receive, Connect, Leave, pool
<1>8. Start \/ Listen \/ UNCHANGED vars => UNCHANGED data
  BY DEF Start, Listen, pool, vars
<1> QED
  BY <1>1, <1>2, <1>3, <1>4, <1>5, <1>6, <1>7, <1>8 DEF Next

-----------------------------------------------------------------------------
(* The pool.                                                               *)

(* Giving back the connection of a request that has one. *)
LEMMA ReleasePool ==
    ASSUME IInv, NEW r \in Requests, r \in Busy, Release(request[r].conn),
           logins' = logins,
           request' \in [Requests -> Request],
           request'[r].pc = "done",
           \A s \in Requests \ {r} : request'[s] = request[s]
    PROVE  Pooled' /\ LostPerLogin'
<1> DEFINE c == request[r].conn
<1>1. Pooled /\ LostPerLogin /\ c \in used
  BY DEF IInv, Pooled
<1>2. Busy' = Busy \ {r}
  BY DEF Busy
<1>3. used' = used \ {c} /\ idle' \subseteq idle \cup {c}
  BY DEF Release
<1>4. Pooled'
  BY <1>1, <1>2, <1>3 DEF Pooled, Busy
<1>5. IsFiniteSet(used) /\ IsFiniteSet(Busy) /\ logins \in Nat
  BY ConnsAssumption, FS_Subset DEF IInv, Typed, TypeOK, Busy
<1>6. /\ Cardinality(used \ {c}) = Cardinality(used) - 1
      /\ Cardinality(Busy \ {r}) = Cardinality(Busy) - 1
      /\ Cardinality(used) \in Nat /\ Cardinality(Busy) \in Nat
  BY <1>1, <1>5, FS_RemoveElement, FS_CardinalityType
<1> HIDE DEF c
<1>7. LostPerLogin'
  <2>1. Cardinality(used) = Cardinality(Busy) + logins
    BY <1>1 DEF LostPerLogin
  <2>2. Cardinality(used') = Cardinality(Busy') + logins'
    BY <1>2, <1>3, <1>5, <1>6, <2>1
  <2> QED
    BY <2>2 DEF LostPerLogin
<1> QED
  BY <1>4, <1>7

(* Every step keeps each query's connection its own, and loses one for a   *)
(* login that succeeds only.                                               *)
LEMMA PoolStep ==
    ASSUME IInv, [Next]_vars
    PROVE  Pooled' /\ LostPerLogin'
<1>0. /\ Typed /\ Typed' /\ Pooled /\ LostPerLogin
      /\ request \in [Requests -> Request] /\ request' \in [Requests -> Request]
      /\ idle \subseteq Conns /\ used \subseteq Conns /\ logins \in Nat
      /\ IsFiniteSet(used) /\ IsFiniteSet(Busy)
  <2>1. Typed'
    BY TypeStep
  <2>2. Typed /\ Pooled /\ LostPerLogin
    BY DEF IInv
  <2>3. Busy \subseteq Requests
    BY DEF Busy
  <2> QED
    BY <2>1, <2>2, <2>3, ConnsAssumption, FS_Subset DEF Typed, TypeOK
<1>1. ASSUME UNCHANGED <<used, logins>>, idle \subseteq idle', idle' \cap used = {},
             Busy' = Busy, \A s \in Busy : request'[s].conn = request[s].conn
      PROVE  Pooled' /\ LostPerLogin'
  BY <1>0, <1>1 DEF Pooled, LostPerLogin
<1>2. CASE Start \/ Listen \/ OthersWrite \/ UNCHANGED vars
  <2>1. UNCHANGED <<used, logins, idle, request>>
    BY <1>2 DEF Start, Listen, OthersWrite, vars, pool
  <2>2. Busy' = Busy
    BY <2>1 DEF Busy
  <2> QED
    BY <1>0, <1>1, <2>1, <2>2 DEF Pooled
<1>3. CASE Exec
  <2>1. UNCHANGED <<used, logins, request>>
    BY <1>3 DEF Exec
  <2>2. Busy' = Busy
    BY <2>1 DEF Busy
  <2>3. idle \subseteq idle' /\ idle' \cap used = {}
    BY <1>0, <1>3 DEF Exec, Available, Pooled
  <2> QED
    BY <1>1, <2>1, <2>2, <2>3
<1>4. CASE Exit
  <2>1. used' = {} /\ idle' = {} /\ logins' = 0 /\ Busy' = {}
    BY <1>4 DEF Exit, Busy, Free
  <2>2. Cardinality({}) = 0
    BY FS_EmptySet
  <2> QED
    BY <2>1, <2>2 DEF Pooled, LostPerLogin
<1>5. ASSUME NEW r \in Requests, Receive(r) \/ Leave(r)
      PROVE  Pooled' /\ LostPerLogin'
  <2>1. /\ UNCHANGED <<used, logins, idle>>
        /\ \A s \in Requests \ {r} : request'[s] = request[s]
        /\ r \notin Busy
    BY <1>0, <1>5 DEF Receive, Leave, pool, Busy
  <2>2. request'[r].pc \notin {"run", "rows"}
    <3>1. \A q, auth : Received(r, q, auth).pc \in {"query", "done"}
      BY <1>0 DEF Received, Free, Request
    <3> QED
      BY <1>0, <1>5, <3>1 DEF Receive, Leave, Free
  <2>3. Busy' = Busy
    BY <2>1, <2>2 DEF Busy
  <2> QED
    BY <1>0, <1>1, <2>1, <2>3 DEF Pooled, Busy
<1>6. ASSUME NEW r \in Requests, Connect(r)
      PROVE  Pooled' /\ LostPerLogin'
  <2>1. r \notin Busy /\ request[r] \in Request
    BY <1>0, <1>6 DEF Connect, Busy
  <2>2. CASE \E c \in Available : Take(c) /\
                request' = [request EXCEPT ![r] = [request[r] EXCEPT
                                                    !.pc = "run", !.conn = c]]
    <3>1. PICK c \in Available : Take(c) /\
                request' = [request EXCEPT ![r] = [request[r] EXCEPT
                                                    !.pc = "run", !.conn = c]]
      BY <2>2
    <3>2. c \notin used /\ used' = used \cup {c} /\ idle' = idle \ {c}
      BY <1>0, <3>1 DEF Available, Take, Pooled
    <3>3. /\ request'[r].pc = "run" /\ request'[r].conn = c
          /\ \A s \in Requests \ {r} : request'[s] = request[s]
      BY <1>0, <2>1, <3>1 DEF Request
    <3>4. Busy' = Busy \cup {r}
      BY <3>3 DEF Busy
    <3>5. Pooled'
      BY <1>0, <2>1, <3>2, <3>3, <3>4 DEF Pooled, Busy
    <3>6. /\ Cardinality(used \cup {c}) = Cardinality(used) + 1
          /\ Cardinality(Busy \cup {r}) = Cardinality(Busy) + 1
          /\ Cardinality(used) \in Nat /\ Cardinality(Busy) \in Nat
      BY <1>0, <2>1, <3>2, FS_AddElement, FS_CardinalityType
    <3>7. logins' = logins
      BY <1>6 DEF Connect
    <3>8. Cardinality(used') = Cardinality(Busy') + logins'
      BY <1>0, <3>2, <3>4, <3>6, <3>7 DEF LostPerLogin
    <3> QED
      BY <3>5, <3>8 DEF LostPerLogin
  <2>3. CASE /\ request' = [request EXCEPT ![r] = Answered(r, Status("sql"))]
             /\ UNCHANGED <<idle, used, overlap>>
    <3>1. request'[r].pc = "done" /\ logins' = logins
      BY <1>0, <1>6, <2>1, <2>3 DEF Answered, Free, Connect, Request
    <3>2. Busy' = Busy /\ \A s \in Busy : request'[s] = request[s]
      BY <1>0, <2>1, <2>3, <3>1 DEF Busy
    <3> QED
      BY <1>0, <1>1, <2>3, <3>1, <3>2 DEF Pooled
  <2> QED
    BY <1>6, <2>2, <2>3 DEF Connect
<1>7. ASSUME NEW r \in Requests,
             RunQuery(r) \/ LoginRows(r) \/ CheckBoughtServices(r)
      PROVE  /\ r \in Busy /\ request[r] \in Request
             /\ \A s \in Requests \ {r} : request'[s] = request[s]
             /\ \A status : Answered(r, status).pc = "done"
  <2>1. r \in Busy /\ request[r] \in Request
    BY <1>0, <1>7 DEF RunQuery, LoginRows, CheckBoughtServices, Busy
  <2>2. \A status : Answered(r, status).pc = "done"
    BY <2>1 DEF Answered, Free, Request
  <2> QED
    BY <1>0, <1>7, <2>1, <2>2 DEF RunQuery, LoginRows, CheckBoughtServices
<1>8. ASSUME NEW r \in Requests, RunQuery(r)
      PROVE  Pooled' /\ LostPerLogin'
  <2> DEFINE d == data[Store(request[r].conn)]
  <2>1. CASE /\ request' = [request EXCEPT ![r] = [request[r] EXCEPT
                              !.pc = "rows", !.rows = Selected(r, d)]]
             /\ UNCHANGED <<data, idle, used>>
    <3>1. request'[r].pc = "rows" /\ request'[r].conn = request[r].conn
      BY <1>0, <1>7, <1>8, <2>1 DEF Request
    <3>2. /\ Busy' = Busy /\ logins' = logins
          /\ \A s \in Busy : request'[s].conn = request[s].conn
      BY <1>7, <1>8, <3>1 DEF Busy, RunQuery
    <3> QED
      BY <1>0, <1>1, <2>1, <3>2 DEF Pooled
  <2>2. CASE /\ Release(request[r].conn)
             /\ request' = [request EXCEPT ![r] = Answered(r, Status("sql"))]
    <3>1. request'[r].pc = "done" /\ logins' = logins
      BY <1>0, <1>7, <1>8, <2>2 DEF RunQuery
    <3> QED
      BY <1>0, <1>7, <1>8, <2>2, <3>1, ReleasePool
  <2> QED
    BY <1>8, <2>1, <2>2 DEF RunQuery
<1>9. ASSUME NEW r \in Requests, LoginRows(r)
      PROVE  Pooled' /\ LostPerLogin'
  <2>0. request'[r].pc = "done"
    BY <1>0, <1>7, <1>9 DEF LoginRows
  <2>1. CASE request[r].rows = {}
    <3>1. Release(request[r].conn) /\ logins' = logins
      BY <1>9, <2>1 DEF LoginRows
    <3> QED
      BY <1>0, <1>7, <1>9, <2>0, <3>1, ReleasePool
  <2>2. CASE request[r].rows # {}
    <3>1. UNCHANGED <<idle, used>> /\ logins' = logins + 1
      BY <1>9, <2>2 DEF LoginRows
    <3>2. Busy' = Busy \ {r} /\ r \in Busy
      BY <1>7, <1>9, <2>0 DEF Busy
    <3>3. /\ Cardinality(Busy \ {r}) = Cardinality(Busy) - 1
          /\ Cardinality(Busy) \in Nat
      BY <1>0, <3>2, FS_RemoveElement, FS_CardinalityType
    <3>4. Cardinality(used') = Cardinality(Busy') + logins'
      BY <1>0, <3>1, <3>2, <3>3 DEF LostPerLogin
    <3>5. Pooled'
      BY <1>0, <1>7, <1>9, <3>1, <3>2 DEF Pooled, Busy
    <3> QED
      BY <3>4, <3>5 DEF LostPerLogin
  <2> QED
    BY <2>1, <2>2
<1>10. ASSUME NEW r \in Requests, CheckBoughtServices(r)
       PROVE  Pooled' /\ LostPerLogin'
  <2>1. request'[r].pc = "done" /\ Release(request[r].conn) /\ logins' = logins
    BY <1>0, <1>7, <1>10 DEF CheckBoughtServices
  <2> QED
    BY <1>0, <1>7, <1>10, <2>1, ReleasePool
<1> QED
  BY <1>2, <1>3, <1>4, <1>5, <1>6, <1>8, <1>9, <1>10 DEF Next

-----------------------------------------------------------------------------
(* Requests.                                                               *)

(* What an earlier step found out of a request still holds. *)
LEMMA Kept ==
    ASSUME NEW s \in Requests, Asks(s), Truthful(s), UNCHANGED settings,
           request'[s] = request[s], tokens \subseteq tokens',
           data[Server].users \subseteq data'[Server].users,
           data[Server].bought \subseteq data'[Server].bought
    PROVE  Asks(s)' /\ Truthful(s)'
<1>1. OnRecord(s) => OnRecord(s)'
  BY DEF OnRecord, InMemory
<1>2. Paid(s) => Paid(s)'
  BY DEF Paid, InMemory
<1>3. Truthful(s)'
  BY <1>1, <1>2 DEF Truthful, Done
<1>4. Asks(s)'
  BY DEF Asks, Done, Advanced
<1> QED
  BY <1>3, <1>4

(* Nothing is said of a request that is not served or was not granted. *)
LEMMA Unsaid ==
    ASSUME NEW s \in Requests,
           \/ request'[s].pc = "free"
           \/ /\ request'[s].pc = "done"
              /\ \/ request'[s].reply # 200
                 \/ request'[s].path \notin {"login", "create"}
    PROVE  Asks(s)' /\ Truthful(s)'
BY DEF Asks, Truthful, Done

(* A refusal is one of those. *)
LEMMA Refused ==
    ASSUME TypeOK, NEW r \in Requests, NEW status, status # 200
    PROVE  Answered(r, status).pc = "done" /\ Answered(r, status).reply # 200
BY DEF Answered, Free

(* A grant keeps what was asked. *)
LEMMA Granted ==
    ASSUME TypeOK, NEW r \in Requests
    PROVE  /\ Answered(r, 200).pc = "done" /\ Answered(r, 200).reply = 200
           /\ Answered(r, 200).path = request[r].path
           /\ Answered(r, 200).user = request[r].user
           /\ Answered(r, 200).password = request[r].password
           /\ Answered(r, 200).item = request[r].item
<1>1. request[r] \in Request
  BY DEF TypeOK
<1> QED
  BY <1>1 DEF Answered, Request

(* The rows a login selects show the account; those of a create the sale.  *)
LEMMA SelectedTruthful ==
    ASSUME IInv, NEW r \in Requests, request[r].pc = "run",
           NEW d, d = data[Store(request[r].conn)]
    PROVE  /\ request[r].path = "login" /\ Selected(r, d) # {} => OnRecord(r)
           /\ request[r].path = "create" /\ request[r].item \in Selected(r, d)
                => Paid(r)
<1>1. request[r].conn \in Conns /\ Memory
  BY ConnType DEF IInv
<1>2. request[r].password \in Passwords \cup {None}
  BY DEF IInv, Typed, TypeOK, Request
<1>3. ASSUME request[r].path = "login", Selected(r, d) # {}
      PROVE  OnRecord(r)
  <2>1. PICK w \in d.users :
          w.name = request[r].user /\ w.hash = Hash(request[r].password)
    BY <1>3 DEF Selected
  <2>2. CASE InMemory
    <3>1. w.name = Admin /\ w.hash = Hash(AdminPassword)
      BY <1>1, <2>2 DEF Store, Memory
    <3>2. request[r].password = AdminPassword
      BY <2>1, <3>1 DEF Hash
    <3> QED
      BY <2>1, <2>2, <3>1, <3>2 DEF OnRecord
  <2>3. CASE ~InMemory
    BY <2>1, <2>3 DEF Store, OnRecord
  <2> QED
    BY <2>2, <2>3
<1>4. ASSUME request[r].path = "create", request[r].item \in Selected(r, d)
      PROVE  Paid(r)
  <2>1. PICK b \in d.bought : b.item = request[r].item /\
          \E u \in d.users : u.name = request[r].user /\ u.id = b.user
    BY <1>4 DEF Selected
  <2>2. ~InMemory
    BY <1>1, <2>1 DEF Store, Memory
  <2> QED
    BY <2>1, <2>2 DEF Store, Paid
<1> QED
  BY <1>3, <1>4

(* Every step keeps what is known of the process and of each request. *)
LEMMA RequestStep ==
    ASSUME IInv, [Next]_vars
    PROVE  /\ Accepted' /\ Quiet'
           /\ \A s \in Requests : Asks(s)' /\ Truthful(s)'
<1>0. /\ TypeOK /\ Typed /\ Accepted /\ Quiet
      /\ \A s \in Requests : Asks(s) /\ Truthful(s)
      /\ request \in [Requests -> Request]
  BY DEF IInv, Typed, TypeOK
<1>00. /\ data[Server].users \subseteq data'[Server].users
       /\ data[Server].bought \subseteq data'[Server].bought
  BY DataStep
<1>1. CASE Start
  <2>1. \A s \in Requests : request'[s].pc = "free"
    BY <1>0, <1>1 DEF Start, Quiet
  <2>2. Accepted' /\ Quiet'
    BY <1>1, <2>1 DEF Start, Accepted, Quiet
  <2> QED
    BY <2>1, <2>2, Unsaid
<1>2. CASE Exec \/ Listen \/ OthersWrite \/ UNCHANGED vars
  <2>1. UNCHANGED <<settings, request, tokens>> /\ (boot' # "off" \/ boot' = boot)
        /\ (boot = "off" => boot' = boot)
    BY <1>2 DEF Exec, Listen, OthersWrite, vars, pool, AfterBoot
  <2>2. Accepted' /\ Quiet'
    BY <1>0, <2>1 DEF Accepted, Quiet, SettingsRefused
  <2> QED
    BY <1>0, <1>00, <2>1, <2>2, Kept
<1>3. CASE Exit
  <2>1. \A s \in Requests : request'[s].pc = "free"
    BY <1>3 DEF Exit, Free
  <2>2. Accepted' /\ Quiet'
    BY <1>3, <2>1 DEF Exit, Accepted, Quiet
  <2> QED
    BY <2>1, <2>2, Unsaid
<1>4. ASSUME NEW r \in Requests,
             \/ Receive(r) \/ Connect(r) \/ RunQuery(r)
             \/ LoginRows(r) \/ CheckBoughtServices(r) \/ Leave(r)
      PROVE  /\ Accepted' /\ Quiet'
             /\ \A s \in Requests \ {r} : Asks(s)' /\ Truthful(s)'
             /\ UNCHANGED settings
  <2>1. /\ UNCHANGED <<settings, boot>> /\ tokens \subseteq tokens'
        /\ \A s \in Requests \ {r} : request'[s] = request[s]
    BY <1>0, <1>4
    DEF Receive, Connect, RunQuery, LoginRows, CheckBoughtServices, Leave
  <2>2. boot # "off"
    BY <1>0, <1>4
    DEF Quiet, Receive, Connect, RunQuery, LoginRows, CheckBoughtServices, Leave
  <2>3. Accepted' /\ Quiet'
    BY <1>0, <2>1, <2>2 DEF Accepted, Quiet, SettingsRefused
  <2> QED
    BY <1>0, <1>00, <2>1, <2>3, Kept
<1>5. ASSUME NEW r \in Requests, NEW status, status # 200,
             request' = [request EXCEPT ![r] = Answered(r, status)]
      PROVE  Asks(r)' /\ Truthful(r)'
  BY <1>0, <1>5, Refused, Unsaid
<1>6. \A e : Status(e) # 200
  BY DEF Status
<1>7. ASSUME NEW r \in Requests, Receive(r)
      PROVE  Asks(r)' /\ Truthful(r)'
  <2>1. PICK q \in Inputs : \E auth \in Authorizations(q) :
            request' = [request EXCEPT ![r] = Received(r, q, auth)]
    BY <1>7 DEF Receive
  <2>2. PICK auth \in Authorizations(q) :
            request' = [request EXCEPT ![r] = Received(r, q, auth)]
    BY <2>1
  <2>3. request'[r] = Received(r, q, auth) /\ request[r] \in Request
    BY <1>0, <2>2
  <2>4. CASE Queries(q, Route(q, auth))
    <3>1. /\ q.path \in {"login", "create"}
          /\ settings.mode = "advancedToken"
          /\ q.path = "login" => q.user \in Users
          /\ q.path = "create" =>
               /\ auth[1].credential \in tokens
               /\ auth[1].credential.user \in Users
               /\ auth[1].credential.secret = settings.secret
      BY <1>0, <2>4, Authenticated
    <3>2. /\ request'[r].pc = "query" /\ request'[r].path = q.path
          /\ request'[r].user = IF q.path = "login" THEN q.user
                                ELSE auth[1].credential.user
      BY <2>3, <2>4 DEF Received, Request
    <3>3. UNCHANGED <<settings, tokens>>
      BY <1>7 DEF Receive
    <3>4. q.path = "create" =>
            auth[1].credential = [user |-> auth[1].credential.user,
                                  secret |-> settings.secret]
      BY <1>0, <3>1 DEF TypeOK, Token
    <3>5. Asks(r)'
      BY <3>1, <3>2, <3>3, <3>4 DEF Asks, Advanced
    <3> QED
      BY <3>2, <3>5 DEF Truthful, Done
  <2>5. CASE ~Queries(q, Route(q, auth))
    <3>1. /\ request'[r].pc = "done" /\ request'[r].path = q.path
          /\ request'[r].reply = Route(q, auth)
      BY <2>3, <2>5 DEF Received, Free
    <3> QED
      BY <2>5, <3>1, Unsaid DEF Queries
  <2> QED
    BY <2>4, <2>5
<1>8. ASSUME NEW r \in Requests, Connect(r)
      PROVE  Asks(r)' /\ Truthful(r)'
  <2>1. CASE request' = [request EXCEPT ![r] = Answered(r, Status("sql"))]
    BY <1>5, <1>6, <2>1
  <2>2. CASE \E c \in Available :
                request' = [request EXCEPT ![r] = [request[r] EXCEPT
                                                    !.pc = "run", !.conn = c]]
    <3>1. /\ request'[r].pc = "run" /\ request'[r].path = request[r].path
          /\ request'[r].user = request[r].user
      BY <1>0, <2>2 DEF Request
    <3>2. UNCHANGED <<settings, tokens>> /\ request[r].pc = "query"
      BY <1>8 DEF Connect
    <3>3. Asks(r)'
      BY <1>0, <3>1, <3>2 DEF Asks, Advanced
    <3> QED
      BY <3>1, <3>3 DEF Truthful, Done
  <2> QED
    BY <1>8, <2>1, <2>2 DEF Connect
<1>9. ASSUME NEW r \in Requests, RunQuery(r)
      PROVE  Asks(r)' /\ Truthful(r)'
  <2>1. CASE request' = [request EXCEPT ![r] = Answered(r, Status("sql"))]
    BY <1>5, <1>6, <2>1
  <2>2. CASE /\ request' = [request EXCEPT ![r] = [request[r] EXCEPT
                   !.pc = "rows",
                   !.rows = Selected(r, data[Store(request[r].conn)])]]
             /\ UNCHANGED data
    <3> DEFINE d == data[Store(request[r].conn)]
    <3>1. /\ request'[r].pc = "rows" /\ request'[r].path = request[r].path
          /\ request'[r].user = request[r].user
          /\ request'[r].password = request[r].password
          /\ request'[r].item = request[r].item
          /\ request'[r].rows = Selected(r, d)
      BY <1>0, <2>2 DEF Request
    <3>2. UNCHANGED <<settings, tokens>> /\ request[r].pc = "run"
      BY <1>9 DEF RunQuery
    <3>3. Asks(r)'
      BY <1>0, <3>1, <3>2 DEF Asks, Advanced
    <3>4. /\ request[r].path = "login" /\ Selected(r, d) # {} => OnRecord(r)
          /\ request[r].path = "create" /\ request[r].item \in Selected(r, d)
               => Paid(r)
      BY <3>2, SelectedTruthful
    <3> HIDE DEF d
    <3>5. /\ OnRecord(r) => OnRecord(r)'
          /\ Paid(r) => Paid(r)'
      BY <2>2, <3>1, <3>2 DEF OnRecord, Paid, InMemory
    <3>6. Truthful(r)'
      BY <3>1, <3>4, <3>5 DEF Truthful, Done
    <3> QED
      BY <3>3, <3>6
  <2> QED
    BY <1>9, <2>1, <2>2 DEF RunQuery
<1>10. ASSUME NEW r \in Requests, LoginRows(r)
       PROVE  Asks(r)' /\ Truthful(r)'
  <2>1. CASE request[r].rows = {}
    BY <1>5, <1>6, <1>10, <2>1 DEF LoginRows
  <2>2. CASE request[r].rows # {}
    <3>1. /\ request'[r] = Answered(r, 200) /\ UNCHANGED <<data, settings>>
          /\ request[r].pc = "rows" /\ request[r].path = "login"
      BY <1>0, <1>10, <2>2 DEF LoginRows
    <3>2. /\ request'[r].pc = "done" /\ request'[r].path = "login"
          /\ request'[r].user = request[r].user
          /\ request'[r].password = request[r].password
      BY <1>0, <3>1, Granted
    <3>3. OnRecord(r)
      BY <1>0, <2>2, <3>1 DEF Truthful
    <3>4. OnRecord(r)'
      BY <3>1, <3>2, <3>3 DEF OnRecord, InMemory
    <3> QED
      BY <3>2, <3>4 DEF Asks, Truthful, Done
  <2> QED
    BY <2>1, <2>2
<1>11. ASSUME NEW r \in Requests, CheckBoughtServices(r)
       PROVE  Asks(r)' /\ Truthful(r)'
  <2>1. CASE ~Bought(request[r].rows, request[r].item)
    BY <1>5, <1>6, <1>11, <2>1 DEF CheckBoughtServices
  <2>2. CASE Bought(request[r].rows, request[r].item)
    <3>1. /\ request'[r] = Answered(r, 200) /\ UNCHANGED <<settings, tokens>>
          /\ request[r].pc = "rows" /\ request[r].path = "create"
      BY <1>0, <1>11, <2>2 DEF CheckBoughtServices
    <3>2. /\ request'[r].pc = "done" /\ request'[r].path = "create"
          /\ request'[r].user = request[r].user
          /\ request'[r].item = request[r].item
      BY <1>0, <3>1, Granted
    <3>3. Paid(r)
      BY <1>0, <2>2, <3>1 DEF Truthful, Bought
    <3>4. Paid(r)'
      BY <1>00, <3>1, <3>2, <3>3 DEF Paid, InMemory
    <3>5. Asks(r)'
      BY <1>0, <3>1, <3>2 DEF Asks, Advanced
    <3> QED
      BY <3>2, <3>4, <3>5 DEF Truthful, Done
  <2> QED
    BY <2>1, <2>2
<1>12. ASSUME NEW r \in Requests, Leave(r)
       PROVE  Asks(r)' /\ Truthful(r)'
  BY <1>0, <1>12, Unsaid DEF Leave, Free
<1>13. ASSUME NEW r \in Requests,
              \/ Receive(r) \/ Connect(r) \/ RunQuery(r)
              \/ LoginRows(r) \/ CheckBoughtServices(r) \/ Leave(r)
       PROVE  Asks(r)' /\ Truthful(r)'
  BY <1>7, <1>8, <1>9, <1>10, <1>11, <1>12, <1>13
<1> QED
  BY <1>1, <1>2, <1>3, <1>4, <1>13 DEF Next

-----------------------------------------------------------------------------
(* It holds before the first start. *)
LEMMA InitIInv == ASSUME Init PROVE IInv
<1>1. Typed
  <2>1. NoDatabase \in Database /\ IsFiniteSet(NoDatabase.users)
    BY FS_EmptySet DEF NoDatabase, Database
  <2>2. Free \in Request
    BY DEF Free, Request, Paths
  <2>3. data \in [Stores -> Database] /\ \A d \in Stores : IsFiniteSet(data[d].users)
    BY <2>1 DEF Init, Stores
  <2>4. request \in [Requests -> Request]
    BY <2>2 DEF Init
  <2>5. starts \in 0 .. MaxStarts /\ logins \in Nat
    BY BoundAssumption DEF Init
  <2>6. overlap \in BOOLEAN
    BY Zenon DEF Init
  <2> QED
    BY <2>3, <2>4, <2>5, <2>6 DEF Init, Typed, TypeOK, Stores
<1>2. \A r \in Requests : request[r].pc = "free"
  BY DEF Init, Free
<1>3. Pooled /\ LostPerLogin
  <2>1. Busy = {} /\ Cardinality({}) = 0
    BY <1>2, FS_EmptySet DEF Busy
  <2> QED
    BY <2>1 DEF Init, Pooled, LostPerLogin
<1>4. Memory
  BY DEF Init, Memory, NoDatabase
<1>5. \A r \in Requests : Asks(r) /\ Truthful(r)
  BY <1>2 DEF Asks, Truthful, Done
<1> QED
  BY <1>1, <1>2, <1>3, <1>4, <1>5 DEF Init, IInv, Accepted, Quiet

(* The invariant is inductive: whatever statement a start was cut off at,  *)
(* however requests share the pool, and whoever writes to the server.      *)
THEOREM IInvInductive == Spec => []IInv
<1>1. Init => IInv
  BY InitIInv
<1>2. IInv /\ [Next]_vars => IInv'
  BY TypeStep, DataStep, PoolStep, RequestStep DEF IInv
<1> QED
  BY <1>1, <1>2, PTL DEF Spec

(* For any number of requests and connections, the connections in use are  *)
(* those of queries now under way, and one for each login that succeeded   *)
(* (handleLogin does not close its rows).                                  *)
THEOREM LostPerLoginHolds == Spec => []LostPerLogin
<1>1. IInv => LostPerLogin
  BY DEF IInv
<1> QED
  BY <1>1, IInvInductive, PTL

(* handleLogin lets nobody in but those on record, whatever the database   *)
(* and however it came to be.                                              *)
THEOREM LoginMeansAccountHolds == Spec => []LoginMeansAccount
<1>1. IInv => LoginMeansAccount
  BY DEF IInv, Truthful, LoginMeansAccount, OnRecord
<1> QED
  BY <1>1, IInvInductive, PTL

(* authorize and checkBoughtServices let nobody create an instance but a   *)
(* user who logged in under this secret and has bought the plan.           *)
THEOREM CreateMeansBoughtHolds == Spec => []CreateMeansBought
<1>1. IInv => CreateMeansBought
  <2> SUFFICES ASSUME IInv, NEW r \in Requests, Done(r, "create", 200)
               PROVE  /\ Advanced /\ ~InMemory
                      /\ [user |-> request[r].user, secret |-> settings.secret]
                            \in tokens
                      /\ Paid(r)
    BY DEF CreateMeansBought, Paid
  <2>1. Asks(r) /\ Truthful(r)
    BY DEF IInv
  <2> QED
    BY <2>1 DEF Asks, Truthful, Paid, Done
<1> QED
  BY <1>1, IInvInductive, PTL

-----------------------------------------------------------------------------
(* A broker that serves can be logged in to, until logins have cost it its *)
(* connections or requests have split its memory.                          *)

(* What start-up has done to a database when it is at b. *)
Ready(b, d) ==
    /\ b \in {"bought_services", "admin", "tls", "up"} => "users" \in d.tables
    /\ b \in {"admin", "tls", "up"} => "bought_services" \in d.tables
    /\ b \in {"tls", "up"} =>
          \E u \in d.users : u.name = Admin /\ u.hash = Hash(AdminPassword)

(* Requests are served by a broker that is up, and connections are opened  *)
(* by a process only.                                                      *)
Settled ==
    /\ boot # "up" => \A r \in Requests : request[r].pc = "free"
    /\ boot = "off" => idle = {} /\ used = {}

(* Every start, whichever were cut off before, prepares the server. *)
ServerReady == Advanced /\ ~InMemory => Ready(boot, data[Server])

(* While no login has succeeded and no requests have overlapped, one       *)
(* connection is used again and again, and its memory is the prepared one. *)
MemoryReady ==
    Advanced /\ InMemory /\ logins = 0 /\ ~overlap /\ boot # "off" =>
        IF boot = "users" THEN idle = {} /\ used = {}
        ELSE \E c \in Conns : idle \cup used = {c} /\ Ready(boot, data[c])

(* The inductive invariant, on top of IInv. *)
RInv ==
    /\ Settled
    /\ ServerReady
    /\ MemoryReady
    /\ RefusedOnlyIfLost

-----------------------------------------------------------------------------
(* The step of IInv, and facts of it that are used below. *)
LEMMA IInvStep == ASSUME IInv, [Next]_vars PROVE IInv'
BY TypeStep, DataStep, PoolStep, RequestStep DEF IInv

(* What the types say, in the form that the provers want. *)
LEMMA IInvFacts ==
    ASSUME IInv
    PROVE  /\ data \in [Stores -> Database] /\ Server \in Stores
           /\ Conns \subseteq Stores /\ Server \notin Conns
           /\ idle \subseteq Conns /\ used \subseteq Conns /\ idle \cap used = {}
           /\ request \in [Requests -> Request] /\ logins \in Nat
           /\ IsFiniteSet(used) /\ IsFiniteSet(Busy) /\ Busy \subseteq Requests
           /\ Cardinality(used) = Cardinality(Busy) + logins
<1>1. Busy \subseteq Requests
  BY DEF Busy
<1>2. IsFiniteSet(used) /\ IsFiniteSet(Busy)
  BY <1>1, ConnsAssumption, FS_Subset DEF IInv, Typed, TypeOK
<1> QED
  BY <1>1, <1>2, ConnsAssumption
  DEF IInv, Typed, TypeOK, Pooled, LostPerLogin, Stores

(* Before the first login, connections are in use by queries only. *)
LEMMA NoneLost ==
    ASSUME IInv, logins = 0
    PROVE  (Busy = {}) <=> (used = {})
<1>1. /\ Cardinality(used) = Cardinality(Busy) + 0
      /\ IsFiniteSet(used) /\ IsFiniteSet(Busy)
  BY IInvFacts
<1>2. Cardinality(used) \in Nat /\ Cardinality(Busy) \in Nat
  BY <1>1, FS_CardinalityType
<1>3. Cardinality(used) = Cardinality(Busy)
  BY <1>1, <1>2
<1> QED
  BY <1>1, <1>3, FS_EmptySet

(* Before the first login, a request that wants a connection gets one. *)
LEMMA EnoughConnections ==
    ASSUME IInv, logins = 0
    PROVE  Available # {}
<1> SUFFICES ASSUME Available = {} PROVE FALSE
  OBVIOUS
<1>1. used = Conns
  BY IInvFacts DEF Available
<1>2. /\ Cardinality(Busy) \in Nat /\ Cardinality(Requests) \in Nat
      /\ Cardinality(Conns) \in Nat
      /\ Cardinality(Busy) <= Cardinality(Requests)
  BY IInvFacts, ConnsAssumption, FS_Subset, FS_CardinalityType
<1>3. Cardinality(Conns) = Cardinality(Busy) + 0
  BY <1>1, IInvFacts
<1> QED
  BY <1>2, <1>3, ConnsAssumption

(* A database stays ready as it grows. *)
LEMMA ReadyKept ==
    ASSUME NEW b, NEW d, NEW e, Ready(b, d),
           d.tables \subseteq e.tables, d.users \subseteq e.users
    PROVE  Ready(b, e)
BY DEF Ready

(* A statement of start-up makes ready for the next. *)
LEMMA ExecutedReady ==
    ASSUME NEW d \in Database, boot \in DOMAIN AfterBoot, Ready(boot, d)
    PROVE  Ready(AfterBoot[boot], Executed(d))
<1>1. CASE boot = "admin"
  <2>1. AfterBoot[boot] = "tls"
    BY <1>1 DEF AfterBoot
  <2> DEFINE row == [id |-> Serial(d.users), name |-> Admin,
                     hash |-> Hash(AdminPassword)]
  <2>2. Executed(d) = [d EXCEPT !.users = @ \cup {row}]
    BY <1>1 DEF Executed
  <2>3. row.name = Admin /\ row.hash = Hash(AdminPassword)
    OBVIOUS
  <2> HIDE DEF row
  <2>4. Executed(d).tables = d.tables /\ row \in Executed(d).users
    BY <2>2 DEF Database
  <2>5. "users" \in d.tables /\ "bought_services" \in d.tables
    BY <1>1 DEF Ready
  <2> QED
    BY <2>1, <2>3, <2>4, <2>5 DEF Ready
<1>2. CASE boot # "admin"
  <2>1. Executed(d).tables = d.tables \cup {boot}
    BY <1>2 DEF Executed, Database
  <2>2. \/ boot = "users" /\ AfterBoot[boot] = "bought_services"
        \/ boot = "bought_services" /\ AfterBoot[boot] = "admin"
    BY <1>2 DEF AfterBoot
  <2> QED
    BY <2>1, <2>2 DEF Ready
<1> QED
  BY <1>1, <1>2

(* The actions of a request, and what they share. *)
Serve(r) ==
    \/ Receive(r) \/ Connect(r) \/ RunQuery(r)
    \/ LoginRows(r) \/ CheckBoughtServices(r) \/ Leave(r)

(* They change neither the settings nor where main is. *)
LEMMA ServeFrame ==
    ASSUME NEW r \in Requests, Serve(r)
    PROVE  UNCHANGED <<settings, boot, starts>>
BY DEF Serve, Receive, Connect, RunQuery, LoginRows, CheckBoughtServices, Leave

(* Requests are served while the broker is up. *)
LEMMA ServeUp ==
    ASSUME RInv, NEW r \in Requests, Serve(r)
    PROVE  boot = "up"
BY DEF RInv, Settled, Serve, Receive, Connect, RunQuery, LoginRows,
       CheckBoughtServices, Leave

(* What a request does to the pool: nothing, or it takes a connection, or  *)
(* gives its own back.                                                     *)
LEMMA ServePool ==
    ASSUME IInv, NEW r \in Requests, Serve(r)
    PROVE  /\ \/ UNCHANGED <<data, idle, used, overlap>>
              \/ UNCHANGED data /\ \E c \in Available : Take(c)
              \/ r \in Busy /\ Release(request[r].conn) /\ UNCHANGED overlap
           /\ logins' = logins \/ logins' = logins + 1
BY DEF Serve, Receive, Connect, RunQuery, LoginRows, CheckBoughtServices, Leave,
       pool, Busy

(* Every step keeps requests and connections to a process. *)
LEMMA SettledStep ==
    ASSUME IInv, RInv, [Next]_vars
    PROVE  Settled'
<1>1. CASE Start
  BY <1>1 DEF RInv, Settled, Start, pool
<1>2. CASE Exec
  BY <1>2 DEF RInv, Settled, Exec, AfterBoot
<1>3. CASE Listen
  BY <1>3 DEF RInv, Settled, Listen
<1>4. CASE Exit
  BY <1>4 DEF Settled, Exit, Free
<1>5. CASE OthersWrite \/ UNCHANGED vars
  BY <1>5 DEF RInv, Settled, OthersWrite, vars
<1>6. ASSUME NEW r \in Requests, Serve(r)
      PROVE  Settled'
  BY <1>6, ServeUp, ServeFrame DEF Settled
<1> QED
  BY <1>1, <1>2, <1>3, <1>4, <1>5, <1>6 DEF Next, Serve

(* However many starts were cut off, and wherever, the server is prepared  *)
(* by the time the broker serves.                                          *)
LEMMA ServerReadyStep ==
    ASSUME IInv, RInv, [Next]_vars
    PROVE  ServerReady'
<1>0. ServerReady /\ data \in [Stores -> Database] /\ Server \in Stores
      /\ data[Server] \in Database
  BY IInvFacts DEF RInv
<1>1. CASE Start
  BY <1>1 DEF Start, ServerReady, Advanced, Ready
<1>2. CASE Exec
  <2>1. UNCHANGED settings /\ boot \in DOMAIN AfterBoot /\ boot' = AfterBoot[boot]
    BY <1>2 DEF Exec
  <2>2. ~InMemory => data' = [data EXCEPT ![Server] = Executed(data[Server])]
    BY <1>2 DEF Exec, Store
  <2> QED
    BY <1>0, <2>1, <2>2, ExecutedReady DEF ServerReady, Advanced, InMemory
<1>3. CASE Listen
  BY <1>0, <1>3 DEF Listen, ServerReady, Advanced, InMemory, Ready, pool
<1>4. CASE Exit
  BY <1>4 DEF Exit, ServerReady, Ready
<1>5. ASSUME UNCHANGED <<settings, boot>>,
             data[Server].tables \subseteq data'[Server].tables,
             data[Server].users \subseteq data'[Server].users
      PROVE  ServerReady'
  BY <1>0, <1>5, ReadyKept DEF ServerReady, Advanced, InMemory
<1>6. data[Server].users \subseteq data'[Server].users
  BY DataStep
<1>7. CASE OthersWrite \/ UNCHANGED vars
  <2>1. UNCHANGED <<settings, boot>>
        /\ data[Server].tables \subseteq data'[Server].tables
    BY <1>0, <1>7 DEF OthersWrite, vars, Database
  <2> QED
    BY <1>5, <1>6, <2>1
<1>8. ASSUME NEW r \in Requests, Serve(r)
      PROVE  ServerReady'
  <2>1. UNCHANGED data \/ (r \in Busy /\ Release(request[r].conn))
    BY <1>8, ServePool
  <2>2. data'[Server] = data[Server]
    <3>1. CASE r \in Busy /\ Release(request[r].conn)
      <4>1. request[r].conn \in Conns /\ Typed
        BY <3>1, ConnType DEF IInv, Busy
      <4> QED
        BY <1>0, <3>1, <4>1, ReleaseData
    <3> QED
      BY <2>1, <3>1
  <2> QED
    BY <1>5, <1>8, <2>2, ServeFrame
<1> QED
  BY <1>1, <1>2, <1>3, <1>4, <1>7, <1>8 DEF Next, Serve

(* The one connection to memory is used again and again.                   *)
LEMMA MemoryReadyStep ==
    ASSUME IInv, RInv, [Next]_vars
    PROVE  MemoryReady'
<1> SUFFICES ASSUME Advanced', InMemory', logins' = 0, ~overlap', boot' # "off"
             PROVE  IF boot' = "users" THEN idle' = {} /\ used' = {}
                    ELSE \E c \in Conns : /\ idle' \cup used' = {c}
                                          /\ Ready(boot', data'[c])
  BY DEF MemoryReady
<1>0. MemoryReady /\ Settled
  BY DEF RInv
<1>00. /\ data \in [Stores -> Database] /\ Server \notin Conns
       /\ Conns \subseteq Stores
       /\ idle \subseteq Conns /\ used \subseteq Conns /\ idle \cap used = {}
       /\ logins \in Nat
  BY IInvFacts
<1>1. CASE Start
  <2>1. boot' = "users" /\ idle' = {} /\ used' = {}
    BY <1>0, <1>1 DEF Start, Settled, Advanced, pool
  <2> QED
    BY <2>1
<1>2. CASE Exec
  <2>1. /\ UNCHANGED <<settings, used, overlap, logins, request>>
        /\ boot \in DOMAIN AfterBoot /\ boot' = AfterBoot[boot]
        /\ Advanced /\ InMemory /\ logins = 0 /\ ~overlap /\ boot # "off"
    BY <1>2 DEF Exec, Advanced, InMemory, AfterBoot
  <2>2. boot' # "users"
    BY <2>1 DEF AfterBoot
  <2>3. Busy = {}
    BY <1>0, <2>1 DEF Settled, Busy, AfterBoot
  <2>4. used = {}
    BY <2>1, <2>3, NoneLost
  <2>5. PICK c \in Available :
          /\ data' = [data EXCEPT ![c] = Executed(data[c])]
          /\ idle' = idle \cup {c}
    BY <1>2, <2>1 DEF Exec, Store
  <2>6. c \in Conns /\ data[c] \in Database
    BY <1>00 DEF Available
  <2>7. idle' = {c} /\ Ready(boot, data[c])
    <3>1. CASE boot = "users"
      BY <1>0, <2>1, <2>5, <3>1 DEF MemoryReady, Ready
    <3>2. CASE boot # "users"
      <4>1. PICK e \in Conns : idle \cup used = {e} /\ Ready(boot, data[e])
        BY <1>0, <2>1, <3>2 DEF MemoryReady
      <4>2. idle = {e} /\ c = e
        BY <2>4, <4>1 DEF Available
      <4> QED
        BY <2>5, <4>1, <4>2
    <3> QED
      BY <3>1, <3>2
  <2>8. Ready(boot', data'[c])
    BY <1>00, <2>1, <2>5, <2>6, <2>7, ExecutedReady
  <2> QED
    BY <2>1, <2>2, <2>4, <2>6, <2>7, <2>8
<1>3. CASE Listen
  <2>1. /\ UNCHANGED <<settings, data, idle, used, overlap, logins>>
        /\ boot = "tls" /\ boot' = "up"
    BY <1>3 DEF Listen, pool
  <2>2. PICK c \in Conns : idle \cup used = {c} /\ Ready("tls", data[c])
    BY <1>0, <2>1 DEF MemoryReady, Advanced, InMemory
  <2>3. Ready("up", data[c])
    BY <2>2 DEF Ready
  <2> QED
    BY <2>1, <2>2, <2>3
<1>4. CASE Exit
  BY <1>4 DEF Exit
<1>5. CASE OthersWrite \/ UNCHANGED vars
  <2>1. /\ UNCHANGED <<settings, boot, idle, used, overlap, logins>>
        /\ \A c \in Conns : data'[c] = data[c]
    BY <1>00, <1>5 DEF OthersWrite, vars
  <2> QED
    BY <1>0, <2>1 DEF MemoryReady, Advanced, InMemory
<1>6. ASSUME NEW r \in Requests, Serve(r)
      PROVE  \E c \in Conns : idle' \cup used' = {c} /\ Ready("up", data'[c])
  <2>1. UNCHANGED settings /\ boot = "up"
    BY <1>6, ServeFrame, ServeUp
  <2>2. logins = 0
    BY <1>00, <1>6, ServePool
  <2>3. ~overlap
    BY <1>6, ServePool DEF Take
  <2>4. PICK c \in Conns : idle \cup used = {c} /\ Ready("up", data[c])
    BY <1>0, <2>1, <2>2, <2>3 DEF MemoryReady, Advanced, InMemory
  <2>5. CASE UNCHANGED <<data, idle, used>>
    BY <2>4, <2>5
  <2>6. CASE UNCHANGED data /\ \E e \in Available : Take(e)
    <3>1. PICK e \in Available : Take(e)
      BY <2>6
    <3>2. Busy = {}
      BY <3>1 DEF Take
    <3>3. used = {} /\ idle = {c}
      BY <2>2, <2>4, <3>2, NoneLost
    <3>4. e = c /\ idle' = {} /\ used' = {c}
      BY <3>1, <3>3 DEF Available, Take
    <3> QED
      BY <2>4, <2>6, <3>4
  <2>7. CASE r \in Busy /\ Release(request[r].conn)
    <3>1. request[r].conn \in used
      BY <2>7 DEF IInv, Pooled
    <3>2. request[r].conn = c /\ used = {c} /\ idle = {}
      BY <1>00, <2>4, <3>1
    <3>3. Cardinality(idle) < MaxIdle
      BY <3>2, FS_EmptySet, BoundAssumption
    <3>4. idle' = {c} /\ used' = {} /\ UNCHANGED data
      BY <2>7, <3>2, <3>3 DEF Release
    <3> QED
      BY <2>4, <3>4
  <2> QED
    BY <1>6, <2>5, <2>6, <2>7, ServePool
<1>7. ASSUME NEW r \in Requests, Serve(r)
      PROVE  boot' = "up"
  BY <1>7, ServeFrame, ServeUp
<1> QED
  BY <1>1, <1>2, <1>3, <1>4, <1>5, <1>6, <1>7 DEF Next, Serve

(* Until a connection has been lost or memory has been split, a login is   *)
(* refused neither for want of a connection nor of a table.                *)
LEMMA RefusedStep ==
    ASSUME IInv, RInv, [Next]_vars
    PROVE  RefusedOnlyIfLost'
<1>0. RefusedOnlyIfLost /\ ServerReady /\ MemoryReady /\ Settled
  BY DEF RInv
<1>00. request \in [Requests -> Request] /\ logins \in Nat
       /\ \A r \in Requests : Asks(r)
  BY IInvFacts DEF IInv
<1>1. CASE Start \/ Exit
  <2>1. \A r \in Requests : request'[r].pc = "free"
    BY <1>0, <1>1 DEF Settled, Start, Exit, Free
  <2> QED
    BY <2>1 DEF RefusedOnlyIfLost, Done
<1>2. CASE Exec \/ Listen \/ OthersWrite \/ UNCHANGED vars
  <2>1. UNCHANGED <<settings, logins, overlap, request>>
    BY <1>2 DEF Exec, Listen, OthersWrite, vars, pool
  <2> QED
    BY <1>0, <2>1 DEF RefusedOnlyIfLost, Done, InMemory
<1>3. ASSUME NEW r \in Requests, Serve(r),
             Done(r, "login", 500)' => logins' > 0 \/ (InMemory' /\ overlap')
      PROVE  RefusedOnlyIfLost'
  <2>1. UNCHANGED settings
    BY <1>3, ServeFrame
  <2>2. (logins > 0 => logins' > 0) /\ (overlap => overlap')
    <3>1. logins > 0 => logins' > 0
      BY <1>00, <1>3, ServePool
    <3>2. overlap => overlap'
      BY <1>3, ServePool DEF Take
    <3> QED
      BY <3>1, <3>2
  <2>3. \A s \in Requests \ {r} : request'[s] = request[s]
    BY <1>00, <1>3
    DEF Serve, Receive, Connect, RunQuery, LoginRows, CheckBoughtServices, Leave
  <2>4. ASSUME NEW s \in Requests, s # r, Done(s, "login", 500)'
        PROVE  logins' > 0 \/ (InMemory' /\ overlap')
    <3>1. Done(s, "login", 500)
      BY <2>3, <2>4 DEF Done
    <3>2. logins > 0 \/ (InMemory /\ overlap)
      BY <1>0, <3>1 DEF RefusedOnlyIfLost
    <3> QED
      BY <2>1, <2>2, <3>2 DEF InMemory
  <2> QED
    BY <1>3, <2>4 DEF RefusedOnlyIfLost
<1>4. ASSUME NEW r \in Requests, Receive(r)
      PROVE  ~Done(r, "login", 500)'
  <2>1. PICK q \in Inputs : \E auth \in Authorizations(q) :
            request' = [request EXCEPT ![r] = Received(r, q, auth)]
    BY <1>4 DEF Receive
  <2>2. PICK auth \in Authorizations(q) :
            request' = [request EXCEPT ![r] = Received(r, q, auth)]
    BY <2>1
  <2>3. request'[r] = Received(r, q, auth) /\ request[r] \in Request
    BY <1>00, <2>2
  <2>4. CASE Queries(q, Route(q, auth))
    BY <2>3, <2>4 DEF Received, Request, Done
  <2>5. CASE ~Queries(q, Route(q, auth))
    <3>1. request'[r].path = q.path /\ request'[r].reply = Route(q, auth)
      BY <2>3, <2>5 DEF Received, Free
    <3>2. q.path = "login" => Route(q, auth) # 500
      BY DEF Route, Login, Status, Dropped
    <3> QED
      BY <3>1, <3>2 DEF Done
  <2> QED
    BY <2>4, <2>5
<1>5. ASSUME NEW r \in Requests, Connect(r), Done(r, "login", 500)'
      PROVE  logins' > 0
  <2>0. request[r] \in Request /\ logins' = logins
    BY <1>00, <1>5 DEF Connect
  <2>1. Available = {}
    <3> SUFFICES ASSUME NEW c \in Available,
                        request' = [request EXCEPT ![r] = [request[r] EXCEPT
                                                    !.pc = "run", !.conn = c]]
                 PROVE  FALSE
      BY <1>5 DEF Connect
    <3>1. request'[r].pc = "run"
      BY <1>00, <2>0 DEF Request
    <3> QED
      BY <1>5, <3>1 DEF Done
  <2>2. logins # 0
    BY <2>1, EnoughConnections
  <2> QED
    BY <1>00, <2>0, <2>2
<1>6. ASSUME NEW r \in Requests, RunQuery(r), Done(r, "login", 500)'
      PROVE  logins' > 0 \/ (InMemory' /\ overlap')
  <2> DEFINE d == data[Store(request[r].conn)]
  <2>1. ~(Wanted(r) \subseteq d.tables) /\ UNCHANGED <<settings, logins, overlap>>
    <3> HIDE DEF d
    <3> SUFFICES ASSUME request' = [request EXCEPT ![r] = [request[r] EXCEPT
                                      !.pc = "rows", !.rows = Selected(r, d)]]
                 PROVE  FALSE
      BY <1>6 DEF RunQuery, d
    <3>1. request[r] \in Request
      BY <1>00
    <3>2. request'[r].pc = "rows"
      BY <1>00, <3>1 DEF Request
    <3> QED
      BY <1>6, <3>2 DEF Done
  <2>2. request[r].pc = "run" /\ r \in Busy
    BY <1>6 DEF RunQuery, Busy
  <2>3. boot = "up" /\ Advanced
    BY <1>0, <1>00, <2>2 DEF Settled, Asks
  <2>4. ~Ready("up", d)
    BY <2>1 DEF Ready, Wanted
  <2>5. InMemory
    BY <1>0, <2>3, <2>4 DEF ServerReady, Store
  <2>6. logins = 0 /\ ~overlap => FALSE
    <3> SUFFICES ASSUME logins = 0, ~overlap PROVE FALSE
      OBVIOUS
    <3>1. PICK c \in Conns : idle \cup used = {c} /\ Ready("up", data[c])
      BY <1>0, <2>3, <2>5 DEF MemoryReady
    <3>2. request[r].conn \in used
      BY <2>2 DEF IInv, Pooled
    <3> QED
      BY <2>4, <2>5, <3>1, <3>2 DEF Store
  <2>7. logins # 0 \/ overlap
    BY <2>6
  <2>8. logins # 0 => logins' > 0
    BY <1>00, <2>1
  <2> QED
    BY <2>1, <2>5, <2>7, <2>8 DEF InMemory
<1>7. ASSUME NEW r \in Requests, LoginRows(r)
      PROVE  ~Done(r, "login", 500)'
  <2>1. \/ request'[r] = Answered(r, 200)
        \/ request'[r] = Answered(r, Status("parameter"))
    BY <1>00, <1>7 DEF LoginRows
  <2>2. Status("parameter") = 400 /\ TypeOK
    BY DEF Status, IInv, Typed
  <2>3. Answered(r, 200).reply = 200
    BY <2>2, Granted
  <2>4. Answered(r, 400).reply = 400
    BY DEF Answered, Free
  <2> QED
    BY <2>1, <2>2, <2>3, <2>4 DEF Done
<1>8. ASSUME NEW r \in Requests, CheckBoughtServices(r)
      PROVE  ~Done(r, "login", 500)'
  <2>1. request[r].path = "create" /\ request[r] \in Request
        /\ \E status : request'[r] = Answered(r, status)
    BY <1>00, <1>8 DEF CheckBoughtServices
  <2> QED
    BY <2>1 DEF Answered, Free, Done, Request
<1>9. ASSUME NEW r \in Requests, Leave(r)
      PROVE  ~Done(r, "login", 500)'
  BY <1>00, <1>9 DEF Leave, Free, Done
<1>10. ASSUME NEW r \in Requests, Serve(r)
       PROVE  RefusedOnlyIfLost'
  <2>1. Done(r, "login", 500)' => logins' > 0 \/ (InMemory' /\ overlap')
    BY <1>4, <1>5, <1>6, <1>7, <1>8, <1>9, <1>10 DEF Serve
  <2> QED
    BY <1>3, <1>10, <2>1
<1> QED
  BY <1>1, <1>2, <1>10 DEF Next, Serve

-----------------------------------------------------------------------------
(* It holds before the first start. *)
LEMMA InitRInv == ASSUME Init PROVE RInv
<1>1. \A r \in Requests : request[r].pc = "free"
  BY DEF Init, Free
<1> QED
  BY <1>1 DEF Init, RInv, Settled, ServerReady, MemoryReady, Ready,
              RefusedOnlyIfLost, Done

(* Both invariants together are inductive. *)
THEOREM RInvInductive == Spec => [](IInv /\ RInv)
<1>1. Init => IInv /\ RInv
  BY InitIInv, InitRInv
<1>2. IInv /\ RInv /\ [Next]_vars => (IInv /\ RInv)'
  BY IInvStep, SettledStep, ServerReadyStep, MemoryReadyStep, RefusedStep DEF RInv
<1> QED
  BY <1>1, <1>2, PTL DEF Spec

(* For any number of requests below that of the connections, handleLogin   *)
(* answers 500 only once an earlier login has cost a connection, or two    *)
(* queries at a time have split the database in memory.                    *)
THEOREM RefusedOnlyIfLostHolds == Spec => []RefusedOnlyIfLost
<1>1. RInv => RefusedOnlyIfLost
  BY DEF RInv
<1> QED
  BY <1>1, RInvInductive, PTL

(* After any number of starts, each cut off anywhere, main does not serve  *)
(* before both tables and the default user are there.                      *)
THEOREM UpMeansUsableHolds == Spec => []UpMeansUsable
<1>1. IInv /\ RInv => UpMeansUsable
  <2> SUFFICES ASSUME IInv, RInv, boot = "up", Advanced,
                      InMemory => ~overlap /\ logins = 0
               PROVE  LET found == IF InMemory THEN {data[c] : c \in idle \cup used}
                                   ELSE {data[Server]}
                      IN  /\ found # {}
                          /\ \A d \in found :
                                /\ d.tables = {"users", "bought_services"}
                                /\ \E u \in d.users :
                                      /\ u.name = Admin
                                      /\ u.hash = Hash(AdminPassword)
    BY DEF UpMeansUsable
  <2>1. ASSUME NEW d \in Database, Ready("up", d)
        PROVE  /\ d.tables = {"users", "bought_services"}
               /\ \E u \in d.users : u.name = Admin /\ u.hash = Hash(AdminPassword)
    BY <2>1 DEF Ready, Database
  <2>2. CASE InMemory
    <3>1. PICK c \in Conns : idle \cup used = {c} /\ Ready("up", data[c])
      BY <2>2 DEF RInv, MemoryReady
    <3>2. data[c] \in Database
      BY IInvFacts
    <3> QED
      BY <2>1, <2>2, <3>1, <3>2
  <2>3. CASE ~InMemory
    <3>1. Ready("up", data[Server]) /\ data[Server] \in Database
      BY <2>3, IInvFacts DEF RInv, ServerReady
    <3> QED
      BY <2>1, <2>3, <3>1
  <2> QED
    BY <2>2, <2>3
<1> QED
  BY <1>1, RInvInductive, PTL
=============================================================================
