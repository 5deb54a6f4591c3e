------------------------ MODULE StorageServiceProofs ------------------------
(***************************************************************************)
(* Proofs about the service that calls the permission store and the        *)
(* metrics.  It uses them only through their operations, so what is shown  *)
(* of every store and of every window holds of those in the service; a     *)
(* request that shares its client id with no other one runs as itself; and *)
(* every request is counted once.                                          *)
(***************************************************************************)
EXTENDS StorageService, GuardedObjectProofs

-----------------------------------------------------------------------------
(* The service.                                                            *)

\* What HandleAuthStatement passes to the store are users, groups and masks.
LEMMA StatementFields ==
    ASSUME NEW s \in Statements
    PROVE  /\ s.kind \in {"CREATE USER", "DROP USER", "ADD USER", "GRANT USER", "REVOKE USER", "LOGIN"}
                 => s.user \in Users
           /\ s.kind \in {"CREATE GROUP", "DROP GROUP", "ADD USER", "GRANT GROUP", "REVOKE GROUP"}
                 => s.group \in Groups
           /\ s.kind \in {"GRANT USER", "REVOKE USER", "GRANT GROUP", "REVOKE GROUP"} => s.mask \in Masks
           /\ s.kind = "QUERY" => s.use \in Databases \cup {NoDb}
BY Zenon DEF Statements

\* A statement's call is an operation of the store.
LEMMA CallsAreOperations ==
    ASSUME NEW s \in Statements, AuthOperation(s)
    PROVE  Operation
BY StatementFields, Zenon DEF AuthOperation, Operation

-----------------------------------------------------------------------------
(* The invariant.                                                          *)

\* TypeOK without what it says of the store
ServiceTypes ==
    /\ serving \in BOOLEAN
    /\ contexts \in [Clients -> [db : Databases \cup {NoDb}, user : Users \cup {NoUser}]]
    /\ issued \subseteq Users
    /\ at \in [Threads -> Places]
    /\ req \in [Threads -> Requests \cup {NoRequest}]
    /\ ok \in [Threads -> BOOLEAN] /\ alone \in [Threads -> BOOLEAN]
    /\ reading \in [Threads -> Seconds \cup {0}]
    /\ checked \in [Threads -> Users \cup {NoUser}]
    /\ received \in 0..MaxRequests /\ restarts \in 0..MaxRestarts

\* A thread that is not idle has a request.
HasRequest == \A t \in Threads : Busy(t) => req[t] \in Requests

\* "alone" means what it says: no thread in flight has the client id.
AloneIsAlone ==
    \A t, u \in Threads : t # u /\ Busy(t) /\ Busy(u) /\ alone[t] => Client(t) # Client(u)

\* What holds of a request at each place up to the dispatch.
HasDb(t) == req[t].db # NoDb => contexts[Client(t)].db = req[t].db
HasUser(t) == ~req[t].login /\ req[t].token # NoUser => contexts[Client(t)].user = req[t].token
OnTheWay ==
    \A t \in Threads : alone[t] =>
        /\ at[t] \in {"token", "check", "dispatch"} => HasDb(t)
        /\ at[t] \in {"check", "dispatch"} => HasUser(t)
        /\ at[t] = "dispatch" => checked[t] = contexts[Client(t)].user

SInv == ServiceTypes /\ HasRequest /\ AloneIsAlone /\ OnTheWay

\* The invariant says at the dispatch what RunsAsItself says.
LEMMA SInvImplies == SInv => RunsAsItself
BY Zenon DEF SInv, OnTheWay, RunsAsItself, HasDb, HasUser

\* No request is in flight when the process starts.
LEMMA InitSInv == Init => SInv
<1> SUFFICES ASSUME Init PROVE SInv
  OBVIOUS
<1>1. issued \subseteq Users
  BY RbacAssumption DEF Init, RbacInit, IsImage
<1>2. contexts \in [Clients -> [db : Databases \cup {NoDb}, user : Users \cup {NoUser}]]
  BY DEF Init, NoContext
<1>3. /\ serving \in BOOLEAN
      /\ at \in [Threads -> Places]
      /\ req \in [Threads -> Requests \cup {NoRequest}]
      /\ reading \in [Threads -> Seconds \cup {0}]
      /\ checked \in [Threads -> Users \cup {NoUser}]
      /\ ok \in [Threads -> BOOLEAN] /\ alone \in [Threads -> BOOLEAN]
  BY Zenon DEF Init, Places
<1>4. received \in 0..MaxRequests /\ restarts \in 0..MaxRestarts
  BY BoundsAssumption DEF Init
<1>5. HasRequest /\ AloneIsAlone /\ OnTheWay
  BY DEF Init, HasRequest, AloneIsAlone, OnTheWay, Busy
<1>6. QED
  BY <1>1, <1>2, <1>3, <1>4, <1>5 DEF SInv, ServiceTypes

\* A step of one thread that keeps its request leaves the others' part of the
\* invariant alone, because it changes no context but its own.
LEMMA OneThread ==
    ASSUME SInv, NEW t \in Threads, Busy(t), ServiceTypes',
           req' = req, alone' = alone,
           \A u \in Threads \ {t} : at'[u] = at[u] /\ checked'[u] = checked[u],
           \A c \in Clients \ {Client(t)} : contexts'[c] = contexts[c],
           at'[t] # "token",
           alone[t] /\ at'[t] \in {"check", "dispatch"} => HasDb(t)' /\ HasUser(t)',
           alone[t] /\ at'[t] = "dispatch" => checked'[t] = contexts'[Client(t)].user
    PROVE  SInv'
<1>1. HasRequest'
  BY DEF SInv, HasRequest, Busy
<1>2. AloneIsAlone'
  BY DEF SInv, AloneIsAlone, Busy, Client
<1>3. ASSUME NEW u \in Threads, alone'[u]
      PROVE  /\ at'[u] \in {"token", "check", "dispatch"} => HasDb(u)'
             /\ at'[u] \in {"check", "dispatch"} => HasUser(u)'
             /\ at'[u] = "dispatch" => checked'[u] = contexts'[Client(u)'].user
  <2>1. CASE u = t
    BY <1>3, <2>1 DEF Client
  <2>2. CASE u # t /\ ~Busy(u)
    BY <1>3, <2>2 DEF Busy
  <2>3. CASE u # t /\ Busy(u)
    <3>1. Client(u) \in Clients \ {Client(t)} /\ Client(u)' = Client(u)
      BY <1>3, <2>3, ServiceAssumption, Zenon DEF SInv, HasRequest, AloneIsAlone, Client
    <3>2. contexts'[Client(u)] = contexts[Client(u)]
      BY <3>1
    <3>3. QED
      BY <1>3, <2>3, <3>1, <3>2 DEF SInv, OnTheWay, HasDb, HasUser
  <2>4. QED
    BY <2>1, <2>2, <2>3
<1>4. OnTheWay'
  BY <1>3 DEF OnTheWay
<1>5. QED
  BY <1>1, <1>2, <1>4, Zenon DEF SInv

\* What a thread serves is one of the requests.
LEMMA BusyFacts ==
    ASSUME SInv, NEW t \in Threads, Busy(t)
    PROVE  /\ req[t] \in Requests /\ Client(t) \in Clients /\ Stmt(t) \in Statements
           /\ req[t].token \in Users \cup {NoUser, BadToken} /\ req[t].login \in BOOLEAN
           /\ req[t].db \in Databases \cup {NoDb}
           /\ contexts[Client(t)].user \in Users \cup {NoUser}
<1>1. req[t] \in Requests
  BY DEF SInv, HasRequest
<1>2. /\ Client(t) \in Clients /\ Stmt(t) \in Statements
      /\ req[t].token \in Users \cup {NoUser, BadToken} /\ req[t].login \in BOOLEAN
      /\ req[t].db \in Databases \cup {NoDb}
  BY <1>1, ServiceAssumption, Zenon DEF Client, Stmt
<1>3. QED
  BY <1>1, <1>2 DEF SInv, ServiceTypes

\* A write to the own context changes no other one, and leaves the value that
\* was written unless another request shares the context.
LEMMA SetUserFacts ==
    ASSUME SInv, NEW t \in Threads, Busy(t), NEW u \in Users, SetUser(t, u)
    PROVE  /\ contexts' \in [Clients -> [db : Databases \cup {NoDb}, user : Users \cup {NoUser}]]
           /\ \A c \in Clients \ {Client(t)} : contexts'[c] = contexts[c]
           /\ contexts'[Client(t)].db = contexts[Client(t)].db
           /\ alone[t] => contexts'[Client(t)].user = u
<1>1. PICK v \in Users : /\ contexts' = [contexts EXCEPT ![Client(t)].user = v]
                         /\ alone[t] => v = u
  BY Zenon DEF SetUser, Left
<1>2. Client(t) \in Clients
  BY BusyFacts
<1>3. contexts \in [Clients -> [db : Databases \cup {NoDb}, user : Users \cup {NoUser}]]
  BY DEF SInv, ServiceTypes
<1>4. QED
  BY <1>1, <1>2, <1>3

\* The token check gives the session the user of the token.
LEMMA CheckTokenStep ==
    ASSUME SInv, NEW t \in Threads, CheckToken(t)
    PROVE  SInv'
<1>1. /\ at[t] = "token" /\ req' = req /\ alone' = alone /\ checked' = checked
      /\ serving' = serving /\ issued' = issued /\ reading' = reading
      /\ received' = received /\ restarts' = restarts
  BY Zenon DEF CheckToken, bounds
<1>2. Busy(t)
  BY <1>1 DEF Busy
<1>3. \E place \in {"check", "count"} : at' = [at EXCEPT ![t] = place]
  BY DEF CheckToken, AdoptToken, Fail, Goto
<1>4. ok' \in [Threads -> BOOLEAN]
  BY Zenon DEF CheckToken, AdoptToken, Fail, SInv, ServiceTypes
<1>5. /\ contexts' \in [Clients -> [db : Databases \cup {NoDb}, user : Users \cup {NoUser}]]
      /\ \A c \in Clients \ {Client(t)} : contexts'[c] = contexts[c]
      /\ contexts'[Client(t)].db = contexts[Client(t)].db
      /\ alone[t] /\ at'[t] = "check" => HasUser(t)'
  <2>1. CASE ~req[t].login /\ AdoptToken(t)
    <3>1. req[t].token \in Users /\ SetUser(t, req[t].token)
      BY <1>2, <2>1, BusyFacts, Zenon DEF AdoptToken
    <3>2. QED
      BY <1>1, <1>2, <3>1, SetUserFacts, Zenon DEF HasUser, Client
  <2>2. CASE UNCHANGED contexts /\ (req[t].login \/ req[t].token = NoUser)
    BY <1>1, <2>2 DEF SInv, ServiceTypes, HasUser
  <2>3. CASE UNCHANGED contexts /\ Fail(t)
    BY <1>1, <2>3 DEF SInv, ServiceTypes, Fail, Goto
  <2>4. QED
    BY <2>1, <2>2, <2>3 DEF CheckToken
<1>6. ServiceTypes'
  BY <1>1, <1>3, <1>4, <1>5, Zenon DEF SInv, ServiceTypes, Places
<1>7. alone[t] => HasDb(t)'
  BY <1>1, <1>5, Zenon DEF SInv, OnTheWay, HasDb, Client
<1>8. at'[t] \in {"check", "count"} /\ \A u \in Threads \ {t} : at'[u] = at[u]
  BY <1>3 DEF SInv, ServiceTypes
<1>9. QED
  BY <1>1, <1>2, <1>5, <1>6, <1>7, <1>8, OneThread, Zenon

\* The permission check is made for the user of the session.
LEMMA AuthorizeStep ==
    ASSUME SInv, NEW t \in Threads, Authorize(t)
    PROVE  SInv'
<1>1. /\ at[t] = "check" /\ req' = req /\ alone' = alone /\ contexts' = contexts
      /\ serving' = serving /\ issued' = issued /\ reading' = reading
      /\ received' = received /\ restarts' = restarts
  BY DEF Authorize, bounds
<1>2. Busy(t)
  BY <1>1 DEF Busy
<1>3. \/ at' = [at EXCEPT ![t] = "count"] /\ checked' = checked
      \/ /\ at' = [at EXCEPT ![t] = "dispatch"]
         /\ checked' = [checked EXCEPT ![t] = contexts[Client(t)].user]
  BY DEF Authorize, Fail, Goto
<1>4. ok' \in [Threads -> BOOLEAN]
  BY Zenon DEF Authorize, Fail, SInv, ServiceTypes
<1>5. ServiceTypes'
  BY <1>1, <1>2, <1>3, <1>4, BusyFacts DEF SInv, ServiceTypes, Places
<1>6. alone[t] => HasDb(t)' /\ HasUser(t)'
  BY <1>1, Zenon DEF SInv, OnTheWay, HasDb, HasUser, Client
<1>7. /\ at'[t] # "token"
      /\ at'[t] = "dispatch" => checked'[t] = contexts'[Client(t)].user
      /\ \A u \in Threads \ {t} : at'[u] = at[u] /\ checked'[u] = checked[u]
  BY <1>1, <1>3 DEF SInv, ServiceTypes
<1>8. QED
  BY <1>1, <1>2, <1>5, <1>6, <1>7, OneThread

\* After the dispatch a request has no more to do with the invariant than to
\* change only its own context.
LEMMA LateStep ==
    ASSUME SInv, NEW t \in Threads, Busy(t),
           NEW place \in {"saving", "snapshot", "count", "record"}, at' = [at EXCEPT ![t] = place],
           req' = req, alone' = alone, checked' = checked, serving' = serving,
           received' = received, restarts' = restarts,
           issued' \subseteq Users, ok' \in [Threads -> BOOLEAN],
           reading' \in [Threads -> Seconds \cup {0}],
           contexts' \in [Clients -> [db : Databases \cup {NoDb}, user : Users \cup {NoUser}]],
           \A c \in Clients \ {Client(t)} : contexts'[c] = contexts[c]
    PROVE  SInv'
<1>1. at' \in [Threads -> Places] /\ at'[t] = place /\ \A u \in Threads \ {t} : at'[u] = at[u]
  BY DEF SInv, ServiceTypes, Places
<1>2. ServiceTypes'
  BY <1>1 DEF SInv, ServiceTypes
<1>3. QED
  BY <1>1, <1>2, OneThread, Zenon

\* LOGIN changes the user of its own session only.
LEMMA LoginStep ==
    ASSUME SInv, NEW t \in Threads, Login(t)
    PROVE  SInv'
<1>1. /\ at[t] = "dispatch" /\ Stmt(t).kind = "LOGIN" /\ req' = req /\ alone' = alone
      /\ serving' = serving /\ reading' = reading /\ checked' = checked
      /\ received' = received /\ restarts' = restarts
      /\ at' = [at EXCEPT ![t] = "count"]
  BY DEF Login, bounds, Answer, Goto
<1>2. Busy(t)
  BY <1>1 DEF Busy
<1>3. Stmt(t).user \in Users
  BY <1>1, <1>2, BusyFacts, StatementFields, Zenon
<1>4. ok' \in [Threads -> BOOLEAN] /\ reading' \in [Threads -> Seconds \cup {0}]
  <2> DEFINE good == Stmt(t).user \in DOMAIN users /\ Stmt(t).good
  <2>1. ok' = [ok EXCEPT ![t] = good]
    BY DEF Login, Answer
  <2>2. good \in BOOLEAN
    BY <1>1, <1>2, BusyFacts, Zenon DEF Statements
  <2> HIDE DEF good
  <2>3. QED
    BY <1>1, <2>1, <2>2 DEF SInv, ServiceTypes
<1>5. /\ contexts' \in [Clients -> [db : Databases \cup {NoDb}, user : Users \cup {NoUser}]]
      /\ \A c \in Clients \ {Client(t)} : contexts'[c] = contexts[c]
  <2>1. SetUser(t, Stmt(t).user) \/ UNCHANGED contexts
    BY DEF Login
  <2>2. QED
    BY <1>2, <1>3, <2>1, SetUserFacts DEF SInv, ServiceTypes
<1>6. issued' \subseteq Users
  BY <1>3 DEF Login, SInv, ServiceTypes
<1>7. QED
  BY <1>1, <1>2, <1>4, <1>5, <1>6, LateStep, Zenon

\* USE changes the database of its own session only.
LEMMA QueryStep ==
    ASSUME SInv, NEW t \in Threads, Query(t)
    PROVE  SInv'
<1>1. /\ at[t] = "dispatch" /\ Stmt(t).kind = "QUERY" /\ req' = req /\ alone' = alone
      /\ serving' = serving /\ reading' = reading /\ checked' = checked /\ issued' = issued
      /\ received' = received /\ restarts' = restarts
      /\ at' = [at EXCEPT ![t] = "count"]
  BY DEF Query, bounds, Answer, Goto
<1>2. Busy(t)
  BY <1>1 DEF Busy
<1>3. ok' \in [Threads -> BOOLEAN]
  BY DEF Query, Answer, SInv, ServiceTypes
<1>4. \/ UNCHANGED contexts
      \/ \E d \in Databases : contexts' = [contexts EXCEPT ![Client(t)].db = d]
  BY <1>1, <1>2, BusyFacts, StatementFields, Zenon DEF Query, Left
<1>5. /\ contexts' \in [Clients -> [db : Databases \cup {NoDb}, user : Users \cup {NoUser}]]
      /\ \A c \in Clients \ {Client(t)} : contexts'[c] = contexts[c]
  BY <1>2, <1>4, BusyFacts DEF SInv, ServiceTypes
<1>6. issued \subseteq Users /\ reading \in [Threads -> Seconds \cup {0}]
  BY DEF SInv, ServiceTypes
<1>7. QED
  BY <1>1, <1>2, <1>3, <1>5, <1>6, LateStep, Zenon

\* The other steps after the dispatch change no session.
LEMMA OtherSteps ==
    ASSUME SInv, NEW t \in Threads,
           \/ AuthStatement(t) \/ SaveFor(t) \/ QueueStatement(t)
           \/ ReadClockForSnapshot(t) \/ TakeSnapshot(t) \/ CountRequest(t)
    PROVE  SInv'
<1>1. /\ Busy(t) /\ req' = req /\ alone' = alone /\ checked' = checked /\ serving' = serving
      /\ received' = received /\ restarts' = restarts /\ issued' = issued /\ contexts' = contexts
  BY Zenon DEF AuthStatement, SaveFor, QueueStatement, ReadClockForSnapshot, TakeSnapshot, CountRequest,
         bounds, Busy
<1>2. reading' \in [Threads -> Seconds \cup {0}]
  BY Zenon DEF AuthStatement, SaveFor, QueueStatement, ReadClockForSnapshot, TakeSnapshot, CountRequest,
         SInv, ServiceTypes
<1>3. ok' = ok \/ \E b \in BOOLEAN : ok' = [ok EXCEPT ![t] = b]
  <2>1. CASE SaveFor(t)
    <3>1. (result' = "ok") \in BOOLEAN
      OBVIOUS
    <3>2. ok' = ok \/ ok' = [ok EXCEPT ![t] = (result' = "ok")]
      BY <2>1 DEF SaveFor, Answer
    <3>3. QED
      BY <3>1, <3>2, Zenon
  <2>2. CASE ~SaveFor(t)
    BY <2>2, Zenon DEF AuthStatement, QueueStatement, ReadClockForSnapshot, TakeSnapshot, CountRequest, Answer
  <2>3. QED
    BY <2>1, <2>2
<1>4. ok' \in [Threads -> BOOLEAN]
  BY <1>3 DEF SInv, ServiceTypes
<1>5. \/ at' = at /\ at[t] = "saving"
      \/ \E place \in {"saving", "snapshot", "count", "record"} : at' = [at EXCEPT ![t] = place]
  BY Zenon DEF AuthStatement, SaveFor, QueueStatement, ReadClockForSnapshot, TakeSnapshot, CountRequest,
         Answer, Goto
<1>6. PICK place \in {"saving", "snapshot", "count", "record"} : at' = [at EXCEPT ![t] = place]
  <2>1. CASE at' = at /\ at[t] = "saving"
    BY <2>1 DEF SInv, ServiceTypes
  <2>2. QED
    BY <1>5, <2>1
<1>7. contexts \in [Clients -> [db : Databases \cup {NoDb}, user : Users \cup {NoUser}]] /\ issued \subseteq Users
  BY DEF SInv, ServiceTypes
<1>8. QED
  BY <1>1, <1>2, <1>4, <1>6, <1>7, LateStep, Zenon

\* A response ends the request and changes no session.
LEMMA RespondStep ==
    ASSUME SInv, NEW t \in Threads, Respond(t)
    PROVE  SInv'
<1>1. /\ at[t] = "record" /\ at' = [at EXCEPT ![t] = "idle"] /\ req' = [req EXCEPT ![t] = NoRequest]
      /\ reading' = [reading EXCEPT ![t] = 0] /\ checked' = [checked EXCEPT ![t] = NoUser]
      /\ serving' = serving /\ contexts' = contexts /\ issued' = issued
      /\ received' = received /\ restarts' = restarts
      /\ ok' = [ok EXCEPT ![t] = TRUE] /\ alone' = [alone EXCEPT ![t] = TRUE]
  BY DEF Respond, bounds, Goto
<1>2. ok' \in [Threads -> BOOLEAN] /\ alone' \in [Threads -> BOOLEAN]
  BY <1>1 DEF SInv, ServiceTypes
<1>3. ServiceTypes'
  BY <1>1, <1>2 DEF SInv, ServiceTypes, Places
<1>4. /\ ~Busy(t)'
      /\ \A u \in Threads \ {t} : /\ at'[u] = at[u] /\ req'[u] = req[u] /\ alone'[u] = alone[u]
                                  /\ checked'[u] = checked[u]
  BY <1>1 DEF SInv, ServiceTypes, Busy
<1>5. HasRequest' /\ AloneIsAlone'
  BY <1>4 DEF SInv, HasRequest, AloneIsAlone, Busy, Client
<1>6. ASSUME NEW u \in Threads, alone'[u]
      PROVE  /\ at'[u] \in {"token", "check", "dispatch"} => HasDb(u)'
             /\ at'[u] \in {"check", "dispatch"} => HasUser(u)'
             /\ at'[u] = "dispatch" => checked'[u] = contexts'[Client(u)'].user
  <2>1. CASE u = t
    BY <1>4, <2>1 DEF Busy
  <2>2. CASE u # t
    <3>1. Client(u)' = Client(u) /\ (HasDb(u) => HasDb(u)') /\ (HasUser(u) => HasUser(u)') /\ contexts' = contexts
      BY <1>1, <1>4, <2>2 DEF HasDb, HasUser, Client
    <3>2. QED
      BY <1>4, <1>6, <2>2, <3>1 DEF SInv, OnTheWay
  <2>3. QED
    BY <2>1, <2>2
<1>7. OnTheWay'
  BY <1>6, Zenon DEF OnTheWay
<1>8. QED
  BY <1>3, <1>5, <1>7 DEF SInv

\* A new request marks the requests that share its client id, and sets the
\* database of its own session.
LEMMA ReceiveStep ==
    ASSUME SInv, NEW t \in Threads, NEW r \in Requests, Receive(t, r)
    PROVE  SInv'
<1>1. /\ at[t] = "idle" /\ at' = [at EXCEPT ![t] = "token"] /\ req' = [req EXCEPT ![t] = r]
      /\ reading' = reading /\ checked' = checked /\ ok' = ok
      /\ serving' = serving /\ issued' = issued
      /\ received < MaxRequests /\ received' = received + 1 /\ restarts' = restarts
      /\ contexts' = IF r.db = NoDb THEN contexts ELSE [contexts EXCEPT ![r.client].db = r.db]
  BY DEF Receive, bounds, Goto
<1>2. /\ r.client \in Clients /\ r.db \in Databases \cup {NoDb}
  BY ServiceAssumption
<1>3. /\ contexts' \in [Clients -> [db : Databases \cup {NoDb}, user : Users \cup {NoUser}]]
      /\ \A c \in Clients \ {r.client} : contexts'[c] = contexts[c]
      /\ r.db # NoDb => contexts'[r.client].db = r.db
  BY <1>1, <1>2 DEF SInv, ServiceTypes
<1>4. /\ alone' \in [Threads -> BOOLEAN]
      /\ alone'[t] => \A v \in Threads : ~Shares(v, r.client)
      /\ \A u \in Threads \ {t} : alone'[u] => alone[u] /\ ~Shares(u, r.client)
  <2>1. alone' = [u \in Threads |-> IF u = t THEN ~\E v \in Threads : Shares(v, r.client)
                                    ELSE alone[u] /\ ~Shares(u, r.client)]
    BY DEF Receive
  <2>2. \A u \in Threads : alone[u] \in BOOLEAN
    BY DEF SInv, ServiceTypes
  <2>3. \A u \in Threads : (IF u = t THEN ~\E v \in Threads : Shares(v, r.client)
                            ELSE alone[u] /\ ~Shares(u, r.client)) \in BOOLEAN
    BY <2>2, Zenon
  <2>4. alone' \in [Threads -> BOOLEAN]
    BY <2>1, <2>3, Zenon
  <2>5. QED
    BY <2>1, <2>4
<1>5. received' \in 0..MaxRequests
  BY <1>1, BoundsAssumption DEF SInv, ServiceTypes
<1>6. ServiceTypes'
  BY <1>1, <1>3, <1>4, <1>5, Zenon DEF SInv, ServiceTypes, Places
<1>7. /\ at'[t] = "token" /\ req'[t] = r
      /\ \A u \in Threads \ {t} : at'[u] = at[u] /\ req'[u] = req[u]
  BY <1>1 DEF SInv, ServiceTypes
<1>8. HasRequest'
  BY <1>7 DEF SInv, HasRequest, Busy
<1>9. AloneIsAlone'
  BY <1>4, <1>7 DEF SInv, AloneIsAlone, Busy, Client, Shares
<1>10. ASSUME NEW u \in Threads, alone'[u]
       PROVE  /\ at'[u] \in {"token", "check", "dispatch"} => HasDb(u)'
              /\ at'[u] \in {"check", "dispatch"} => HasUser(u)'
              /\ at'[u] = "dispatch" => checked'[u] = contexts'[Client(u)'].user
  <2>1. CASE u = t
    BY <1>3, <1>7, <2>1 DEF HasDb, Client
  <2>2. CASE u # t /\ ~Busy(u)
    BY <1>7, <2>2 DEF Busy
  <2>3. CASE u # t /\ Busy(u)
    <3>1. alone[u] /\ Client(u) # r.client /\ Client(u) \in Clients /\ Client(u)' = Client(u)
      BY <1>4, <1>7, <1>10, <2>3, BusyFacts DEF Shares, Client
    <3>2. contexts'[Client(u)] = contexts[Client(u)]
      BY <1>3, <3>1
    <3>3. QED
      BY <1>1, <1>7, <2>3, <3>1, <3>2 DEF SInv, OnTheWay, HasDb, HasUser
  <2>4. QED
    BY <2>1, <2>2, <2>3
<1>11. OnTheWay'
  BY <1>10 DEF OnTheWay
<1>12. QED
  BY <1>6, <1>8, <1>9, <1>11 DEF SInv

\* The constructor serves no request yet, and a crash ends all of them.
LEMMA ProcessSteps ==
    ASSUME SInv, Construct \/ Serve \/ Crash
    PROVE  SInv'
<1>1. CASE Construct \/ Serve
  <2>1. /\ serving' \in BOOLEAN /\ contexts' = contexts /\ issued' = issued /\ at' = at /\ req' = req
        /\ ok' = ok /\ reading' = reading /\ checked' = checked /\ alone' = alone
        /\ received' = received /\ restarts' = restarts
    BY <1>1, Zenon DEF Construct, Serve, threadVars, bounds, SInv, ServiceTypes
  <2>2. ServiceTypes'
    BY <2>1 DEF SInv, ServiceTypes
  <2>3. QED
    BY <2>1, <2>2, Zenon DEF SInv, HasRequest, AloneIsAlone, OnTheWay, HasDb, HasUser, Busy, Client
<1>2. CASE Crash
  <2>1. /\ contexts' \in [Clients -> [db : Databases \cup {NoDb}, user : Users \cup {NoUser}]]
        /\ issued' \subseteq Users
    BY <1>2 DEF Crash, NoContext, SInv, ServiceTypes
  <2>2. /\ serving' \in BOOLEAN
        /\ at' \in [Threads -> Places]
        /\ req' \in [Threads -> Requests \cup {NoRequest}]
        /\ reading' \in [Threads -> Seconds \cup {0}]
        /\ checked' \in [Threads -> Users \cup {NoUser}]
        /\ ok' \in [Threads -> BOOLEAN] /\ alone' \in [Threads -> BOOLEAN]
    BY <1>2, Zenon DEF Crash, Places
  <2>3. received' \in 0..MaxRequests /\ restarts' \in 0..MaxRestarts
    BY <1>2, BoundsAssumption DEF Crash, SInv, ServiceTypes
  <2>4. \A t \in Threads : at'[t] = "idle"
    BY <1>2 DEF Crash
  <2>5. QED
    BY <2>1, <2>2, <2>3, <2>4 DEF SInv, ServiceTypes, HasRequest, AloneIsAlone, OnTheWay, Busy
<1>3. QED
  BY <1>1, <1>2

\* Every step of the service preserves the invariant.
LEMMA NextSInv == SInv /\ [Next]_vars => SInv'
<1> SUFFICES ASSUME SInv, [Next]_vars PROVE SInv'
  OBVIOUS
<1>1. CASE UNCHANGED vars
  BY <1>1, Zenon DEF vars, threadVars, bounds, SInv, ServiceTypes, HasRequest, AloneIsAlone, OnTheWay, HasDb,
              HasUser, Busy, Client
<1>2. CASE Construct \/ Serve \/ Crash
  BY <1>2, ProcessSteps
<1>3. ASSUME NEW t \in Threads, ThreadStep(t) PROVE SInv'
  BY <1>3, CheckTokenStep, AuthorizeStep, LoginStep, QueryStep, OtherSteps, RespondStep DEF ThreadStep
<1>4. ASSUME NEW t \in Threads, NEW r \in Requests, Receive(t, r) PROVE SInv'
  BY <1>4, ReceiveStep
<1>5. QED
  BY <1>1, <1>2, <1>3, <1>4 DEF Next

\* What a thread has of its request, and its session of it, at every place of
\* HandleRequest.
THEOREM ServiceInvariance == Spec => []SInv
BY InitSInv, NextSInv, PTL DEF Spec

\* HandleRequest: a request that shares its client id with no other one is
\* dispatched in its own database, as its own user, and that user was checked.
THEOREM RequestsRunAsThemselves == Spec => []RunsAsItself
BY ServiceInvariance, SInvImplies, PTL

-----------------------------------------------------------------------------
(* The permission store inside the service.                                *)

\* Every step of the service is a step of the store or leaves the store alone.
LEMMA StepsOfTheStore == SInv /\ [Next]_vars => [RbacNext]_rbacVars
<1> SUFFICES ASSUME SInv, [Next]_vars PROVE RbacNext \/ UNCHANGED rbacVars
  OBVIOUS
<1>1. CASE UNCHANGED vars
  BY <1>1 DEF vars
<1>2. CASE Construct \/ Serve \/ Crash
  BY <1>2 DEF Construct, Serve, Crash, RbacNext
<1>3. ASSUME NEW t \in Threads, ThreadStep(t) PROVE RbacNext \/ UNCHANGED rbacVars
  <2>1. CASE AuthStatement(t)
    <3>1. Busy(t) /\ AuthOperation(Stmt(t))
      BY <2>1 DEF AuthStatement, Busy
    <3>2. QED
      BY <3>1, BusyFacts, CallsAreOperations DEF RbacNext
  <2>2. CASE SaveFor(t)
    BY <2>2 DEF SaveFor, RbacNext
  <2>3. QED
    BY <1>3, <2>1, <2>2, Zenon DEF ThreadStep, CheckToken, Authorize, Login, Query, QueueStatement,
       ReadClockForSnapshot, TakeSnapshot, CountRequest, Respond
<1>4. ASSUME NEW t \in Threads, NEW r \in Requests, Receive(t, r) PROVE UNCHANGED rbacVars
  BY <1>4 DEF Receive
<1>5. QED
  BY <1>1, <1>2, <1>3, <1>4 DEF Next

\* The service implements the store: its threads, however they interleave, only
\* do to the store what the store's specification allows.
THEOREM ImplementsRbac == Spec => RbacSpec
<1>1. Init => RbacInit
  BY DEF Init
<1>2. QED
  BY <1>1, ServiceInvariance, StepsOfTheStore, PTL DEF Spec, RbacSpec

\* Hence what is proved of every store holds of the one inside the service.
THEOREM StoreInService == Spec => [](FileIsAcknowledged /\ MembershipsAreReal /\ UnsavedIsNamed)
BY ImplementsRbac, FileAcknowledged, Memberships, UnsavedNamed, PTL

\* Types of the service's state and of its store.
THEOREM ServiceTypeCorrect == Spec => []TypeOK
<1>1. SInv /\ RbacTypeOK => TypeOK
  BY DEF SInv, ServiceTypes, TypeOK
<1>2. QED
  BY <1>1, ServiceInvariance, ImplementsRbac, TypeCorrect, PTL

-----------------------------------------------------------------------------
(* The metrics inside the service.                                         *)

\* Every step of the service is a step of the metrics or leaves them alone.
LEMMA StepsOfTheMetrics == SInv /\ [Next]_vars => [MetricsNext]_metricsVars
<1> SUFFICES ASSUME SInv, [Next]_vars PROVE MetricsNext \/ UNCHANGED metricsVars
  OBVIOUS
<1>1. CASE UNCHANGED vars
  BY <1>1 DEF vars
<1>2. CASE Construct \/ Serve \/ Crash
  BY <1>2 DEF Construct, Serve, Crash, MetricsNext
<1>3. ASSUME NEW t \in Threads, ThreadStep(t) PROVE MetricsNext \/ UNCHANGED metricsVars
  <2>1. (~ok[t]) \in BOOLEAN /\ reading[t] \in Int
    <3>1. (~ok[t]) \in BOOLEAN
      BY Zenon
    <3>2. reading[t] \in Seconds \cup {0}
      BY DEF SInv, ServiceTypes
    <3>3. reading[t] \in Int
      <4>1. \A x \in Seconds : x \in Nat
        BY BoundsAssumption, Zenon
      <4>2. reading[t] = 0 \/ reading[t] \in Nat
        BY <3>2, <4>1, Zenon
      <4>3. QED
        BY <4>2
    <3>4. QED
      BY <3>1, <3>3
  <2>2. CASE TakeSnapshot(t)
    BY <2>1, <2>2 DEF TakeSnapshot, MetricsNext
  <2>3. CASE CountRequest(t)
    BY <2>1, <2>3, Zenon DEF CountRequest, MetricsNext
  <2>4. CASE Respond(t)
    BY <2>1, <2>4, Zenon DEF Respond, MetricsNext
  <2>5. QED
    BY <1>3, <2>2, <2>3, <2>4, Zenon DEF ThreadStep, CheckToken, Authorize, Login, AuthStatement, SaveFor, Query,
       QueueStatement, ReadClockForSnapshot
<1>4. ASSUME NEW t \in Threads, NEW r \in Requests, Receive(t, r) PROVE UNCHANGED metricsVars
  BY <1>4 DEF Receive
<1>5. QED
  BY <1>1, <1>2, <1>3, <1>4 DEF Next

\* The service implements the metrics, and its window is exact: the threads'
\* readings of the clock may reach it in any order.
THEOREM ImplementsMetrics == Spec => MetricsSpec /\ []WindowIsExact
<1>1. Init => MetricsInit
  BY DEF Init
<1>2. QED
  BY <1>1, ServiceInvariance, StepsOfTheMetrics, WindowExact, PTL DEF Spec, MetricsSpec

-----------------------------------------------------------------------------
(* Requests and their counts.                                              *)

\* Received and not yet in the totals; in the totals and not yet in a bucket; and
\* those of them that failed.
Uncounted == {t \in Threads : at[t] \notin {"idle", "record"}}
Recorded == {t \in Threads : at[t] = "record"}
FailedRecorded == {t \in Threads : at[t] = "record" /\ ~ok[t]}
BusyThreads == {t \in Threads : Busy(t)}

Balance ==
    /\ accepted = totalRequests + Cardinality(Uncounted)
    /\ totalErrors = failed + Cardinality(FailedRecorded)
    /\ totalRequests = Total(placed) + Cardinality(Recorded)

\* The invariant: finitely many threads are busy, whatever the number of threads,
\* and finitely many seconds were counted in.
CInv ==
    /\ accepted \in Nat /\ failed \in Nat /\ totalRequests \in Nat /\ totalErrors \in Nat
    /\ IsFiniteSet(BusyThreads) /\ IsFiniteSet(DOMAIN placed)
    /\ Balance

\* The numbers of the invariant.
LEMMA CountFacts ==
    ASSUME CInv
    PROVE  /\ accepted \in Nat /\ failed \in Nat /\ totalRequests \in Nat /\ totalErrors \in Nat
           /\ accepted = totalRequests + Cardinality(Uncounted)
           /\ totalErrors = failed + Cardinality(FailedRecorded)
           /\ totalRequests = Total(placed) + Cardinality(Recorded)
BY Zenon DEF CInv, Balance

\* The balance is what CountedOnce says.
LEMMA BalanceIsCountedOnce == SInv /\ Balance => CountedOnce
<1> SUFFICES ASSUME SInv, Balance PROVE CountedOnce
  OBVIOUS
<1>1. \A t \in Threads : ok[t] \in BOOLEAN
  BY DEF SInv, ServiceTypes
<1>2. {t \in Threads : at[t] = "record" /\ ok[t] \in {FALSE}} = FailedRecorded
  BY <1>1, Zenon DEF FailedRecorded
<1>3. {t \in Threads : at[t] = "record" /\ ok[t] \in BOOLEAN} = Recorded
  BY <1>1, Zenon DEF Recorded
<1>4. QED
  BY <1>2, <1>3, Zenon DEF CountedOnce, Balance, Total, Uncounted

\* The sets that are counted are finite.
LEMMA CountedFinite ==
    ASSUME IsFiniteSet(BusyThreads)
    PROVE  /\ IsFiniteSet(Uncounted) /\ IsFiniteSet(Recorded) /\ IsFiniteSet(FailedRecorded)
           /\ Cardinality(Uncounted) \in Nat /\ Cardinality(Recorded) \in Nat
           /\ Cardinality(FailedRecorded) \in Nat
<1>1. Uncounted \in SUBSET BusyThreads /\ Recorded \in SUBSET BusyThreads /\ FailedRecorded \in SUBSET BusyThreads
  BY DEF Uncounted, Recorded, FailedRecorded, BusyThreads, Busy
<1>2. IsFiniteSet(Uncounted) /\ IsFiniteSet(Recorded) /\ IsFiniteSet(FailedRecorded)
  BY <1>1, FS_Subset
<1>3. QED
  BY <1>2, FS_CardinalityType

\* A thread between the receipt and the count stays there: nothing is counted.
LEMMA UncountedStep ==
    ASSUME CInv, NEW t \in Threads, Busy(t), at[t] # "record", at'[t] \notin {"idle", "record"},
           \A u \in Threads \ {t} : at'[u] = at[u] /\ ok'[u] = ok[u],
           UNCHANGED <<accepted, failed, totalRequests, totalErrors, placed>>
    PROVE  CInv'
<1>1. /\ Uncounted' = Uncounted /\ Recorded' = Recorded /\ FailedRecorded' = FailedRecorded
      /\ BusyThreads' = BusyThreads
  BY DEF Uncounted, Recorded, FailedRecorded, BusyThreads, Busy
<1>2. Balance'
  BY <1>1, Zenon DEF CInv, Balance
<1>3. QED
  BY <1>1, <1>2, Zenon DEF CInv

\* The start of a request.
LEMMA ReceiveCounts ==
    ASSUME SInv, CInv, NEW t \in Threads, NEW r \in Requests, Receive(t, r)
    PROVE  CInv'
<1>1. /\ at[t] = "idle" /\ at'[t] = "token" /\ \A u \in Threads \ {t} : at'[u] = at[u]
      /\ UNCHANGED <<ok, failed, totalRequests, totalErrors, placed>> /\ accepted' = accepted + 1
  BY DEF Receive, Goto, SInv, ServiceTypes, metricsVars
<1>2. /\ Uncounted' = Uncounted \cup {t} /\ t \notin Uncounted
      /\ Recorded' = Recorded /\ FailedRecorded' = FailedRecorded
      /\ BusyThreads' = BusyThreads \cup {t}
  BY <1>1 DEF Uncounted, Recorded, FailedRecorded, BusyThreads, Busy
<1>3. IsFiniteSet(BusyThreads')
  BY <1>2, FS_AddElement DEF CInv
<1>4. Cardinality(Uncounted') = Cardinality(Uncounted) + 1 /\ Cardinality(Uncounted) \in Nat
  BY <1>2, CountedFinite, FS_AddElement, Zenon DEF CInv
<1>5. accepted' = totalRequests' + Cardinality(Uncounted') /\ accepted' \in Nat
  BY <1>1, <1>4, CountFacts
<1>6. Balance'
  BY <1>1, <1>2, <1>5, CountFacts, Zenon DEF Balance
<1>7. QED
  BY <1>1, <1>3, <1>5, <1>6, CountFacts, Zenon DEF CInv

\* RecordRequest up to the lock: the request is in the totals.
LEMMA TotalsCount ==
    ASSUME SInv, MInv, CInv, NEW t \in Threads, CountRequest(t)
    PROVE  CInv'
<1>1. /\ at[t] = "count" /\ at'[t] = "record" /\ \A u \in Threads \ {t} : at'[u] = at[u]
      /\ UNCHANGED <<ok, accepted, failed, placed>> /\ totalRequests' = totalRequests + 1
      /\ totalErrors' = totalErrors + (IF ~ok[t] THEN 1 ELSE 0)
  BY DEF CountRequest, CountTotals, Goto, SInv, ServiceTypes, counted
<1>2. /\ Uncounted' = Uncounted \ {t} /\ t \in Uncounted
      /\ Recorded' = Recorded \cup {t} /\ t \notin Recorded /\ t \notin FailedRecorded
      /\ BusyThreads' = BusyThreads
  BY <1>1 DEF Uncounted, Recorded, FailedRecorded, BusyThreads, Busy
<1>3. FailedRecorded' = IF ok[t] THEN FailedRecorded ELSE FailedRecorded \cup {t}
  BY <1>1 DEF FailedRecorded
<1>4. /\ Cardinality(Uncounted') = Cardinality(Uncounted) - 1 /\ Cardinality(Uncounted) \in Nat
      /\ Cardinality(Recorded') = Cardinality(Recorded) + 1 /\ Cardinality(Recorded) \in Nat
  BY <1>2, CountedFinite, FS_AddElement, FS_RemoveElement, Zenon DEF CInv
<1>5. /\ Cardinality(FailedRecorded') = Cardinality(FailedRecorded) + (IF ~ok[t] THEN 1 ELSE 0)
      /\ Cardinality(FailedRecorded) \in Nat
  <2>1. IsFiniteSet(FailedRecorded) /\ Cardinality(FailedRecorded) \in Nat
    BY CountedFinite DEF CInv
  <2>2. Cardinality(FailedRecorded \cup {t}) = Cardinality(FailedRecorded) + 1
    BY <1>2, <2>1, FS_AddElement, Zenon
  <2>3. CASE ok[t]
    BY <1>3, <2>1, <2>3
  <2>4. CASE ~ok[t]
    BY <1>3, <2>1, <2>2, <2>4
  <2>5. QED
    BY <2>3, <2>4
<1>6. accepted' = totalRequests' + Cardinality(Uncounted') /\ totalRequests' \in Nat
  BY <1>1, <1>4, CountFacts
<1>7. totalErrors' = failed' + Cardinality(FailedRecorded') /\ totalErrors' \in Nat
  BY <1>1, <1>5, CountFacts
<1>8. totalRequests' = Total(placed)' + Cardinality(Recorded')
  <2>1. Total(placed)' = Total(placed)
    BY <1>1, Zenon
  <2>2. Total(placed) \in Nat
    BY TotalIsNat, Zenon DEF CInv, MInv
  <2>3. QED
    BY <1>1, <1>4, <2>1, <2>2, CountFacts
<1>9. Balance'
  BY <1>6, <1>7, <1>8, Zenon DEF Balance
<1>10. QED
  BY <1>1, <1>2, <1>6, <1>7, <1>9, CountFacts, Zenon DEF CInv

\* RecordRequest under the lock, and the response: the request is in its bucket.
LEMMA ResponseCounts ==
    ASSUME SInv, MInv, CInv, NEW t \in Threads, Respond(t)
    PROVE  CInv'
<1>1. /\ at[t] = "record" /\ at'[t] = "idle" /\ \A u \in Threads \ {t} : at'[u] = at[u] /\ ok'[u] = ok[u]
      /\ UNCHANGED <<accepted, totalRequests, totalErrors>>
      /\ failed' = failed + (IF ok[t] THEN 0 ELSE 1)
  BY DEF Respond, RecordReading, Goto, SInv, ServiceTypes
<1>2. /\ Uncounted' = Uncounted
      /\ Recorded' = Recorded \ {t} /\ t \in Recorded /\ FailedRecorded' = FailedRecorded \ {t}
      /\ BusyThreads' = BusyThreads \ {t}
  BY <1>1 DEF Uncounted, Recorded, FailedRecorded, BusyThreads, Busy
<1>3. t \in FailedRecorded <=> ~ok[t]
  BY <1>1 DEF FailedRecorded
<1>4. IsFiniteSet(BusyThreads')
  BY <1>2, FS_RemoveElement DEF CInv
<1>5. Cardinality(Recorded') = Cardinality(Recorded) - 1 /\ Cardinality(Recorded) \in Nat
  BY <1>2, CountedFinite, FS_RemoveElement, Zenon DEF CInv
<1>6. /\ Cardinality(FailedRecorded') = Cardinality(FailedRecorded) - (IF ok[t] THEN 0 ELSE 1)
      /\ Cardinality(FailedRecorded) \in Nat
  <2>1. IsFiniteSet(FailedRecorded) /\ Cardinality(FailedRecorded) \in Nat
    BY CountedFinite DEF CInv
  <2>2. CASE ok[t]
    <3>1. Cardinality(FailedRecorded \ {t}) = Cardinality(FailedRecorded)
      BY <1>3, <2>1, <2>2, FS_RemoveElement, Zenon
    <3>2. QED
      BY <1>2, <2>1, <2>2, <3>1
  <2>3. CASE ~ok[t]
    <3>1. Cardinality(FailedRecorded \ {t}) = Cardinality(FailedRecorded) - 1
      BY <1>3, <2>1, <2>3, FS_RemoveElement, Zenon
    <3>2. QED
      BY <1>2, <2>1, <2>3, <3>1
  <2>4. QED
    BY <2>2, <2>3
<1> DEFINE s == Back(Advanced(reading[t])).ts
<1>7. /\ DOMAIN placed' = DOMAIN placed \cup {s}
      /\ placed'[s] = (IF s \in DOMAIN placed THEN placed[s] ELSE 0) + 1
      /\ \A y \in DOMAIN placed \ {s} : placed'[y] = placed[y]
  BY Zenon DEF Respond, RecordReading
<1> HIDE DEF s
<1>8. Total(placed) \in Nat /\ Total(placed') = Total(placed) + 1
  <2>1. IsFiniteSet(DOMAIN placed) /\ \A y \in DOMAIN placed : placed[y] \in Nat
    BY DEF CInv, MInv
  <2>2. QED
    BY <1>7, <2>1, SumPlusOne
<1>9. IsFiniteSet(DOMAIN placed')
  BY <1>7, FS_AddElement DEF CInv
<1>10. totalErrors' = failed' + Cardinality(FailedRecorded') /\ failed' \in Nat
  BY <1>1, <1>6, CountFacts
<1>11. totalRequests' = Total(placed') + Cardinality(Recorded')
  BY <1>1, <1>5, <1>8, CountFacts
<1>12. Total(placed') = Total(placed)'
  OBVIOUS
<1>13. accepted' = totalRequests' + Cardinality(Uncounted')
  BY <1>1, <1>2, CountFacts, Zenon
<1>14. Balance'
  BY <1>10, <1>11, <1>12, <1>13, Zenon DEF Balance
<1>15. QED
  BY <1>1, <1>2, <1>4, <1>9, <1>10, <1>14, CountFacts, Zenon DEF CInv

\* A dead process has counted nothing and serves nothing.
NothingDone ==
    /\ accepted = 0 /\ failed = 0 /\ totalRequests = 0 /\ totalErrors = 0 /\ DOMAIN placed = {}
    /\ \A t \in Threads : at[t] = "idle"

\* Before any request all counts are zero.
LEMMA NothingCounted == NothingDone => CInv
<1> SUFFICES ASSUME NothingDone PROVE CInv
  OBVIOUS
<1>1. Uncounted = {} /\ Recorded = {} /\ FailedRecorded = {} /\ BusyThreads = {}
  BY DEF NothingDone, Uncounted, Recorded, FailedRecorded, BusyThreads, Busy
<1>2. Total(placed) = 0 /\ IsFiniteSet({}) /\ Cardinality({}) = 0
  BY SumOfNone, FS_EmptySet DEF NothingDone
<1>3. QED
  BY <1>1, <1>2 DEF NothingDone, CInv, Balance

\* The service starts with nothing counted.
LEMMA InitCInv == Init => CInv
<1>1. Init => NothingDone
  BY DEF Init, MetricsInit, NothingDone
<1>2. QED
  BY <1>1, NothingCounted

\* Every step of the service keeps the balance.
LEMMA NextCInv == SInv /\ MInv /\ CInv /\ [Next]_vars => CInv'
<1> SUFFICES ASSUME SInv, MInv, CInv, [Next]_vars PROVE CInv'
  OBVIOUS
<1>1. CASE UNCHANGED <<at, ok, accepted, failed, totalRequests, totalErrors, placed>>
  <2>1. /\ Uncounted' = Uncounted /\ Recorded' = Recorded /\ FailedRecorded' = FailedRecorded
        /\ BusyThreads' = BusyThreads
    BY <1>1 DEF Uncounted, Recorded, FailedRecorded, BusyThreads, Busy
  <2>2. Balance'
    BY <1>1, <2>1, Zenon DEF CInv, Balance
  <2>3. QED
    BY <1>1, <2>1, <2>2, Zenon DEF CInv
<1>2. CASE UNCHANGED vars \/ Construct \/ Serve
  BY <1>1, <1>2 DEF vars, Construct, Serve, threadVars, metricsVars, counted
<1>3. CASE Crash
  <2>1. NothingDone'
    BY <1>3 DEF Crash, MetricsRestart, NothingDone
  <2>2. (NothingDone => CInv)'
    BY NothingCounted, PTL
  <2>3. QED
    BY <2>1, <2>2
<1>4. ASSUME NEW t \in Threads,
             \/ CheckToken(t) \/ Authorize(t) \/ Login(t) \/ AuthStatement(t) \/ SaveFor(t) \/ Query(t)
             \/ QueueStatement(t) \/ ReadClockForSnapshot(t) \/ TakeSnapshot(t)
      PROVE  CInv'
  <2>1. UNCHANGED <<accepted, failed, totalRequests, totalErrors, placed>>
    BY <1>4, Zenon DEF CheckToken, Authorize, Login, AuthStatement, SaveFor, Query, QueueStatement,
                ReadClockForSnapshot, TakeSnapshot, Snapshot, metricsVars, counted
  <2>2. Busy(t) /\ at[t] # "record"
    BY <1>4, Zenon DEF CheckToken, Authorize, Login, AuthStatement, SaveFor, Query, QueueStatement,
                ReadClockForSnapshot, TakeSnapshot, Busy
  <2>3. /\ UNCHANGED at \/ \E place \in {"check", "dispatch", "saving", "snapshot", "count"} : Goto(t, place)
        /\ UNCHANGED ok \/ \E v \in BOOLEAN : ok' = [ok EXCEPT ![t] = v]
    <3>1. CASE CheckToken(t)
      BY <3>1, Zenon DEF CheckToken, AdoptToken, Fail
    <3>2. CASE Authorize(t)
      BY <3>2, Zenon DEF Authorize, Fail
    <3>3. CASE Login(t)
      BY <3>3, Zenon DEF Login, Answer
    <3>4. CASE AuthStatement(t)
      BY <3>4, Zenon DEF AuthStatement, Answer
    <3>5. CASE SaveFor(t)
      BY <3>5, Zenon DEF SaveFor, Answer
    <3>6. CASE Query(t) \/ QueueStatement(t)
      BY <3>6 DEF Query, QueueStatement, Answer
    <3>7. CASE ReadClockForSnapshot(t) \/ TakeSnapshot(t)
      BY <3>7, Zenon DEF ReadClockForSnapshot, TakeSnapshot, Answer
    <3>8. QED
      BY <1>4, <3>1, <3>2, <3>3, <3>4, <3>5, <3>6, <3>7, Zenon
  <2>4. at'[t] \notin {"idle", "record"} /\ \A u \in Threads \ {t} : at'[u] = at[u] /\ ok'[u] = ok[u]
    BY <2>2, <2>3 DEF Goto, Busy, SInv, ServiceTypes
  <2>5. QED
    BY <2>1, <2>2, <2>4, UncountedStep, Zenon
<1>5. ASSUME NEW t \in Threads, ThreadStep(t) PROVE CInv'
  BY <1>4, <1>5, TotalsCount, ResponseCounts DEF ThreadStep
<1>6. QED
  BY <1>2, <1>3, <1>5, ReceiveCounts DEF Next

\* HandleRequest: every request, answered or refused on whichever path, is in the
\* totals exactly once by then, as an error exactly when it failed, and in exactly
\* one bucket; a request in flight is in none of them twice.
THEOREM RequestsCountedOnce == Spec => []CountedOnce
<1>1. Spec => []MInv
  BY ImplementsMetrics, MetricsInitInv, MetricsNextInv, PTL DEF MetricsSpec
<1>2. Spec => []CInv
  BY <1>1, InitCInv, NextCInv, ServiceInvariance, PTL DEF Spec
<1>3. SInv /\ CInv => CountedOnce
  BY BalanceIsCountedOnce DEF CInv
<1>4. QED
  BY <1>2, <1>3, ServiceInvariance, PTL
=============================================================================
