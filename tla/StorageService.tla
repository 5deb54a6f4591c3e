--------------------------- MODULE StorageService ---------------------------
(***************************************************************************)
(* StorageService::HandleRequest (src/server/storage_service.cpp) on the   *)
(* connection threads of one process, with the permission store and the    *)
(* metrics it calls.                                                       *)
(*                                                                         *)
(* The session context of a client id is looked up under ctx_mu_ and used  *)
(* after it is released, so threads that serve the same client id share    *)
(* one context; what their racing writes leave in it is any value.  A step *)
(* is what runs between two points where another thread may come in.  The  *)
(* query processor and the task queue are modelled elsewhere; here they    *)
(* succeed or fail.                                                        *)
(***************************************************************************)
EXTENDS Rbac, Metrics, FiniteSets

CONSTANTS Threads, Clients, Databases,
          NoDb, NoUser, BadToken, NoPermission, NoRequest,
          Requests,          \* [client, db, token, login, stmt]
          Seconds,           \* what the clock may read
          MaxRequests,       \* bound: requests received
          MaxRestarts        \* bound: how often the process dies

\* What a statement carries, by kind.  A request starts with the word LOGIN
\* ("login") when it is one, or does not parse.
Statements ==
    [kind : {"LOGIN"}, user : Users, good : BOOLEAN]
    \cup [kind : {"CREATE USER", "DROP USER"}, user : Users]
    \cup [kind : {"CREATE GROUP", "DROP GROUP"}, group : Groups]
    \cup [kind : {"ADD USER"}, user : Users, group : Groups]
    \cup [kind : {"GRANT USER", "REVOKE USER"}, user : Users, mask : Masks]
    \cup [kind : {"GRANT GROUP", "REVOKE GROUP"}, group : Groups, mask : Masks]
    \cup [kind : {"QUERY"}, needs : Permissions \cup {NoPermission}, use : Databases \cup {NoDb}]
    \cup [kind : {"SUBMIT"}, needs : Permissions]
    \cup [kind : {"TASK", "SHOW METRICS", "UNPARSABLE"}]

ASSUME ServiceAssumption ==
    /\ NoDb \notin Databases /\ {NoUser, BadToken} \cap Users = {}
    /\ NoRequest \notin Requests
    /\ Requests \subseteq [client : Clients, db : Databases \cup {NoDb},
                           token : Users \cup {NoUser, BadToken},
                           login : BOOLEAN, stmt : Statements]
    /\ \A r \in Requests : r.login => r.stmt.kind \in {"LOGIN", "UNPARSABLE"}

ASSUME BoundsAssumption == MaxRequests \in Nat /\ MaxRestarts \in Nat /\ Seconds \subseteq Nat

VARIABLES serving,   \* the constructor is done and connections are accepted
          contexts,  \* session_contexts_: client -> [db, user]
          issued,    \* users that were given a token, which outlives the process
          at, req,   \* where each thread is, and the request it serves
          ok,        \* resp.ok of that request
          reading,   \* the second RecordRequest or Snapshot read
          received, restarts,
          checked,   \* history: the user the permission check was made for
          alone,     \* history: no other request used the context meanwhile
          accepted,  \* history: requests received since the process started
          failed     \* history: requests answered with an error since then

threadVars == <<at, req, ok, reading, checked, alone>>
bounds == <<received, restarts>>
counted == <<accepted, failed>>
vars == <<rbacVars, metricsVars, serving, contexts, issued, threadVars, bounds, counted>>

Busy(t) == at[t] # "idle"
Client(t) == req[t].client
Stmt(t) == req[t].stmt
Goto(t, place) == at' = [at EXCEPT ![t] = place]

NoContext == [db |-> NoDb, user |-> NoUser]

Init ==
    /\ RbacInit /\ MetricsInit
    /\ serving = FALSE
    /\ contexts = [c \in Clients |-> NoContext]
    /\ issued = IF file = NoFile THEN {} ELSE DOMAIN file.users
    /\ at = [t \in Threads |-> "idle"]
    /\ req = [t \in Threads |-> NoRequest]
    /\ ok = [t \in Threads |-> TRUE]
    /\ reading = [t \in Threads |-> 0]
    /\ checked = [t \in Threads |-> NoUser]
    /\ alone = [t \in Threads |-> TRUE]
    /\ received = 0 /\ restarts = 0
    /\ accepted = 0 /\ failed = 0

-----------------------------------------------------------------------------
(* The constructor, and the end of the process.                            *)

Construct ==
    /\ ~serving
    /\ Open \/ Save
    /\ UNCHANGED <<metricsVars, serving, contexts, issued, threadVars, bounds, counted>>

Serve ==
    /\ ~serving /\ MuFree
    /\ serving' = TRUE
    /\ UNCHANGED <<rbacVars, metricsVars, contexts, issued, threadVars, bounds, counted>>

Crash ==
    /\ restarts < MaxRestarts
    /\ restarts' = restarts + 1
    /\ ProcessEnds /\ MetricsRestart
    /\ serving' = FALSE
    /\ contexts' = [c \in Clients |-> NoContext]
    /\ at' = [t \in Threads |-> "idle"]
    /\ req' = [t \in Threads |-> NoRequest]
    /\ ok' = [t \in Threads |-> TRUE]
    /\ reading' = [t \in Threads |-> 0]
    /\ checked' = [t \in Threads |-> NoUser]
    /\ alone' = [t \in Threads |-> TRUE]
    /\ accepted' = 0 /\ failed' = 0
    /\ UNCHANGED <<issued, received>>

-----------------------------------------------------------------------------
(* HandleRequest, up to the dispatch.                                      *)

Shares(t, c) == Busy(t) /\ Client(t) = c

\* what an assignment to a field of the context leaves there
Left(t, v, values) == IF alone[t] THEN {v} ELSE values
SetUser(t, u) == \E v \in Left(t, u, Users) : contexts' = [contexts EXCEPT ![Client(t)].user = v]

\* the context of the client id, under ctx_mu_
Receive(t, r) ==
    /\ serving /\ at[t] = "idle"
    /\ received < MaxRequests
    /\ r.token \in issued \cup {NoUser, BadToken}
    /\ received' = received + 1 /\ accepted' = accepted + 1
    /\ Goto(t, "token")
    /\ req' = [req EXCEPT ![t] = r]
    /\ contexts' = IF r.db = NoDb THEN contexts ELSE [contexts EXCEPT ![r.client].db = r.db]
    /\ alone' = [u \in Threads |-> IF u = t THEN ~\E v \in Threads : Shares(v, r.client)
                                   ELSE alone[u] /\ ~Shares(u, r.client)]
    /\ UNCHANGED <<rbacVars, metricsVars, serving, issued, ok, reading, checked, restarts, failed>>

\* mutant: the token sets the user only of a session that has none
AdoptTokenOnce(t) ==
    /\ req[t].token \notin {NoUser, BadToken}
    /\ IF contexts[Client(t)].user # NoUser THEN UNCHANGED contexts ELSE SetUser(t, req[t].token)
    /\ Goto(t, "check")
    /\ UNCHANGED ok

\* ValidateToken: the token's user, whether or not it still exists
AdoptToken(t) ==
    /\ req[t].token \notin {NoUser, BadToken}
    /\ SetUser(t, req[t].token)
    /\ Goto(t, "check")
    /\ UNCHANGED ok

\* mutant: the error is returned without being counted
FailUncounted(t) == Goto(t, "idle") /\ ok' = [ok EXCEPT ![t] = FALSE]

\* an early return, which counts an error
Fail(t) == Goto(t, "count") /\ ok' = [ok EXCEPT ![t] = FALSE]

CheckToken(t) ==
    /\ at[t] = "token"
    /\ \/ /\ req[t].login \/ req[t].token = NoUser
          /\ Goto(t, "check")
          /\ UNCHANGED <<contexts, ok>>
       \/ ~req[t].login /\ AdoptToken(t)
       \/ /\ ~req[t].login /\ req[t].token = BadToken
          /\ Fail(t)
          /\ UNCHANGED contexts
    /\ UNCHANGED <<rbacVars, metricsVars, serving, issued, req, reading, checked, alone, bounds, counted>>

\* RequiredPermission; only the statements of the processor and SUBMIT need one
RequiredPermission(s) == IF s.kind \in {"QUERY", "SUBMIT"} THEN s.needs ELSE NoPermission

\* the parser, then the permission check, which waits for mu_ of the store
Authorize(t) ==
    /\ at[t] = "check"
    /\ LET p == RequiredPermission(Stmt(t))
           u == contexts[Client(t)].user
           guarded == p # NoPermission /\ u # NoUser
       IN  \/ Stmt(t).kind = "UNPARSABLE" /\ Fail(t) /\ UNCHANGED checked
           \/ /\ Stmt(t).kind # "UNPARSABLE" /\ ~guarded
              /\ Goto(t, "dispatch")
              /\ checked' = [checked EXCEPT ![t] = u]
              /\ UNCHANGED ok
           \/ guarded /\ MuFree /\ ~HasPermission(u, p) /\ Fail(t) /\ UNCHANGED checked
           \/ /\ guarded /\ MuFree /\ HasPermission(u, p)
              /\ Goto(t, "dispatch")
              /\ checked' = [checked EXCEPT ![t] = u]
              /\ UNCHANGED ok
    /\ UNCHANGED <<rbacVars, metricsVars, serving, contexts, issued, req, reading, alone, bounds, counted>>

-----------------------------------------------------------------------------
(* The dispatch.                                                           *)

Answer(t, outcome) == Goto(t, "count") /\ ok' = [ok EXCEPT ![t] = outcome]

\* CheckPassword, IssueToken, and the session belongs to the user
Login(t) ==
    /\ at[t] = "dispatch" /\ Stmt(t).kind = "LOGIN"
    /\ MuFree
    /\ LET good == Stmt(t).user \in DOMAIN users /\ Stmt(t).good
       IN  /\ Answer(t, good)
           /\ IF good THEN SetUser(t, Stmt(t).user) ELSE UNCHANGED contexts
           /\ issued' = IF good THEN issued \cup {Stmt(t).user} ELSE issued
    /\ UNCHANGED <<rbacVars, metricsVars, serving, req, reading, checked, alone, bounds, counted>>

\* HandleAuthStatement: the call to the store
AuthOperation(s) ==
    \/ s.kind = "CREATE USER" /\ CreateUser(s.user)
    \/ s.kind = "DROP USER" /\ DropUser(s.user)
    \/ s.kind = "CREATE GROUP" /\ CreateGroup(s.group)
    \/ s.kind = "DROP GROUP" /\ DropGroup(s.group)
    \/ s.kind = "ADD USER" /\ AddUserToGroup(s.user, s.group)
    \/ s.kind = "GRANT USER" /\ GrantToUser(s.user, s.mask)
    \/ s.kind = "GRANT GROUP" /\ GrantToGroup(s.group, s.mask)
    \/ s.kind = "REVOKE USER" /\ RevokeFromUser(s.user, s.mask)
    \/ s.kind = "REVOKE GROUP" /\ RevokeFromGroup(s.group, s.mask)

AuthStatement(t) ==
    /\ at[t] = "dispatch"
    /\ AuthOperation(Stmt(t))
    /\ IF phase' = "write" THEN Goto(t, "saving") /\ UNCHANGED ok ELSE Answer(t, FALSE)
    /\ UNCHANGED <<metricsVars, serving, contexts, issued, req, reading, checked, alone, bounds, counted>>

\* mutant: the error path of Save() does not return to the caller
SaveForNoError(t) ==
    /\ at[t] = "saving"
    /\ Save
    /\ IF phase' = "idle" /\ result' = "ok" THEN Answer(t, TRUE) ELSE UNCHANGED <<at, ok>>
    /\ UNCHANGED <<metricsVars, serving, contexts, issued, req, reading, checked, alone, bounds, counted>>

SaveFor(t) ==
    /\ at[t] = "saving"
    /\ Save
    /\ IF phase' = "idle" THEN Answer(t, result' = "ok") ELSE UNCHANGED <<at, ok>>
    /\ UNCHANGED <<metricsVars, serving, contexts, issued, req, reading, checked, alone, bounds, counted>>

\* processor_->Execute; USE changes the session's database
Query(t) ==
    /\ at[t] = "dispatch" /\ Stmt(t).kind = "QUERY"
    /\ \E outcome \in BOOLEAN :
          /\ Answer(t, outcome)
          /\ IF outcome /\ Stmt(t).use # NoDb
             THEN \E d \in Left(t, Stmt(t).use, Databases) :
                     contexts' = [contexts EXCEPT ![Client(t)].db = d]
             ELSE UNCHANGED contexts
    /\ UNCHANGED <<rbacVars, metricsVars, serving, issued, req, reading, checked, alone, bounds, counted>>

\* HandleQueueStatement: Submit, GetStatus or Cancel of the task queue
QueueStatement(t) ==
    /\ at[t] = "dispatch" /\ Stmt(t).kind \in {"SUBMIT", "TASK"}
    /\ \E outcome \in BOOLEAN : Answer(t, outcome)
    /\ UNCHANGED <<rbacVars, metricsVars, serving, contexts, issued, req, reading, checked, alone, bounds,
                   counted>>

\* HandleShowMetrics: Snapshot reads the clock, then takes the lock of the metrics
ReadClockForSnapshot(t) ==
    /\ at[t] = "dispatch" /\ Stmt(t).kind = "SHOW METRICS"
    /\ Goto(t, "snapshot")
    /\ \E now \in Seconds : reading' = [reading EXCEPT ![t] = now]
    /\ UNCHANGED <<rbacVars, metricsVars, serving, contexts, issued, req, ok, checked, alone, bounds, counted>>

TakeSnapshot(t) ==
    /\ at[t] = "snapshot"
    /\ Snapshot(reading[t])
    /\ Answer(t, TRUE)
    /\ UNCHANGED <<rbacVars, serving, contexts, issued, req, reading, checked, alone, bounds, counted>>

-----------------------------------------------------------------------------
(* RecordRequest, and the response.                                        *)

CountRequest(t) ==
    /\ at[t] = "count"
    /\ CountTotals(~ok[t])
    /\ \E now \in Seconds : reading' = [reading EXCEPT ![t] = now]
    /\ Goto(t, "record")
    /\ UNCHANGED <<rbacVars, serving, contexts, issued, req, ok, checked, alone, bounds, counted>>

Respond(t) ==
    /\ at[t] = "record"
    /\ RecordReading(reading[t], ~ok[t])
    /\ failed' = failed + (IF ok[t] THEN 0 ELSE 1)
    /\ Goto(t, "idle")
    /\ req' = [req EXCEPT ![t] = NoRequest]
    /\ ok' = [ok EXCEPT ![t] = TRUE]
    /\ reading' = [reading EXCEPT ![t] = 0]
    /\ checked' = [checked EXCEPT ![t] = NoUser]
    /\ alone' = [alone EXCEPT ![t] = TRUE]
    /\ UNCHANGED <<rbacVars, serving, contexts, issued, bounds, accepted>>

ThreadStep(t) ==
    \/ CheckToken(t) \/ Authorize(t)
    \/ Login(t) \/ AuthStatement(t) \/ SaveFor(t) \/ Query(t) \/ QueueStatement(t)
    \/ ReadClockForSnapshot(t) \/ TakeSnapshot(t)
    \/ CountRequest(t) \/ Respond(t)

Next ==
    \/ Construct \/ Serve \/ Crash
    \/ \E t \in Threads : ThreadStep(t) \/ \E r \in Requests : Receive(t, r)

Spec == Init /\ [][Next]_vars

\* Every connection thread runs on.
FairSpec == Spec /\ \A t \in Threads : WF_vars(ThreadStep(t))

-----------------------------------------------------------------------------
Places == {"idle", "token", "check", "dispatch", "saving", "snapshot", "count", "record"}

TypeOK ==
    /\ RbacTypeOK
    /\ serving \in BOOLEAN
    /\ contexts \in [Clients -> [db : Databases \cup {NoDb}, user : Users \cup {NoUser}]]
    /\ issued \subseteq Users
    /\ at \in [Threads -> Places]
    /\ req \in [Threads -> Requests \cup {NoRequest}]
    /\ ok \in [Threads -> BOOLEAN] /\ alone \in [Threads -> BOOLEAN]
    /\ reading \in [Threads -> Seconds \cup {0}]
    /\ checked \in [Threads -> Users \cup {NoUser}]
    /\ received \in 0..MaxRequests /\ restarts \in 0..MaxRestarts

\* A request whose client id no other request in flight has runs in the database
\* it named and as the user of its token, and that is the user the permission
\* check was made for.  (With a shared client id another request may change all
\* three between any two steps.)
RunsAsItself ==
    \A t \in Threads :
        at[t] = "dispatch" /\ alone[t] =>
            LET ctx == contexts[Client(t)]
            IN  /\ req[t].db # NoDb => ctx.db = req[t].db
                /\ ~req[t].login /\ req[t].token # NoUser => ctx.user = req[t].token
                /\ checked[t] = ctx.user

\* A request is counted once, whichever way it is answered: in the totals before
\* it is answered, and in the window of buckets by then.
CountedOnce ==
    LET Uncounted == {t \in Threads : at[t] \notin {"idle", "record"}}
        Recording(outcomes) == {t \in Threads : at[t] = "record" /\ ok[t] \in outcomes}
    IN  /\ accepted = totalRequests + Cardinality(Uncounted)
        /\ totalErrors = failed + Cardinality(Recording({FALSE}))
        /\ totalRequests = FoldFunction(+, 0, placed) + Cardinality(Recording(BOOLEAN))

\* Every request is answered, unless the process dies: the locks of the
\* contexts, the store and the metrics never wait for one another.
EveryRequestAnswered == \A t \in Threads : Busy(t) ~> ~Busy(t)
=============================================================================
