-------------------------- MODULE MCStorageService --------------------------
(***************************************************************************)
(* Two threads, two client ids, two requests, and one restart at most,     *)
(* with a new store or one that has a user in a group.                     *)
(***************************************************************************)
EXTENDS StorageService, TLC

CONSTANTS admin, u1, g1, read, c1, c2, d1, d2

OneMember == [users |-> (admin :> [groups |-> {}, permissions |-> kAdmin])
                        @@ (u1 :> [groups |-> {g1}, permissions |-> {}]),
              groups |-> g1 :> {read}]
MCStores == {OneMember}

Asks(client, db, token, login, stmts) ==
    {[client |-> client, db |-> db, token |-> token, login |-> login, stmt |-> s] : s \in stmts}

Logins == {[kind |-> "LOGIN", user |-> u1, good |-> TRUE]}   \* refused when u1 does not exist
Changes ==
    {[kind |-> "CREATE USER", user |-> u1], [kind |-> "DROP USER", user |-> u1],
     [kind |-> "CREATE GROUP", group |-> g1], [kind |-> "DROP GROUP", group |-> g1],
     [kind |-> "ADD USER", user |-> u1, group |-> g1],
     [kind |-> "GRANT USER", user |-> u1, mask |-> {read}],
     [kind |-> "GRANT GROUP", group |-> g1, mask |-> kAdmin],
     [kind |-> "REVOKE USER", user |-> u1, mask |-> {read}],
     [kind |-> "REVOKE GROUP", group |-> g1, mask |-> {read}]}
Reads == {[kind |-> "QUERY", needs |-> read, use |-> NoDb]}
Others ==
    {[kind |-> "QUERY", needs |-> NoPermission, use |-> d2],
     [kind |-> "SUBMIT", needs |-> read], [kind |-> "TASK"], [kind |-> "SHOW METRICS"],
     [kind |-> "UNPARSABLE"]}

MCRequests ==
    Asks(c1, NoDb, NoUser, TRUE, Logins)
    \cup Asks(c1, d1, u1, FALSE, Reads)
    \cup Asks(c1, NoDb, admin, FALSE, Reads)
    \cup Asks(c1, NoDb, BadToken, FALSE, Reads)
    \cup Asks(c2, NoDb, NoUser, FALSE, Changes)
    \cup Asks(c1, NoDb, NoUser, FALSE, Others)

MCSeconds == 1..2
=============================================================================
