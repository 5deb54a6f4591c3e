------------------------------ MODULE RowLocks ------------------------------
(***************************************************************************)
(* What a no-wait row lock manager promises: every transaction holds each  *)
(* row in one mode, shared or exclusive or not at all, a mode is only ever *)
(* raised when no other transaction is in the way, and locks are given up  *)
(* by the transaction that holds them and by nobody else.                  *)
(*                                                                         *)
(* LockManager is shown to implement this specification.                   *)
(***************************************************************************)
CONSTANTS Ids,  \* transaction ids
          Rids  \* row ids

VARIABLE mode   \* mode[t][r]: how transaction t holds row r

Modes == {"none", "shared", "exclusive"}

Init == mode = [t \in Ids |-> [r \in Rids |-> "none"]]

\* t may hold r in shared mode next to anyone but an exclusive holder.
Share(t, r) ==
    /\ mode[t][r] = "none"
    /\ \A u \in Ids \ {t} : mode[u][r] # "exclusive"
    /\ mode' = [mode EXCEPT ![t][r] = "shared"]

\* An exclusive hold, fresh or upgraded, needs every other one gone.
Exclude(t, r) ==
    /\ mode[t][r] # "exclusive"
    /\ \A u \in Ids \ {t} : mode[u][r] = "none"
    /\ mode' = [mode EXCEPT ![t][r] = "exclusive"]

\* t gives up some of its rows at once; the modes of the others stay.
Release(t, rows) ==
    mode' = [mode EXCEPT ![t] = [r \in Rids |-> IF r \in rows THEN "none" ELSE @[r]]]

Next ==
    \E t \in Ids :
        \/ \E r \in Rids : Share(t, r) \/ Exclude(t, r)
        \/ \E rows \in SUBSET Rids : Release(t, rows)

Spec == Init /\ [][Next]_mode
=============================================================================
