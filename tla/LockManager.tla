---------------------------- MODULE LockManager ----------------------------
(***************************************************************************)
(* TransactionManager and LockManager (src/transaction): transactions with *)
(* no-wait shared and exclusive row locks.                                 *)
(*                                                                         *)
(* A transaction is driven by one thread.  Each call first looks at the    *)
(* transaction's state outside the mutex and only then enters the critical *)
(* section, so a call takes two steps here (Call..., then the body) and    *)
(* calls of different transactions interleave between them.  A call that   *)
(* fails the first check returns an error and changes nothing.             *)
(***************************************************************************)
EXTENDS Integers, FiniteSets

CONSTANTS Rids,      \* rows
          MaxTxns,   \* bound on the number of Begin calls
          Attached   \* TransactionManager was given the lock manager

ASSUME LockManagerAssumption == MaxTxns \in Nat /\ Attached \in BOOLEAN

VARIABLES nextTxnId,   \* next_txn_id_
          state,       \* Transaction::state of every transaction begun so far
          lockTable,   \* lock_table_: row -> [shared, exclusive]
          txnLocks,    \* txn_locks_: transaction -> rows
          pc           \* the critical section each transaction's thread is about to enter

lockVars == <<nextTxnId, state, lockTable, txnLocks, pc>>

Ids == 1..MaxTxns
NoTxn == 0            \* an empty exclusive_holder
States == {"none", "active", "committed", "aborted"}
Entries == [shared : SUBSET Ids, exclusive : Ids \cup {NoTxn}]
EmptyEntry == [shared |-> {}, exclusive |-> NoTxn]

Idle == [op |-> "idle"]
Calls == {Idle}
         \cup [op : {"LockShared", "LockExclusive", "Unlock"}, rid : Rids]
         \cup [op : {"UnlockAll"}]

-----------------------------------------------------------------------------
(* The two maps.                                                           *)

\* lock_table_[rid]: the entry, created empty when missing
Entry(r) == IF r \in DOMAIN lockTable THEN lockTable[r] ELSE EmptyEntry

\* f with x mapped to v, whether or not x was in its domain
With(f, x, v) == [y \in DOMAIN f \cup {x} |-> IF y = x THEN v ELSE f[y]]
Erased(f, S) == [y \in DOMAIN f \ S |-> f[y]]

Owned(t) == IF t \in DOMAIN txnLocks THEN txnLocks[t] ELSE {}

\* mutant: nothing is remembered
RememberNothing(t, r) == UNCHANGED txnLocks

RememberTxnLockOwnership(t, r) == txnLocks' = With(txnLocks, t, Owned(t) \cup {r})

ForgetTxnLockOwnership(t, r) ==
    txnLocks' = IF t \notin DOMAIN txnLocks THEN txnLocks
                ELSE IF txnLocks[t] \ {r} = {} THEN Erased(txnLocks, {t})
                ELSE With(txnLocks, t, txnLocks[t] \ {r})

\* t is taken out of an entry
Released(e, t) == [shared |-> e.shared \ {t},
                   exclusive |-> IF e.exclusive = t THEN NoTxn ELSE e.exclusive]

\* mutant: entries left empty stay in the table
TableWithoutKeepingEmpty(t, rows) ==
    [r \in DOMAIN lockTable |-> IF r \in rows THEN Released(lockTable[r], t) ELSE lockTable[r]]

\* t is taken out of the entries of rows, and entries left empty are erased
TableWithout(t, rows) ==
    LET kept == {r \in DOMAIN lockTable :
                    r \in rows => Released(lockTable[r], t) # EmptyEntry}
    IN  [r \in kept |-> IF r \in rows THEN Released(lockTable[r], t) ELSE lockTable[r]]

-----------------------------------------------------------------------------
LockInit ==
    /\ nextTxnId = 1
    /\ state = [t \in Ids |-> "none"]
    /\ lockTable = [r \in {} |-> EmptyEntry]
    /\ txnLocks = [t \in {} |-> {}]
    /\ pc = [t \in Ids |-> Idle]

\* Begin: next_txn_id_ is a plain counter, so its callers take turns
Begin ==
    /\ nextTxnId \in Ids
    /\ nextTxnId' = nextTxnId + 1
    /\ state' = [state EXCEPT ![nextTxnId] = "active"]
    /\ UNCHANGED <<lockTable, txnLocks, pc>>

CanAcquireLocks(t) == state[t] = "active"
CanUnlock(t) == state[t] \in {"active", "committed", "aborted"}

\* the check before the mutex; a call that fails it is over
Enter(t, call) ==
    /\ pc[t] = Idle
    /\ pc' = [pc EXCEPT ![t] = call]
    /\ UNCHANGED <<nextTxnId, state, lockTable, txnLocks>>

CallLockShared(t, r) == CanAcquireLocks(t) /\ Enter(t, [op |-> "LockShared", rid |-> r])
CallLockExclusive(t, r) == CanAcquireLocks(t) /\ Enter(t, [op |-> "LockExclusive", rid |-> r])
CallUnlock(t, r) == CanUnlock(t) /\ Enter(t, [op |-> "Unlock", rid |-> r])
CallUnlockAll(t) == CanUnlock(t) /\ Enter(t, [op |-> "UnlockAll"])

Return(t) == pc' = [pc EXCEPT ![t] = Idle] /\ UNCHANGED <<nextTxnId, state>>

SharedConflict(t, r) == Entry(r).exclusive \notin {NoTxn, t}

\* mutant: a shared request of the exclusive holder replaces its lock
LockSharedDowngrades(t, r) ==
    /\ pc[t] = [op |-> "LockShared", rid |-> r]
    /\ IF SharedConflict(t, r) THEN UNCHANGED <<lockTable, txnLocks>>
       ELSE /\ lockTable' = With(lockTable, r, [shared |-> Entry(r).shared \cup {t}, exclusive |-> NoTxn])
            /\ RememberTxnLockOwnership(t, r)
    /\ Return(t)

LockShared(t, r) ==
    /\ pc[t] = [op |-> "LockShared", rid |-> r]
    /\ IF SharedConflict(t, r) THEN UNCHANGED <<lockTable, txnLocks>>
       ELSE /\ lockTable' = With(lockTable, r, [Entry(r) EXCEPT !.shared = @ \cup {t}])
            /\ RememberTxnLockOwnership(t, r)
    /\ Return(t)

\* mutant: a shared holder upgrades whoever else shares the row
MaySetAmongOthers(t, r) ==
    Entry(r).exclusive = NoTxn /\ (Entry(r).shared = {} \/ t \in Entry(r).shared)

\* the row is free, or held in shared mode by t alone
MaySetExclusive(t, r) == Entry(r).exclusive = NoTxn /\ Entry(r).shared \subseteq {t}

LockExclusive(t, r) ==
    /\ pc[t] = [op |-> "LockExclusive", rid |-> r]
    /\ \/ /\ Entry(r).exclusive = t
          /\ UNCHANGED lockTable
          /\ RememberTxnLockOwnership(t, r)
       \/ \* take the row, or upgrade
          /\ MaySetExclusive(t, r)
          /\ lockTable' = With(lockTable, r, [shared |-> Entry(r).shared \ {t}, exclusive |-> t])
          /\ RememberTxnLockOwnership(t, r)
       \/ \* exclusive lock conflict, or other shared holders
          /\ Entry(r).exclusive # t /\ ~MaySetExclusive(t, r)
          /\ UNCHANGED <<lockTable, txnLocks>>
    /\ Return(t)

Unlock(t, r) ==
    /\ pc[t] = [op |-> "Unlock", rid |-> r]
    /\ lockTable' = TableWithout(t, {r})
    /\ ForgetTxnLockOwnership(t, r)
    /\ Return(t)

\* releases what txn_locks_ lists for t, which is why that index must be complete
UnlockAll(t) ==
    /\ pc[t] = [op |-> "UnlockAll"]
    /\ lockTable' = TableWithout(t, Owned(t))
    /\ txnLocks' = Erased(txnLocks, {t})
    /\ Return(t)

\* mutant: the transaction ends and keeps its locks
NothingLeftToDo == Idle

\* what FinishTransaction still has to do once the state is changed
ReleaseAtEnd == IF Attached THEN [op |-> "UnlockAll"] ELSE Idle

\* Commit and Rollback: the state changes first, then the locks go
FinishTransaction(t, target) ==
    /\ pc[t] = Idle
    /\ state[t] = "active"
    /\ state' = [state EXCEPT ![t] = target]
    /\ pc' = [pc EXCEPT ![t] = ReleaseAtEnd]
    /\ UNCHANGED <<nextTxnId, lockTable, txnLocks>>

Commit(t) == FinishTransaction(t, "committed")
Rollback(t) == FinishTransaction(t, "aborted")

CriticalSection(t) ==
    \/ \E r \in Rids : LockShared(t, r) \/ LockExclusive(t, r) \/ Unlock(t, r)
    \/ UnlockAll(t)

LockNext ==
    \/ Begin
    \/ \E t \in Ids :
        \/ \E r \in Rids : CallLockShared(t, r) \/ CallLockExclusive(t, r) \/ CallUnlock(t, r)
        \/ CallUnlockAll(t)
        \/ CriticalSection(t)
        \/ Commit(t)
        \/ Rollback(t)

LockSpec == LockInit /\ [][LockNext]_lockVars

-----------------------------------------------------------------------------
Holds(t, r) == Entry(r).exclusive = t \/ t \in Entry(r).shared

Finished(t) == state[t] \in {"committed", "aborted"}

LockTypeOK ==
    /\ nextTxnId \in 1..(MaxTxns + 1)
    /\ state \in [Ids -> States]
    /\ DOMAIN lockTable \subseteq Rids
    /\ lockTable \in [DOMAIN lockTable -> Entries]
    /\ DOMAIN txnLocks \subseteq Ids
    /\ txnLocks \in [DOMAIN txnLocks -> SUBSET Rids]
    /\ pc \in [Ids -> Calls]

\* An exclusive holder of a row is its only holder, in either mode: no order of
\* shared requests, upgrades and releases by several transactions makes the
\* upgrade of LockExclusive pass while somebody else shares the row.
ExclusiveIsAlone ==
    \A r \in DOMAIN lockTable :
        lockTable[r].exclusive # NoTxn => lockTable[r].shared \subseteq {lockTable[r].exclusive}

\* txn_locks_ lists for every transaction exactly the rows lock_table_ says it
\* holds.  UnlockAll walks txn_locks_ only, so a lock missing there would never
\* be released by Commit or Rollback.
OwnershipMatchesTable ==
    \A t \in Ids, r \in Rids : r \in Owned(t) <=> Holds(t, r)

\* Neither map keeps an entry nobody needs: operator[] creates an entry before
\* the conflict checks, and no failing request leaves an empty one behind.
NoEmptyEntries ==
    /\ \A r \in DOMAIN lockTable : lockTable[r] # EmptyEntry
    /\ \A t \in DOMAIN txnLocks : txnLocks[t] # {}

\* A transaction that was committed or rolled back by a manager with a lock
\* manager attached holds nothing once that call is over, and gets nothing after.
FinishedHoldsNothing ==
    \A t \in Ids : Attached /\ Finished(t) /\ pc[t] # [op |-> "UnlockAll"]
                     => \A r \in Rids : ~Holds(t, r)

\* The lock manager implements RowLocks: locks are granted only where they are
\* compatible, and a transaction's locks go away in its own steps only.
ModeOf(t, r) == IF Entry(r).exclusive = t THEN "exclusive"
                ELSE IF t \in Entry(r).shared THEN "shared" ELSE "none"

RL == INSTANCE RowLocks WITH mode <- [t \in Ids |-> [r \in Rids |-> ModeOf(t, r)]]

ImplementsRowLocks == RL!Spec
=============================================================================
