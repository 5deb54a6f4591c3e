------------------------ MODULE GuardedObjectProofs ------------------------
(***************************************************************************)
(* Proofs about three objects of a storage node whose methods a mutex      *)
(* guards.                                                                 *)
(*                                                                         *)
(* The lock manager, for any rows and any number of transactions, with or  *)
(* without an attached lock manager.                                       *)
(*                                                                         *)
(* The permission store (Rbac), for any users, groups and permissions and  *)
(* any number of failed saves, crashes and restarts.                       *)
(*                                                                         *)
(* The metrics, for any window and any clock readings in any order.        *)
(***************************************************************************)
EXTENDS LockManager, Rbac, Metrics, TLAPS, FiniteSetTheorems

-----------------------------------------------------------------------------
(* The lock manager.                                                       *)

\* A thread inside LockShared or LockExclusive still drives an active
\* transaction: FinishTransaction cannot come between the check and the lock.
AcquiringIsActive ==
    \A t \in Ids : pc[t].op \in {"LockShared", "LockExclusive"} => state[t] = "active"

LockInv ==
    /\ LockTypeOK
    /\ ExclusiveIsAlone
    /\ OwnershipMatchesTable
    /\ NoEmptyEntries
    /\ AcquiringIsActive
    /\ FinishedHoldsNothing

-----------------------------------------------------------------------------
(* What the table operations do to the entry and the rows one looks up.    *)

\* lock_table_[rid] is an entry, found or created.
LEMMA EntryType == LockTypeOK => \A r : Entry(r) \in Entries
  BY DEF LockTypeOK, Entry, EmptyEntry, Entries, Ids, NoTxn

\* Storing an entry changes what is found under its row and nothing else.
LEMMA EntryOfWith ==
    ASSUME NEW r, NEW e, lockTable' = With(lockTable, r, e)
    PROVE  /\ \A q : Entry(q)' = IF q = r THEN e ELSE Entry(q)
           /\ DOMAIN lockTable' = DOMAIN lockTable \cup {r}
  BY DEF With, Entry

\* Remembering a lock adds the row to its transaction's rows only.
LEMMA OwnedAfterRemember ==
    ASSUME NEW t, NEW r, RememberTxnLockOwnership(t, r)
    PROVE  \A u : Owned(u)' = IF u = t THEN Owned(t) \cup {r} ELSE Owned(u)
  BY DEF RememberTxnLockOwnership, With, Owned

\* Forgetting a lock takes the row from its transaction's rows only.
LEMMA OwnedAfterForget ==
    ASSUME NEW t, NEW r, ForgetTxnLockOwnership(t, r)
    PROVE  \A u : Owned(u)' = IF u = t THEN Owned(t) \ {r} ELSE Owned(u)
  BY DEF ForgetTxnLockOwnership, With, Erased, Owned

\* Releasing rows takes the transaction out of their entries and of no other.
LEMMA EntryOfTableWithout ==
    ASSUME NEW t \in Ids, NEW rows, lockTable' = TableWithout(t, rows), LockTypeOK
    PROVE  \A q : Entry(q)' = IF q \in rows THEN Released(Entry(q), t) ELSE Entry(q)
<1>1. Released(EmptyEntry, t) = EmptyEntry
  BY DEF Released, EmptyEntry, Ids, NoTxn
<1>2. QED
  BY <1>1 DEF TableWithout, Entry

-----------------------------------------------------------------------------
(* The inductive invariant.                                                *)

\* Empty lock tables satisfy the invariant.
LEMMA InitLockInv == LockInit => LockInv
<1> SUFFICES ASSUME LockInit PROVE LockInv
  OBVIOUS
<1>1. LockTypeOK
  BY LockManagerAssumption DEF LockInit, LockTypeOK, Ids, States, Calls, Idle
<1>2. AcquiringIsActive
  BY DEF LockInit, AcquiringIsActive, Idle
<1>3. ExclusiveIsAlone /\ NoEmptyEntries
  BY DEF LockInit, ExclusiveIsAlone, NoEmptyEntries
<1>4. OwnershipMatchesTable /\ FinishedHoldsNothing
  BY DEF LockInit, OwnershipMatchesTable, FinishedHoldsNothing, Finished, Owned, Holds,
         Entry, EmptyEntry, Ids, NoTxn
<1>5. QED
  BY <1>1, <1>2, <1>3, <1>4 DEF LockInv

\* The steps that leave both maps alone: Begin, the checks before the mutex,
\* the failing requests.
LEMMA MapsUnchanged ==
    ASSUME LockInv, UNCHANGED <<lockTable, txnLocks>>
    PROVE  /\ ExclusiveIsAlone' /\ OwnershipMatchesTable' /\ NoEmptyEntries'
           /\ \A t, r : Holds(t, r)' <=> Holds(t, r)
  BY DEF LockInv, ExclusiveIsAlone, OwnershipMatchesTable, NoEmptyEntries, Owned, Holds, Entry

\* Begin gives a transaction that holds nothing.
LEMMA BeginStep == LockInv /\ Begin => LockInv'
<1> SUFFICES ASSUME LockInv, Begin PROVE LockInv'
  OBVIOUS
<1> USE DEF Begin
<1>1. LockTypeOK'
  BY LockManagerAssumption DEF LockInv, LockTypeOK, Ids, States
<1>2. AcquiringIsActive'
  BY DEF LockInv, LockTypeOK, AcquiringIsActive
<1>3. FinishedHoldsNothing'
  BY MapsUnchanged DEF LockInv, LockTypeOK, FinishedHoldsNothing, Finished
<1>4. QED
  BY <1>1, <1>2, <1>3, MapsUnchanged DEF LockInv

\* The check of a call, whichever call it is.
LEMMA EnterStep ==
    ASSUME LockInv, NEW t \in Ids, NEW call \in Calls, Enter(t, call),
           call.op \in {"LockShared", "LockExclusive"} => state[t] = "active"
    PROVE  LockInv'
<1> USE DEF Enter
<1>1. LockTypeOK'
  BY DEF LockInv, LockTypeOK
<1>2. AcquiringIsActive'
  BY DEF LockInv, LockTypeOK, AcquiringIsActive
<1>3. FinishedHoldsNothing'
  <2>1. SUFFICES ASSUME NEW u \in Ids, Attached, Finished(u)', pc'[u] # [op |-> "UnlockAll"],
                        NEW r \in Rids
                 PROVE  ~Holds(u, r)
    BY MapsUnchanged DEF FinishedHoldsNothing
  <2>2. Finished(u)
    BY <2>1 DEF Finished
  <2>3. CASE pc[u] # [op |-> "UnlockAll"]
    BY <2>1, <2>2, <2>3 DEF LockInv, FinishedHoldsNothing
  <2>4. CASE pc[u] = [op |-> "UnlockAll"]
    <3>1. u # t
      BY <2>4 DEF Idle
    <3>2. QED
      BY <3>1, <2>1, <2>4 DEF LockInv, LockTypeOK
  <2>5. QED
    BY <2>3, <2>4
<1>4. QED
  BY <1>1, <1>2, <1>3, MapsUnchanged DEF LockInv

\* What every critical section leaves alone, and that a transaction other than
\* t keeps its place in it.
LEMMA ReturnFacts ==
    ASSUME LockInv, NEW t \in Ids, Return(t)
    PROVE  /\ nextTxnId' = nextTxnId /\ state' = state
           /\ pc' \in [Ids -> Calls] /\ pc'[t] = Idle
           /\ \A u \in Ids \ {t} : pc'[u] = pc[u]
           /\ AcquiringIsActive'
  BY DEF Return, LockInv, LockTypeOK, AcquiringIsActive, Calls, Idle

\* A grant to t: t gets r, in the entry e, and nothing else moves.
LEMMA GrantStep ==
    ASSUME LockInv, NEW t \in Ids, NEW r \in Rids, state[t] = "active",
           NEW e \in Entries,
           lockTable' = With(lockTable, r, e),
           RememberTxnLockOwnership(t, r), Return(t),
           e.exclusive = t \/ t \in e.shared,
           e.exclusive # NoTxn => e.shared \subseteq {e.exclusive},
           \A u \in Ids \ {t} : (e.exclusive = u <=> Entry(r).exclusive = u)
                             /\ (u \in e.shared <=> u \in Entry(r).shared)
    PROVE  LockInv'
<1>1. \A q : Entry(q)' = IF q = r THEN e ELSE Entry(q)
  BY EntryOfWith, Zenon
<1>2. \A u : Owned(u)' = IF u = t THEN Owned(t) \cup {r} ELSE Owned(u)
  BY OwnedAfterRemember
<1>3. LockTypeOK'
  <2>1. lockTable' \in [DOMAIN lockTable' -> Entries] /\ DOMAIN lockTable' \subseteq Rids
    BY DEF LockInv, LockTypeOK, With
  <2>2. txnLocks' \in [DOMAIN txnLocks' -> SUBSET Rids] /\ DOMAIN txnLocks' \subseteq Ids
    BY DEF LockInv, LockTypeOK, RememberTxnLockOwnership, With, Owned
  <2>3. QED
    BY <2>1, <2>2, ReturnFacts DEF LockInv, LockTypeOK
<1>4. ExclusiveIsAlone'
  BY DEF LockInv, ExclusiveIsAlone, With
<1>5. OwnershipMatchesTable'
  <2>1. \A u \in Ids, q \in Rids : Holds(u, q)' <=> Holds(u, q) \/ (u = t /\ q = r)
    BY <1>1 DEF Holds
  <2>2. QED
    BY <2>1, <1>2 DEF LockInv, OwnershipMatchesTable
<1>6. NoEmptyEntries'
  <2>1. e # EmptyEntry
    BY DEF EmptyEntry, Ids, NoTxn
  <2>2. QED
    BY <2>1 DEF LockInv, NoEmptyEntries, With, RememberTxnLockOwnership, Owned
<1>7. FinishedHoldsNothing'
  <2>1. \A u \in Ids \ {t}, q \in Rids : Holds(u, q)' <=> Holds(u, q)
    BY <1>1 DEF Holds
  <2>2. ~Finished(t)'
    BY ReturnFacts DEF Finished
  <2>3. \A u \in Ids : Finished(u)' <=> Finished(u)
    BY ReturnFacts DEF Finished
  <2>4. QED
    BY <2>1, <2>2, <2>3, ReturnFacts DEF LockInv, FinishedHoldsNothing
<1>8. QED
  BY <1>3, <1>4, <1>5, <1>6, <1>7, ReturnFacts DEF LockInv

\* A request that fails: only the thread's own position changes.
LEMMA LockRefused ==
    ASSUME LockInv, NEW t \in Ids, state[t] = "active",
           UNCHANGED <<lockTable, txnLocks>>, Return(t)
    PROVE  LockInv'
<1>1. LockTypeOK'
  BY ReturnFacts DEF LockInv, LockTypeOK
<1>2. FinishedHoldsNothing'
  BY ReturnFacts, MapsUnchanged DEF LockInv, FinishedHoldsNothing, Finished
<1>3. QED
  BY <1>1, <1>2, ReturnFacts, MapsUnchanged DEF LockInv

\* LockShared enters the lock in both maps or changes neither.
LEMMA LockSharedStep ==
    ASSUME LockInv, NEW t \in Ids, NEW r \in Rids, LockShared(t, r)
    PROVE  LockInv'
<1> USE DEF LockShared, SharedConflict
<1>1. state[t] = "active"
  <2>1. pc[t] = [op |-> "LockShared", rid |-> r]
    BY Zenon
  <2>2. pc[t].op = "LockShared"
    BY <2>1
  <2>3. QED
    BY <2>2 DEF LockInv, AcquiringIsActive
<1>2. CASE Entry(r).exclusive \notin {NoTxn, t}
  BY <1>1, <1>2, LockRefused
<1>3. CASE Entry(r).exclusive \in {NoTxn, t}
  <2> DEFINE e == [Entry(r) EXCEPT !.shared = @ \cup {t}]
  <2>1. Entry(r) \in Entries
    BY EntryType DEF LockInv
  <2>2. e \in Entries /\ e.shared = Entry(r).shared \cup {t} /\ e.exclusive = Entry(r).exclusive
    BY <2>1 DEF Entries
  <2>3. e.exclusive # NoTxn => e.shared \subseteq {e.exclusive}
    BY <2>2, <1>3 DEF LockInv, ExclusiveIsAlone, Entry, EmptyEntry
  <2>4. lockTable' = With(lockTable, r, e) /\ RememberTxnLockOwnership(t, r) /\ Return(t)
    BY <1>3
  <2> HIDE DEF e
  <2>5. QED
    BY <1>1, <2>2, <2>3, <2>4, GrantStep
<1>4. QED
  BY <1>2, <1>3

\* LockExclusive grants or upgrades only where no other transaction holds the
\* row.
LEMMA LockExclusiveStep ==
    ASSUME LockInv, NEW t \in Ids, NEW r \in Rids, LockExclusive(t, r)
    PROVE  LockInv'
<1>1. state[t] = "active"
  <2>1. pc[t] = [op |-> "LockExclusive", rid |-> r]
    BY Zenon DEF LockExclusive
  <2>2. pc[t].op = "LockExclusive"
    BY <2>1
  <2>3. QED
    BY <2>2 DEF LockInv, AcquiringIsActive
<1>2. Entry(r) \in Entries /\ Return(t)
  <2>1. Entry(r) \in Entries
    BY EntryType, Zenon DEF LockInv
  <2>2. Return(t)
    BY Zenon DEF LockExclusive
  <2>3. QED
    BY <2>1, <2>2
<1>3. CASE /\ Entry(r).exclusive = t
           /\ UNCHANGED lockTable
           /\ RememberTxnLockOwnership(t, r)
  <2>1. r \in DOMAIN lockTable /\ lockTable' = With(lockTable, r, Entry(r))
    <3>1. r \in DOMAIN lockTable
      BY <1>3 DEF Entry, EmptyEntry, Ids, NoTxn
    <3>2. DOMAIN lockTable \cup {r} = DOMAIN lockTable
      BY <3>1
    <3>3. lockTable = [y \in DOMAIN lockTable |-> lockTable[y]]
      BY DEF LockInv, LockTypeOK
    <3>4. [y \in DOMAIN lockTable |-> IF y = r THEN Entry(r) ELSE lockTable[y]]
            = [y \in DOMAIN lockTable |-> lockTable[y]]
      BY <3>1 DEF Entry
    <3>5. QED
      BY <1>3, <3>1, <3>2, <3>3, <3>4, Zenon DEF With
  <2>2. Entry(r).shared \subseteq {t}
    BY <1>3, <2>1 DEF LockInv, ExclusiveIsAlone, Entry, Ids, NoTxn
  <2>3. QED
    BY <1>1, <1>2, <1>3, <2>1, <2>2, GrantStep, Zenon
<1>4. CASE /\ Entry(r).exclusive = NoTxn
           /\ Entry(r).shared \subseteq {t}
           /\ lockTable' = With(lockTable, r, [shared |-> Entry(r).shared \ {t}, exclusive |-> t])
           /\ RememberTxnLockOwnership(t, r)
  <2> DEFINE e == [shared |-> Entry(r).shared \ {t}, exclusive |-> t]
  <2>1. e \in Entries /\ e.shared = {} /\ e.exclusive = t
    BY <1>2, <1>4 DEF Entries
  <2>2. \A u \in Ids \ {t} : Entry(r).exclusive # u /\ u \notin Entry(r).shared
    BY <1>4 DEF Ids, NoTxn
  <2>3. lockTable' = With(lockTable, r, e)
    BY <1>4
  <2> HIDE DEF e
  <2>4. QED
    BY <1>1, <1>2, <1>4, <2>1, <2>2, <2>3, GrantStep, Zenon
<1>5. CASE UNCHANGED <<lockTable, txnLocks>>
  BY <1>1, <1>2, <1>5, LockRefused
<1>6. QED
  BY <1>3, <1>4, <1>5 DEF LockExclusive, MaySetExclusive

\* A release by t of rows: exactly those rows, and only t's hold on them.
LEMMA ReleaseStep ==
    ASSUME LockInv, NEW t \in Ids, NEW rows \in SUBSET Rids,
           lockTable' = TableWithout(t, rows), Return(t),
           txnLocks' \in [DOMAIN txnLocks' -> SUBSET Rids],
           DOMAIN txnLocks' \subseteq Ids,
           \A u \in DOMAIN txnLocks' : txnLocks'[u] # {},
           \A u \in Ids : Owned(u)' = IF u = t THEN Owned(t) \ rows ELSE Owned(u),
           pc[t] = [op |-> "UnlockAll"] => Owned(t) \subseteq rows
    PROVE  LockInv'
<1>1. \A q : Entry(q)' = IF q \in rows THEN Released(Entry(q), t) ELSE Entry(q)
  BY EntryOfTableWithout DEF LockInv
<1>2. \A q \in DOMAIN lockTable' : q \in DOMAIN lockTable
                                /\ lockTable'[q] # EmptyEntry
                                /\ lockTable'[q] = IF q \in rows THEN Released(lockTable[q], t)
                                                                  ELSE lockTable[q]
  BY DEF TableWithout, LockInv, NoEmptyEntries
<1>3. \A e \in Entries : Released(e, t) \in Entries
  BY DEF Released, Entries, NoTxn
<1>4. LockTypeOK'
  <2>1. lockTable' \in [DOMAIN lockTable' -> Entries] /\ DOMAIN lockTable' \subseteq Rids
    <3>1. DOMAIN lockTable' \subseteq Rids
      BY <1>2 DEF LockInv, LockTypeOK
    <3>2. \A q \in DOMAIN lockTable' : lockTable'[q] \in Entries
      BY <1>2, <1>3 DEF LockInv, LockTypeOK
    <3>3. QED
      BY <3>1, <3>2 DEF TableWithout
  <2>2. QED
    BY <2>1, ReturnFacts DEF LockInv, LockTypeOK
<1>5. ExclusiveIsAlone'
  BY <1>2 DEF LockInv, ExclusiveIsAlone, Released
<1>6. \A u \in Ids, q \in Rids : Holds(u, q)' <=> Holds(u, q) /\ ~(u = t /\ q \in rows)
  BY <1>1 DEF Holds, Released, Ids, NoTxn
<1>7. OwnershipMatchesTable'
  BY <1>6 DEF LockInv, OwnershipMatchesTable
<1>8. NoEmptyEntries'
  BY <1>2 DEF NoEmptyEntries
<1>9. FinishedHoldsNothing'
  <2>1. \A u \in Ids : Finished(u)' <=> Finished(u)
    BY ReturnFacts DEF Finished
  <2>2. pc[t] = [op |-> "UnlockAll"] => \A q \in Rids : ~Holds(t, q)'
    BY <1>6 DEF LockInv, OwnershipMatchesTable
  <2>3. QED
    BY <1>6, <2>1, <2>2, ReturnFacts DEF LockInv, FinishedHoldsNothing
<1>10. QED
  BY <1>4, <1>5, <1>7, <1>8, <1>9, ReturnFacts DEF LockInv

\* Unlock takes one lock out of both maps.
LEMMA UnlockStep ==
    ASSUME LockInv, NEW t \in Ids, NEW r \in Rids, Unlock(t, r)
    PROVE  LockInv'
<1>1. \A u : Owned(u)' = IF u = t THEN Owned(t) \ {r} ELSE Owned(u)
  BY OwnedAfterForget DEF Unlock
<1>2. /\ txnLocks' \in [DOMAIN txnLocks' -> SUBSET Rids]
      /\ DOMAIN txnLocks' \subseteq Ids
      /\ \A u \in DOMAIN txnLocks' : txnLocks'[u] # {}
  BY DEF Unlock, ForgetTxnLockOwnership, With, Erased, LockInv, LockTypeOK, NoEmptyEntries
<1>3. lockTable' = TableWithout(t, {r}) /\ Return(t) /\ pc[t] # [op |-> "UnlockAll"]
  BY DEF Unlock
<1>4. QED
  BY <1>1, <1>2, <1>3, ReleaseStep

\* UnlockAll takes every lock of the transaction out of both maps.
LEMMA UnlockAllStep ==
    ASSUME LockInv, NEW t \in Ids, UnlockAll(t)
    PROVE  LockInv'
<1>1. \A u : Owned(u)' = IF u = t THEN Owned(t) \ Owned(t) ELSE Owned(u)
  <2>1. DOMAIN txnLocks' = DOMAIN txnLocks \ {t} /\ \A u \in DOMAIN txnLocks' : txnLocks'[u] = txnLocks[u]
    BY DEF UnlockAll, Erased
  <2>2. QED
    BY <2>1 DEF Owned
<1>2. /\ txnLocks' \in [DOMAIN txnLocks' -> SUBSET Rids]
      /\ DOMAIN txnLocks' \subseteq Ids
      /\ \A u \in DOMAIN txnLocks' : txnLocks'[u] # {}
  BY DEF UnlockAll, Erased, LockInv, LockTypeOK, NoEmptyEntries
<1>3. Owned(t) \in SUBSET Rids
  BY DEF LockInv, LockTypeOK, Owned
<1>4. lockTable' = TableWithout(t, Owned(t)) /\ Return(t)
  BY DEF UnlockAll
<1>5. QED
  BY <1>1, <1>2, <1>3, <1>4, ReleaseStep

\* Commit and Rollback end the transaction before its locks are released.
LEMMA FinishStep ==
    ASSUME LockInv, NEW t \in Ids, NEW target \in {"committed", "aborted"},
           FinishTransaction(t, target)
    PROVE  LockInv'
<1> USE DEF FinishTransaction, ReleaseAtEnd
<1>1. LockTypeOK'
  BY DEF LockInv, LockTypeOK, States, Calls
<1>2. AcquiringIsActive'
  BY DEF LockInv, LockTypeOK, AcquiringIsActive, Idle
<1>3. FinishedHoldsNothing'
  BY MapsUnchanged DEF LockInv, LockTypeOK, FinishedHoldsNothing, Finished
<1>4. QED
  BY <1>1, <1>2, <1>3, MapsUnchanged DEF LockInv

\* Every step of every transaction preserves the invariant.
LEMMA NextLockInv == LockInv /\ [LockNext]_lockVars => LockInv'
<1> SUFFICES ASSUME LockInv, [LockNext]_lockVars PROVE LockInv'
  OBVIOUS
<1>1. CASE Begin
  BY <1>1, BeginStep
<1>2. ASSUME NEW t \in Ids, NEW r \in Rids,
             CallLockShared(t, r) \/ CallLockExclusive(t, r) \/ CallUnlock(t, r)
      PROVE  LockInv'
  BY <1>2, EnterStep DEF CallLockShared, CallLockExclusive, CallUnlock, CanAcquireLocks, Calls
<1>3. ASSUME NEW t \in Ids, CallUnlockAll(t) PROVE LockInv'
  BY <1>3, EnterStep DEF CallUnlockAll, Calls
<1>4. ASSUME NEW t \in Ids, CriticalSection(t) PROVE LockInv'
  BY <1>4, LockSharedStep, LockExclusiveStep, UnlockStep, UnlockAllStep DEF CriticalSection
<1>5. ASSUME NEW t \in Ids, Commit(t) \/ Rollback(t) PROVE LockInv'
  BY <1>5, FinishStep DEF Commit, Rollback
<1>6. CASE UNCHANGED lockVars
  BY <1>6 DEF lockVars, LockInv, LockTypeOK, ExclusiveIsAlone, OwnershipMatchesTable, NoEmptyEntries,
              AcquiringIsActive, FinishedHoldsNothing, Finished, Owned, Holds, Entry
<1>7. QED
  BY <1>1, <1>2, <1>3, <1>4, <1>5, <1>6 DEF LockNext

\* Every reachable state of the two maps, the transactions and their threads
\* satisfies the inductive invariant.
THEOREM LockInvariance == LockSpec => []LockInv
  BY InitLockInv, NextLockInv, PTL DEF LockSpec

\* The variables keep their types whatever the transactions do.
THEOREM LockTypesCorrect == LockSpec => []LockTypeOK
  BY LockInvariance, PTL DEF LockInv

\* LockExclusive never lets a holder in next to anybody else.
THEOREM ExclusiveAlwaysAlone == LockSpec => []ExclusiveIsAlone
  BY LockInvariance, PTL DEF LockInv

\* txn_locks_ and lock_table_ always describe the same locks.
THEOREM OwnershipAlwaysMatches == LockSpec => []OwnershipMatchesTable
  BY LockInvariance, PTL DEF LockInv

\* No request or release leaves an empty entry in either map.
THEOREM NeverEmptyEntries == LockSpec => []NoEmptyEntries
  BY LockInvariance, PTL DEF LockInv

\* Once Commit or Rollback has returned, the transaction holds no row.
THEOREM FinishedAlwaysHoldsNothing == LockSpec => []FinishedHoldsNothing
  BY LockInvariance, PTL DEF LockInv

-----------------------------------------------------------------------------
(* LockManager implements RowLocks.                                        *)

\* The abstract modes of a state.
modes == [t \in Ids |-> [r \in Rids |-> ModeOf(t, r)]]

\* Two states with the same entries have the same modes.
LEMMA SameModes ==
    ASSUME UNCHANGED lockTable
    PROVE  modes' = modes
  BY DEF modes, ModeOf, Entry

\* A granted shared lock is an abstract Share, or no change when t had a lock.
LEMMA LockSharedRefines ==
    ASSUME LockInv, NEW t \in Ids, NEW r \in Rids, LockShared(t, r)
    PROVE  RL!Share(t, r) \/ modes' = modes
<1>1. CASE Entry(r).exclusive \notin {NoTxn, t}
  BY <1>1, SameModes DEF LockShared, SharedConflict
<1>2. CASE Entry(r).exclusive \in {NoTxn, t}
  <2> DEFINE e == [Entry(r) EXCEPT !.shared = @ \cup {t}]
  <2>1. e.shared = Entry(r).shared \cup {t} /\ e.exclusive = Entry(r).exclusive
    BY EntryType DEF LockInv, Entries
  <2>2. lockTable' = With(lockTable, r, e)
    BY <1>2 DEF LockShared, SharedConflict
  <2> HIDE DEF e
  <2>3. \A q : Entry(q)' = IF q = r THEN e ELSE Entry(q)
    BY <2>2, EntryOfWith, Zenon
  <2>4. \A u \in Ids, q \in Rids : ModeOf(u, q)' =
            IF u = t /\ q = r /\ ModeOf(t, r) = "none" THEN "shared" ELSE ModeOf(u, q)
    BY <2>1, <2>3 DEF ModeOf
  <2>5. CASE ModeOf(t, r) = "none"
    <3>1. \A u \in Ids \ {t} : ModeOf(u, r) # "exclusive"
      BY <1>2 DEF ModeOf, Ids, NoTxn
    <3>2. modes' = [modes EXCEPT ![t][r] = "shared"]
      BY <2>4, <2>5, Zenon DEF modes
    <3>3. QED
      BY <2>5, <3>1, <3>2 DEF RL!Share, modes
  <2>6. CASE ModeOf(t, r) # "none"
    BY <2>4, <2>6 DEF modes
  <2>7. QED
    BY <2>5, <2>6
<1>3. QED
  BY <1>1, <1>2

\* A granted exclusive lock, fresh or upgraded, is an abstract Exclude.
LEMMA LockExclusiveRefines ==
    ASSUME LockInv, NEW t \in Ids, NEW r \in Rids, LockExclusive(t, r)
    PROVE  RL!Exclude(t, r) \/ modes' = modes
<1>1. CASE UNCHANGED lockTable
  BY <1>1, SameModes
<1>2. CASE /\ Entry(r).exclusive = NoTxn
           /\ Entry(r).shared \subseteq {t}
           /\ lockTable' = With(lockTable, r, [shared |-> Entry(r).shared \ {t}, exclusive |-> t])
  <2>1. \A q : Entry(q)' = IF q = r THEN [shared |-> Entry(r).shared \ {t}, exclusive |-> t] ELSE Entry(q)
    BY <1>2, EntryOfWith, Zenon
  <2>2. \A u \in Ids, q \in Rids : ModeOf(u, q)' =
            IF u = t /\ q = r THEN "exclusive" ELSE ModeOf(u, q)
    BY <1>2, <2>1 DEF ModeOf, Ids, NoTxn
  <2>3. modes' = [modes EXCEPT ![t][r] = "exclusive"]
    BY <2>2, Zenon DEF modes
  <2>4. ModeOf(t, r) # "exclusive" /\ \A u \in Ids \ {t} : ModeOf(u, r) = "none"
    BY <1>2 DEF ModeOf, Ids, NoTxn
  <2>5. QED
    BY <2>3, <2>4 DEF RL!Exclude, modes
<1>3. QED
  BY <1>1, <1>2 DEF LockExclusive, MaySetExclusive

\* Unlock and UnlockAll are an abstract Release by the same transaction.
LEMMA ReleaseRefines ==
    ASSUME LockInv, NEW t \in Ids, NEW rows \in SUBSET Rids, lockTable' = TableWithout(t, rows)
    PROVE  RL!Release(t, rows)
<1>1. \A q : Entry(q)' = IF q \in rows THEN Released(Entry(q), t) ELSE Entry(q)
  BY EntryOfTableWithout DEF LockInv
<1>2. \A u \in Ids, q \in Rids : ModeOf(u, q)' =
          IF u = t /\ q \in rows THEN "none" ELSE ModeOf(u, q)
  BY <1>1 DEF ModeOf, Released, Ids, NoTxn
<1>3. modes' = [modes EXCEPT ![t] = [r \in Rids |-> IF r \in rows THEN "none" ELSE modes[t][r]]]
  BY <1>2, Zenon DEF modes
<1>4. QED
  BY <1>3 DEF RL!Release, modes

\* Every step is a step of RowLocks or changes no mode.
LEMMA StepRefines == LockInv /\ [LockNext]_lockVars => [RL!Next]_modes
<1> SUFFICES ASSUME LockInv, [LockNext]_lockVars PROVE [RL!Next]_modes
  OBVIOUS
<1>1. CASE UNCHANGED lockTable
  BY <1>1, SameModes
<1>2. ASSUME NEW t \in Ids, CriticalSection(t) PROVE [RL!Next]_modes
  <2>1. ASSUME NEW r \in Rids, LockShared(t, r) PROVE [RL!Next]_modes
    BY <2>1, LockSharedRefines DEF RL!Next
  <2>2. ASSUME NEW r \in Rids, LockExclusive(t, r) PROVE [RL!Next]_modes
    BY <2>2, LockExclusiveRefines DEF RL!Next
  <2>3. ASSUME NEW r \in Rids, Unlock(t, r) PROVE [RL!Next]_modes
    BY <2>3, ReleaseRefines DEF RL!Next, Unlock
  <2>4. ASSUME UnlockAll(t) PROVE [RL!Next]_modes
    <3>1. Owned(t) \in SUBSET Rids
      BY DEF LockInv, LockTypeOK, Owned
    <3>2. QED
      BY <2>4, <3>1, ReleaseRefines DEF RL!Next, UnlockAll
  <2>5. QED
    BY <1>2, <2>1, <2>2, <2>3, <2>4 DEF CriticalSection
<1>3. CASE UNCHANGED lockVars
  BY <1>1, <1>3 DEF lockVars
<1>4. QED
  BY <1>1, <1>2, <1>3 DEF LockNext, Begin, Enter, CallLockShared, CallLockExclusive, CallUnlock,
                          CallUnlockAll, Commit, Rollback, FinishTransaction

\* The lock manager, for any rows and transactions, is a RowLocks: locks are
\* granted only where compatible and given up only by their holder.
THEOREM Refinement == LockSpec => ImplementsRowLocks
<1>1. LockInit => RL!Init
  BY DEF LockInit, RL!Init, ModeOf, Entry, EmptyEntry, Ids, NoTxn
<1>2. LockInv /\ [LockNext]_lockVars => [RL!Next]_modes
  BY StepRefines
<1>3. QED
  BY <1>1, <1>2, LockInvariance, PTL DEF LockSpec, ImplementsRowLocks, RL!Spec, modes

-----------------------------------------------------------------------------
(* The permission store and the metrics.                                   *)

\* A non-empty set of natural numbers has a least element.
LEMMA LeastNat ==
    ASSUME NEW T, T \subseteq Nat, T # {}
    PROVE  \E x \in T : \A y \in T : x <= y
<1>1. PICK x \in T : \A y \in T : ~(<<y, x>> \in OpToRel(<, Nat))
  BY NatLessThanWellFounded, WFMin, Zenon
<1>2. \A y \in T : ~(y < x)
  BY <1>1, Zenon DEF OpToRel
<1>3. QED
  BY <1>2

-----------------------------------------------------------------------------
(* Sums over finite functions.                                             *)

Any(s) == CHOOSE x \in s : TRUE

\* h sums the entries of f over the sets in D.
Sums(h, f, D) ==
    h = [s \in D |-> IF s = {} THEN 0 ELSE f[Any(s)] + h[s \ {Any(s)}]]

Small(S, n) == {s \in SUBSET S : Cardinality(s) <= n}

\* A set that is not empty has one member fewer without one of them.
LEMMA SmallerSet ==
    ASSUME NEW s, IsFiniteSet(s), s # {}
    PROVE  /\ Any(s) \in s /\ IsFiniteSet(s \ {Any(s)})
           /\ Cardinality(s \ {Any(s)}) = Cardinality(s) - 1 /\ Cardinality(s) \in Nat
<1>1. Any(s) \in s
  BY DEF Any
<1>2. QED
  BY <1>1, FS_RemoveElement, FS_CardinalityType

\* The fold over a finite function is defined.
LEMMA SumsExist ==
    ASSUME NEW S, IsFiniteSet(S), NEW f
    PROVE  \E h : Sums(h, f, SUBSET S)
<1> DEFINE None(n) == \A h : ~Sums(h, f, Small(S, n))
           T == {n \in Nat : None(n)}
<1>0. \A s \in SUBSET S : IsFiniteSet(s) /\ Cardinality(s) \in Nat /\ Cardinality(s) <= Cardinality(S)
  BY FS_Subset, FS_CardinalityType
<1>1. T = {}
  <2> SUFFICES ASSUME T # {} PROVE FALSE
    OBVIOUS
  <2>1. PICK n \in T : \A m \in T : n <= m
    BY LeastNat, Zenon
  <2>2. n # 0
    <3>1. Small(S, 0) = {{}}
      BY <1>0, FS_EmptySet DEF Small
    <3>2. Sums([s \in {{}} |-> 0], f, Small(S, 0))
      BY <3>1 DEF Sums
    <3> QED BY <2>1, <3>2
  <2>3. n - 1 \in Nat /\ n - 1 \notin T
    BY <2>1, <2>2
  <2>4. PICK h : Sums(h, f, Small(S, n - 1))
    BY <2>3
  <2> DEFINE g == [s \in Small(S, n) |-> IF s = {} THEN 0 ELSE f[Any(s)] + h[s \ {Any(s)}]]
  <2>5. ASSUME NEW s \in Small(S, n - 1) PROVE s \in Small(S, n) /\ g[s] = h[s]
    <3>1. s \in Small(S, n)
      BY <1>0, <2>1, <2>5 DEF Small
    <3>2. h[s] = IF s = {} THEN 0 ELSE f[Any(s)] + h[s \ {Any(s)}]
      BY <2>4, <2>5, Zenon DEF Sums
    <3> QED BY <3>1, <3>2
  <2>6. ASSUME NEW s \in Small(S, n), s # {} PROVE s \ {Any(s)} \in Small(S, n - 1)
    BY <1>0, <2>1, <2>6, SmallerSet DEF Small
  <2>7. ASSUME NEW s \in Small(S, n)
        PROVE  g[s] = IF s = {} THEN 0 ELSE f[Any(s)] + g[s \ {Any(s)}]
    BY <2>5, <2>6, <2>7, Zenon
  <2>8. Sums(g, f, Small(S, n))
    <3> HIDE DEF g
    <3>1. DOMAIN g = Small(S, n) /\ g = [s \in DOMAIN g |-> g[s]]
      BY DEF g
    <3> QED BY <2>7, <3>1 DEF Sums
  <2> QED BY <2>1, <2>8
<1>2. Cardinality(S) \in Nat /\ Small(S, Cardinality(S)) = SUBSET S
  BY <1>0, FS_CardinalityType DEF Small
<1>3. ~None(Cardinality(S))
  BY <1>1, <1>2, Zenon
<1> QED BY <1>2, <1>3, Zenon

SumsOf(h, f, S) == Sums(h, f, SUBSET S)
Nats(f, S) == \A x \in S : f[x] \in Nat
Total(f) == FoldFunction(+, 0, f)

\* The fold is the sum over the domain.
LEMMA FoldSums ==
    ASSUME NEW f, IsFiniteSet(DOMAIN f)
    PROVE  \E h : SumsOf(h, f, DOMAIN f) /\ Total(f) = h[DOMAIN f]
<1> DEFINE h == CHOOSE h : SumsOf(h, f, DOMAIN f)
<1>1. SumsOf(h, f, DOMAIN f)
  BY SumsExist, Zenon DEF SumsOf
<1>2. Total(f) = h[DOMAIN f]
  BY DEF Total, FoldFunction, FoldFunctionOnSet, MapThenFoldSet, SumsOf, Sums, Any
<1> QED BY <1>1, <1>2, Zenon

\* What a sum depends on.
LEMMA SumAgree ==
    ASSUME NEW R, NEW S, NEW f, NEW g, NEW hf, NEW hg,
           SumsOf(hf, f, R), SumsOf(hg, g, S), IsFiniteSet(R), IsFiniteSet(S)
    PROVE  \A T \in SUBSET (R \cap S) : (\A x \in T : f[x] = g[x]) => hf[T] = hg[T]
<1> DEFINE Unequal(T) == (\A x \in T : f[x] = g[x]) /\ hf[T] # hg[T]
           Sizes == {Cardinality(T) : T \in {U \in SUBSET (R \cap S) : Unequal(U)}}
<1>1. \A T \in SUBSET (R \cap S) : IsFiniteSet(T) /\ Cardinality(T) \in Nat
  BY FS_Subset, FS_CardinalityType
<1> SUFFICES ASSUME Sizes # {} PROVE FALSE
  OBVIOUS
<1>2. PICK n \in Sizes : \A m \in Sizes : n <= m
  <2>1. Sizes \subseteq Nat
    BY <1>1
  <2> HIDE DEF Sizes
  <2> QED BY <2>1, LeastNat, Zenon
<1>3. PICK T \in SUBSET (R \cap S) : Unequal(T) /\ n = Cardinality(T)
  OBVIOUS
<1>4. /\ hf[T] = IF T = {} THEN 0 ELSE f[Any(T)] + hf[T \ {Any(T)}]
      /\ hg[T] = IF T = {} THEN 0 ELSE g[Any(T)] + hg[T \ {Any(T)}]
  <2>1. T \in SUBSET R /\ T \in SUBSET S
    OBVIOUS
  <2> QED BY <2>1, Zenon DEF SumsOf, Sums
<1>5. T # {}
  BY <1>3, <1>4
<1> DEFINE U == T \ {Any(T)}
<1>6. U \in SUBSET (R \cap S) /\ Any(T) \in T /\ Cardinality(U) = n - 1 /\ n \in Nat
  BY <1>1, <1>3, <1>5, SmallerSet
<1>7. ~Unequal(U)
  <2>1. ~(n <= Cardinality(U))
    BY <1>6
  <2> QED BY <1>2, <1>6, <2>1
<1> QED BY <1>3, <1>4, <1>5, <1>6, <1>7

\* Any entry may be taken out of a sum.
LEMMA SumPick ==
    ASSUME NEW S, IsFiniteSet(S), NEW f, Nats(f, S), NEW h, SumsOf(h, f, S)
    PROVE  \A T \in SUBSET S : h[T] \in Nat /\ \A x \in T : h[T] = f[x] + h[T \ {x}]
<1> DEFINE Wrong(T) == ~(h[T] \in Nat /\ \A x \in T : h[T] = f[x] + h[T \ {x}])
           Sizes == {Cardinality(T) : T \in {U \in SUBSET S : Wrong(U)}}
<1>0. \A x \in S : f[x] \in Nat
  BY DEF Nats
<1>1. \A T \in SUBSET S : IsFiniteSet(T) /\ Cardinality(T) \in Nat
  BY FS_Subset, FS_CardinalityType
<1> SUFFICES ASSUME Sizes # {} PROVE FALSE
  OBVIOUS
<1>2. PICK n \in Sizes : \A m \in Sizes : n <= m
  <2>1. Sizes \subseteq Nat
    BY <1>1
  <2> HIDE DEF Sizes
  <2> QED BY <2>1, LeastNat, Zenon
<1>3. PICK T \in SUBSET S : Wrong(T) /\ n = Cardinality(T)
  OBVIOUS
<1>4. h[T] = IF T = {} THEN 0 ELSE f[Any(T)] + h[T \ {Any(T)}]
  BY Zenon DEF SumsOf, Sums
<1>5. T # {}
  BY <1>3, <1>4
<1>6. Any(T) \in T /\ n \in Nat
  BY <1>1, <1>3, <1>5, SmallerSet
<1>7. ASSUME NEW x \in T PROVE h[T \ {x}] \in Nat /\ \A y \in T \ {x} : h[T \ {x}] = f[y] + h[(T \ {x}) \ {y}]
  <2>1. T \ {x} \in SUBSET S /\ Cardinality(T \ {x}) = n - 1
    BY <1>1, <1>3, FS_RemoveElement
  <2>2. ~(n <= Cardinality(T \ {x}))
    BY <1>6, <2>1
  <2>3. ~Wrong(T \ {x})
    BY <1>2, <2>1, <2>2, Zenon
  <2> QED BY <2>3, Zenon
<1>8. h[T] \in Nat
  <2>1. h[T] = f[Any(T)] + h[T \ {Any(T)}]
    BY <1>4, <1>5
  <2>2. f[Any(T)] \in Nat /\ h[T \ {Any(T)}] \in Nat
    BY <1>0, <1>6, <1>7, Zenon
  <2> QED BY <2>1, <2>2
<1>9. ASSUME NEW x \in T PROVE h[T] = f[x] + h[T \ {x}]
  <2>1. CASE x = Any(T)
    BY <1>4, <1>5, <2>1
  <2>2. CASE x # Any(T)
    <3> DEFINE y == Any(T)
               U == T \ {x}
               V == T \ {y}
               W == U \ {y}
    <3>1. x \in T /\ y \in U /\ x \in V /\ W = V \ {x}
      BY <1>6, <2>2
    <3>2. h[U] = f[y] + h[W]
      BY <1>7, <3>1
    <3>3. h[V] = f[x] + h[W]
      BY <1>6, <1>7, <3>1
    <3>4. h[T] = f[y] + h[V]
      BY <1>4, <1>5
    <3>5. U \in SUBSET S /\ IsFiniteSet(U) /\ Cardinality(U) = n - 1
      BY <1>1, <1>3, FS_RemoveElement
    <3>6. W \in SUBSET S /\ f[x] \in Nat /\ f[y] \in Nat
      BY <1>0, <3>1
    <3> HIDE DEF U, V, W, y
    <3>7. Cardinality(W) = n - 1 - 1
      BY <3>1, <3>5, FS_RemoveElement, Zenon DEF W
    <3>8. ~(n <= Cardinality(W))
      BY <1>6, <3>7
    <3>9. h[W] \in Nat
      BY <1>2, <3>6, <3>8
    <3>10. h[T] = f[x] + h[U]
      BY <3>2, <3>3, <3>4, <3>6, <3>9
    <3> QED BY <3>10 DEF U
  <2> QED BY <2>1, <2>2
<1> QED BY <1>3, <1>8, <1>9

\* A sum grows by one when one entry does, or a new one starts at one.
LEMMA SumPlusOne ==
    ASSUME NEW f, NEW g, NEW x, IsFiniteSet(DOMAIN f), \A y \in DOMAIN f : f[y] \in Nat,
           DOMAIN g = DOMAIN f \cup {x},
           g[x] = (IF x \in DOMAIN f THEN f[x] ELSE 0) + 1,
           \A y \in DOMAIN f \ {x} : g[y] = f[y]
    PROVE  Total(f) \in Nat /\ Total(g) = Total(f) + 1
<1> DEFINE D == DOMAIN f
           E == DOMAIN g
           U == D \ {x}
<1>1. /\ IsFiniteSet(D) /\ IsFiniteSet(E) /\ x \in E /\ U = E \ {x} /\ U \in SUBSET D
      /\ U \in SUBSET (D \cap E) /\ (x \notin D => U = D)
  <2>1. IsFiniteSet(D) /\ IsFiniteSet(D \cup {x}) /\ E = D \cup {x}
    BY FS_AddElement
  <2> HIDE DEF D, E
  <2> QED BY <2>1
<1>2. Nats(f, D) /\ Nats(g, E) /\ (\A y \in U : f[y] = g[y])
  BY DEF Nats
<1>3. PICK hf : SumsOf(hf, f, D) /\ Total(f) = hf[D]
  BY FoldSums
<1>4. PICK hg : SumsOf(hg, g, E) /\ Total(g) = hg[E]
  BY <1>1, FoldSums
<1>5. g[x] = (IF x \in D THEN f[x] ELSE 0) + 1
  OBVIOUS
<1> HIDE DEF D, E, U
<1>6. \A T \in SUBSET E : hg[T] \in Nat /\ \A y \in T : hg[T] = g[y] + hg[T \ {y}]
  <2>1. IsFiniteSet(E) /\ Nats(g, E) /\ SumsOf(hg, g, E)
    BY <1>1, <1>2, <1>4
  <2> QED BY <2>1, SumPick
<1>7. \A T \in SUBSET D : hf[T] \in Nat /\ \A y \in T : hf[T] = f[y] + hf[T \ {y}]
  <2>1. IsFiniteSet(D) /\ Nats(f, D) /\ SumsOf(hf, f, D)
    BY <1>1, <1>2, <1>3
  <2> QED BY <2>1, SumPick
<1>8. \A T \in SUBSET (D \cap E) : (\A y \in T : f[y] = g[y]) => hf[T] = hg[T]
  BY <1>1, <1>3, <1>4, SumAgree
<1>9. hg[E] = g[x] + hf[U]
  BY <1>1, <1>2, <1>6, <1>8
<1>10. hf[D] \in Nat /\ hf[U] \in Nat
  BY <1>1, <1>7
<1>11. x \in D => hf[D] = f[x] + hf[U]
  BY <1>7 DEF U
<1>12. x \in D => f[x] \in Nat
  BY <1>2 DEF Nats
<1>13. CASE x \in D
  BY <1>3, <1>4, <1>5, <1>9, <1>10, <1>11, <1>12, <1>13
<1>14. CASE x \notin D
  BY <1>1, <1>3, <1>4, <1>5, <1>9, <1>10, <1>14
<1> QED BY <1>13, <1>14

\* Nothing sums to nothing.
LEMMA SumOfNone ==
    ASSUME NEW f, DOMAIN f = {}
    PROVE  Total(f) = 0
<1>1. PICK h : SumsOf(h, f, DOMAIN f) /\ Total(f) = h[DOMAIN f]
  BY FoldSums, FS_EmptySet
<1> QED BY <1>1 DEF SumsOf, Sums

\* A total of natural numbers is one.
LEMMA TotalIsNat ==
    ASSUME NEW f, IsFiniteSet(DOMAIN f), \A y \in DOMAIN f : f[y] \in Nat
    PROVE  Total(f) \in Nat
<1> DEFINE D == DOMAIN f
<1>1. PICK h : SumsOf(h, f, D) /\ Total(f) = h[D]
  BY FoldSums
<1>2. IsFiniteSet(D) /\ Nats(f, D)
  BY DEF Nats
<1> HIDE DEF D
<1>3. \A T \in SUBSET D : h[T] \in Nat /\ \A x \in T : h[T] = f[x] + h[T \ {x}]
  <2>1. SumsOf(h, f, D)
    BY <1>1
  <2>2. QED
    BY <1>2, <2>1, SumPick
<1>4. QED
  BY <1>1, <1>3

-----------------------------------------------------------------------------
(* The permission store.                                                   *)

\* Between writing and renaming, the temporary file holds the maps or is damaged.
TmpIsImage == phase = "rename" => tmp \in {Image, Damaged}

IInv == RbacTypeOK /\ TmpIsImage /\ FileIsAcknowledged /\ MembershipsAreReal /\ UnsavedIsNamed

-----------------------------------------------------------------------------
(* What the operations do to the maps.                                     *)

\* An image is determined by its two maps.
LEMMA ImageFacts ==
    /\ IsImage(Image) <=> /\ DOMAIN users \subseteq Users /\ users \in [DOMAIN users -> UserRecord]
                          /\ DOMAIN groups \subseteq Groups
                          /\ groups \in [DOMAIN groups -> SUBSET kAdmin]
    /\ Image.users = users /\ Image.groups = groups
  BY DEF IsImage, Image

\* Inserting into a map sets one entry and keeps the others.
LEMMA PutFacts ==
    ASSUME NEW f, NEW x, NEW v
    PROVE  /\ DOMAIN Put(f, x, v) = DOMAIN f \cup {x}
           /\ Put(f, x, v)[x] = v
           /\ \A y \in DOMAIN f \ {x} : Put(f, x, v)[y] = f[y]
  BY DEF Put

\* The maps of a store that is not loaded yet are empty.
LEMMA EmptyFacts == DOMAIN Empty = {} /\ Empty \in [{} -> UserRecord] /\ Empty \in [{} -> SUBSET kAdmin]
  BY DEF Empty

\* What every operation does: it is refused, or it changes the maps into
\* consistent ones that differ from the old ones in what it names.
Changes(us, gs, names) ==
    /\ Change(us, gs, names)
    /\ names \subseteq Users \cup Groups
    /\ DOMAIN us \subseteq Users /\ us \in [DOMAIN us -> UserRecord]
    /\ DOMAIN gs \subseteq Groups /\ gs \in [DOMAIN gs -> SUBSET kAdmin]
    /\ \A u \in DOMAIN us : us[u].groups \subseteq DOMAIN gs
    /\ \A g \in Groups \ names : ~Differ(gs, groups, g)
    /\ \A u \in Users \ names :
          Differ(us, users, u) => /\ u \in DOMAIN us /\ u \in DOMAIN users
                                  /\ us[u].permissions = users[u].permissions
                                  /\ us[u].groups \ names = users[u].groups \ names

\* An operation that changes the maps and begins to save keeps the invariant,
\* if it changes only what it names.
LEMMA ChangeStep ==
    ASSUME IInv, MuFree, NEW us, NEW gs, NEW names, Changes(us, gs, names)
    PROVE  IInv'
<1>1. /\ users' = us /\ groups' = gs /\ phase' = "write" /\ touched' = touched \cup names
      /\ up' = up /\ tmp' = tmp /\ file' = file /\ result' = result /\ acked' = acked
  BY DEF Changes, Change
<1>2. RbacTypeOK'
  BY <1>1, ImageFacts DEF IInv, RbacTypeOK, Changes, Image, IsImage
<1>3. TmpIsImage' /\ FileIsAcknowledged'
  BY <1>1 DEF IInv, TmpIsImage, FileIsAcknowledged, MuFree
<1>4. MembershipsAreReal'
  BY <1>1 DEF IInv, MembershipsAreReal, Consistent, Changes, Image
<1>5. UnsavedIsNamed'
  <2>1. ASSUME NEW g \in Groups, Differ(groups', acked.groups, g) PROVE g \in touched'
    <3>1. CASE g \in names
      BY <1>1, <3>1
    <3>2. CASE g \notin names
      <4>1. Differ(groups, acked.groups, g)
        BY <1>1, <2>1, <3>2 DEF Changes, Differ
      <4>2. QED
        BY <1>1, <4>1 DEF IInv, UnsavedIsNamed
    <3>3. QED
      BY <3>1, <3>2
  <2>2. ASSUME NEW u \in Users, Differ(users', acked.users, u), u \notin touched'
        PROVE  OnlyInGroups(u)'
    <3>1. u \notin touched /\ u \notin names
      BY <1>1, <2>2
    <3>2. CASE Differ(us, users, u)
      <4>1. /\ u \in DOMAIN us /\ u \in DOMAIN users
            /\ us[u].permissions = users[u].permissions
            /\ us[u].groups \ names = users[u].groups \ names
        BY <3>1, <3>2 DEF Changes
      <4>2. CASE Differ(users, acked.users, u)
        BY <1>1, <3>1, <4>1, <4>2 DEF IInv, UnsavedIsNamed, OnlyInGroups
      <4>3. CASE ~Differ(users, acked.users, u)
        BY <1>1, <4>1, <4>3 DEF Differ, OnlyInGroups
      <4>4. QED
        BY <4>2, <4>3
    <3>3. CASE ~Differ(us, users, u)
      <4>1. Differ(users, acked.users, u)
        BY <1>1, <2>2, <3>3 DEF Differ
      <4>2. OnlyInGroups(u)
        BY <3>1, <4>1 DEF IInv, UnsavedIsNamed
      <4>3. QED
        BY <1>1, <3>3, <4>2 DEF Differ, OnlyInGroups
    <3>4. QED
      BY <3>2, <3>3
  <2>3. QED
    BY <1>1, <2>1, <2>2 DEF UnsavedIsNamed
<1>6. QED
  BY <1>2, <1>3, <1>4, <1>5 DEF IInv

\* An operation that is refused changes nothing.
LEMMA RefuseStep == ASSUME IInv, Refuse PROVE IInv'
  BY DEF IInv, Refuse, memory, history, RbacTypeOK, Image, TmpIsImage, FileIsAcknowledged,
         MembershipsAreReal, UnsavedIsNamed, OnlyInGroups

-----------------------------------------------------------------------------
(* One lemma per kind of operation.                                        *)

Well == /\ DOMAIN users \subseteq Users /\ users \in [DOMAIN users -> UserRecord]
        /\ DOMAIN groups \subseteq Groups /\ groups \in [DOMAIN groups -> SUBSET kAdmin]
        /\ \A u \in DOMAIN users : users[u].groups \subseteq DOMAIN groups

\* The maps in memory are well typed and consistent.
LEMMA WellMaps == IInv => Well
  BY ImageFacts DEF IInv, RbacTypeOK, MembershipsAreReal, Consistent, Image, Well

\* CreateUser and DropUser keep the invariant.
LEMMA UserStep ==
    ASSUME IInv, NEW u \in Users, CreateUser(u) \/ DropUser(u)
    PROVE  IInv'
<1> USE WellMaps DEF Well
<1>1. CASE Refuse
  BY <1>1, RefuseStep
<1>2. CASE CreateUser(u) /\ ~Refuse
  <2> DEFINE us == Put(users, u, NewUser)
  <2>1. u \notin DOMAIN users /\ MuFree /\ Change(us, groups, {u})
    BY <1>2 DEF CreateUser
  <2>2. NewUser \in UserRecord /\ NewUser.groups = {}
    BY DEF NewUser, UserRecord
  <2>3. /\ DOMAIN us = DOMAIN users \cup {u} /\ us \in [DOMAIN us -> UserRecord] /\ us[u] = NewUser
        /\ \A v \in DOMAIN users \ {u} : us[v] = users[v]
    BY <2>2 DEF Put
  <2> HIDE DEF us
  <2>4. Changes(us, groups, {u})
    BY <2>1, <2>2, <2>3 DEF Changes, Differ
  <2>5. QED
    BY <2>1, <2>4, ChangeStep
<1>3. CASE DropUser(u) /\ ~Refuse
  <2> DEFINE us == Restrict(users, DOMAIN users \ {u})
  <2>1. MuFree /\ Change(us, groups, {u})
    BY <1>3 DEF DropUser
  <2>2. /\ DOMAIN us = DOMAIN users \ {u} /\ us \in [DOMAIN us -> UserRecord]
        /\ \A v \in DOMAIN us : us[v] = users[v]
    BY DEF Restrict
  <2> HIDE DEF us
  <2>3. Changes(us, groups, {u})
    BY <2>1, <2>2 DEF Changes, Differ
  <2>4. QED
    BY <2>1, <2>3, ChangeStep
<1>4. QED
  BY <1>1, <1>2, <1>3

\* CreateGroup and DropGroup keep the invariant: a dropped group leaves every
\* member.
LEMMA GroupStep ==
    ASSUME IInv, NEW g \in Groups, CreateGroup(g) \/ DropGroup(g)
    PROVE  IInv'
<1> USE WellMaps DEF Well
<1>1. CASE Refuse
  BY <1>1, RefuseStep
<1>2. CASE CreateGroup(g) /\ ~Refuse
  <2> DEFINE gs == Put(groups, g, {})
  <2>1. g \notin DOMAIN groups /\ MuFree /\ Change(users, gs, {g})
    BY <1>2 DEF CreateGroup
  <2>2. /\ DOMAIN gs = DOMAIN groups \cup {g} /\ gs \in [DOMAIN gs -> SUBSET kAdmin]
        /\ \A h \in DOMAIN groups \ {g} : gs[h] = groups[h]
    BY DEF Put
  <2> HIDE DEF gs
  <2>3. Changes(users, gs, {g})
    BY <2>1, <2>2 DEF Changes, Differ
  <2>4. QED
    BY <2>1, <2>3, ChangeStep
<1>3. CASE DropGroup(g) /\ ~Refuse
  <2> DEFINE us == Without(g)
             gs == Restrict(groups, DOMAIN groups \ {g})
  <2>1. MuFree /\ Change(us, gs, {g})
    BY <1>3 DEF DropGroup
  <2>2. /\ DOMAIN gs = DOMAIN groups \ {g} /\ gs \in [DOMAIN gs -> SUBSET kAdmin]
        /\ \A h \in DOMAIN gs : gs[h] = groups[h]
    BY DEF Restrict
  <2>3. /\ DOMAIN us = DOMAIN users
        /\ \A v \in DOMAIN users : /\ us[v] \in UserRecord
                                   /\ us[v].groups = users[v].groups \ {g}
                                   /\ us[v].permissions = users[v].permissions
    BY DEF Without, UserRecord
  <2>4. us \in [DOMAIN us -> UserRecord]
    BY <2>3, Zenon DEF Without
  <2> HIDE DEF us, gs
  <2>5. Changes(us, gs, {g})
    BY <2>1, <2>2, <2>3, <2>4 DEF Changes, Differ
  <2>6. QED
    BY <2>1, <2>5, ChangeStep
<1>4. QED
  BY <1>1, <1>2, <1>3

\* Operations that replace the record of one user, in groups that exist.
LEMMA RecordStep ==
    ASSUME IInv, MuFree, NEW u \in DOMAIN users, NEW r \in UserRecord,
           r.groups \subseteq DOMAIN groups, Change([users EXCEPT ![u] = r], groups, {u})
    PROVE  IInv'
<1> USE WellMaps DEF Well
<1> DEFINE us == [users EXCEPT ![u] = r]
<1>1. /\ DOMAIN us = DOMAIN users /\ us \in [DOMAIN us -> UserRecord] /\ us[u] = r
      /\ \A v \in DOMAIN users \ {u} : us[v] = users[v]
  OBVIOUS
<1>2. Change(us, groups, {u})
  OBVIOUS
<1> HIDE DEF us
<1>3. Changes(us, groups, {u})
  BY <1>1, <1>2 DEF Changes, Differ
<1>4. QED
  BY <1>3, ChangeStep

\* AddUserToGroup and RemoveUserFromGroup keep the invariant.
LEMMA MembershipStep ==
    ASSUME IInv, NEW u \in Users, NEW g \in Groups, AddUserToGroup(u, g) \/ RemoveUserFromGroup(u, g)
    PROVE  IInv'
<1> USE WellMaps DEF Well
<1>1. CASE Refuse
  BY <1>1, RefuseStep
<1>2. CASE AddUserToGroup(u, g) /\ ~Refuse
  <2> DEFINE r == [users[u] EXCEPT !.groups = @ \cup {g}]
  <2>1. /\ u \in DOMAIN users /\ g \in DOMAIN groups /\ MuFree
        /\ Change([users EXCEPT ![u] = r], groups, {u})
    BY <1>2 DEF AddUserToGroup
  <2>2. r \in UserRecord /\ r.groups = users[u].groups \cup {g}
    BY <2>1 DEF UserRecord
  <2> HIDE DEF r
  <2>3. QED
    BY <2>1, <2>2, RecordStep
<1>3. CASE RemoveUserFromGroup(u, g) /\ ~Refuse
  <2> DEFINE r == [users[u] EXCEPT !.groups = @ \ {g}]
  <2>1. /\ u \in DOMAIN users /\ MuFree
        /\ Change([users EXCEPT ![u] = r], groups, {u})
    BY <1>3 DEF RemoveUserFromGroup
  <2>2. r \in UserRecord /\ r.groups = users[u].groups \ {g}
    BY <2>1 DEF UserRecord
  <2> HIDE DEF r
  <2>3. QED
    BY <2>1, <2>2, RecordStep
<1>4. QED
  BY <1>1, <1>2, <1>3

\* GrantToUser and RevokeFromUser keep the invariant.
LEMMA UserMaskStep ==
    ASSUME IInv, NEW u \in Users, NEW m \in Masks, GrantToUser(u, m) \/ RevokeFromUser(u, m)
    PROVE  IInv'
<1> USE WellMaps DEF Well
<1>1. CASE Refuse
  BY <1>1, RefuseStep
<1>2. CASE ~Refuse
  <2>1. PICK ps \in SUBSET kAdmin :
           /\ u \in DOMAIN users /\ MuFree
           /\ Change([users EXCEPT ![u].permissions = ps], groups, {u})
    <3>1. m \subseteq kAdmin
      BY DEF Masks, kAdmin
    <3>2. u \in DOMAIN users /\ MuFree
      BY <1>2 DEF GrantToUser, RevokeFromUser
    <3>3. users[u].permissions \subseteq kAdmin
      BY <3>2 DEF UserRecord
    <3>4. \/ Change([users EXCEPT ![u].permissions = @ \cup m], groups, {u})
          \/ Change([users EXCEPT ![u].permissions = @ \ m], groups, {u})
      BY <1>2, <3>2 DEF GrantToUser, RevokeFromUser
    <3>5. QED
      BY <3>1, <3>2, <3>3, <3>4, Zenon
  <2> DEFINE r == [users[u] EXCEPT !.permissions = ps]
  <2>2. r \in UserRecord /\ r.groups = users[u].groups
    BY <2>1 DEF UserRecord
  <2>3. Change([users EXCEPT ![u] = r], groups, {u})
    BY <2>1
  <2> HIDE DEF r
  <2>4. QED
    BY <2>1, <2>2, <2>3, RecordStep, Zenon
<1>3. QED
  BY <1>1, <1>2

\* GrantToGroup and RevokeFromGroup keep the invariant.
LEMMA GroupMaskStep ==
    ASSUME IInv, NEW g \in Groups, NEW m \in Masks, GrantToGroup(g, m) \/ RevokeFromGroup(g, m)
    PROVE  IInv'
<1> USE WellMaps DEF Well
<1>1. CASE Refuse
  BY <1>1, RefuseStep
<1>2. CASE ~Refuse
  <2>1. g \in DOMAIN groups /\ MuFree
    BY <1>2 DEF GrantToGroup, RevokeFromGroup
  <2>2. m \subseteq kAdmin /\ groups[g] \subseteq kAdmin
    BY <2>1 DEF Masks, kAdmin
  <2>3. PICK ps \in SUBSET kAdmin : Change(users, [groups EXCEPT ![g] = ps], {g})
    <3>1. \/ Change(users, [groups EXCEPT ![g] = groups[g] \cup m], {g})
          \/ Change(users, [groups EXCEPT ![g] = groups[g] \ m], {g})
      BY <1>2, <2>1 DEF GrantToGroup, RevokeFromGroup
    <3>2. QED
      BY <2>2, <3>1, Zenon
  <2> DEFINE gs == [groups EXCEPT ![g] = ps]
  <2>4. /\ DOMAIN gs = DOMAIN groups /\ gs \in [DOMAIN gs -> SUBSET kAdmin]
        /\ \A h \in DOMAIN groups \ {g} : gs[h] = groups[h]
    BY Zenon
  <2>5. Change(users, gs, {g})
    BY <2>3
  <2> HIDE DEF gs
  <2>6. Changes(users, gs, {g})
    BY <2>4, <2>5 DEF Changes, Differ
  <2>7. QED
    BY <2>1, <2>6, ChangeStep
<1>3. QED
  BY <1>1, <1>2

\* Flush saves what is in memory.
LEMMA FlushStep == ASSUME IInv, Flush PROVE IInv'
<1>1. Changes(users, groups, {})
  BY WellMaps DEF Flush, Changes, Well, Differ
<1>2. QED
  BY <1>1, ChangeStep DEF Flush

-----------------------------------------------------------------------------
(* Opening, saving and dying.                                              *)

\* Open loads the file or makes a new store with an administrator.
LEMMA OpenStep == ASSUME IInv, Open PROVE IInv'
<1>1. CASE OpenNew
  <2> DEFINE r == [groups |-> {}, permissions |-> kAdmin]
             us == Put(Empty, Admin, r)
  <2>1. r \in UserRecord /\ r.groups = {}
    BY DEF UserRecord
  <2> HIDE DEF r
  <2>2. DOMAIN us = {Admin} /\ us \in [{Admin} -> UserRecord] /\ us[Admin] = r
    BY <2>1, EmptyFacts DEF Put
  <2> HIDE DEF us
  <2>3. /\ users' = us /\ groups' = Empty /\ phase' = "write" /\ tmp' = NoFile /\ file' = file
        /\ touched' = {Admin} /\ acked' = EmptyImage
        /\ up' = TRUE /\ result' = result /\ file = NoFile
    BY <1>1 DEF OpenNew, us, r
  <2>4. RbacTypeOK'
    BY <2>2, <2>3, EmptyFacts, RbacAssumption DEF IInv, RbacTypeOK, IsImage, Image, EmptyImage
  <2>5. TmpIsImage' /\ FileIsAcknowledged'
    <3>1. phase' # "rename" /\ file' = NoFile
      BY <2>3
    <3>2. QED
      BY <3>1, Zenon DEF TmpIsImage, FileIsAcknowledged
  <2>6. MembershipsAreReal'
    BY <2>1, <2>2, <2>3 DEF MembershipsAreReal, Consistent, Image
  <2>7. UnsavedIsNamed'
    BY <2>2, <2>3, EmptyFacts DEF UnsavedIsNamed, Differ, EmptyImage
  <2>8. QED
    BY <2>4, <2>5, <2>6, <2>7, Zenon DEF IInv
<1>2. CASE OpenLoads
  <2>1. IsImage(file) /\ Image' = file /\ acked' = file
    BY <1>2 DEF OpenLoads, IInv, RbacTypeOK, IsImage, Image
  <2>2. RbacTypeOK'
    BY <1>2, <2>1 DEF OpenLoads, RbacTypeOK
  <2>3. TmpIsImage' /\ FileIsAcknowledged' /\ MembershipsAreReal'
    BY <1>2, <2>1 DEF OpenLoads, TmpIsImage, FileIsAcknowledged, IInv, MembershipsAreReal
  <2>4. UnsavedIsNamed'
    BY <1>2 DEF OpenLoads, UnsavedIsNamed, Differ
  <2>5. QED
    BY <2>2, <2>3, <2>4 DEF IInv
<1>3. CASE OpenFails
  <2>1. /\ users' = Empty /\ groups' = Empty /\ phase' = "idle" /\ file' = file /\ tmp' = NoFile
        /\ touched' = Users \cup Groups /\ up' = TRUE /\ result' = "error"
        /\ acked' = IF file = Damaged THEN acked ELSE file
    BY <1>3 DEF OpenFails
  <2>2. IsImage(acked')
    BY <1>3, <2>1 DEF OpenFails, IInv, RbacTypeOK
  <2>3. IsImage(Image)'
    BY <2>1, EmptyFacts DEF IsImage, Image
  <2>4. RbacTypeOK'
    BY <2>1, <2>2, <2>3 DEF IInv, RbacTypeOK
  <2>5. TmpIsImage' /\ FileIsAcknowledged'
    <3>1. phase' # "rename" /\ phase' # "return" /\ file' = file /\ (file = Damaged \/ acked' = file)
      BY <2>1
    <3>2. QED
      BY <3>1, Zenon DEF TmpIsImage, FileIsAcknowledged
  <2>6. MembershipsAreReal' /\ UnsavedIsNamed'
    BY <2>1, EmptyFacts DEF IInv, MembershipsAreReal, Consistent, Image, UnsavedIsNamed
  <2>7. QED
    BY <2>4, <2>5, <2>6 DEF IInv
<1>4. QED
  BY <1>1, <1>2, <1>3 DEF Open

\* The steps of Save, failing or not, and the end of the process at any of
\* them keep the invariant.
LEMMA SaveStep == ASSUME IInv, Save \/ ProcessEnds PROVE IInv'
<1>1. users' = users /\ groups' = groups /\ Image' = Image
  BY DEF Save, SaveCannotWrite, SaveWrites, SaveRenames, SaveCannotRename, SaveReturns, ProcessEnds,
         memory, Image
<1>2. CASE SaveCannotWrite \/ SaveCannotRename \/ ProcessEnds
  <2>1. CASE SaveCannotWrite \/ SaveCannotRename
    BY <1>1, <2>1, Zenon DEF SaveCannotWrite, SaveCannotRename, memory, history, IInv, RbacTypeOK,
                      TmpIsImage, FileIsAcknowledged, MembershipsAreReal, UnsavedIsNamed, OnlyInGroups
  <2>2. CASE ProcessEnds
    BY <1>1, <2>2, Zenon DEF ProcessEnds, memory, history, IInv, RbacTypeOK,
                      TmpIsImage, FileIsAcknowledged, MembershipsAreReal, UnsavedIsNamed, OnlyInGroups
  <2>3. QED
    BY <1>2, <2>1, <2>2
<1>3. CASE SaveWrites
  BY <1>1, <1>3 DEF SaveWrites, memory, history, IInv, RbacTypeOK,
                    TmpIsImage, FileIsAcknowledged, MembershipsAreReal, UnsavedIsNamed, OnlyInGroups
<1>4. CASE SaveRenames
  BY <1>1, <1>4 DEF SaveRenames, memory, history, IInv, RbacTypeOK,
                    TmpIsImage, FileIsAcknowledged, MembershipsAreReal, UnsavedIsNamed, OnlyInGroups
<1>5. CASE SaveReturns
  <2>1. RbacTypeOK' /\ TmpIsImage' /\ FileIsAcknowledged' /\ MembershipsAreReal'
    BY <1>1, <1>5 DEF SaveReturns, memory, IInv, RbacTypeOK, TmpIsImage, FileIsAcknowledged,
                      MembershipsAreReal
  <2>2. UnsavedIsNamed'
    BY <1>1, <1>5 DEF SaveReturns, memory, UnsavedIsNamed, Differ, Image
  <2>3. QED
    BY <2>1, <2>2 DEF IInv
<1>6. QED
  BY <1>2, <1>3, <1>4, <1>5 DEF Save

-----------------------------------------------------------------------------
\* Before the first Open the invariant holds of any file an earlier process
\* left.
LEMMA InitIInv == RbacInit => IInv
<1> SUFFICES ASSUME RbacInit PROVE IInv
  OBVIOUS
<1> USE EmptyFacts, RbacAssumption DEF RbacInit
<1>1. IsImage(acked)
  BY DEF IsImage, EmptyImage
<1>2. RbacTypeOK
  BY <1>1, Zenon DEF RbacTypeOK, IsImage, Image
<1>3. TmpIsImage /\ FileIsAcknowledged
  BY DEF TmpIsImage, FileIsAcknowledged
<1>4. MembershipsAreReal
  BY DEF MembershipsAreReal, Consistent, Image
<1>5. UnsavedIsNamed
  BY DEF UnsavedIsNamed
<1>6. QED
  BY <1>2, <1>3, <1>4, <1>5 DEF IInv

\* Every step of the store preserves the invariant.
LEMMA NextIInv == IInv /\ [RbacNext]_rbacVars => IInv'
<1> SUFFICES ASSUME IInv, [RbacNext]_rbacVars PROVE IInv'
  OBVIOUS
<1>1. CASE Open
  BY <1>1, OpenStep
<1>2. CASE Save \/ ProcessEnds
  BY <1>2, SaveStep
<1>3. CASE Operation
  BY <1>3, UserStep, GroupStep, MembershipStep, UserMaskStep, GroupMaskStep, FlushStep, Zenon
     DEF Operation
<1>4. CASE UNCHANGED rbacVars
  BY <1>4 DEF rbacVars, IInv, RbacTypeOK, Image, TmpIsImage, FileIsAcknowledged,
              MembershipsAreReal, UnsavedIsNamed, OnlyInGroups
<1>5. QED
  BY <1>1, <1>2, <1>3, <1>4 DEF RbacNext

\* Every reachable state satisfies the inductive invariant.
THEOREM Invariance == RbacSpec => []IInv
  BY InitIInv, NextIInv, PTL DEF RbacSpec

\* The maps, the file and the temporary file keep their types.
THEOREM TypeCorrect == RbacSpec => []RbacTypeOK
  BY Invariance, PTL DEF IInv

\* Save() replaces the file in one step: whatever saves fail and wherever the
\* process dies, the file is what the last successful operation left.
THEOREM FileAcknowledged == RbacSpec => []FileIsAcknowledged
  BY Invariance, PTL DEF IInv

\* Users belong to existing groups only, in memory and on disk.
THEOREM Memberships == RbacSpec => []MembershipsAreReal
  BY Invariance, PTL DEF IInv

\* What memory has and the acknowledged state has not was named by an operation.
THEOREM UnsavedNamed == RbacSpec => []UnsavedIsNamed
  BY Invariance, PTL DEF IInv

-----------------------------------------------------------------------------
(* The metrics.                                                            *)

Bucket == [ts : Int, count : Nat, errors : Nat]

\* Popping from the front removes the longest prefix that is not newer than the
\* cutoff.
LEMMA DropFrontFacts ==
    ASSUME NEW q \in Seq(Bucket), NEW cutoff \in Int
    PROVE  \E k \in 0..Len(q) :
              /\ DropFront(q, cutoff) \in Seq(Bucket)
              /\ Len(DropFront(q, cutoff)) = Len(q) - k
              /\ \A i \in 1..(Len(q) - k) : DropFront(q, cutoff)[i] = q[i + k]
              /\ \A j \in 1..k : q[j].ts <= cutoff
              /\ k < Len(q) => q[k + 1].ts > cutoff
<1> DEFINE T == {i \in 1..(Len(q) + 1) : i <= Len(q) => q[i].ts > cutoff}
           IsFirst(i) == /\ \A j \in 1..(i - 1) : q[j].ts <= cutoff
                         /\ i <= Len(q) => q[i].ts > cutoff
           first == CHOOSE i \in 1..(Len(q) + 1) : IsFirst(i)
<1>1. Len(q) \in Nat /\ \A i \in 1..Len(q) : q[i].ts \in Int
  <2>1. Len(q) \in Nat /\ \A i \in 1..Len(q) : q[i] \in Bucket
    OBVIOUS
  <2>2. QED
    BY <2>1 DEF Bucket
<1>2. PICK x \in T : \A y \in T : x <= y
  <2>1. Len(q) + 1 \in T /\ T \subseteq Nat
    BY <1>1
  <2>2. QED
    BY <2>1, LeastNat, Zenon
<1>3. x \in 1..(Len(q) + 1) /\ IsFirst(x)
  BY <1>1, <1>2
<1>4. first \in 1..(Len(q) + 1) /\ IsFirst(first)
  <2> HIDE DEF IsFirst
  <2>1. QED
    BY <1>3
<1>5. DropFront(q, cutoff) = SubSeq(q, first, Len(q))
  BY DEF DropFront
<1> HIDE DEF first, T
<1>6. /\ SubSeq(q, first, Len(q)) \in Seq(Bucket)
      /\ Len(SubSeq(q, first, Len(q))) = Len(q) - (first - 1)
      /\ \A i \in 1..(Len(q) - (first - 1)) : SubSeq(q, first, Len(q))[i] = q[i + (first - 1)]
  BY <1>1, <1>4
<1>7. first - 1 \in 0..Len(q)
  BY <1>1, <1>4
<1>8. /\ \A j \in 1..(first - 1) : q[j].ts <= cutoff
      /\ first - 1 < Len(q) => q[(first - 1) + 1].ts > cutoff
  BY <1>1, <1>4
<1>9. QED
  BY <1>5, <1>6, <1>7, <1>8, Zenon

\* A pushed bucket is the newest one, and is pushed for a newer second only.
LEMMA PushFacts ==
    ASSUME buckets \in Seq(Bucket), NEW now \in Int
    PROVE  /\ Push(now) \in Seq(Bucket) /\ Push(now) # <<>>
           /\ \/ Push(now) = buckets /\ buckets # <<>> /\ Back(buckets).ts >= now
              \/ /\ buckets # <<>> => Back(buckets).ts < now
                 /\ Len(Push(now)) = Len(buckets) + 1
                 /\ \A i \in 1..Len(buckets) : Push(now)[i] = buckets[i]
                 /\ Push(now)[Len(buckets) + 1] = [ts |-> now, count |-> 0, errors |-> 0]
<1> DEFINE new == [ts |-> now, count |-> 0, errors |-> 0]
<1>1. new \in Bucket
  BY DEF Bucket
<1>2. CASE buckets = <<>> \/ Back(buckets).ts < now
  <2>1. Push(now) = Append(buckets, new)
    BY <1>2 DEF Push
  <2> HIDE DEF new
  <2>2. /\ Append(buckets, new) \in Seq(Bucket) /\ Len(Append(buckets, new)) = Len(buckets) + 1
        /\ \A i \in 1..Len(buckets) : Append(buckets, new)[i] = buckets[i]
        /\ Append(buckets, new)[Len(buckets) + 1] = new
        /\ Append(buckets, new) # <<>>
    BY <1>1
  <2>3. QED
    BY <1>2, <2>1, <2>2 DEF new
<1>3. CASE buckets # <<>> /\ ~(Back(buckets).ts < now)
  <2>1. Back(buckets) \in Bucket
    BY <1>3 DEF Back
  <2>2. Back(buckets).ts \in Int
    BY <2>1 DEF Bucket
  <2>3. QED
    BY <1>3, <2>2 DEF Push
<1>4. QED
  BY <1>2, <1>3

\* After the push the buckets are in order and still have their counts.
LEMMA PushKeeps ==
    ASSUME buckets \in Seq(Bucket), NEW counts, DOMAIN counts \subseteq Int,
           Exact(buckets, counts), NEW now \in Int
    PROVE  /\ \A i, j \in 1..Len(Push(now)) : i < j => Push(now)[i].ts < Push(now)[j].ts
           /\ \A i \in 1..Len(Push(now)) :
                 /\ Push(now)[i].errors <= Push(now)[i].count
                 /\ Push(now)[i].count = IF Push(now)[i].ts \in DOMAIN counts
                                         THEN counts[Push(now)[i].ts] ELSE 0
           /\ \A s \in DOMAIN counts :
                 /\ s <= Back(Push(now)).ts
                 /\ s > Back(Push(now)).ts - Window => \E i \in 1..Len(Push(now)) : Push(now)[i].ts = s
           /\ Back(Push(now)).ts >= now
           /\ now < Back(Push(now)).ts => Push(now) = buckets
<1> DEFINE p == Push(now)
<1>1. CASE p = buckets /\ buckets # <<>> /\ Back(buckets).ts >= now
  BY <1>1, Zenon DEF Exact
<1>2. CASE /\ buckets # <<>> => Back(buckets).ts < now
           /\ Len(p) = Len(buckets) + 1
           /\ \A i \in 1..Len(buckets) : p[i] = buckets[i]
           /\ p[Len(buckets) + 1] = [ts |-> now, count |-> 0, errors |-> 0]
  <2>1. Len(buckets) \in Nat /\ Window \in Nat /\ \A i \in 1..Len(buckets) : buckets[i].ts \in Int
    <3>1. \A i \in 1..Len(buckets) : buckets[i] \in Bucket
      OBVIOUS
    <3>2. \A i \in 1..Len(buckets) : buckets[i].ts \in Int
      BY <3>1 DEF Bucket
    <3>3. Len(buckets) \in Nat
      OBVIOUS
    <3>4. Window \in Nat
      BY MetricsAssumption
    <3>5. QED
      BY <3>2, <3>3, <3>4
  <2>2. Back(p) = [ts |-> now, count |-> 0, errors |-> 0]
    BY <1>2 DEF Back
  <2>3. \A i \in 1..Len(buckets) : buckets[i].ts < now
    <3>1. \A i \in 1..Len(buckets) : i = Len(buckets) \/ buckets[i].ts < buckets[Len(buckets)].ts
      <4>1. \A i, j \in 1..Len(buckets) : i < j => buckets[i].ts < buckets[j].ts
        BY Zenon DEF Exact
      <4>2. \A i \in 1..Len(buckets) : Len(buckets) \in 1..Len(buckets) /\ (i = Len(buckets) \/ i < Len(buckets))
        BY <2>1
      <4>3. QED
        BY <4>1, <4>2, Zenon
    <3>2. \A i \in 1..Len(buckets) : buckets[Len(buckets)].ts < now
      BY <1>2, <2>1 DEF Back
    <3>3. QED
      BY <2>1, <3>1, <3>2
  <2>4. \A s \in DOMAIN counts : buckets # <<>> /\ s <= Back(buckets).ts /\ s < now
    <3>1. \A s \in DOMAIN counts : buckets # <<>> /\ s <= Back(buckets).ts
      BY DEF Exact
    <3>2. buckets # <<>> => Back(buckets).ts \in Int
      BY <2>1 DEF Back
    <3>3. QED
      BY <1>2, <3>1, <3>2
  <2>5. \A i, j \in 1..Len(p) : i < j => p[i].ts < p[j].ts
    <3> SUFFICES ASSUME NEW i \in 1..Len(p), NEW j \in 1..Len(p), i < j PROVE p[i].ts < p[j].ts
      OBVIOUS
    <3>1. i \in 1..Len(buckets) /\ p[i] = buckets[i]
      BY <1>2, <2>1
    <3>2. CASE j \in 1..Len(buckets)
      BY <1>2, <3>1, <3>2 DEF Exact
    <3>3. CASE j = Len(buckets) + 1
      BY <1>2, <2>3, <3>1, <3>3
    <3>4. j \in 1..Len(buckets) \/ j = Len(buckets) + 1
      <4>1. Len(p) = Len(buckets) + 1
        BY <1>2, Zenon
      <4>2. Len(buckets) \in Nat
        BY <2>1
      <4>3. QED
        BY <4>1, <4>2
    <3>5. QED
      BY <3>2, <3>3, <3>4
  <2>6. now \notin DOMAIN counts
    BY <2>4
  <2>7. \A i \in 1..Len(p) :
           /\ p[i].errors <= p[i].count
           /\ p[i].count = IF p[i].ts \in DOMAIN counts THEN counts[p[i].ts] ELSE 0
    <3> SUFFICES ASSUME NEW i \in 1..Len(p)
                 PROVE  /\ p[i].errors <= p[i].count
                        /\ p[i].count = IF p[i].ts \in DOMAIN counts THEN counts[p[i].ts] ELSE 0
      OBVIOUS
    <3>1. CASE i = Len(buckets) + 1
      BY <1>2, <2>6, <3>1
    <3>2. CASE i \in 1..Len(buckets)
      BY <1>2, <3>2 DEF Exact
    <3>3. QED
      BY <1>2, <2>1, <3>1, <3>2
  <2>8. ASSUME NEW s \in DOMAIN counts, s > now - Window
        PROVE  \E i \in 1..Len(p) : p[i].ts = s
    <3>1. s > Back(buckets).ts - Window
      <4>1. Back(buckets).ts \in Int
        BY <2>1, <2>4 DEF Back
      <4>2. QED
        BY <1>2, <2>1, <2>4, <2>8, <4>1
    <3>2. PICK i \in 1..Len(buckets) : buckets[i].ts = s
      BY <3>1 DEF Exact
    <3>3. i \in 1..Len(p) /\ p[i].ts = s
      BY <1>2, <2>1, <3>2
    <3>4. QED
      BY <3>3
  <2>9. Back(p).ts = now
    BY <2>2
  <2>10. Back(p).ts >= now /\ ~(now < Back(p).ts)
    BY <2>9
  <2>11. \A s \in DOMAIN counts : s <= Back(p).ts
    <3>1. \A s \in DOMAIN counts : s \in Int /\ s < now
      BY <2>4
    <3>2. QED
      BY <2>9, <3>1
  <2>12. \A s \in DOMAIN counts : s > Back(p).ts - Window => \E i \in 1..Len(p) : p[i].ts = s
    BY <2>8, <2>9, Zenon
  <2>13. QED
    BY <2>5, <2>7, <2>10, <2>11, <2>12, Zenon
<1>3. QED
  BY <1>1, <1>2, PushFacts

\* AdvanceBuckets keeps the window exact, and leaves a bucket to count in.
LEMMA AdvanceKeeps ==
    ASSUME buckets \in Seq(Bucket), NEW counts, DOMAIN counts \subseteq Int,
           Exact(buckets, counts), NEW now \in Int
    PROVE  /\ Advanced(now) \in Seq(Bucket) /\ Len(Advanced(now)) > 0
           /\ Exact(Advanced(now), counts)
<1> DEFINE p == Push(now)
           d == Advanced(now)
<1>1. p \in Seq(Bucket) /\ p # <<>>
  BY PushFacts, Zenon
<1>2. Len(p) \in Nat /\ Len(p) > 0 /\ \A i \in 1..Len(p) : p[i].ts \in Int
  <2>1. Len(p) \in Nat /\ Len(p) > 0 /\ \A i \in 1..Len(p) : p[i] \in Bucket
    BY <1>1
  <2>2. QED
    BY <2>1 DEF Bucket
<1>3. Window \in Nat /\ Window > 0 /\ now - Window \in Int
  BY MetricsAssumption
<1>4. d = DropFront(p, now - Window)
  BY DEF Advanced
<1>5. PICK k \in 0..Len(p) :
              /\ d \in Seq(Bucket)
              /\ Len(d) = Len(p) - k
              /\ \A i \in 1..(Len(p) - k) : d[i] = p[i + k]
              /\ \A j \in 1..k : p[j].ts <= now - Window
              /\ k < Len(p) => p[k + 1].ts > now - Window
  <2>1. \E k \in 0..Len(p) :
              /\ DropFront(p, now - Window) \in Seq(Bucket)
              /\ Len(DropFront(p, now - Window)) = Len(p) - k
              /\ \A i \in 1..(Len(p) - k) : DropFront(p, now - Window)[i] = p[i + k]
              /\ \A j \in 1..k : p[j].ts <= now - Window
              /\ k < Len(p) => p[k + 1].ts > now - Window
    BY <1>1, <1>3, DropFrontFacts, Zenon
  <2> HIDE DEF p, d
  <2>2. QED
    BY <1>4, <2>1, Zenon
<1>6. Back(p).ts >= now /\ Back(p) = p[Len(p)]
  BY PushKeeps DEF Back
<1>7. k < Len(p)
  <2> SUFFICES ASSUME k = Len(p) PROVE FALSE
    BY <1>2, <1>5
  <2>1. p[Len(p)].ts <= now - Window /\ p[Len(p)].ts >= now /\ p[Len(p)].ts \in Int
    BY <1>2, <1>5, <1>6
  <2> HIDE DEF p
  <2>2. QED
    BY <1>3, <2>1
<1>8. Len(d) > 0 /\ Back(d) = Back(p) /\ \A i \in 1..Len(d) : i + k \in 1..Len(p) /\ d[i] = p[i + k]
  <2> HIDE DEF p, d
  <2>1. Len(d) > 0 /\ Len(d) + k = Len(p) /\ Len(d) \in 1..(Len(p) - k)
    BY <1>2, <1>5, <1>7
  <2>2. \A i \in 1..Len(d) : i + k \in 1..Len(p) /\ d[i] = p[i + k]
    BY <1>2, <1>5, <2>1
  <2>3. d[Len(d)] = p[Len(p)]
    BY <1>5, <2>1
  <2>4. QED
    BY <2>1, <2>2, <2>3 DEF Back
<1>9. \A i, j \in 1..Len(p) : i < j => p[i].ts < p[j].ts
  BY PushKeeps
<1>10. \A i, j \in 1..Len(d) : i < j => d[i].ts < d[j].ts
  <2> HIDE DEF p, d
  <2> SUFFICES ASSUME NEW i \in 1..Len(d), NEW j \in 1..Len(d), i < j PROVE d[i].ts < d[j].ts
    OBVIOUS
  <2>1. i + k \in 1..Len(p) /\ j + k \in 1..Len(p) /\ d[i] = p[i + k] /\ d[j] = p[j + k]
    BY <1>8, Zenon
  <2>2. i + k < j + k
    BY <1>5
  <2>3. QED
    BY <1>9, <2>1, <2>2
<1>11. \A i \in 1..Len(d) : d[i].ts > now - Window
  <2> SUFFICES ASSUME NEW i \in 1..Len(d) PROVE d[i].ts > now - Window
    OBVIOUS
  <2>1. k + 1 \in 1..Len(p) /\ i + k \in 1..Len(p) /\ d[i] = p[i + k] /\ k + 1 <= i + k
    BY <1>2, <1>5, <1>7, <1>8
  <2>2. i + k = k + 1 \/ p[k + 1].ts < p[i + k].ts
    BY <1>9, <2>1
  <2>3. p[k + 1].ts \in Int /\ p[i + k].ts \in Int /\ now - Window \in Int /\ p[k + 1].ts > now - Window
    BY <1>2, <1>3, <1>5, <1>7, <2>1
  <2> HIDE DEF p, d
  <2>4. QED
    BY <2>1, <2>2, <2>3
<1>12. \A i \in 1..Len(d) : d[i].ts > Back(d).ts - Window
  <2>1. CASE now = Back(p).ts
    BY <1>8, <1>11, <2>1
  <2>2. CASE now < Back(p).ts
    <3>1. p = buckets
      BY <2>2, PushKeeps, Zenon
    <3>2. \A i \in 1..Len(p) : p[i].ts > Back(p).ts - Window
      BY <3>1 DEF Exact
    <3>3. QED
      BY <1>8, <3>2
  <2>3. p[Len(p)].ts \in Int
    BY <1>2
  <2>4. now = Back(p).ts \/ now < Back(p).ts
    BY <1>6, <2>3
  <2>5. QED
    BY <2>1, <2>2, <2>4, Zenon
<1>13. \A i \in 1..Len(d) :
          /\ d[i].errors <= d[i].count
          /\ d[i].count = IF d[i].ts \in DOMAIN counts THEN counts[d[i].ts] ELSE 0
  <2>1. \A i \in 1..Len(p) :
           /\ p[i].errors <= p[i].count
           /\ p[i].count = IF p[i].ts \in DOMAIN counts THEN counts[p[i].ts] ELSE 0
    BY PushKeeps
  <2> HIDE DEF p, d
  <2>2. QED
    BY <1>8, <2>1, Zenon
<1>14. ASSUME NEW s \in DOMAIN counts
       PROVE  /\ d # <<>> /\ s <= Back(d).ts
              /\ s > Back(d).ts - Window => \E i \in 1..Len(d) : d[i].ts = s
  <2>1. d # <<>> /\ s <= Back(d).ts
    <3>1. s <= Back(p).ts
      BY PushKeeps, Zenon
    <3> HIDE DEF p, d
    <3>2. d # <<>>
      BY <1>5, <1>8
    <3>3. QED
      BY <1>8, <3>1, <3>2
  <2>2. ASSUME s > Back(d).ts - Window PROVE \E i \in 1..Len(d) : d[i].ts = s
    <3>1. PICK i \in 1..Len(p) : p[i].ts = s
      BY <1>8, <2>2, PushKeeps, Zenon
    <3>2. s > now - Window
      <4>1. Back(d).ts \in Int /\ Back(d).ts >= now /\ s \in Int
        BY <1>2, <1>6, <1>8
      <4>2. QED
        BY <1>3, <2>2, <4>1
    <3>3. i > k
      BY <1>3, <1>5, <3>1, <3>2
    <3>4. i - k \in 1..Len(d) /\ (i - k) + k = i
      BY <1>2, <1>5, <3>3
    <3>5. d[i - k].ts = s
      <4> HIDE DEF p, d
      <4>1. d[i - k] = p[(i - k) + k]
        BY <1>8, <3>4, Zenon
      <4>2. QED
        BY <3>1, <3>4, <4>1
    <3>6. QED
      BY <3>4, <3>5
  <2>3. QED
    BY <2>1, <2>2
<1>15. Exact(d, counts)
  <2> HIDE DEF p, d
  <2>1. QED
    BY <1>10, <1>12, <1>13, <1>14, Zenon DEF Exact
<1>16. QED
  BY <1>5, <1>8, <1>15

-----------------------------------------------------------------------------
\* The invariant: the types of what the window is made of, and that it is exact.
MInv ==
    /\ buckets \in Seq(Bucket)
    /\ DOMAIN placed \subseteq Int /\ placed \in [DOMAIN placed -> Nat]
    /\ WindowIsExact

\* RecordRequest counts in the newest bucket and keeps the window exact.
LEMMA RecordReadingStep ==
    ASSUME MInv, NEW now \in Int, NEW isError \in BOOLEAN, RecordReading(now, isError)
    PROVE  MInv'
<1> DEFINE b == Advanced(now)
           n == Len(b)
           last == Back(b)
           e == IF isError THEN 1 ELSE 0
           old == IF last.ts \in DOMAIN placed THEN placed[last.ts] ELSE 0
           bumped == [ts |-> last.ts, count |-> last.count + 1, errors |-> last.errors + e]
<1>1. b \in Seq(Bucket) /\ n \in Nat /\ n > 0 /\ Exact(b, placed)
  BY AdvanceKeeps DEF MInv, WindowIsExact
<1>2. last \in Bucket /\ last = b[n]
  BY <1>1 DEF Back
<1>3. /\ last.ts \in Int /\ last.count \in Nat /\ last.errors \in Nat /\ e \in Nat /\ e <= 1
      /\ last.count = old /\ last.errors <= last.count
  BY <1>1, <1>2 DEF Bucket, Exact
<1>4. bumped \in Bucket
  BY <1>3 DEF Bucket
<1>5. /\ buckets' = [b EXCEPT ![n] = bumped]
      /\ placed' = [s \in DOMAIN placed \cup {last.ts} |-> IF s = last.ts THEN old + 1 ELSE placed[s]]
  BY DEF RecordReading
<1> HIDE DEF b, n, last, old, bumped, e
<1>6. /\ buckets' \in Seq(Bucket) /\ Len(buckets') = n /\ buckets'[n] = bumped
      /\ \A i \in 1..n : i # n => buckets'[i] = b[i]
  BY <1>1, <1>4, <1>5 DEF n
<1>7. Back(buckets') = bumped /\ bumped.ts = last.ts /\ bumped.count = old + 1
      /\ bumped.errors <= bumped.count
  BY <1>3, <1>6 DEF Back, bumped
<1>8. DOMAIN placed' \subseteq Int /\ placed' \in [DOMAIN placed' -> Nat]
  <2>1. old \in Nat
    BY <1>3
  <2>2. QED
    BY <1>3, <1>5, <2>1 DEF MInv
<1>9. \A i \in 1..n : buckets'[i].ts = b[i].ts
  BY <1>2, <1>6, <1>7
<1>10. \A i, j \in 1..n : i < j => b[i].ts < b[j].ts
  BY <1>1 DEF Exact, n
<1>11. \A i \in 1..n :
          /\ buckets'[i].ts > Back(buckets').ts - Window
          /\ buckets'[i].errors <= buckets'[i].count
          /\ buckets'[i].count = IF buckets'[i].ts \in DOMAIN placed' THEN placed'[buckets'[i].ts] ELSE 0
  <2> SUFFICES ASSUME NEW i \in 1..n
               PROVE  /\ buckets'[i].ts > Back(buckets').ts - Window
                      /\ buckets'[i].errors <= buckets'[i].count
                      /\ buckets'[i].count = IF buckets'[i].ts \in DOMAIN placed'
                                             THEN placed'[buckets'[i].ts] ELSE 0
    OBVIOUS
  <2>1. /\ b[i].ts > last.ts - Window /\ b[i].errors <= b[i].count
        /\ b[i].count = IF b[i].ts \in DOMAIN placed THEN placed[b[i].ts] ELSE 0
    BY <1>1 DEF Exact, n, last
  <2>2. CASE i = n
    BY <1>2, <1>5, <1>6, <1>7, <2>1, <2>2
  <2>3. CASE i # n
    <3>1. b[i].ts # last.ts
      <4>1. b[i].ts < last.ts
        BY <1>1, <1>2, <1>10, <2>3
      <4>2. b[i] \in Bucket
        BY <1>1 DEF n
      <4>3. QED
        BY <1>3, <4>1, <4>2 DEF Bucket
    <3>2. buckets'[i] = b[i]
      BY <1>6, <2>3
    <3>3. QED
      BY <1>5, <1>7, <2>1, <3>1, <3>2
  <2>4. QED
    BY <2>2, <2>3
<1>12. ASSUME NEW s \in DOMAIN placed'
       PROVE  /\ buckets' # <<>> /\ s <= Back(buckets').ts
              /\ s > Back(buckets').ts - Window => \E i \in 1..n : buckets'[i].ts = s
  <2>1. buckets' # <<>>
    BY <1>1, <1>6
  <2>2. CASE s = last.ts
    BY <1>1, <1>2, <1>3, <1>7, <1>9, <2>1, <2>2
  <2>3. CASE s \in DOMAIN placed
    <3>1. s <= last.ts /\ (s > last.ts - Window => \E i \in 1..n : b[i].ts = s)
      BY <1>1, <2>3 DEF Exact, n, last
    <3>2. QED
      BY <1>7, <1>9, <2>1, <3>1
  <2>4. QED
    BY <1>5, <2>2, <2>3
<1>13. Exact(buckets', placed')
  BY <1>6, <1>9, <1>10, <1>11, <1>12 DEF Exact
<1>14. QED
  BY <1>6, <1>8, <1>13 DEF MInv, WindowIsExact, Exact, Back

\* Empty metrics are exact.
LEMMA MetricsInitInv == MetricsInit => MInv
<1> SUFFICES ASSUME MetricsInit PROVE MInv
  OBVIOUS
<1>1. buckets = <<>> /\ DOMAIN placed = {} /\ placed \in [{} -> Nat]
  BY DEF MetricsInit
<1>2. QED
  BY <1>1 DEF MInv, WindowIsExact, Exact

\* Recording, reporting and restarting keep the window exact.
LEMMA MetricsNextInv == MInv /\ [MetricsNext]_metricsVars => MInv'
<1> SUFFICES ASSUME MInv, [MetricsNext]_metricsVars PROVE MInv'
  OBVIOUS
<1>1. CASE buckets' = buckets /\ placed' = placed
  BY <1>1 DEF MInv, WindowIsExact, Exact, Back
<1>2. ASSUME NEW now \in Int, Snapshot(now) PROVE MInv'
  <2>1. buckets' = Advanced(now) /\ placed' = placed
    BY <1>2 DEF Snapshot
  <2>2. Advanced(now) \in Seq(Bucket) /\ Exact(Advanced(now), placed)
    BY AdvanceKeeps DEF MInv, WindowIsExact
  <2>3. QED
    BY <2>1, <2>2 DEF MInv, WindowIsExact, Exact, Back
<1>3. CASE MetricsRestart
  <2>1. buckets' = <<>> /\ DOMAIN placed' = {} /\ placed' \in [{} -> Nat]
    BY <1>3 DEF MetricsRestart
  <2>2. QED
    BY <2>1 DEF MInv, WindowIsExact, Exact
<1>4. ASSUME NEW isError \in BOOLEAN, CountTotals(isError) PROVE MInv'
  BY <1>1, <1>4 DEF CountTotals
<1>5. CASE UNCHANGED metricsVars
  BY <1>1, <1>5 DEF metricsVars
<1>6. QED
  BY <1>2, <1>3, <1>4, <1>5, RecordReadingStep DEF MetricsNext

\* The window that SHOW METRICS reports from is exact, whatever the clock reads
\* and in whatever order the readings reach the buckets.
THEOREM WindowExact == MetricsSpec => []WindowIsExact
<1>1. MInv => WindowIsExact
  BY DEF MInv
<1>2. QED
  BY <1>1, MetricsInitInv, MetricsNextInv, PTL DEF MetricsSpec

=============================================================================
