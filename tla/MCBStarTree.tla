---------------------------- MODULE MCBStarTree ----------------------------
(***************************************************************************)
(* An instance of BStarTree for TLC: all histories over a few keys, and    *)
(* tall trees that a script builds up and takes down again, left at any    *)
(* point for a few operations of any kind.                                 *)
(***************************************************************************)
EXTENDS BStarTree

CONSTANTS MaxKey,   \* keys are 1..MaxKey
          FewKeys,  \* the keys 1..FewKeys are inserted and deleted in any order
          MaxFree   \* bound: operations after leaving the script

VARIABLES script,  \* what is left of it
          free     \* operations since it was left

MCKeys == 1..MaxKey

Up == [i \in Keys |-> i]
Down == [i \in Keys |-> MaxKey + 1 - i]

\* the even keys, then the odd ones between them
Zigzag == [i \in Keys |-> IF 2 * i <= MaxKey THEN 2 * i ELSE 2 * (i - MaxKey \div 2) - 1]

\* the first half of a script inserts all keys, the second deletes them
Scripts == {order \o Reverse(order) : order \in {Up, Down, Zigzag}} \cup {Zigzag \o Up}

\* in place of a script: no script is followed
Unscripted == <<0>>

MCInit == Init /\ script \in Scripts \cup {Unscripted} /\ free = 0

AnyOrder ==
    /\ script = Unscripted
    /\ \E k \in 1..FewKeys : Insert(k) \/ Delete(k)
    /\ UNCHANGED <<script, free>>

Scripted ==
    /\ script \notin {Unscripted, <<>>}
    /\ IF Len(script) > MaxKey THEN Insert(Head(script)) ELSE Delete(Head(script))
    /\ script' = Tail(script)
    /\ UNCHANGED free

OffScript ==
    /\ script # Unscripted /\ free < MaxFree
    /\ Next
    /\ script' = <<>>
    /\ free' = free + 1

MCNext == AnyOrder \/ Scripted \/ OffScript

MCSpec == MCInit /\ [][MCNext]_<<tree, script, free>>
============================================================================
