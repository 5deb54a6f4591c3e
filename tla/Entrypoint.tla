----------------------------- MODULE Entrypoint -----------------------------
(***************************************************************************)
(* EntrypointNode: clients' statements are routed by their shard key to a  *)
(* storage node, past nodes the health-check thread has found unreachable. *)
(* nodes_mu_ makes the steps below atomic; it is not held while a message  *)
(* is on its way.  A storage node is up, down (connections are refused) or *)
(* hung (it accepts and does not answer); TcpClient has no timeout.        *)
(***************************************************************************)
EXTENDS HashRing

CONSTANTS StartNodes,     \* config.nodes
          Clients,
          Statements,     \* what clients send: [db, named, text]
          HashOf,         \* where a shard key lies on the ring
          NodeStates      \* node -> the states it may get into

ASSUME EntrypointAssumption ==
    StartNodes \subseteq Nodes /\ NodeStates \in [Nodes -> SUBSET {"up", "down", "hung"}]

VARIABLES nodes,    \* node id -> health
          ring,
          life,     \* of the EntrypointNode object and its threads
          checker,  \* the health-check thread: the nodes left in its round, the one pinged, its answer
          request,  \* client -> the node its statement went to, NoNode when it has none
          condition \* external: the state of each storage node

entrypointVars == <<nodes, ring, life, checker, request, condition>>

Round(S) == [left |-> S, target |-> NoNode, answer |-> "none"]
Asleep == Round({})
SetHealth(f, x, v) == [y \in DOMAIN f \cup {x} |-> IF y = x THEN v ELSE f[y]]
Registered == DOMAIN nodes
Exists == life \notin {"destroyed", "terminated"}

-----------------------------------------------------------------------------
(* Topology.                                                               *)

AddNode(n) ==
    /\ Exists /\ n \notin Registered
    /\ nodes' = SetHealth(nodes, n, "unknown") /\ ring' = RingAdd(ring, n)
    /\ UNCHANGED <<life, checker, request, condition>>

RemoveNode(n) ==
    /\ Exists /\ n \in Registered
    /\ nodes' = [m \in Registered \ {n} |-> nodes[m]] /\ ring' = RingRemove(ring, n)
    /\ UNCHANGED <<life, checker, request, condition>>

-----------------------------------------------------------------------------
(* Requests.                                                               *)

ShardKey(s) == IF s.named THEN s.db ELSE s.text

Usable(n) == n \in Registered /\ nodes[n] # "unhealthy"

\* mutant: an unhealthy owner has no substitute
ResolveOwner(key) == LET owner == GetNode(ring, HashOf[key]) IN IF Usable(owner) THEN owner ELSE NoNode

\* the owner or, when it is unhealthy, the first usable node of the ring
ResolveNode(key) ==
    LET owner == GetNode(ring, HashOf[key])
        others == {n \in AllNodes(ring) \ {owner} : Usable(n)}
    IN CASE owner \notin Registered -> NoNode
         [] Usable(owner) -> owner
         [] OTHER -> IF others = {} THEN NoNode ELSE Least(others)

\* HandleRequest up to the message to the node; with no node, an error at once
Route(c, s) ==
    LET n == ResolveNode(ShardKey(s))
    IN /\ life = "running" /\ request[c] = NoNode
       /\ request' = [request EXCEPT ![c] = n]
       /\ UNCHANGED <<nodes, ring, life, checker, condition>>

\* the node's answer, or the error of a refused connection
Reply(c) ==
    /\ life # "terminated" /\ request[c] # NoNode /\ condition[request[c]] # "hung"
    /\ request' = [request EXCEPT ![c] = NoNode]
    /\ UNCHANGED <<nodes, ring, life, checker, condition>>

-----------------------------------------------------------------------------
(* The health-check thread.                                                *)

Looping == life \in {"running", "stopping", "failed"}

StartRound ==
    /\ life = "running" /\ checker = Asleep
    /\ checker' = Round(Registered)
    /\ UNCHANGED <<nodes, ring, life, request, condition>>

Ping(n) ==
    /\ Looping /\ checker.target = NoNode /\ n \in checker.left
    /\ checker' = [checker EXCEPT !.left = @ \ {n}, !.target = n]
    /\ UNCHANGED <<nodes, ring, life, request, condition>>

\* Send has returned; nodes_mu_ is not held yet
PingDone ==
    LET n == checker.target
    IN /\ Looping /\ n # NoNode /\ checker.answer = "none" /\ condition[n] # "hung"
       /\ checker' = [checker EXCEPT !.answer = condition[n]]
       /\ UNCHANGED <<nodes, ring, life, request, condition>>

\* mutant: a node that answers again is not noticed
HealthOnlyLost(n) == IF checker.answer = "up" THEN nodes[n] ELSE "unhealthy"

HealthNow(n) == IF checker.answer = "up" THEN "healthy" ELSE "unhealthy"

\* mutant: the node table is not looked at again
NoteHealthAnyway(n) == SetHealth(nodes, n, HealthNow(n))

\* the node may have been removed while it was pinged
NoteHealth(n) == IF n \in Registered THEN [nodes EXCEPT ![n] = HealthNow(n)] ELSE nodes

PingNoted ==
    /\ Looping /\ checker.answer # "none"
    /\ nodes' = NoteHealth(checker.target)
    /\ checker' = Round(checker.left)
    /\ UNCHANGED <<ring, life, request, condition>>

-----------------------------------------------------------------------------
(* Start, Stop and the destructor.                                         *)

EntrypointStart(bound) ==
    /\ life \in {"new", "stopped"}
    /\ life' = IF bound THEN "running" ELSE "failed"
    /\ checker' = Round(Registered)
    /\ UNCHANGED <<nodes, ring, request, condition>>

Stop ==
    /\ life = "running" /\ life' = "stopping"
    /\ UNCHANGED <<nodes, ring, checker, request, condition>>

\* the loops see running_ cleared at the end of a round
Joined ==
    /\ life = "stopping" /\ checker = Asleep /\ life' = "stopped"
    /\ UNCHANGED <<nodes, ring, checker, request, condition>>

\* Stop returns at once when running_ is clear, and the thread members go
Destroy ==
    /\ life \in {"new", "failed", "stopped"}
    /\ life' = IF life = "failed" THEN "terminated" ELSE "destroyed"
    /\ UNCHANGED <<nodes, ring, checker, request, condition>>

-----------------------------------------------------------------------------
(* External: storage nodes fail and recover.                               *)

Change(n, state) ==
    /\ condition[n] # state /\ condition' = [condition EXCEPT ![n] = state]
    /\ UNCHANGED <<nodes, ring, life, checker, request>>

RingOf(S) == [h \in UNION {Slots[n] : n \in S} |-> CHOOSE n \in S : h \in Slots[n]]

EntrypointInit ==
    /\ nodes = [n \in StartNodes |-> "unknown"] /\ ring = RingOf(StartNodes)
    /\ life = "new" /\ checker = Asleep
    /\ request = [c \in Clients |-> NoNode]
    /\ condition = [n \in Nodes |-> "up"]

EntrypointNext ==
    \/ \E n \in Nodes : \/ AddNode(n) \/ RemoveNode(n) \/ Ping(n)
                        \/ \E state \in NodeStates[n] : Change(n, state)
    \/ \E c \in Clients : Reply(c) \/ \E s \in Statements : Route(c, s)
    \/ StartRound \/ PingDone \/ PingNoted
    \/ \E bound \in BOOLEAN : EntrypointStart(bound)
    \/ Stop \/ Joined \/ Destroy

CheckerStep == StartRound \/ PingDone \/ PingNoted \/ \E n \in Nodes : Ping(n)

EntrypointSpec == EntrypointInit /\ [][EntrypointNext]_entrypointVars
EntrypointFairSpec == EntrypointSpec /\ WF_entrypointVars(CheckerStep) /\ WF_entrypointVars(Joined)

-----------------------------------------------------------------------------
(* Properties.                                                             *)

Healths == {"unknown", "healthy", "unhealthy"}

EntrypointTypeOK ==
    /\ Registered \subseteq Nodes /\ Range(nodes) \subseteq Healths
    /\ DOMAIN ring \subseteq Positions /\ Range(ring) \subseteq Nodes
    /\ life \in {"new", "running", "failed", "stopping", "stopped", "destroyed", "terminated"}
    /\ checker \in [left : SUBSET Nodes, target : Nodes \cup {NoNode}, answer : {"none", "up", "down"}]
    /\ request \in [Clients -> Nodes \cup {NoNode}]
    /\ condition \in [Nodes -> {"up", "down", "hung"}]

\* The ring and the table of nodes list the same nodes, each with all its
\* virtual nodes, through any additions and removals (for a hash without
\* collisions between nodes).
RingMatchesNodes ==
    /\ AllNodes(ring) = {n \in Registered : Slots[n] # {}}
    /\ \A n \in Registered : \A h \in Slots[n] : h \in DOMAIN ring /\ ring[h] = n

\* "no healthy storage nodes available" is answered only when every node is
\* known to be unhealthy, and a statement is never routed to an unhealthy or
\* removed node.
RoutesWheneverPossible ==
    \A s \in Statements :
        LET n == ResolveNode(ShardKey(s))
        IN IF n = NoNode THEN \A m \in Registered : nodes[m] = "unhealthy"
           ELSE n \in Registered /\ nodes[n] # "unhealthy"

\* Consistent hashing moves as little as possible: a key changes its owner
\* only to a node that has just been added, or from one that has just been
\* removed.
MinimalRemap ==
    [][\A h \in Positions : GetNode(ring, h)' # GetNode(ring, h) =>
          \/ GetNode(ring, h)' \in Registered' \ Registered
          \/ GetNode(ring, h) \in Registered \ Registered']_entrypointVars

\* The health-check thread learns: a node that stays up (or down) while the
\* entrypoint runs is from some time on known to be healthy (unhealthy).  A node
\* that hangs stops the thread, so no node may be hung for ever.
HealthConverges ==
    (\A m \in Nodes : <>[](condition[m] # "hung")) =>
    \A n \in Nodes :
        /\ <>[](life = "running" /\ n \in Registered /\ condition[n] = "up")
              => <>[](n \in Registered /\ nodes[n] = "healthy")
        /\ <>[](life = "running" /\ n \in Registered /\ condition[n] = "down")
              => <>[](n \in Registered /\ nodes[n] = "unhealthy")
=============================================================================
