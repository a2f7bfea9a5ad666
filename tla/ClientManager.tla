----------------------------- MODULE ClientManager -----------------------------
(***************************************************************************)
(* pkg/service/client_manager.go: backup clients shared by the goroutines  *)
(* that back up from or restore to the same cluster.                       *)
(*                                                                         *)
(* Clusters are the *model.AerospikeCluster pointers the map is keyed by.  *)
(* A user is a goroutine that calls GetClient, works with the client and   *)
(* calls Close for it once, from a defer: a full or an incremental backup  *)
(* or a restore. The mutex makes each of the two calls one step.           *)
(***************************************************************************)
EXTENDS Integers, FiniteSets

CONSTANTS
    Users,    \* the goroutines that use clients
    Clusters, \* the clusters they connect to
    Clients,  \* the clients createClient can return (a bound), each once
    NoClient  \* nil

ASSUME ClientAssumption ==
    /\ IsFiniteSet(Users)
    /\ NoClient \notin Clients

VARIABLES
    clients, \* the client the map holds for each cluster, or NoClient
    count,   \* the count of its clientInfo
    held,    \* the client each user got and did not give back, or NoClient
    fresh,   \* the clients that were not created yet
    open     \* the clients whose connection to the cluster is open

vars == <<clients, count, held, fresh, open>>

TypeOK ==
    /\ clients \in [Clusters -> Clients \cup {NoClient}]
    /\ count \in [Clusters -> Nat]
    /\ held \in [Users -> Clients \cup {NoClient}]
    /\ fresh \in SUBSET Clients
    /\ open \in SUBSET (Clients \ fresh)

Init ==
    /\ clients = [k \in Clusters |-> NoClient]
    /\ count = [k \in Clusters |-> 0]
    /\ held = [u \in Users |-> NoClient]
    /\ fresh = Clients
    /\ open = {}

(***************************************************************************)
(* GetClient for a cluster that has a client.                              *)
(***************************************************************************)
GetCached(u, k) ==
    /\ held[u] = NoClient
    /\ clients[k] # NoClient
    /\ count' = [count EXCEPT ![k] = @ + 1]
    /\ held' = [held EXCEPT ![u] = clients[k]]
    /\ UNCHANGED <<clients, fresh, open>>

\* Mutant of GetNew: the count of a new entry starts at zero.
GetNewUncounted(u, k) ==
    /\ held[u] = NoClient
    /\ clients[k] = NoClient
    /\ \E c \in fresh :
         /\ fresh' = fresh \ {c}
         /\ open' = open \cup {c}
         /\ clients' = [clients EXCEPT ![k] = c]
         /\ held' = [held EXCEPT ![u] = c]
    /\ UNCHANGED count

(***************************************************************************)
(* GetClient for a cluster that has none: createClient connects to it. If  *)
(* it fails nothing changes.                                               *)
(***************************************************************************)
GetNew(u, k) ==
    /\ held[u] = NoClient
    /\ clients[k] = NoClient
    /\ \E c \in fresh :
         /\ fresh' = fresh \ {c}
         /\ open' = open \cup {c}
         /\ clients' = [clients EXCEPT ![k] = c]
         /\ held' = [held EXCEPT ![u] = c]
    /\ count' = [count EXCEPT ![k] = 1]

Entries(c) == { k \in Clusters : clients[k] = c }

\* Mutant of Close: the connection is closed whoever else uses it.
CloseAlways(u) ==
    LET mine == Entries(held[u]) IN
    /\ held[u] # NoClient
    /\ held' = [held EXCEPT ![u] = NoClient]
    /\ count' = [k \in Clusters |-> IF k \in mine THEN count[k] - 1 ELSE count[k]]
    /\ clients' = [k \in Clusters |-> IF k \in mine /\ count[k] = 1
                                        THEN NoClient ELSE clients[k]]
    /\ open' = open \ {held[u]}
    /\ UNCHANGED fresh

\* Mutant of Close: the entry is deleted and its connection left open.
CloseLeaks(u) ==
    LET mine == Entries(held[u]) IN
    /\ held[u] # NoClient
    /\ held' = [held EXCEPT ![u] = NoClient]
    /\ count' = [k \in Clusters |-> IF k \in mine THEN count[k] - 1 ELSE count[k]]
    /\ clients' = [k \in Clusters |-> IF k \in mine /\ count[k] = 1
                                        THEN NoClient ELSE clients[k]]
    /\ open' = IF mine = {} THEN open \ {held[u]} ELSE open
    /\ UNCHANGED fresh

\* Mutant of Close: the client is given back and not counted off.
CloseUncounted(u) ==
    LET mine == Entries(held[u]) IN
    /\ held[u] # NoClient
    /\ held' = [held EXCEPT ![u] = NoClient]
    /\ clients' = [k \in Clusters |-> IF k \in mine /\ count[k] = 1
                                        THEN NoClient ELSE clients[k]]
    /\ open' = IF \E k \in mine : count[k] # 1 THEN open ELSE open \ {held[u]}
    /\ UNCHANGED <<count, fresh>>

(***************************************************************************)
(* Close: the entry that holds the client is counted down and, at zero,    *)
(* deleted and its connection closed; a client that no entry holds is      *)
(* closed at once.                                                         *)
(***************************************************************************)
Close(u) ==
    LET mine == Entries(held[u]) IN
    /\ held[u] # NoClient
    /\ held' = [held EXCEPT ![u] = NoClient]
    /\ count' = [k \in Clusters |-> IF k \in mine THEN count[k] - 1 ELSE count[k]]
    /\ clients' = [k \in Clusters |-> IF k \in mine /\ count[k] = 1
                                        THEN NoClient ELSE clients[k]]
    /\ open' = IF \E k \in mine : count[k] # 1 THEN open ELSE open \ {held[u]}
    /\ UNCHANGED fresh

Next ==
    \E u \in Users :
       \/ \E k \in Clusters : GetCached(u, k) \/ GetNew(u, k)
       \/ Close(u)

Spec == Init /\ [][Next]_vars

-----------------------------------------------------------------------------
Holders(c) == { u \in Users : held[u] = c }

(***************************************************************************)
(* The count of an entry is the number of users of its client, never zero; *)
(* an absent entry counts nobody that could still close it.                *)
(***************************************************************************)
CountExact ==
    \A k \in Clusters :
       clients[k] # NoClient =>
          count[k] = Cardinality(Holders(clients[k])) /\ count[k] > 0

(***************************************************************************)
(* No connection is closed while a goroutine works with its client: not by *)
(* another user of the cluster, nor because the entry was replaced.        *)
(***************************************************************************)
NoUseAfterClose == \A u \in Users : held[u] # NoClient => held[u] \in open

(***************************************************************************)
(* No connection stays open when its last user is gone, and a cluster has  *)
(* one connection: every open client has an entry, no two entries share it.*)
(***************************************************************************)
OneConnection ==
    /\ \A c \in open : \E k \in Clusters : clients[k] = c
    /\ \A k, l \in Clusters : clients[k] = clients[l] /\ clients[k] # NoClient => k = l
=============================================================================
