-------------------------- MODULE ClientManagerProofs --------------------------
(***************************************************************************)
(* The counting of ClientManager is right for any number of users,         *)
(* clusters and clients. The properties are inductive together with the    *)
(* fact that the client of every entry is connected.                       *)
(***************************************************************************)
EXTENDS ClientManager, FiniteSetTheorems, TLAPS

EntriesOpen == \A k \in Clusters : clients[k] # NoClient => clients[k] \in open

Inv == TypeOK /\ CountExact /\ NoUseAfterClose /\ OneConnection /\ EntriesOpen

USE ClientAssumption

(***************************************************************************)
(* The users of a client are a finite set, counted by a natural number     *)
(* that is zero only if there are none.                                    *)
(***************************************************************************)
LEMMA HoldersFinite ==
    ASSUME NEW c
    PROVE  /\ IsFiniteSet(Holders(c))
           /\ Cardinality(Holders(c)) \in Nat
           /\ Cardinality(Holders(c)) = 0 <=> Holders(c) = {}
BY FS_Subset, FS_CardinalityType, FS_EmptySet DEF Holders

LEMMA InvInit == Init => Inv
BY DEF Init, Inv, TypeOK, CountExact, NoUseAfterClose, OneConnection, EntriesOpen

(***************************************************************************)
(* The users of a client after a step.                                     *)
(***************************************************************************)
HoldersAfter(c) == { u \in Users : held'[u] = c }

LEMMA CountExactAfter ==
    ASSUME \A l \in Clusters :
              clients'[l] # NoClient =>
                 count'[l] = Cardinality(HoldersAfter(clients'[l])) /\ count'[l] > 0
    PROVE  CountExact'
BY DEF CountExact, Holders, HoldersAfter

(***************************************************************************)
(* A user that gets a client adds itself to its users, ...                 *)
(***************************************************************************)
LEMMA HoldersAdded ==
    ASSUME TypeOK, NEW u \in Users, held[u] = NoClient, NEW c \in Clients,
           held' = [held EXCEPT ![u] = c]
    PROVE  /\ Cardinality(HoldersAfter(c)) = Cardinality(Holders(c)) + 1
           /\ \A d \in Clients \ {c} : HoldersAfter(d) = Holders(d)
<1>1. /\ HoldersAfter(c) = Holders(c) \cup {u}
      /\ u \notin Holders(c)
  BY DEF Holders, HoldersAfter, TypeOK
<1>2. Cardinality(Holders(c) \cup {u}) = Cardinality(Holders(c)) + 1
  BY <1>1, HoldersFinite, FS_AddElement
<1>3. \A d \in Clients \ {c} : HoldersAfter(d) = Holders(d)
  BY DEF Holders, HoldersAfter, TypeOK
<1> QED
  BY <1>1, <1>2, <1>3

(***************************************************************************)
(* ... and one that gives it back takes itself away.                       *)
(***************************************************************************)
LEMMA HoldersRemoved ==
    ASSUME TypeOK, NEW u \in Users, held[u] # NoClient,
           held' = [held EXCEPT ![u] = NoClient],
           NEW c, c = held[u]
    PROVE  /\ Cardinality(Holders(c)) = Cardinality(HoldersAfter(c)) + 1
           /\ IsFiniteSet(HoldersAfter(c))
           /\ Cardinality(HoldersAfter(c)) \in Nat
           /\ \A d \in Clients \ {c} : HoldersAfter(d) = Holders(d)
<1>1. /\ HoldersAfter(c) = Holders(c) \ {u}
      /\ u \in Holders(c)
  BY DEF Holders, HoldersAfter, TypeOK
<1>2. IsFiniteSet(Holders(c)) /\ Cardinality(Holders(c)) \in Nat
  BY HoldersFinite
<1>3. Cardinality(Holders(c) \ {u}) = Cardinality(Holders(c)) - 1
  BY <1>1, <1>2, FS_RemoveElement
<1>4. IsFiniteSet(HoldersAfter(c)) /\ Cardinality(HoldersAfter(c)) \in Nat
  BY <1>1, <1>2, FS_Subset, FS_CardinalityType
<1>5. \A d \in Clients \ {c} : HoldersAfter(d) = Holders(d)
  BY DEF Holders, HoldersAfter, TypeOK
<1>6. Cardinality(HoldersAfter(c)) = Cardinality(Holders(c)) - 1
  BY <1>1, <1>3
<1> QED
  BY <1>2, <1>4, <1>5, <1>6

LEMMA InvGetCached ==
    ASSUME Inv, NEW u \in Users, NEW k \in Clusters, GetCached(u, k)
    PROVE  Inv'
<1> USE DEF Inv
<1>1. /\ held[u] = NoClient /\ clients[k] \in Clients /\ clients[k] # NoClient
      /\ held' = [held EXCEPT ![u] = clients[k]]
      /\ count' = [count EXCEPT ![k] = @ + 1]
      /\ UNCHANGED <<clients, fresh, open>>
  BY DEF GetCached, TypeOK
<1>2. /\ Cardinality(HoldersAfter(clients[k])) = Cardinality(Holders(clients[k])) + 1
      /\ \A d \in Clients \ {clients[k]} : HoldersAfter(d) = Holders(d)
  BY <1>1, HoldersAdded
<1>3. CountExact'
  <2> SUFFICES ASSUME NEW l \in Clusters, clients'[l] # NoClient
               PROVE  count'[l] = Cardinality(HoldersAfter(clients'[l])) /\ count'[l] > 0
    BY CountExactAfter
  <2>1. CASE l = k
    BY <1>1, <1>2, <2>1 DEF CountExact, TypeOK
  <2>2. CASE l # k
    BY <1>1, <1>2, <2>2 DEF CountExact, OneConnection, TypeOK
  <2> QED
    BY <2>1, <2>2
<1>4. TypeOK' /\ NoUseAfterClose' /\ OneConnection' /\ EntriesOpen'
  BY <1>1 DEF TypeOK, NoUseAfterClose, OneConnection, EntriesOpen
<1> QED
  BY <1>3, <1>4

LEMMA InvGetNew ==
    ASSUME Inv, NEW u \in Users, NEW k \in Clusters, GetNew(u, k)
    PROVE  Inv'
<1> USE DEF Inv
<1>1. PICK c \in fresh : /\ fresh' = fresh \ {c}
                         /\ open' = open \cup {c}
                         /\ clients' = [clients EXCEPT ![k] = c]
                         /\ held' = [held EXCEPT ![u] = c]
  BY DEF GetNew
<1>2. /\ held[u] = NoClient /\ clients[k] = NoClient
      /\ count' = [count EXCEPT ![k] = 1]
      /\ c \in Clients /\ c \notin open /\ c # NoClient
  BY <1>1 DEF GetNew, TypeOK
<1>3. Holders(c) = {} /\ \A l \in Clusters : clients[l] # c
  BY <1>2 DEF NoUseAfterClose, EntriesOpen, Holders
<1>4. /\ Cardinality(HoldersAfter(c)) = Cardinality(Holders(c)) + 1
      /\ \A d \in Clients \ {c} : HoldersAfter(d) = Holders(d)
  BY <1>1, <1>2, HoldersAdded
<1>5. Cardinality(HoldersAfter(c)) = 1
  BY <1>3, <1>4, HoldersFinite
<1>6. CountExact'
  <2> SUFFICES ASSUME NEW l \in Clusters, clients'[l] # NoClient
               PROVE  count'[l] = Cardinality(HoldersAfter(clients'[l])) /\ count'[l] > 0
    BY CountExactAfter
  <2>1. CASE l = k
    BY <1>1, <1>2, <1>5, <2>1 DEF TypeOK
  <2>2. CASE l # k
    BY <1>1, <1>2, <1>3, <1>4, <2>2 DEF CountExact, TypeOK
  <2> QED
    BY <2>1, <2>2
<1>7. TypeOK' /\ NoUseAfterClose' /\ OneConnection' /\ EntriesOpen'
  BY <1>1, <1>2, <1>3 DEF TypeOK, NoUseAfterClose, OneConnection, EntriesOpen
<1> QED
  BY <1>6, <1>7

LEMMA InvClose ==
    ASSUME Inv, NEW u \in Users, Close(u)
    PROVE  Inv'
<1> USE DEF Inv
<1> DEFINE c == held[u]
           left == HoldersAfter(c)
<1>1. /\ c # NoClient /\ c \in Clients /\ c \in open
      /\ held' = [held EXCEPT ![u] = NoClient]
      /\ UNCHANGED fresh
  BY DEF Close, TypeOK, NoUseAfterClose
<1>2. PICK k \in Clusters : clients[k] = c
  BY <1>1 DEF OneConnection
<1>3. Entries(c) = {k}
  BY <1>1, <1>2 DEF OneConnection, Entries
<1>4. /\ count' = [count EXCEPT ![k] = @ - 1]
      /\ clients' = [clients EXCEPT ![k] = IF count[k] = 1 THEN NoClient ELSE @]
      /\ open' = IF count[k] # 1 THEN open ELSE open \ {c}
  BY <1>3 DEF Close, TypeOK
<1>5. /\ Cardinality(Holders(c)) = Cardinality(left) + 1
      /\ IsFiniteSet(left) /\ Cardinality(left) \in Nat
      /\ \A d \in Clients \ {c} : HoldersAfter(d) = Holders(d)
  BY <1>1, HoldersRemoved
<1>6. count[k] = Cardinality(left) + 1
  BY <1>1, <1>2, <1>5 DEF CountExact
<1>7. CountExact'
  <2> SUFFICES ASSUME NEW l \in Clusters, clients'[l] # NoClient
               PROVE  count'[l] = Cardinality(HoldersAfter(clients'[l])) /\ count'[l] > 0
    BY CountExactAfter
  <2>1. CASE l = k
    <3>1. clients'[l] = c /\ count[k] # 1 /\ count'[l] = count[k] - 1
      BY <1>2, <1>4, <2>1 DEF TypeOK
    <3>2. HoldersAfter(clients'[l]) = left
      BY <3>1
    <3> QED
      BY <1>5, <1>6, <3>1, <3>2
  <2>2. CASE l # k
    <3>1. clients'[l] = clients[l] /\ count'[l] = count[l] /\ clients[l] # c
      BY <1>1, <1>2, <1>4, <2>2 DEF TypeOK, OneConnection
    <3>2. HoldersAfter(clients[l]) = Holders(clients[l])
      BY <1>5, <3>1 DEF TypeOK
    <3> QED
      BY <3>1, <3>2 DEF CountExact
  <2> QED
    BY <2>1, <2>2
<1>8. NoUseAfterClose'
  <2> SUFFICES ASSUME NEW v \in Users, held'[v] # NoClient PROVE held'[v] \in open'
    BY DEF NoUseAfterClose
  <2>1. held'[v] = held[v] /\ held[v] \in open
    BY <1>1 DEF TypeOK, NoUseAfterClose
  <2>2. ASSUME count[k] = 1 PROVE held[v] # c
    <3>1. Cardinality(left) = 0
      BY <1>6, <1>5, <2>2
    <3>2. left = {}
      BY <3>1, <1>5, FS_EmptySet
    <3> QED
      BY <3>2, <2>1 DEF HoldersAfter
  <2> QED
    BY <1>4, <2>1, <2>2
<1>9. TypeOK'
  BY <1>1, <1>2, <1>4, <1>5, <1>6 DEF TypeOK
<1>10. OneConnection' /\ EntriesOpen'
  BY <1>1, <1>2, <1>4 DEF TypeOK, OneConnection, EntriesOpen
<1> QED
  BY <1>7, <1>8, <1>9, <1>10

LEMMA InvStep == Inv /\ [Next]_vars => Inv'
<1> SUFFICES ASSUME Inv, [Next]_vars PROVE Inv'
  OBVIOUS
<1>1. CASE Next
  BY <1>1, InvGetCached, InvGetNew, InvClose DEF Next
<1>2. CASE UNCHANGED vars
  BY <1>2 DEF vars, Inv, TypeOK, CountExact, NoUseAfterClose, OneConnection,
              EntriesOpen, Holders
<1> QED
  BY <1>1, <1>2

LEMMA InvAlways == Spec => []Inv
BY InvInit, InvStep, PTL DEF Spec

(***************************************************************************)
(* The state of the ClientManager stays well typed: no count goes below    *)
(* zero.                                                                   *)
(***************************************************************************)
THEOREM ClientManagerTypeCorrect == Spec => []TypeOK
BY InvAlways, PTL DEF Inv

(***************************************************************************)
(* The count of every entry is the number of goroutines that use its       *)
(* client.                                                                 *)
(***************************************************************************)
THEOREM ClientsAreCounted == Spec => []CountExact
BY InvAlways, PTL DEF Inv

(***************************************************************************)
(* No goroutine ever works with a client whose connection is closed.       *)
(***************************************************************************)
THEOREM ClientsStayOpen == Spec => []NoUseAfterClose
BY InvAlways, PTL DEF Inv

(***************************************************************************)
(* No connection outlives its last user, and no cluster has two.           *)
(***************************************************************************)
THEOREM ConnectionsAreShared == Spec => []OneConnection
BY InvAlways, PTL DEF Inv
=============================================================================
