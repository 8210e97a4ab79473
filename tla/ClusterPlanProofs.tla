--------------------------- MODULE ClusterPlanProofs ---------------------------
(***************************************************************************)
(* Proved of ClusterPlan for every cluster of 2 to 244 nodes, every        *)
(* cabling, pool and option, and any number of moved cables: no address is *)
(* used twice or lies in a network of the management addresses             *)
(* (TypeCorrect), a saved link worked when it was saved (LinksWorked), the *)
(* journals hold the plan they were written from (PlanRecovered), what is  *)
(* saved is what the launcher accepts (LaunchAccepted), discovery agrees   *)
(* with setup (DiscoveryAgrees), and copies go the shortest ways           *)
(* (CopiesShort).                                                          *)
(*                                                                         *)
(* Graphs: the search from the head, followed node by node (Searched),     *)
(* finds what is connected (PathsFacts), by shortest ways (PathsShortest); *)
(* a walk along a ring meets every node (RingWalk).  This part knows       *)
(* nothing of clusters.                                                    *)
(*                                                                         *)
(* Plans: whatever the topology was told from, the choice is a ring order  *)
(* of all nodes (Ringed) or one port of each (Ported), by induction on the *)
(* walk that closes a ring; the address of an interface determines its     *)
(* network and its node, the network the cable and the rail; so the pings, *)
(* the ring order and the ports can be told from the addresses.            *)
(*                                                                         *)
(* The inductive invariants: Planning, the addresses are those of such a   *)
(* plan from Apply on and the ones found before; EnvSound, the saved graph *)
(* is complete, or a ring with its nodes in order (Sound); Launchable, a   *)
(* planned ring has settings.                                              *)
(***************************************************************************)
EXTENDS ClusterPlan, FiniteSetTheorems, TLAPS

Nodes == ToSet(site.nodes)

(* A ring order: all nodes, each once, the head first. *)
Order(o) ==
    /\ o \in Seq(Nodes) /\ Len(o) = N /\ IsInjective(o) /\ o[1] = site.nodes[1]
    /\ \A n \in Nodes : \E k \in 1 .. N : o[k] = n

(* Induction, with the set for which the claim holds in place of the claim. *)
LEMMA SetInduction ==
  ASSUME NEW S, 0 \in S, \A n \in Nat : n \in S => n + 1 \in S
  PROVE  Nat \subseteq S
<1> SUFFICES ASSUME NEW m \in Nat, m \notin S PROVE FALSE
  OBVIOUS
<1> DEFINE T == {U \in SUBSET Nat : \E k \in Nat : k \notin S /\ U = 0 .. k}
<1>1. T \subseteq FiniteSubsetsOf(Nat)
  BY FS_Interval DEF FiniteSubsetsOf
<1>2. 0 .. m \in T
  OBVIOUS
<1>3. PICK U \in T : \A V \in T : <<V, U>> \notin StrictSubsetOrdering(Nat)
  BY <1>1, <1>2, FS_StrictSubsetOrderingWellFounded, WFMin
<1>4. PICK k \in Nat : k \notin S /\ U = 0 .. k
  BY <1>3
<1>5. k # 0 /\ k - 1 \in Nat /\ k - 1 \notin S
  BY <1>4
<1>6. 0 .. (k - 1) \in T
  BY <1>5
<1>7. <<0 .. (k - 1), 0 .. k>> \in StrictSubsetOrdering(Nat)
  BY <1>5 DEF StrictSubsetOrdering
<1> QED
  BY <1>3, <1>4, <1>6, <1>7

LEMMA UpTo ==
  ASSUME NEW n \in Nat
  PROVE  IsFiniteSet(1 .. n) /\ Cardinality(1 .. n) = n
<1>1. 1 \in Int /\ n \in Int
  OBVIOUS
<1>2. IsFiniteSet(1 .. n) /\ Cardinality(1 .. n) = IF 1 > n THEN 0 ELSE n - 1 + 1
  BY ONLY <1>1, FS_Interval
<1> QED
  BY <1>2

Below(S, x) == {y \in S : y < x}

LEMMA RankBelow ==
  ASSUME NEW S, S \subseteq Nat, IsFiniteSet(S), NEW x \in S
  PROVE  Cardinality(Below(S, x)) \in 0 .. Cardinality(S) - 1
<1>1. Below(S, x) \subseteq S \ {x}
  <2> SUFFICES ASSUME NEW y \in Below(S, x) PROVE y \in S \ {x}
    OBVIOUS
  <2>0. y \in {z \in S : z < x}
    BY DEF Below
  <2> QED
    BY <2>0
<1>2. IsFiniteSet(S \ {x}) /\ Cardinality(S \ {x}) = Cardinality(S) - 1
  BY FS_RemoveElement
<1>3. IsFiniteSet(Below(S, x)) /\ Cardinality(Below(S, x)) <= Cardinality(S \ {x})
  BY <1>1, <1>2, FS_Subset
<1>4. Cardinality(Below(S, x)) \in Nat /\ Cardinality(S) \in Nat
  BY <1>3, FS_CardinalityType
<1> QED
  BY <1>2, <1>3, <1>4

LEMMA RankDiffers ==
  ASSUME NEW S, S \subseteq Nat, IsFiniteSet(S), NEW x \in S, NEW z \in S, x < z
  PROVE  Cardinality(Below(S, x)) # Cardinality(Below(S, z))
<1>1. ASSUME NEW y \in Below(S, x)
      PROVE  y \in Below(S, z)
  <2>1. y \in S /\ y < x
    BY DEF Below
  <2>2. y \in Nat /\ x \in Nat /\ z \in Nat
    BY <2>1
  <2>3. y < z
    BY <2>1, <2>2
  <2> QED
    BY <2>1, <2>3 DEF Below
<1>2. x \in Below(S, z) /\ x \notin Below(S, x)
  <2>1. x \in Nat
    OBVIOUS
  <2>2. ~(x < x)
    BY <2>1
  <2> QED
    BY <2>2 DEF Below
<1>3. Below(S, z) \subseteq S
  BY DEF Below
<1>4. IsFiniteSet(Below(S, z))
  BY <1>3, FS_Subset
<1>5. Below(S, x) \subseteq Below(S, z) \ {x} /\ IsFiniteSet(Below(S, z) \ {x})
  BY <1>1, <1>2, <1>4, FS_Subset
<1>6. /\ Cardinality(Below(S, x)) <= Cardinality(Below(S, z) \ {x})
      /\ Cardinality(Below(S, z) \ {x}) = Cardinality(Below(S, z)) - 1
  BY <1>2, <1>4, <1>5, FS_Subset, FS_RemoveElement
<1>7. Cardinality(Below(S, x)) \in Nat /\ Cardinality(Below(S, z)) \in Nat
  BY <1>4, <1>5, FS_Subset, FS_CardinalityType
<1> QED
  BY <1>6, <1>7

(* Ascending lists a set, each element once. *)
LEMMA AscendingLists ==
  ASSUME NEW S, S \subseteq Nat, IsFiniteSet(S)
  PROVE  /\ Cardinality(S) \in Nat /\ Ascending(S) \in [1 .. Cardinality(S) -> S]
         /\ \A j, k \in 1 .. Cardinality(S) : Ascending(S)[j] = Ascending(S)[k] => j = k
         /\ \A x \in S : \E k \in 1 .. Cardinality(S) : Ascending(S)[k] = x
<1> DEFINE m == Cardinality(S)
           f == [x \in S |-> Cardinality(Below(S, x))]
<1>1. m \in Nat
  BY FS_CardinalityType
<1>2. f \in [S -> 0 .. m - 1]
  BY RankBelow
<1>3. \A x, z \in S : f[x] = f[z] => x = z
  <2>1. ASSUME NEW x \in S, NEW z \in S, f[x] = f[z], x # z
        PROVE  FALSE
    <3>1. x < z \/ z < x
      BY <2>1
    <3>2. Cardinality(Below(S, x)) = Cardinality(Below(S, z))
      BY <2>1
    <3> QED
      BY <3>1, <3>2, RankDiffers
  <2> QED
    BY <2>1
<1> HIDE DEF f
<1>4. IsFiniteSet(0 .. m - 1) /\ Cardinality(0 .. m - 1) = m
  <2>1. 0 \in Int /\ m - 1 \in Int
    BY <1>1
  <2>2. IsFiniteSet(0 .. m - 1) /\ Cardinality(0 .. m - 1) = IF 0 > m - 1 THEN 0 ELSE m - 1 - 0 + 1
    BY ONLY <2>1, FS_Interval
  <2> QED
    BY <1>1, <2>2
<1>5. f \in Injection(S, 0 .. m - 1)
  BY <1>2, <1>3 DEF Injection, IsInjective
<1>6. f \in Surjection(S, 0 .. m - 1)
  BY <1>4, <1>5, FS_Injection
<1>7. \A k \in 0 .. m - 1 : \E x \in S : f[x] = k
  BY <1>6 DEF Surjection
<1> DEFINE s == Ascending(S)
<1>8. s = [k \in 1 .. m |-> CHOOSE x \in S : Cardinality(Below(S, x)) = k - 1]
  BY DEF Ascending, Below
<1>9. ASSUME NEW k \in 1 .. m
      PROVE  s[k] \in S /\ f[s[k]] = k - 1
  <2>1. \E x \in S : Cardinality(Below(S, x)) = k - 1
    <3>1. k - 1 \in 0 .. m - 1
      BY <1>1
    <3> QED
      BY <3>1, <1>7 DEF f
  <2>2. s[k] \in S /\ Cardinality(Below(S, s[k])) = k - 1
    BY <1>8, <2>1
  <2> QED
    BY <2>2 DEF f
<1> HIDE DEF s
<1>10. s \in [1 .. m -> S]
  BY <1>8, <1>9
<1>11. ASSUME NEW x \in S
       PROVE  \E k \in 1 .. m : s[k] = x
  <2>1. f[x] + 1 \in 1 .. m /\ (f[x] + 1) - 1 = f[x]
    BY <1>1, <1>2
  <2>2. s[f[x] + 1] \in S /\ f[s[f[x] + 1]] = f[x]
    BY <2>1, <1>9
  <2> QED
    BY <2>1, <2>2, <1>3
<1>12. ASSUME NEW j \in 1 .. m, NEW k \in 1 .. m, s[j] = s[k]
       PROVE  j = k
  BY <1>1, <1>9, <1>12
<1> QED
  BY <1>1, <1>10, <1>11, <1>12 DEF s, m

LEMMA LeastExists ==
  ASSUME NEW S, S \subseteq Nat, S # {}
  PROVE  Min(S) \in S
<1>1. \E x \in S : \A y \in S : x <= y
  <2> SUFFICES ASSUME \A x \in S : \E y \in S : ~(x <= y)
               PROVE  FALSE
    OBVIOUS
  <2> DEFINE T == {n \in Nat : \A x \in S : x > n}
  <2>0. 0 \notin S
    OBVIOUS
  <2>1. 0 \in T
    BY <2>0
  <2>2. ASSUME NEW n \in Nat, n \in T
        PROVE  n + 1 \in T
    <3>1. \A x \in S : x >= n + 1
      BY <2>2
    <3>2. \A x \in S : x # n + 1
      BY <3>1
    <3> QED
      BY <3>1, <3>2
  <2> HIDE DEF T
  <2>3. Nat \subseteq T
    BY <2>1, <2>2, SetInduction
  <2>4. PICK x \in S : TRUE
    OBVIOUS
  <2>5. x \in Nat /\ x \in T
    BY <2>3, <2>4
  <2> QED
    BY <2>4, <2>5 DEF T
<1> QED
  BY <1>1 DEF Min

-----------------------------------------------------------------------------
(* Graphs of links.  The steps of a search from the head are followed one   *)
(* node at a time: what is found, in which order, and along which way.      *)

Graph(t) ==
    /\ Names(t) \subseteq Nat /\ IsFiniteSet(Names(t)) /\ Len(t.nodes) \in Nat
    /\ Cardinality(Names(t)) <= Len(t.nodes)

LEMMA AdjFacts ==
  ASSUME NEW t, NEW n
  PROVE  /\ Adj(t, n) \subseteq Names(t) /\ n \notin Adj(t, n)
         /\ \A m \in Names(t) : n \in Adj(t, m) /\ n \in Names(t) => m \in Adj(t, n)
         /\ \A m \in Adj(t, n) : Between(t, n, m) # {}
<1>1. \A m : {m, n} = {n, m}
  OBVIOUS
<1>2. \A m : Between(t, m, n) = Between(t, n, m)
  BY <1>1 DEF Between
<1> QED
  BY <1>2 DEF Adj

From(head, p, k) == IF k = 1 THEN head ELSE p[k - 1][1]
Trip(t, head, n, p) ==
    /\ p \in Seq(Names(t) \X {HopAddress(t, x, y) : x, y \in Names(t)})
    /\ IF Len(p) = 0 THEN n = head ELSE p[Len(p)][1] = n
    /\ \A k \in 1 .. Len(p) : /\ p[k][1] \in Adj(t, From(head, p, k))
                              /\ p[k][2] = HopAddress(t, From(head, p, k), p[k][1])

LEMMA TripStart == ASSUME NEW t, NEW head PROVE Trip(t, head, head, <<>>) /\ Len(<<>>) = 0
BY DEF Trip

LEMMA TripFurther ==
  ASSUME NEW t, NEW head \in Names(t), NEW n \in Names(t), NEW p, Trip(t, head, n, p), NEW m \in Adj(t, n)
  PROVE  LET q == Append(p, <<m, HopAddress(t, n, m)>>)
         IN  Trip(t, head, m, q) /\ Len(q) = Len(p) + 1 /\ Len(p) \in Nat
<1> DEFINE H == {HopAddress(t, x, y) : x, y \in Names(t)}
           hop == <<m, HopAddress(t, n, m)>>
           q == Append(p, hop)
<1>1. p \in Seq(Names(t) \X H)
  BY DEF Trip
<1>2. hop \in Names(t) \X H
  BY AdjFacts
<1> HIDE DEF H
<1>3. /\ q \in Seq(Names(t) \X H) /\ Len(q) = Len(p) + 1 /\ Len(p) \in Nat
      /\ q[Len(p) + 1] = hop /\ \A k \in 1 .. Len(p) : q[k] = p[k]
  BY <1>1, <1>2
<1> HIDE DEF q
<1>4. IF Len(p) = 0 THEN n = head ELSE p[Len(p)][1] = n
  BY DEF Trip
<1>5. From(head, q, Len(p) + 1) = n
  <2>1. CASE Len(p) = 0
    BY <1>4, <2>1 DEF From
  <2>2. CASE Len(p) # 0
    <3>1. Len(p) \in 1 .. Len(p) /\ Len(p) + 1 # 1 /\ (Len(p) + 1) - 1 = Len(p)
      BY <1>3, <2>2
    <3> QED
      BY <1>3, <1>4, <2>2, <3>1 DEF From
  <2> QED
    BY <2>1, <2>2
<1>6. ASSUME NEW k \in 1 .. Len(q)
      PROVE  q[k][1] \in Adj(t, From(head, q, k)) /\ q[k][2] = HopAddress(t, From(head, q, k), q[k][1])
  <2>1. CASE k = Len(p) + 1
    BY <1>3, <1>5, <2>1
  <2>2. CASE k # Len(p) + 1
    <3>1. k \in 1 .. Len(p) /\ (k # 1 => k - 1 \in 1 .. Len(p))
      BY <1>3, <2>2
    <3>2. q[k] = p[k] /\ From(head, q, k) = From(head, p, k)
      BY <1>3, <3>1 DEF From
    <3>3. p[k][1] \in Adj(t, From(head, p, k)) /\ p[k][2] = HopAddress(t, From(head, p, k), p[k][1])
      BY <3>1 DEF Trip
    <3> QED
      BY <3>2, <3>3
  <2> QED
    BY <2>1, <2>2
<1>7. Trip(t, head, m, q)
  <2>1. Len(q) # 0 /\ q[Len(q)][1] = m
    BY <1>3
  <2> QED
    BY <1>3, <1>6, <2>1 DEF Trip, H
<1> QED
  BY <1>3, <1>7 DEF q

Searched(t, head, i, order, path) ==
    /\ order \in Seq(Names(t)) /\ Len(order) >= 1 /\ order[1] = head /\ IsInjective(order)
    /\ DOMAIN path = ToSet(order)
    /\ \A a \in 1 .. Len(order) : Trip(t, head, order[a], path[order[a]]) /\ Len(path[order[a]]) < a
    /\ \A a, b \in 1 .. Len(order) : a <= b => Len(path[order[a]]) <= Len(path[order[b]])
    /\ i < Len(order) =>
          \A a \in 1 .. Len(order) : Len(path[order[a]]) <= Len(path[order[i + 1]]) + 1
    /\ \A b \in 1 .. Len(order) : b <= i =>
          \A p \in Adj(t, order[b]) : p \in ToSet(order) /\ Len(path[p]) <= Len(path[order[b]]) + 1

LEMMA SearchedInit ==
  ASSUME NEW t, NEW head \in Names(t)
  PROVE  Searched(t, head, 0, <<head>>, [n \in {head} |-> <<>>])
<1> DEFINE order == <<head>>
           path == [n \in {head} |-> <<>>]
<1>1. order \in Seq(Names(t)) /\ Len(order) = 1 /\ order[1] = head /\ DOMAIN order = {1} /\ ToSet(order) = {head}
  BY DEF ToSet
<1>2. DOMAIN path = {head} /\ path[head] = <<>> /\ Len(path[head]) = 0
  OBVIOUS
<1> HIDE DEF order, path
<1>3. \A a \in 1 .. Len(order) : a = 1
  BY <1>1
<1>4. Searched(t, head, 0, order, path)
  BY <1>1, <1>2, <1>3, TripStart DEF Searched, IsInjective
<1> QED
  BY <1>4 DEF order, path

LEMMA Joining ==
  ASSUME NEW T, NEW u \in Seq(T), NEW v \in Seq(T)
  PROVE  LET w == u \o v
         IN  /\ w \in Seq(T) /\ Len(w) = Len(u) + Len(v) /\ DOMAIN w = 1 .. Len(u) + Len(v)
             /\ \A a \in 1 .. Len(u) : w[a] = u[a]
             /\ \A k \in 1 .. Len(v) : w[Len(u) + k] = v[k]
<1> DEFINE w == u \o v
<1>1. Len(u) \in Nat /\ Len(v) \in Nat
  OBVIOUS
<1>2. w \in Seq(T) /\ Len(w) = Len(u) + Len(v)
  OBVIOUS
<1>3. DOMAIN w = 1 .. Len(w)
  BY <1>2
<1>4. \A a \in 1 .. Len(u) : w[a] = u[a]
  OBVIOUS
<1>5. ASSUME NEW k \in 1 .. Len(v)
      PROVE  w[Len(u) + k] = v[k]
  BY <1>1
<1> QED
  BY <1>2, <1>3, <1>4, <1>5

(* One step: the node's unknown neighbours follow in ascending order, each  *)
(* one hop further than the node.                                           *)
Unknown(t, i, order) == Adj(t, order[i]) \ ToSet(order)
Longer(t, i, order) == order \o Ascending(Unknown(t, i, order))
Known(t, i, order, path) ==
    [n \in DOMAIN path \cup Unknown(t, i, order) |->
        IF n \in Unknown(t, i, order) THEN Append(path[order[i]], <<n, HopAddress(t, order[i], n)>>)
        ELSE path[n]]

LEMMA SearchedStep ==
  ASSUME NEW t, Graph(t), NEW head \in Names(t), NEW i \in Nat, i >= 1, NEW order, NEW path,
         Searched(t, head, i - 1, order, path), i <= Len(order)
  PROVE  Searched(t, head, i, Longer(t, i, order), Known(t, i, order, path))
<1> DEFINE new == Unknown(t, i, order)
           longer == Longer(t, i, order)
           known == Known(t, i, order, path)
<1>a. new = Adj(t, order[i]) \ ToSet(order) /\ longer = order \o Ascending(new)
  BY DEF Unknown, Longer
<1>b. known = [n \in DOMAIN path \cup new |->
                 IF n \in new THEN Append(path[order[i]], <<n, HopAddress(t, order[i], n)>>) ELSE path[n]]
  BY DEF Known
<1> HIDE DEF new, longer, known
<1> DEFINE node == order[i]
           m == Cardinality(new)
           asc == Ascending(new)
           L == Len(order)
           D == Len(path[node])
<1>1. /\ order \in Seq(Names(t)) /\ L \in Nat /\ L >= 1 /\ order[1] = head
      /\ DOMAIN order = 1 .. L /\ ToSet(order) = {order[a] : a \in 1 .. L}
      /\ \A a, b \in 1 .. L : order[a] = order[b] => a = b
      /\ DOMAIN path = ToSet(order)
  <2>1. order \in Seq(Names(t)) /\ L >= 1 /\ order[1] = head /\ IsInjective(order) /\ DOMAIN path = ToSet(order)
    BY DEF Searched
  <2>2. L \in Nat /\ DOMAIN order = 1 .. L
    BY <2>1
  <2>3. ToSet(order) = {order[a] : a \in 1 .. L}
    BY <2>2 DEF ToSet
  <2> QED
    BY <2>1, <2>2, <2>3 DEF IsInjective
<1>2. i \in 1 .. L /\ node \in Names(t) /\ node \in ToSet(order)
  BY <1>1
<1>3. new \subseteq Names(t) /\ new \subseteq Nat /\ IsFiniteSet(new) /\ \A n \in new : n \in Adj(t, node) /\ n \notin ToSet(order)
  BY <1>a, AdjFacts, FS_Subset DEF Graph
<1>4. /\ m \in Nat /\ asc \in [1 .. m -> new]
      /\ \A j, k \in 1 .. m : asc[j] = asc[k] => j = k
      /\ \A x \in new : \E k \in 1 .. m : asc[k] = x
  BY <1>3, AscendingLists
<1> HIDE DEF asc, m
<1>5. asc \in Seq(new) /\ Len(asc) = m /\ asc \in Seq(Names(t))
  <2>1. asc \in Seq(new)
    BY <1>4
  <2>2. DOMAIN asc = 1 .. m
    BY <1>4
  <2>3. Len(asc) = m
    BY ONLY <1>4, <2>1, <2>2
  <2>4. asc \in [1 .. m -> Names(t)]
    BY <1>3, <1>4
  <2>5. asc \in Seq(Names(t))
    BY ONLY <1>4, <2>4
  <2> QED
    BY <2>1, <2>3, <2>5
<1>6. longer = order \o asc
  BY <1>a DEF asc
<1>7. /\ longer \in Seq(Names(t)) /\ Len(longer) = L + m
      /\ \A a \in 1 .. L : longer[a] = order[a]
      /\ \A k \in 1 .. m : longer[L + k] = asc[k]
      /\ DOMAIN longer = 1 .. L + m
  <2>a. order \in Seq(Names(t)) /\ asc \in Seq(Names(t))
    BY <1>1, <1>5
  <2>b. /\ order \o asc \in Seq(Names(t)) /\ Len(order \o asc) = L + Len(asc)
        /\ DOMAIN (order \o asc) = 1 .. L + Len(asc)
        /\ \A a \in 1 .. L : (order \o asc)[a] = order[a]
        /\ \A k \in 1 .. Len(asc) : (order \o asc)[L + k] = asc[k]
    BY ONLY <2>a, Joining, SMTT(30)
  <2>1. /\ longer \in Seq(Names(t)) /\ Len(longer) = L + Len(asc) /\ DOMAIN longer = 1 .. L + Len(asc)
        /\ \A a \in 1 .. L : longer[a] = order[a]
        /\ \A k \in 1 .. Len(asc) : longer[L + k] = asc[k]
    BY ONLY <2>b, <1>6, Zenon
  <2> QED
    BY ONLY <1>5, <2>1
<1>8. ASSUME NEW a \in 1 .. L + m
      PROVE  \/ a \in 1 .. L /\ longer[a] = order[a] /\ longer[a] \in ToSet(order) /\ longer[a] \notin new
             \/ /\ a > L /\ a - L \in 1 .. m /\ longer[a] = asc[a - L] /\ longer[a] \in new
                /\ longer[a] \notin ToSet(order)
  <2>1. CASE a \in 1 .. L
    BY <1>1, <1>3, <1>7, <2>1
  <2>2. CASE a \notin 1 .. L
    <3>1. a > L /\ a - L \in 1 .. m /\ L + (a - L) = a
      BY <1>1, <1>4, <2>2
    <3>2. longer[a] = asc[a - L]
      BY <1>7, <3>1
    <3> QED
      BY <1>3, <1>4, <3>1, <3>2
  <2> QED
    BY <2>1, <2>2
<1>9. IsInjective(longer)
  <2>1. ASSUME NEW a \in 1 .. L + m, NEW b \in 1 .. L + m, longer[a] = longer[b]
        PROVE  a = b
    <3>1. CASE a \in 1 .. L
      <4>1. longer[a] = order[a] /\ longer[b] \in ToSet(order)
        <5>1. longer[a] = order[a] /\ longer[a] \in ToSet(order)
          BY ONLY <1>7, <1>1, <3>1
        <5> QED
          BY ONLY <5>1, <2>1
      <4>2. b \in 1 .. L /\ longer[b] = order[b]
        BY <1>8, <4>1
      <4> QED
        BY <1>1, <2>1, <3>1, <4>1, <4>2
    <3>2. CASE a \notin 1 .. L
      <4>1. a - L \in 1 .. m /\ b - L \in 1 .. m /\ asc[a - L] = asc[b - L]
        BY <1>8, <2>1, <3>2
      <4>2. a - L = b - L
        BY <1>4, <4>1
      <4> QED
        BY <1>1, <1>4, <4>2
    <3> QED
      BY <3>1, <3>2
  <2> QED
    BY <1>7, <2>1 DEF IsInjective
<1>10. ToSet(longer) = ToSet(order) \cup new
  <2>1. ToSet(longer) = {longer[a] : a \in 1 .. L + m}
    BY <1>7 DEF ToSet
  <2>2. \A n \in ToSet(longer) : n \in ToSet(order) \cup new
    BY <1>8, <2>1
  <2>3. ASSUME NEW n \in ToSet(order)
        PROVE  n \in ToSet(longer)
    <3>1. PICK a \in 1 .. L : order[a] = n
      BY <1>1, <2>3
    <3>2. a \in 1 .. L + m /\ longer[a] = n
      BY <1>1, <1>4, <1>7, <3>1
    <3> QED
      BY <2>1, <3>2
  <2>4. ASSUME NEW n \in new
        PROVE  n \in ToSet(longer)
    <3>1. PICK k \in 1 .. m : asc[k] = n
      BY <1>4, <2>4
    <3>2. L + k \in 1 .. L + m
      BY ONLY <1>1, <1>4, <3>1
    <3>3. longer[L + k] = n
      BY ONLY <1>7, <3>1
    <3> QED
      BY <2>1, <3>2, <3>3
  <2> QED
    BY <2>2, <2>3, <2>4
<1>11. DOMAIN known = ToSet(longer)
  BY <1>b, <1>1, <1>10
<1>12. \A n \in ToSet(order) : known[n] = path[n]
  BY <1>b, <1>1, <1>3
<1>13. /\ Trip(t, head, node, path[node]) /\ D \in Nat /\ D < i
       /\ \A a \in 1 .. L : /\ Trip(t, head, order[a], path[order[a]]) /\ Len(path[order[a]]) \in Nat
                            /\ Len(path[order[a]]) < a
  <2>1. ASSUME NEW a \in 1 .. L
        PROVE  Trip(t, head, order[a], path[order[a]]) /\ Len(path[order[a]]) \in Nat /\ Len(path[order[a]]) < a
    <3>1. Trip(t, head, order[a], path[order[a]]) /\ Len(path[order[a]]) < a
      BY <2>1 DEF Searched
    <3>2. path[order[a]] \in Seq(Names(t) \X {HopAddress(t, x, y) : x, y \in Names(t)})
      BY <3>1 DEF Trip
    <3>3. Len(path[order[a]]) \in Nat
      BY <3>2
    <3> QED
      BY <3>1, <3>3
  <2> QED
    BY <1>2, <2>1
<1>14. ASSUME NEW n \in new
       PROVE  Trip(t, head, n, known[n]) /\ Len(known[n]) = D + 1
  <2>1. known[n] = Append(path[node], <<n, HopAddress(t, node, n)>>)
    BY <1>b, <1>14
  <2>2. n \in Adj(t, node)
    BY <1>3
  <2> QED
    BY <1>2, <1>13, <2>1, <2>2, TripFurther
<1> HIDE DEF D, node
<1>d. D \in Nat
  BY <1>13
<1>15. ASSUME NEW a \in 1 .. L + m
       PROVE  Trip(t, head, longer[a], known[longer[a]]) /\ Len(known[longer[a]]) < a
  <2>1. CASE a \in 1 .. L
    <3>1. longer[a] = order[a] /\ longer[a] \in ToSet(order)
      BY <1>1, <1>8, <2>1
    <3>2. known[longer[a]] = path[order[a]]
      BY <1>12, <3>1
    <3> QED
      BY <1>13, <2>1, <3>1, <3>2
  <2>2. CASE a \notin 1 .. L
    <3>1. longer[a] \in new /\ a > L
      BY <1>8, <2>2
    <3>2. Len(known[longer[a]]) = D + 1
      BY <1>14, <3>1
    <3>3. D + 1 < a
      BY <1>1, <1>2, <1>13, <3>1
    <3> QED
      BY <1>14, <3>1, <3>2, <3>3
  <2> QED
    BY <2>1, <2>2
<1>16. ASSUME NEW a \in 1 .. L
       PROVE  /\ Len(known[longer[a]]) = Len(path[order[a]]) /\ Len(path[order[a]]) \in Nat
              /\ Len(path[order[a]]) <= D + 1 /\ (i <= a => D <= Len(path[order[a]]))
  <2>1. Len(known[longer[a]]) = Len(path[order[a]]) /\ Len(path[order[a]]) \in Nat
    BY <1>1, <1>7, <1>12, <1>13
  <2>2. (i - 1) + 1 = i /\ i - 1 < L
    BY <1>1, <1>2
  <2>3. Len(path[order[a]]) <= D + 1
    BY <1>16, <2>2 DEF Searched, D, node
  <2>4. i <= a => D <= Len(path[order[a]])
    BY <1>2, <1>16 DEF Searched, D, node
  <2> QED
    BY <2>1, <2>3, <2>4
<1>17. ASSUME NEW a \in 1 .. L + m, a \notin 1 .. L
       PROVE  Len(known[longer[a]]) = D + 1 /\ a > L
  BY <1>8, <1>14, <1>17
<1>18. ASSUME NEW a \in 1 .. L + m, NEW b \in 1 .. L + m, a <= b
       PROVE  Len(known[longer[a]]) <= Len(known[longer[b]])
  <2>1. CASE a \in 1 .. L /\ b \in 1 .. L
    <3>1. Len(path[order[a]]) <= Len(path[order[b]])
      BY <1>18, <2>1 DEF Searched
    <3> QED
      BY <1>16, <2>1, <3>1
  <2>2. CASE a \in 1 .. L /\ b \notin 1 .. L
    BY <1>16, <1>17, <2>2
  <2>3. CASE a \notin 1 .. L
    <3>1. b \notin 1 .. L
      BY <1>1, <1>17, <1>18, <2>3
    <3>2. Len(known[longer[a]]) = D + 1 /\ Len(known[longer[b]]) = D + 1
      BY <1>17, <2>3, <3>1
    <3> QED
      BY ONLY <1>d, <3>2
  <2> QED
    BY <2>1, <2>2, <2>3
<1>19. ASSUME i < L + m, NEW a \in 1 .. L + m
       PROVE  Len(known[longer[a]]) <= Len(known[longer[i + 1]]) + 1
  <2>1. i + 1 \in 1 .. L + m /\ i + 1 >= i
    BY <1>1, <1>4, <1>19
  <2>2. Len(known[longer[i + 1]]) \in Nat /\ D <= Len(known[longer[i + 1]])
    <3>1. CASE i + 1 \in 1 .. L
      BY <1>d, <1>16, <2>1, <3>1
    <3>2. CASE i + 1 \notin 1 .. L
      <4>1. Len(known[longer[i + 1]]) = D + 1
        BY <1>17, <2>1, <3>2
      <4> QED
        BY ONLY <1>d, <4>1
    <3> QED
      BY <3>1, <3>2
  <2>3. Len(known[longer[a]]) <= D + 1
    <3>1. CASE a \in 1 .. L
      BY <1>16, <3>1
    <3>2. CASE a \notin 1 .. L
      <4>1. Len(known[longer[a]]) = D + 1
        BY <1>17, <3>2
      <4> QED
        BY ONLY <1>d, <4>1
    <3> QED
      BY <3>1, <3>2
  <2>4. Len(known[longer[a]]) \in Nat
    BY <1>d, <1>16, <1>17
  <2> QED
    BY ONLY <1>d, <2>2, <2>3, <2>4
<1>20. ASSUME NEW b \in 1 .. L + m, b <= i, NEW p \in Adj(t, longer[b])
       PROVE  p \in ToSet(longer) /\ Len(known[p]) <= Len(known[longer[b]]) + 1
  <2>1. b \in 1 .. L /\ longer[b] = order[b] /\ Len(known[longer[b]]) = Len(path[order[b]])
    BY <1>1, <1>2, <1>4, <1>7, <1>16, <1>20
  <2>2. CASE b = i
    <3>1. longer[b] = node /\ Len(known[longer[b]]) = D
      BY <2>1, <2>2 DEF node, D
    <3>2. CASE p \in new
      <4>1. Len(known[p]) = D + 1 /\ p \in ToSet(longer)
        BY <1>10, <1>14, <3>2
      <4> QED
        BY ONLY <1>d, <3>1, <4>1
    <3>3. CASE p \notin new
      <4>1. p \in ToSet(order)
        BY <1>a, <1>20, <3>1, <3>3 DEF node
      <4>2. PICK a \in 1 .. L : order[a] = p
        BY <1>1, <4>1
      <4>3. known[p] = path[order[a]] /\ Len(path[order[a]]) <= D + 1
        BY <1>12, <1>16, <4>1, <4>2
      <4> QED
        BY <1>10, <3>1, <4>1, <4>3
    <3> QED
      BY <3>2, <3>3
  <2>3. CASE b # i
    <3>1. b <= i - 1
      BY <1>20, <2>3
    <3>2. p \in ToSet(order) /\ Len(path[p]) <= Len(path[order[b]]) + 1
      BY <1>20, <2>1, <3>1 DEF Searched
    <3> QED
      BY <1>10, <1>12, <2>1, <3>2
  <2> QED
    BY <2>2, <2>3
<1>21. Len(longer) >= 1 /\ longer[1] = head
  BY <1>1, <1>4, <1>7
<1> QED
  BY <1>7, <1>9, <1>11, <1>15, <1>18, <1>19, <1>20, <1>21 DEF Searched, longer, known

Searching(t, i, s) ==
    IF i > Len(s.order) THEN s
    ELSE [order |-> Longer(t, i, s.order), path |-> Known(t, i, s.order, s.path)]
ScanOf(t, head, m, g) ==
    g = [i \in 0 .. m |->
            IF i = 0 THEN [order |-> <<head>>, path |-> [n \in {head} |-> <<>>]]
            ELSE Searching(t, i, g[i - 1])]

LEMMA ScanExists ==
  ASSUME NEW t, NEW head, NEW m \in Nat
  PROVE  \E g : ScanOf(t, head, m, g)
<1> DEFINE first == [order |-> <<head>>, path |-> [n \in {head} |-> <<>>]]
           S == {n \in Nat : \E g : ScanOf(t, head, n, g)}
<1>1. 0 \in S
  <2> DEFINE g == [i \in 0 .. 0 |-> first]
  <2>1. ScanOf(t, head, 0, g)
    BY DEF ScanOf
  <2> QED
    BY <2>1
<1>2. ASSUME NEW n \in Nat, n \in S
      PROVE  n + 1 \in S
  <2>1. PICK g : ScanOf(t, head, n, g)
    BY <1>2
  <2> DEFINE h == [i \in 0 .. n + 1 |-> IF i <= n THEN g[i] ELSE Searching(t, n + 1, g[n])]
  <2>2. ASSUME NEW i \in 0 .. n + 1
        PROVE  h[i] = IF i = 0 THEN first ELSE Searching(t, i, h[i - 1])
    <3>1. CASE i <= n
      <4>1. i \in 0 .. n /\ (i # 0 => i - 1 \in 0 .. n + 1 /\ i - 1 <= n)
        BY <3>1
      <4>2. g[i] = IF i = 0 THEN first ELSE Searching(t, i, g[i - 1])
        BY <2>1, <4>1 DEF ScanOf
      <4> QED
        BY <4>1, <4>2, <3>1
    <3>2. CASE i = n + 1
      BY <3>2
    <3> QED
      BY <3>1, <3>2
  <2>3. ScanOf(t, head, n + 1, h)
    <3> HIDE DEF h
    <3>1. h = [i \in 0 .. n + 1 |-> h[i]]
      BY DEF h
    <3> QED
      BY <3>1, <2>2 DEF ScanOf
  <2> QED
    BY <2>3
<1> HIDE DEF S
<1>3. m \in S
  BY <1>1, <1>2, SetInduction
<1> QED
  BY <1>3 DEF S

LEMMA PathsScan ==
  ASSUME NEW t, NEW head, Len(t.nodes) \in Nat
  PROVE  \E g : ScanOf(t, head, Len(t.nodes), g) /\ Paths(t, head) = g[Len(t.nodes)].path
<1> DEFINE g == CHOOSE f : ScanOf(t, head, Len(t.nodes), f)
<1>1. ScanOf(t, head, Len(t.nodes), g)
  BY ScanExists
<1>2. Paths(t, head) = g[Len(t.nodes)].path
  BY DEF Paths, ScanOf, Searching, Longer, Known, Unknown
<1> QED
  BY <1>1, <1>2

LEMMA PathsSearched ==
  ASSUME NEW t, Graph(t), NEW head \in Names(t)
  PROVE  \E order : Searched(t, head, Len(t.nodes), order, Paths(t, head))
<1> DEFINE m == Len(t.nodes)
<1>1. m \in Nat
  BY DEF Graph
<1>2. PICK g : ScanOf(t, head, m, g) /\ Paths(t, head) = g[m].path
  BY <1>1, PathsScan
<1> DEFINE S == {i \in Nat : i <= m => Searched(t, head, i, g[i].order, g[i].path)}
<1>3. 0 \in S
  <2>1. g[0] = [order |-> <<head>>, path |-> [n \in {head} |-> <<>>]]
    BY <1>1, <1>2 DEF ScanOf
  <2>2. g[0].order = <<head>> /\ g[0].path = [n \in {head} |-> <<>>]
    BY <2>1
  <2>3. Searched(t, head, 0, <<head>>, [n \in {head} |-> <<>>])
    BY SearchedInit
  <2>4. Searched(t, head, 0, g[0].order, g[0].path)
    BY ONLY <2>2, <2>3
  <2> QED
    BY <2>4
<1>4. ASSUME NEW j \in Nat, j \in S
      PROVE  j + 1 \in S
  <2> SUFFICES ASSUME j + 1 <= m
               PROVE  Searched(t, head, j + 1, g[j + 1].order, g[j + 1].path)
    OBVIOUS
  <2> DEFINE i == j + 1
             s == g[j]
  <2>1. i \in Nat /\ i >= 1 /\ i - 1 = j /\ i \in 0 .. m /\ i # 0
    BY <1>1
  <2>2. Searched(t, head, i - 1, s.order, s.path)
    BY <1>1, <1>4, <2>1
  <2>3. g[i] = Searching(t, i, s)
    BY <1>2, <2>1 DEF ScanOf
  <2> HIDE DEF i, s
  <2>4. CASE i > Len(s.order)
    <3>1. g[i] = s
      BY <2>3, <2>4 DEF Searching
    <3>2. Len(s.order) \in Nat
      <4>1. s.order \in Seq(Names(t))
        BY <2>2 DEF Searched
      <4> QED
        BY <4>1
    <3>3. \A b \in 1 .. Len(s.order) : b <= i - 1
      BY <2>1, <2>4, <3>2
    <3>4. ~(i < Len(s.order))
      BY <2>1, <2>4, <3>2
    <3>5. Searched(t, head, i, s.order, s.path)
      BY <2>2, <3>3, <3>4 DEF Searched
    <3> QED
      BY <3>1, <3>5 DEF i
  <2>5. CASE ~(i > Len(s.order))
    <3> DEFINE longer == Longer(t, i, s.order)
               known == Known(t, i, s.order, s.path)
    <3>1. g[i] = [order |-> longer, path |-> known]
      BY <2>3, <2>5 DEF Searching
    <3>2. g[i].order = longer /\ g[i].path = known
      BY <3>1
    <3>3. i <= Len(s.order)
      <4>1. s.order \in Seq(Names(t))
        BY <2>2 DEF Searched
      <4> QED
        BY <2>1, <2>5, <4>1
    <3>4. Searched(t, head, i, longer, known)
      BY <2>1, <2>2, <3>3, SearchedStep
    <3> QED
      BY <3>2, <3>4 DEF i
  <2> QED
    BY <2>4, <2>5
<1> HIDE DEF S
<1>5. m \in S
  BY <1>1, <1>3, <1>4, SetInduction
<1> QED
  BY <1>1, <1>2, <1>5 DEF S

(* What the search promises. *)
LEMMA PathsFacts ==
  ASSUME NEW t, Graph(t), NEW head \in Names(t)
  PROVE  LET paths == Paths(t, head)
         IN  /\ head \in DOMAIN paths /\ DOMAIN paths \subseteq Names(t) /\ Len(paths[head]) = 0
             /\ \A n \in DOMAIN paths :
                   /\ Trip(t, head, n, paths[n]) /\ Len(paths[n]) \in Nat /\ Len(paths[n]) < Len(t.nodes)
                   /\ \A p \in Adj(t, n) : p \in DOMAIN paths /\ Len(paths[p]) <= Len(paths[n]) + 1
<1> DEFINE paths == Paths(t, head)
           m == Len(t.nodes)
<1>1. PICK order : Searched(t, head, m, order, paths)
  BY PathsSearched
<1> HIDE DEF paths, m
<1>2. /\ order \in Seq(Names(t)) /\ Len(order) >= 1 /\ order[1] = head /\ IsInjective(order)
      /\ DOMAIN paths = ToSet(order)
  BY <1>1 DEF Searched
<1>3. Len(order) \in Nat /\ DOMAIN order = 1 .. Len(order)
  BY <1>2
<1>4. DOMAIN paths = {order[a] : a \in 1 .. Len(order)}
  BY <1>2, <1>3 DEF ToSet
<1>5. Len(order) <= m
  <2> DEFINE D == 1 .. Len(order)
  <2>1. IsFiniteSet(D) /\ Cardinality(D) = Len(order)
    BY <1>3, UpTo
  <2>2. order \in Injection(D, Names(t))
    <3>1. order \in [D -> Names(t)]
      BY <1>2, <1>3
    <3> QED
      BY <1>2, <1>3, <3>1 DEF Injection, IsInjective
  <2>3. IsFiniteSet(Names(t)) /\ Cardinality(Names(t)) <= m /\ m \in Nat
    BY DEF Graph, m
  <2> HIDE DEF D
  <2>4. Cardinality(D) <= Cardinality(Names(t))
    BY <2>1, <2>2, <2>3, FS_Injection
  <2>5. Cardinality(Names(t)) \in Nat
    BY <2>3, FS_CardinalityType
  <2> QED
    BY <1>3, <2>1, <2>3, <2>4, <2>5
<1>6. m \in Nat
  BY DEF Graph, m
<1>7. ASSUME NEW n \in DOMAIN paths
      PROVE  /\ Trip(t, head, n, paths[n]) /\ Len(paths[n]) \in Nat /\ Len(paths[n]) < m
             /\ \A p \in Adj(t, n) : p \in DOMAIN paths /\ Len(paths[p]) <= Len(paths[n]) + 1
  <2>1. PICK a \in 1 .. Len(order) : order[a] = n
    BY <1>4, <1>7
  <2>2. a <= m
    BY <1>3, <1>5, <1>6
  <2>3. Trip(t, head, n, paths[n]) /\ Len(paths[n]) < a
    BY <1>1, <2>1 DEF Searched
  <2>4. \A p \in Adj(t, n) : p \in ToSet(order) /\ Len(paths[p]) <= Len(paths[n]) + 1
    BY <1>1, <2>1, <2>2 DEF Searched
  <2>5. Len(paths[n]) \in Nat
    <3>1. paths[n] \in Seq(Names(t) \X {HopAddress(t, x, y) : x, y \in Names(t)})
      BY <2>3 DEF Trip
    <3> QED
      BY <3>1
  <2> QED
    BY <1>2, <1>3, <1>6, <2>2, <2>3, <2>4, <2>5
<1>8. head \in DOMAIN paths /\ DOMAIN paths \subseteq Names(t) /\ Len(paths[head]) = 0
  <2>1. 1 \in 1 .. Len(order)
    BY <1>2, <1>3
  <2>2. head \in DOMAIN paths
    BY <1>2, <1>4, <2>1
  <2>3. Len(paths[order[1]]) < 1
    BY <1>1, <2>1 DEF Searched
  <2>4. Len(paths[head]) = 0
    BY <1>2, <1>7, <2>2, <2>3
  <2> QED
    BY <1>2, <1>3, <1>4, <2>2, <2>4
<1> QED
  BY <1>7, <1>8 DEF paths, m

(* Balls around the head, and what they say of the ways found.              *)
WithinOf(t, head, m, W) ==
    W = [k \in 0 .. m |-> IF k = 0 THEN {head} ELSE UNION {Adj(t, n) \cup {n} : n \in W[k - 1]}]

LEMMA WithinExists ==
  ASSUME NEW t, NEW head, NEW m \in Nat
  PROVE  \E W : WithinOf(t, head, m, W)
<1> DEFINE next(Q) == UNION {Adj(t, n) \cup {n} : n \in Q}
           S == {n \in Nat : \E g : WithinOf(t, head, n, g)}
<1>1. 0 \in S
  <2> DEFINE g == [i \in 0 .. 0 |-> {head}]
  <2>1. WithinOf(t, head, 0, g)
    BY DEF WithinOf
  <2> QED
    BY <2>1
<1>2. ASSUME NEW n \in Nat, n \in S
      PROVE  n + 1 \in S
  <2>1. PICK g : WithinOf(t, head, n, g)
    BY <1>2
  <2> DEFINE h == [i \in 0 .. n + 1 |-> IF i <= n THEN g[i] ELSE next(g[n])]
  <2>2. ASSUME NEW i \in 0 .. n + 1
        PROVE  h[i] = IF i = 0 THEN {head} ELSE next(h[i - 1])
    <3>1. CASE i <= n
      <4>1. i \in 0 .. n /\ (i # 0 => i - 1 \in 0 .. n + 1 /\ i - 1 <= n)
        BY <3>1
      <4>2. g[i] = IF i = 0 THEN {head} ELSE next(g[i - 1])
        BY <2>1, <4>1 DEF WithinOf
      <4> QED
        BY <4>1, <4>2, <3>1
    <3>2. CASE i = n + 1
      <4>1. i \in 0 .. n + 1 /\ ~(i <= n) /\ i # 0 /\ i - 1 = n /\ n \in 0 .. n + 1 /\ n <= n
        BY <3>2
      <4>2. h[i] = next(g[n]) /\ h[i - 1] = g[n]
        BY <4>1
      <4> QED
        BY <4>1, <4>2
    <3> QED
      BY <3>1, <3>2
  <2>3. WithinOf(t, head, n + 1, h)
    <3> HIDE DEF h
    <3>1. h = [i \in 0 .. n + 1 |-> h[i]]
      BY DEF h
    <3> QED
      BY <3>1, <2>2 DEF WithinOf
  <2> QED
    BY <2>3
<1> HIDE DEF S
<1>3. m \in S
  BY <1>1, <1>2, SetInduction
<1> QED
  BY <1>3 DEF S

Balls(t, head, m, W) ==
    /\ \A p : p \in W[0] <=> p = head
    /\ \A k \in 1 .. m : /\ \A p \in W[k - 1] : p \in W[k] /\ \A n \in Adj(t, p) : n \in W[k]
                        /\ \A n \in W[k] : \E p \in W[k - 1] : n = p \/ n \in Adj(t, p)

LEMMA WithinFacts ==
  ASSUME NEW t, NEW head, NEW m \in Nat, NEW W, WithinOf(t, head, m, W)
  PROVE  Balls(t, head, m, W)
<1>1. \A p : p \in W[0] <=> p = head
  <2>1. 0 \in 0 .. m
    OBVIOUS
  <2>2. W[0] = {head}
    BY <2>1 DEF WithinOf
  <2> QED
    BY <2>2
<1>2. ASSUME NEW k \in 1 .. m
      PROVE  W[k] = UNION {Adj(t, n) \cup {n} : n \in W[k - 1]}
  <2>1. k \in 0 .. m /\ k # 0
    OBVIOUS
  <2> QED
    BY <2>1 DEF WithinOf
<1> QED
  BY <1>1, <1>2 DEF Balls

LEMMA WithinOfPaths ==
  ASSUME NEW t, Graph(t), NEW head \in Names(t), NEW m \in Nat, NEW W, WithinOf(t, head, m, W),
         NEW n \in DOMAIN Paths(t, head), Len(Paths(t, head)[n]) <= m
  PROVE  n \in W[Len(Paths(t, head)[n])]
<1> DEFINE p == Paths(t, head)[n]
           S == {k \in Nat : k <= Len(p) => IF k = 0 THEN head \in W[k] ELSE p[k][1] \in W[k]}
<1>1. Trip(t, head, n, p) /\ Len(p) \in Nat
  BY PathsFacts
<1>2. Len(p) <= m
  OBVIOUS
<1> HIDE DEF p
<1>3. 0 \in S
  <2>1. head \in W[0]
    BY WithinFacts DEF Balls
  <2> QED
    BY <2>1
<1>4. ASSUME NEW k \in Nat, k \in S
      PROVE  k + 1 \in S
  <2> SUFFICES ASSUME k + 1 <= Len(p)
               PROVE  p[k + 1][1] \in W[k + 1]
    OBVIOUS
  <2>0. k + 1 \in 1 .. m /\ (k + 1) - 1 = k /\ Balls(t, head, m, W)
    BY <1>1, <1>2, WithinFacts
  <2>1. k + 1 \in 1 .. Len(p) /\ k <= Len(p) /\ k + 1 <= m
    BY <1>1, <1>2
  <2>2. p[k + 1][1] \in Adj(t, From(head, p, k + 1))
    BY <1>1, <2>1 DEF Trip
  <2>3. From(head, p, k + 1) \in W[k]
    BY <1>4, <2>1 DEF From
  <2> QED
    BY <2>1, <2>2, <2>3, <2>0 DEF Balls
<1> HIDE DEF S
<1>5. Len(p) \in S
  BY <1>1, <1>3, <1>4, SetInduction
<1>6. IF Len(p) = 0 THEN n = head ELSE p[Len(p)][1] = n
  BY <1>1 DEF Trip
<1>7. n \in W[Len(p)]
  BY <1>1, <1>5, <1>6 DEF S
<1> QED
  BY <1>7 DEF p

LEMMA PathsShortest ==
  ASSUME NEW t, Graph(t), NEW head \in Names(t), NEW m \in Nat, NEW W, WithinOf(t, head, m, W),
         NEW k \in 0 .. m, NEW n \in W[k]
  PROVE  n \in DOMAIN Paths(t, head) /\ Len(Paths(t, head)[n]) <= k
<1> DEFINE paths == Paths(t, head)
           S == {j \in Nat : j <= m => \A p \in W[j] : p \in DOMAIN paths /\ Len(paths[p]) <= j}
<1>1. /\ head \in DOMAIN paths /\ Len(paths[head]) = 0
      /\ \A p \in DOMAIN paths :
            /\ Len(paths[p]) \in Nat
            /\ \A q \in Adj(t, p) : q \in DOMAIN paths /\ Len(paths[q]) <= Len(paths[p]) + 1
  BY PathsFacts
<1> HIDE DEF paths
<1>2. 0 \in S
  <2>1. \A p \in W[0] : p = head
    BY WithinFacts DEF Balls
  <2> QED
    BY <1>1, <2>1
<1>3. ASSUME NEW j \in Nat, j \in S
      PROVE  j + 1 \in S
  <2> SUFFICES ASSUME j + 1 <= m, NEW p \in W[j + 1]
               PROVE  p \in DOMAIN paths /\ Len(paths[p]) <= j + 1
    OBVIOUS
  <2>0. j + 1 \in 1 .. m /\ (j + 1) - 1 = j /\ Balls(t, head, m, W)
    BY WithinFacts
  <2>1. PICK q \in W[j] : p = q \/ p \in Adj(t, q)
    BY <2>0 DEF Balls
  <2>2. q \in DOMAIN paths /\ Len(paths[q]) <= j /\ Len(paths[q]) \in Nat
    BY <1>1, <1>3
  <2>3. CASE p = q
    BY <2>2, <2>3
  <2>4. CASE p \in Adj(t, q)
    <3>1. p \in DOMAIN paths /\ Len(paths[p]) <= Len(paths[q]) + 1 /\ Len(paths[p]) \in Nat
      BY <1>1, <2>2, <2>4
    <3> QED
      BY <2>2, <3>1
  <2> QED
    BY <2>1, <2>3, <2>4
<1> HIDE DEF S
<1>4. k \in S
  BY <1>2, <1>3, SetInduction
<1>5. n \in DOMAIN paths /\ Len(paths[n]) <= k
  BY <1>4 DEF S
<1> QED
  BY <1>5 DEF paths

(* A graph is connected if no smaller set around the head is closed.        *)
Closes(t, C) == \A n \in C : \A p \in Adj(t, n) : p \in C

LEMMA ConnectedCloses ==
  ASSUME NEW t, Graph(t), NEW head, Connected(t, head), NEW C, head \in C, Closes(t, C)
  PROVE  Names(t) \subseteq C
<1> DEFINE m == Len(t.nodes)
<1>1. head \in Names(t) /\ DOMAIN Paths(t, head) = Names(t) /\ m \in Nat
  BY DEF Connected, Graph
<1>2. PICK W : WithinOf(t, head, m, W)
  BY <1>1, WithinExists
<1> DEFINE S == {k \in Nat : k <= m => \A p \in W[k] : p \in C}
<1>3. 0 \in S
  <2>1. \A p \in W[0] : p = head
    BY <1>1, <1>2, WithinFacts DEF Balls
  <2> QED
    BY <2>1
<1>4. ASSUME NEW k \in Nat, k \in S
      PROVE  k + 1 \in S
  <2> SUFFICES ASSUME k + 1 <= m, NEW p \in W[k + 1]
               PROVE  p \in C
    OBVIOUS
  <2>0. k + 1 \in 1 .. m /\ (k + 1) - 1 = k /\ Balls(t, head, m, W)
    BY <1>1, <1>2, WithinFacts
  <2>1. PICK q \in W[k] : p = q \/ p \in Adj(t, q)
    BY <2>0 DEF Balls
  <2>2. q \in C
    BY <1>1, <1>4
  <2> QED
    BY <2>1, <2>2 DEF Closes
<1> HIDE DEF S
<1>5. Nat \subseteq S
  BY <1>3, <1>4, SetInduction
<1>6. ASSUME NEW n \in Names(t)
      PROVE  n \in C
  <2> DEFINE d == Len(Paths(t, head)[n])
  <2>1. d \in Nat /\ d <= m
    BY <1>1, PathsFacts
  <2>2. n \in W[d]
    BY <1>1, <1>2, <2>1, WithinOfPaths
  <2> HIDE DEF d
  <2>3. d \in S
    BY <1>5, <2>1
  <2> QED
    BY <2>1, <2>2, <2>3 DEF S
<1> QED
  BY <1>6

LEMMA ClosesConnected ==
  ASSUME NEW t, Graph(t), NEW head \in Names(t),
         \A C : head \in C /\ Closes(t, C) => Names(t) \subseteq C
  PROVE  Connected(t, head)
<1>1. head \in DOMAIN Paths(t, head) /\ DOMAIN Paths(t, head) \subseteq Names(t)
  BY PathsFacts
<1>2. Closes(t, DOMAIN Paths(t, head))
  BY PathsFacts DEF Closes
<1> QED
  BY <1>1, <1>2 DEF Connected

-----------------------------------------------------------------------------
(* The walk along a ring. *)

LEMMA TwoOf ==
  ASSUME NEW S, IsFiniteSet(S), Cardinality(S) = 2, NEW a \in S, NEW b \in S, a # b, NEW c \in S
  PROVE  c = a \/ c = b
<1> SUFFICES ASSUME c # a, c # b
             PROVE  FALSE
  OBVIOUS
<1> DEFINE A == S \ {a}
           B == A \ {b}
           C == B \ {c}
<1>1. IsFiniteSet(A) /\ Cardinality(A) = 1 /\ b \in A /\ c \in A
  <2>1. IsFiniteSet(A) /\ Cardinality(A) = Cardinality(S) - 1
    BY FS_RemoveElement
  <2> QED
    BY <2>1
<1> HIDE DEF A
<1>2. IsFiniteSet(B) /\ Cardinality(B) = 0 /\ c \in B
  <2>1. IsFiniteSet(B) /\ Cardinality(B) = Cardinality(A) - 1
    BY <1>1, FS_RemoveElement
  <2> QED
    BY <1>1, <2>1
<1> HIDE DEF B
<1>3. B = {}
  BY <1>2, FS_EmptySet
<1> QED
  BY <1>2, <1>3

LEMMA OneMore ==
  ASSUME NEW S, IsFiniteSet(S), Cardinality(S) = 2, NEW a
  PROVE  \E b \in S : b # a
<1> SUFFICES ASSUME S \subseteq {a}
             PROVE  FALSE
  OBVIOUS
<1>1. IsFiniteSet({a}) /\ Cardinality({a}) = 1
  BY FS_Singleton
<1>2. Cardinality(S) <= 1
  BY <1>1, FS_Subset
<1> QED
  BY <1>2

Stepping(t, w) == Min(Adj(t, Last(w)) \ ToSet(w))
RankWalkOf(t, head, m, g) ==
    g = [i \in 1 .. m |-> IF i = 1 THEN <<head>> ELSE Append(g[i - 1], Stepping(t, g[i - 1]))]

LEMMA RankWalkExists ==
  ASSUME NEW t, NEW head, NEW m \in Nat
  PROVE  \E g : RankWalkOf(t, head, m, g)
<1> DEFINE next(w) == Append(w, Stepping(t, w))
           S == {n \in Nat : \E g : RankWalkOf(t, head, n, g)}
<1>1. 0 \in S
  <2> DEFINE g == [i \in 1 .. 0 |-> <<head>>]
  <2>1. RankWalkOf(t, head, 0, g)
    BY DEF RankWalkOf
  <2> QED
    BY <2>1
<1>2. ASSUME NEW n \in Nat, n \in S
      PROVE  n + 1 \in S
  <2>1. PICK g : RankWalkOf(t, head, n, g)
    BY <1>2
  <2> DEFINE h == [i \in 1 .. n + 1 |-> IF i <= n THEN g[i] ELSE IF i = 1 THEN <<head>> ELSE next(g[n])]
  <2>2. ASSUME NEW i \in 1 .. n + 1
        PROVE  h[i] = IF i = 1 THEN <<head>> ELSE next(h[i - 1])
    <3>1. CASE i <= n
      <4>1. i \in 1 .. n /\ (i # 1 => i - 1 \in 1 .. n + 1 /\ i - 1 <= n)
        BY <3>1
      <4>2. g[i] = IF i = 1 THEN <<head>> ELSE next(g[i - 1])
        BY <2>1, <4>1 DEF RankWalkOf
      <4> QED
        BY <4>1, <4>2, <3>1
    <3>2. CASE i = n + 1
      BY <3>2
    <3> QED
      BY <3>1, <3>2
  <2>3. RankWalkOf(t, head, n + 1, h)
    <3> HIDE DEF h
    <3>1. h = [i \in 1 .. n + 1 |-> h[i]]
      BY DEF h
    <3> QED
      BY <3>1, <2>2 DEF RankWalkOf
  <2> QED
    BY <2>3
<1> HIDE DEF S
<1>3. m \in S
  BY <1>1, <1>2, SetInduction
<1> QED
  BY <1>3 DEF S

LEMMA RankOrderIs ==
  ASSUME NEW t, NEW head, Len(t.nodes) \in Nat
  PROVE  \E g : /\ RankWalkOf(t, head, Len(t.nodes), g)
                /\ RankOrder(t, head) =
                      IF ~Connected(t, head) THEN <<>>
                      ELSE IF Complete(t) THEN <<head>> \o Ascending(Names(t) \ {head})
                      ELSE IF Ring(t) THEN g[Len(t.nodes)]
                      ELSE <<>>
<1> DEFINE g == CHOOSE f : RankWalkOf(t, head, Len(t.nodes), f)
<1>1. RankWalkOf(t, head, Len(t.nodes), g)
  BY RankWalkExists
<1>2. RankOrder(t, head) =
                      IF ~Connected(t, head) THEN <<>>
                      ELSE IF Complete(t) THEN <<head>> \o Ascending(Names(t) \ {head})
                      ELSE IF Ring(t) THEN g[Len(t.nodes)]
                      ELSE <<>>
  BY DEF RankOrder, RankWalkOf, Stepping
<1> QED
  BY <1>1, <1>2

(* A way through the graph that meets no node twice.                        *)
Way(t, head, n, w) ==
    /\ w \in Seq(Names(t)) /\ Len(w) = n /\ w[1] = head
    /\ \A j, k \in 1 .. n : w[j] = w[k] => j = k
    /\ \A k \in 1 .. n - 1 : w[k + 1] \in Adj(t, w[k])
Two(t) == \A n \in Names(t) : Cardinality(Adj(t, n)) = 2

LEMMA AdjFinite ==
  ASSUME NEW t, Graph(t), NEW n
  PROVE  IsFiniteSet(Adj(t, n)) /\ Cardinality(Adj(t, n)) \in Nat
<1>1. Adj(t, n) \subseteq Names(t) /\ IsFiniteSet(Names(t))
  BY AdjFacts DEF Graph
<1> QED
  BY <1>1, FS_Subset, FS_CardinalityType

(* Within a way, a node inside has its two neighbours next to it.           *)
LEMMA Inside ==
  ASSUME NEW t, Graph(t), Two(t), NEW head, NEW n \in Nat, NEW w, Way(t, head, n, w),
         NEW j \in 2 .. n - 1, NEW u \in Adj(t, w[j])
  PROVE  u = w[j - 1] \/ u = w[j + 1]
<1>1. /\ w \in Seq(Names(t)) /\ Len(w) = n
      /\ j \in 1 .. n /\ j - 1 \in 1 .. n - 1 /\ j \in 1 .. n - 1 /\ j + 1 \in 1 .. n /\ j - 1 \in 1 .. n
      /\ (j - 1) + 1 = j /\ j - 1 # j + 1
  BY DEF Way
<1>2. w[j] \in Names(t) /\ w[j - 1] \in Names(t) /\ w[j + 1] \in Names(t)
  BY <1>1
<1>3. w[j + 1] \in Adj(t, w[j]) /\ w[j] \in Adj(t, w[j - 1]) /\ w[j - 1] # w[j + 1]
  BY <1>1 DEF Way
<1>4. w[j - 1] \in Adj(t, w[j])
  BY <1>2, <1>3, AdjFacts
<1>5. IsFiniteSet(Adj(t, w[j])) /\ Cardinality(Adj(t, w[j])) = 2
  BY <1>2, AdjFinite DEF Two
<1> QED
  BY <1>3, <1>4, <1>5, TwoOf

(* So the last node's neighbours are the one before it, the first, or new.  *)
LEMMA Ending ==
  ASSUME NEW t, Graph(t), Two(t), NEW head, NEW n \in Nat, n >= 1, NEW w, Way(t, head, n, w),
         NEW j \in 1 .. n, w[j] \in Adj(t, w[n])
  PROVE  j = n - 1 \/ j = 1
<1>1. /\ w \in Seq(Names(t)) /\ Len(w) = n /\ n \in 1 .. n
      /\ \A i, k \in 1 .. n : w[i] = w[k] => i = k
  BY DEF Way
<1>2. w[j] \in Names(t) /\ w[n] \in Names(t)
  BY <1>1
<1>3. j # n
  BY AdjFacts
<1>4. w[n] \in Adj(t, w[j])
  BY <1>2, AdjFacts
<1>5. CASE j \in 2 .. n - 1
  <2>1. w[n] = w[j - 1] \/ w[n] = w[j + 1]
    BY <1>4, <1>5, Inside
  <2>2. j - 1 \in 1 .. n /\ j + 1 \in 1 .. n /\ j - 1 # n
    BY <1>5
  <2>3. j + 1 = n
    BY <1>1, <2>1, <2>2
  <2> QED
    BY <2>3
<1> QED
  BY <1>3, <1>5

LEMMA WayStep ==
  ASSUME NEW t, Graph(t), Two(t), NEW head, Connected(t, head), NEW n \in Nat, n >= 1,
         n < Cardinality(Names(t)), NEW w, Way(t, head, n, w)
  PROVE  Way(t, head, n + 1, Append(w, Stepping(t, w)))
<1> DEFINE T == Adj(t, w[n]) \ ToSet(w)
<1>1. /\ w \in Seq(Names(t)) /\ Len(w) = n /\ n \in 1 .. n /\ 1 \in 1 .. n /\ w[1] = head /\ w # <<>>
      /\ \A i, k \in 1 .. n : w[i] = w[k] => i = k
  BY DEF Way
<1>2. DOMAIN w = 1 .. n /\ ToSet(w) = {w[k] : k \in 1 .. n}
  <2>1. DOMAIN w = 1 .. n
    BY <1>1
  <2> QED
    BY <2>1 DEF ToSet
<1>3. Last(w) = w[n]
  BY <1>1 DEF Last
<1>4. w[n] \in Names(t) /\ \A k \in 1 .. n : w[k] \in Names(t)
  BY <1>1
<1>5. \A k \in 1 .. n : IsFiniteSet(Adj(t, w[k])) /\ Cardinality(Adj(t, w[k])) = 2
  BY <1>4, AdjFinite DEF Two
<1>6. T # {}
  <2> SUFFICES ASSUME \A u \in Adj(t, w[n]) : u \in ToSet(w)
               PROVE  FALSE
    OBVIOUS
  <2>0. IsFiniteSet(Adj(t, w[n])) /\ Cardinality(Adj(t, w[n])) = 2
    BY <1>1, <1>5
  <2>a. \A x : \E y \in Adj(t, w[n]) : y # x
    BY <2>0, OneMore
  <2>1. PICK u \in Adj(t, w[n]) : u # (IF n = 1 THEN head ELSE w[n - 1])
    BY <2>a
  <2>2. PICK j \in 1 .. n : w[j] = u
    BY <1>2, <2>1
  <2>3. (j = n - 1 \/ j = 1) /\ j # n
    <3>1. j = n - 1 \/ j = 1
      BY <2>1, <2>2, Ending
    <3>2. u # w[n]
      BY <2>1, AdjFacts
    <3> QED
      BY <2>2, <3>1, <3>2
  <2>4. j = 1 /\ n >= 3 /\ w[1] \in Adj(t, w[n])
    <3>1. n # 1
      BY <2>3
    <3>2. j # n - 1
      BY <2>1, <2>2, <3>1
    <3>3. j = 1 /\ n - 1 # 1
      BY <2>3, <3>2
    <3> QED
      BY <2>1, <2>2, <3>1, <3>3
  <2>5. Closes(t, ToSet(w))
    <3> SUFFICES ASSUME NEW k \in 1 .. n, NEW p \in Adj(t, w[k])
                 PROVE  p \in ToSet(w)
      BY <1>2 DEF Closes
    <3>1. CASE k = n
      BY <3>1
    <3>2. CASE k \in 2 .. n - 1
      <4>1. p = w[k - 1] \/ p = w[k + 1]
        BY <3>2, Inside
      <4>2. k - 1 \in 1 .. n /\ k + 1 \in 1 .. n
        BY <3>2
      <4> QED
        BY <1>2, <4>1, <4>2
    <3>3. CASE k = 1
      <4>1. w[n] \in Adj(t, w[1])
        BY <1>4, <1>1, <2>4, AdjFacts
      <4>2. 1 \in 1 .. n - 1 /\ 2 \in 1 .. n /\ 1 + 1 = 2 /\ 2 # n
        BY <2>4
      <4>3. w[2] \in Adj(t, w[1]) /\ w[2] # w[n]
        <5>1. w[1 + 1] \in Adj(t, w[1])
          BY <4>2 DEF Way
        <5>2. w[2] # w[n]
          BY <1>1, <4>2
        <5> QED
          BY <5>1, <5>2, <4>2
      <4>4. p = w[2] \/ p = w[n]
        BY <1>1, <1>5, <3>3, <4>1, <4>3, TwoOf
      <4> QED
        BY <1>1, <1>2, <4>2, <4>4
    <3> QED
      BY <3>1, <3>2, <3>3
  <2>6. head \in ToSet(w)
    BY <1>1, <1>2
  <2>7. Names(t) \subseteq ToSet(w)
    BY <2>5, <2>6, ConnectedCloses
  <2>8. Cardinality(Names(t)) <= n
    <3> DEFINE D == 1 .. n
    <3>1. IsFiniteSet(D) /\ Cardinality(D) = n
      BY UpTo
    <3>2. w \in [D -> Names(t)] /\ \A x \in Names(t) : \E k \in D : w[k] = x
      <4>1. w \in [D -> Names(t)]
        BY <1>1
      <4>2. \A x \in Names(t) : \E k \in D : w[k] = x
        BY <1>2, <2>7
      <4> QED
        BY <4>1, <4>2
    <3> HIDE DEF D
    <3>3. w \in Surjection(D, Names(t))
      BY <3>2 DEF Surjection
    <3> QED
      BY <3>1, <3>3, FS_Surjection
  <2>9. Cardinality(Names(t)) \in Nat
    BY FS_CardinalityType DEF Graph
  <2> QED
    BY <2>8, <2>9
<1>7. T \subseteq Names(t) /\ Names(t) \subseteq Nat
  BY AdjFacts DEF Graph
<1>8. Stepping(t, w) \in T
  <2>1. Min(T) \in T
    BY <1>6, <1>7, LeastExists
  <2> QED
    BY <1>3, <2>1 DEF Stepping
<1> DEFINE s == Stepping(t, w)
           v == Append(w, s)
<1>9. s \in Names(t) /\ s \in Adj(t, w[n]) /\ \A k \in 1 .. n : w[k] # s
  BY <1>2, <1>7, <1>8
<1> HIDE DEF s
<1>10. /\ v \in Seq(Names(t)) /\ Len(v) = n + 1 /\ v[n + 1] = s
       /\ \A k \in 1 .. n : v[k] = w[k]
  BY <1>1, <1>9
<1> HIDE DEF v
<1>11. \A i, k \in 1 .. n + 1 : v[i] = v[k] => i = k
  <2> SUFFICES ASSUME NEW i \in 1 .. n + 1, NEW k \in 1 .. n + 1, v[i] = v[k]
               PROVE  i = k
    OBVIOUS
  <2>1. CASE i \in 1 .. n /\ k \in 1 .. n
    BY <1>1, <1>10, <2>1
  <2>2. CASE i = n + 1 /\ k \in 1 .. n
    BY <1>9, <1>10, <2>2
  <2>3. CASE i \in 1 .. n /\ k = n + 1
    BY <1>9, <1>10, <2>3
  <2> QED
    BY <2>1, <2>2, <2>3
<1>12. \A k \in 1 .. (n + 1) - 1 : v[k + 1] \in Adj(t, v[k])
  <2> SUFFICES ASSUME NEW k \in 1 .. n
               PROVE  v[k + 1] \in Adj(t, v[k])
    OBVIOUS
  <2>1. CASE k = n
    BY <1>1, <1>9, <1>10, <2>1
  <2>2. CASE k # n
    <3>1. k \in 1 .. n - 1 /\ k + 1 \in 1 .. n
      BY <2>2
    <3>2. w[k + 1] \in Adj(t, w[k])
      BY <3>1 DEF Way
    <3> QED
      BY <1>10, <3>1, <3>2
  <2> QED
    BY <2>1, <2>2
<1>13. v[1] = head
  BY <1>1, <1>10
<1> QED
  BY <1>10, <1>11, <1>12, <1>13 DEF Way, s, v

(* Ranks in a circle: every node, each next to the one after it.            *)
Circle(t, w) ==
    /\ Way(t, w[1], Len(w), w) /\ Len(w) = Cardinality(Names(t))
    /\ \A n \in Names(t) : \E k \in 1 .. Len(w) : w[k] = n
    /\ w[1] \in Adj(t, w[Len(w)])

LEMMA Full ==
  ASSUME NEW S, IsFiniteSet(S), NEW w \in Seq(S), Len(w) = Cardinality(S),
         \A j, k \in 1 .. Len(w) : w[j] = w[k] => j = k
  PROVE  \A n \in S : \E k \in 1 .. Len(w) : w[k] = n
<1> DEFINE D == 1 .. Len(w)
<1>1. Len(w) \in Nat
  OBVIOUS
<1>2. IsFiniteSet(D) /\ Cardinality(D) = Cardinality(S)
  BY <1>1, UpTo
<1>3. w \in [D -> S] /\ \A j, k \in D : w[j] = w[k] => j = k
  OBVIOUS
<1> HIDE DEF D
<1>4. w \in Injection(D, S)
  BY <1>3 DEF Injection, IsInjective
<1>5. w \in Surjection(D, S)
  BY <1>2, <1>4, FS_Injection
<1>6. \A n \in S : \E k \in D : w[k] = n
  BY <1>5 DEF Surjection
<1> QED
  BY <1>6 DEF D

LEMMA RingWalk ==
  ASSUME NEW t, Graph(t), Two(t), NEW head, Connected(t, head), Cardinality(Names(t)) >= 3,
         NEW m, m = Cardinality(Names(t)), NEW g, RankWalkOf(t, head, m, g)
  PROVE  Circle(t, g[m]) /\ Way(t, head, m, g[m])
<1>1. m \in Nat /\ m >= 3 /\ IsFiniteSet(Names(t))
  BY FS_CardinalityType DEF Graph
<1> DEFINE S == {i \in Nat : i + 1 <= m => Way(t, head, i + 1, g[i + 1])}
<1>2. 0 \in S
  <2>1. 1 \in 1 .. m
    BY <1>1
  <2>2. g[1] = <<head>>
    BY <2>1 DEF RankWalkOf
  <2>3. head \in Names(t)
    BY DEF Connected
  <2>4. <<head>> \in Seq(Names(t)) /\ Len(<<head>>) = 1 /\ <<head>>[1] = head
    BY <2>3
  <2>5. Way(t, head, 1, <<head>>)
    BY <2>4 DEF Way
  <2> QED
    BY <2>2, <2>5
<1>3. ASSUME NEW j \in Nat, j \in S
      PROVE  j + 1 \in S
  <2> SUFFICES ASSUME (j + 1) + 1 <= m
               PROVE  Way(t, head, (j + 1) + 1, g[(j + 1) + 1])
    OBVIOUS
  <2> DEFINE n == j + 1
  <2>1. n \in Nat /\ n >= 1 /\ n < m /\ n + 1 \in 1 .. m /\ n + 1 # 1 /\ (n + 1) - 1 = n
    BY <1>1
  <2>2. Way(t, head, n, g[n])
    BY <1>1, <1>3
  <2>3. g[n + 1] = Append(g[n], Stepping(t, g[n]))
    BY <2>1 DEF RankWalkOf
  <2> HIDE DEF n
  <2>4. Way(t, head, n + 1, g[n + 1])
    BY <2>1, <2>2, <2>3, WayStep
  <2> QED
    BY <2>4 DEF n
<1> HIDE DEF S
<1>4. m - 1 \in S /\ m - 1 \in Nat /\ (m - 1) + 1 = m
  BY <1>1, <1>2, <1>3, SetInduction
<1>5. Way(t, head, m, g[m])
  BY <1>1, <1>4 DEF S
<1> DEFINE w == g[m]
<1> HIDE DEF w
<1>6. Way(t, head, m, w)
  BY <1>5 DEF w
<1>7. /\ w \in Seq(Names(t)) /\ Len(w) = m /\ w[1] = head
      /\ \A i, k \in 1 .. m : w[i] = w[k] => i = k
  BY <1>6 DEF Way
<1>8. \A n \in Names(t) : \E k \in 1 .. m : w[k] = n
  BY <1>1, <1>7, Full
<1>9. w[1] \in Adj(t, w[m])
  <2>1. m \in 1 .. m /\ w[m] \in Names(t)
    BY <1>1, <1>7
  <2>2. IsFiniteSet(Adj(t, w[m])) /\ Cardinality(Adj(t, w[m])) = 2
    BY <2>1, AdjFinite DEF Two
  <2>3. PICK u \in Adj(t, w[m]) : u # w[m - 1]
    BY <2>2, OneMore
  <2>4. PICK j \in 1 .. m : w[j] = u
    BY <1>8, AdjFacts
  <2>5. j = m - 1 \/ j = 1
    BY <1>1, <1>6, <2>3, <2>4, Ending
  <2> QED
    BY <2>3, <2>4, <2>5
<1> QED
  BY <1>6, <1>7, <1>8, <1>9 DEF Circle, w

(* Along a circle a way both round ends, so no node is more than half of    *)
(* the nodes away.                                                          *)
LEMMA HalfWay ==
  ASSUME NEW t, Graph(t), NEW w, Circle(t, w), NEW n \in Names(t)
  PROVE  n \in DOMAIN Paths(t, w[1]) /\ 2 * Len(Paths(t, w[1])[n]) <= Len(w)
<1> DEFINE paths == Paths(t, w[1])
           m == Len(w)
<1>1. /\ w \in Seq(Names(t)) /\ \A k \in 1 .. m - 1 : w[k + 1] \in Adj(t, w[k])
      /\ w[1] \in Adj(t, w[m])
      /\ \A p \in Names(t) : \E k \in 1 .. m : w[k] = p
  BY DEF Circle, Way
<1>2. m \in Nat /\ m >= 1
  <2>1. m \in Nat
    BY <1>1
  <2>2. \E k \in 1 .. m : w[k] = n
    BY <1>1
  <2> QED
    BY <2>1, <2>2
<1>3. w[1] \in Names(t) /\ \A k \in 1 .. m : w[k] \in Names(t)
  BY <1>1, <1>2
<1>4. /\ w[1] \in DOMAIN paths /\ Len(paths[w[1]]) = 0
      /\ \A p \in DOMAIN paths :
            /\ Len(paths[p]) \in Nat
            /\ \A q \in Adj(t, p) : q \in DOMAIN paths /\ Len(paths[q]) <= Len(paths[p]) + 1
  BY <1>3, PathsFacts
<1> HIDE DEF paths, m
<1> DEFINE S == {k \in Nat : k + 1 <= m => w[k + 1] \in DOMAIN paths /\ Len(paths[w[k + 1]]) <= k}
           R == {j \in Nat : m - j >= 1 => w[m - j] \in DOMAIN paths /\ Len(paths[w[m - j]]) <= j + 1}
<1>5. Nat \subseteq S
  <2>1. 0 \in S
    BY <1>4
  <2>2. ASSUME NEW k \in Nat, k \in S
        PROVE  k + 1 \in S
    <3> SUFFICES ASSUME (k + 1) + 1 <= m
                 PROVE  w[(k + 1) + 1] \in DOMAIN paths /\ Len(paths[w[(k + 1) + 1]]) <= k + 1
      OBVIOUS
    <3>1. k + 1 \in 1 .. m - 1 /\ k + 1 <= m
      BY <1>2
    <3>2. w[(k + 1) + 1] \in Adj(t, w[k + 1])
      BY <1>1, <3>1 DEF m
    <3>3. w[k + 1] \in DOMAIN paths /\ Len(paths[w[k + 1]]) <= k
      BY <2>2, <3>1
    <3>4. /\ w[(k + 1) + 1] \in DOMAIN paths /\ Len(paths[w[(k + 1) + 1]]) <= Len(paths[w[k + 1]]) + 1
          /\ Len(paths[w[k + 1]]) \in Nat
      BY <1>4, <3>2, <3>3
    <3>5. Len(paths[w[(k + 1) + 1]]) \in Nat
      BY <1>4, <3>4
    <3> QED
      BY ONLY <2>2, <3>3, <3>4, <3>5
  <2> HIDE DEF S
  <2> QED
    BY <2>1, <2>2, SetInduction
<1>6. Nat \subseteq R
  <2>1. 0 \in R
    <3>1. m - 0 = m /\ m \in 1 .. m
      BY <1>2
    <3>2. w[m] \in Adj(t, w[1])
      BY <1>1, <1>3, <3>1, AdjFacts DEF m
    <3>3. w[m] \in DOMAIN paths /\ Len(paths[w[m]]) <= 0 + 1
      BY <1>4, <3>2
    <3> QED
      BY <3>1, <3>3
  <2>2. ASSUME NEW j \in Nat, j \in R
        PROVE  j + 1 \in R
    <3> SUFFICES ASSUME m - (j + 1) >= 1
                 PROVE  w[m - (j + 1)] \in DOMAIN paths /\ Len(paths[w[m - (j + 1)]]) <= (j + 1) + 1
      OBVIOUS
    <3> DEFINE k == m - (j + 1)
    <3>1. k \in 1 .. m - 1 /\ k \in 1 .. m /\ k + 1 \in 1 .. m /\ m - j = k + 1 /\ m - j >= 1
      BY <1>2
    <3> HIDE DEF k
    <3>2. w[k + 1] \in Adj(t, w[k])
      BY <1>1, <3>1 DEF m
    <3>3. w[k] \in Adj(t, w[k + 1])
      BY <1>3, <3>1, <3>2, AdjFacts
    <3>4. w[k + 1] \in DOMAIN paths /\ Len(paths[w[k + 1]]) <= j + 1
      BY <2>2, <3>1
    <3>5. w[k] \in DOMAIN paths /\ Len(paths[w[k]]) <= Len(paths[w[k + 1]]) + 1 /\ Len(paths[w[k + 1]]) \in Nat
      BY <1>4, <3>3, <3>4
    <3>6. Len(paths[w[k]]) \in Nat
      BY <1>4, <3>5
    <3>7. Len(paths[w[k]]) <= (j + 1) + 1
      BY ONLY <2>2, <3>4, <3>5, <3>6
    <3> QED
      BY <3>5, <3>7 DEF k
  <2> HIDE DEF R
  <2> QED
    BY <2>1, <2>2, SetInduction
<1>7. PICK i \in 1 .. m : w[i] = n
  BY <1>1 DEF m
<1> HIDE DEF S, R
<1> DEFINE d == Len(paths[n])
<1>8. n \in DOMAIN paths /\ d <= i - 1
  <2>1. i - 1 \in S /\ (i - 1) + 1 = i /\ i <= m
    BY <1>2, <1>5
  <2> QED
    BY <1>7, <2>1 DEF S
<1>9. d <= (m - i) + 1
  <2>1. m - i \in R /\ m - (m - i) = i /\ i >= 1
    BY <1>2, <1>6
  <2> QED
    BY <1>7, <2>1 DEF R
<1>10. d \in Nat
  BY <1>4, <1>8
<1> HIDE DEF d
<1>11. 2 * d <= m
  BY <1>2, <1>8, <1>9, <1>10
<1> QED
  BY <1>8, <1>11 DEF d, paths, m

LEMMA CircleConnected == ASSUME NEW t, Graph(t), NEW w, Circle(t, w), Len(w) >= 1 PROVE Connected(t, w[1])
<1>1. w \in Seq(Names(t))
  BY DEF Circle, Way
<1>2. w[1] \in Names(t)
  BY <1>1
<1>3. DOMAIN Paths(t, w[1]) \subseteq Names(t)
  BY <1>2, PathsFacts
<1>4. \A n \in Names(t) : n \in DOMAIN Paths(t, w[1])
  BY HalfWay
<1> QED
  BY <1>2, <1>3, <1>4 DEF Connected

(* A complete graph, and one of two nodes: everyone is next to the head.    *)
LEMMA AllNeighbours ==
  ASSUME NEW t, Graph(t), NEW a \in Names(t), Cardinality(Adj(t, a)) = Cardinality(Names(t)) - 1,
         NEW n \in Names(t), n # a
  PROVE  n \in Adj(t, a)
<1> SUFFICES ASSUME n \notin Adj(t, a)
             PROVE  FALSE
  OBVIOUS
<1> DEFINE Z == Names(t) \ {a}
<1>1. IsFiniteSet(Z) /\ Cardinality(Z) = Cardinality(Names(t)) - 1 /\ n \in Z
  <2>1. IsFiniteSet(Names(t))
    BY DEF Graph
  <2>2. IsFiniteSet(Z) /\ Cardinality(Z) = Cardinality(Names(t)) - 1
    BY <2>1, FS_RemoveElement
  <2> QED
    BY <2>2
<1>2. Adj(t, a) \subseteq Z \ {n}
  BY AdjFacts
<1> HIDE DEF Z
<1>3. IsFiniteSet(Z \ {n}) /\ Cardinality(Z \ {n}) = Cardinality(Z) - 1
  BY <1>1, FS_RemoveElement
<1>4. Cardinality(Adj(t, a)) <= Cardinality(Z \ {n})
  BY <1>2, <1>3, FS_Subset
<1>5. Cardinality(Names(t)) \in Nat
  BY FS_CardinalityType DEF Graph
<1> QED
  BY <1>1, <1>3, <1>4, <1>5

(* The converse. *)
LEMMA NeighboursAll ==
  ASSUME NEW t, Graph(t), NEW a \in Names(t), \A n \in Names(t) : n # a => n \in Adj(t, a)
  PROVE  Cardinality(Adj(t, a)) = Cardinality(Names(t)) - 1
<1> DEFINE Z == Names(t) \ {a}
<1>1. IsFiniteSet(Names(t))
  BY DEF Graph
<1>2. Cardinality(Z) = Cardinality(Names(t)) - 1
  BY <1>1, FS_RemoveElement
<1>3. Adj(t, a) = Z
  <2>1. \A n : n \in Adj(t, a) => n \in Z
    BY AdjFacts
  <2> QED
    BY <2>1
<1> QED
  BY <1>2, <1>3

LEMMA StarConnected ==
  ASSUME NEW t, Graph(t), NEW a \in Names(t), \A n \in Names(t) : n # a => n \in Adj(t, a)
  PROVE  Connected(t, a) /\ \A n \in Names(t) : Len(Paths(t, a)[n]) <= 1
<1>1. a \in DOMAIN Paths(t, a) /\ DOMAIN Paths(t, a) \subseteq Names(t) /\ Len(Paths(t, a)[a]) = 0
  BY PathsFacts
<1>2. \A n \in Names(t) : n # a =>
         n \in DOMAIN Paths(t, a) /\ Len(Paths(t, a)[n]) <= Len(Paths(t, a)[a]) + 1
  BY <1>1, PathsFacts
<1>3. \A n \in Names(t) : n # a => Len(Paths(t, a)[n]) <= 1
  BY <1>1, <1>2
<1> QED
  BY <1>1, <1>2, <1>3 DEF Connected

LEMMA WellFormedGraph ==
  ASSUME NEW t, t.nodes \in Seq(Nat), IsInjective(t.nodes)
  PROVE  /\ Graph(t) /\ Cardinality(Names(t)) = Len(t.nodes) /\ DOMAIN t.nodes = 1 .. Len(t.nodes)
         /\ \A n \in Names(t) : \E k \in 1 .. Len(t.nodes) : t.nodes[k] = n
         /\ \A k \in 1 .. Len(t.nodes) : t.nodes[k] \in Names(t)
         /\ t.nodes \in Seq(Names(t))
         /\ \A j, k \in 1 .. Len(t.nodes) : t.nodes[j] = t.nodes[k] => j = k
<1> DEFINE w == t.nodes
           D == 1 .. Len(w)
<1>1. w \in Seq(Nat) /\ IsInjective(w) /\ Len(w) \in Nat /\ DOMAIN w = D
  OBVIOUS
<1>2. \A n : n \in Names(t) <=> \E k \in D : w[k] = n
  BY <1>1 DEF Names, ToSet
<1>3. Names(t) \subseteq Nat
  BY <1>1, <1>2
<1>4. IsFiniteSet(D) /\ Cardinality(D) = Len(w)
  BY <1>1, UpTo
<1>5. w \in [D -> Names(t)]
  BY <1>1, <1>2
<1> HIDE DEF w
<1>6. w \in Seq(Names(t))
  BY <1>1, <1>5
<1> HIDE DEF D
<1>7. \A j, k \in D : w[j] = w[k] => j = k
  BY <1>1 DEF IsInjective
<1>8. w \in Bijection(D, Names(t))
  BY <1>2, <1>5, <1>7 DEF Bijection, Injection, Surjection, IsInjective
<1>9. IsFiniteSet(Names(t)) /\ Cardinality(Names(t)) = Cardinality(D)
  BY <1>4, <1>8, FS_Bijection DEF ExistsBijection
<1>10. Graph(t)
  BY <1>1, <1>3, <1>4, <1>9 DEF Graph, w
<1> QED
  BY <1>1, <1>2, <1>4, <1>6, <1>7, <1>9, <1>10 DEF w, D

LEMMA HopTaken ==
  ASSUME NEW t, NEW x \in Names(t), NEW y \in Adj(t, x),
         \A l \in t.links : \A n \in DOMAIN l : l[n] \in Nat
  PROVE  \E l \in Between(t, x, y) : l[y] = HopAddress(t, x, y)
<1> DEFINE B == Between(t, x, y)
           A == {l[y] : l \in B}
<1>1. B # {}
  BY AdjFacts
<1>2. \A l \in B : l \in t.links /\ y \in DOMAIN l
  BY DEF Between
<1>3. A # {} /\ A \subseteq Nat
  BY <1>1, <1>2
<1>4. Min(A) \in A
  BY <1>3, LeastExists
<1> QED
  BY <1>4 DEF HopAddress

-----------------------------------------------------------------------------
(* Graphs that differ in the order of their nodes only. *)

Same(t, u) == Names(t) = Names(u) /\ t.links = u.links

LEMMA SameAdj ==
  ASSUME NEW t, NEW u, Same(t, u), NEW n
  PROVE  /\ Adj(t, n) = Adj(u, n)
         /\ \A m : Between(t, n, m) = Between(u, n, m) /\ HopAddress(t, n, m) = HopAddress(u, n, m)
BY DEF Same, Adj, Between, HopAddress

LEMMA SameConnected ==
  ASSUME NEW t, NEW u, Same(t, u), Graph(t), Graph(u), NEW head, Connected(t, head)
  PROVE  Connected(u, head)
<1>1. head \in Names(u)
  BY DEF Connected, Same
<1>2. ASSUME NEW C, head \in C, Closes(u, C)
      PROVE  Names(u) \subseteq C
  <2>1. Closes(t, C)
    BY <1>2, SameAdj DEF Closes
  <2>2. Names(t) \subseteq C
    BY <1>2, <2>1, ConnectedCloses
  <2> QED
    BY <2>2 DEF Same
<1> QED
  BY <1>1, <1>2, ClosesConnected

LEMMA SameCircle ==
  ASSUME NEW t, NEW u, Same(t, u), NEW w, Circle(t, w)
  PROVE  Circle(u, w)
<1>1. \A n : Adj(t, n) = Adj(u, n)
  BY SameAdj
<1>2. Names(t) = Names(u)
  BY DEF Same
<1> QED
  BY <1>1, <1>2 DEF Circle, Way

(* A connected graph stays connected from any node.                         *)
LEMMA Rerooted ==
  ASSUME NEW t, Graph(t), NEW a, Connected(t, a), NEW b \in Names(t)
  PROVE  Connected(t, b)
<1>0. a \in Names(t)
  BY DEF Connected
<1>1. ASSUME NEW C, b \in C, Closes(t, C)
      PROVE  Names(t) \subseteq C
  <2> DEFINE K == Names(t) \ C
  <2>1. Closes(t, K)
    <3> SUFFICES ASSUME NEW n \in K, NEW p \in Adj(t, n)
                 PROVE  p \in K
      BY DEF Closes
    <3>1. p \in Names(t) /\ n \in Names(t) /\ n \notin C
      BY AdjFacts
    <3>2. n \in Adj(t, p)
      BY <3>1, AdjFacts
    <3>3. p \notin C
      BY <1>1, <3>1, <3>2 DEF Closes
    <3> QED
      BY <3>1, <3>3
  <2>2. a \in C
    <3> SUFFICES ASSUME a \notin C
                 PROVE  FALSE
      OBVIOUS
    <3>1. a \in K
      BY <1>0
    <3> HIDE DEF K
    <3>2. Names(t) \subseteq K
      BY <2>1, <3>1, ConnectedCloses
    <3> QED
      BY <1>1, <3>2 DEF K
  <2> QED
    BY <1>1, <2>2, ConnectedCloses
<1> QED
  BY <1>1, ClosesConnected

LEMMA SameWellFormed ==
  ASSUME NEW t, NEW u, Same(t, u), t.nodes \in Seq(Nat), u.nodes \in Seq(Nat), IsInjective(u.nodes), WellFormed(t)
  PROVE  WellFormed(u) /\ Len(u.nodes) = Len(t.nodes)
<1>1. IsInjective(t.nodes) /\ t.nodes # <<>> /\ Connected(t, t.nodes[1])
  BY DEF WellFormed
<1>2. Graph(t) /\ Cardinality(Names(t)) = Len(t.nodes)
  BY <1>1, WellFormedGraph
<1>3. Graph(u) /\ Cardinality(Names(u)) = Len(u.nodes) /\ \A k \in 1 .. Len(u.nodes) : u.nodes[k] \in Names(u)
  BY WellFormedGraph
<1>4. Names(t) = Names(u) /\ t.links = u.links
  BY DEF Same
<1>5. Len(u.nodes) = Len(t.nodes)
  BY <1>2, <1>3, <1>4
<1>6. Len(t.nodes) >= 1 /\ Len(t.nodes) \in Nat
  BY <1>1
<1>7. u.nodes # <<>>
  BY <1>5, <1>6
<1>8. u.nodes[1] \in Names(t)
  BY <1>3, <1>4, <1>5, <1>6
<1>9. Connected(t, u.nodes[1])
  BY <1>1, <1>2, <1>8, Rerooted
<1>10. Connected(u, u.nodes[1])
  BY <1>2, <1>3, <1>9, SameConnected
<1>11. \A l \in u.links :
          /\ Cardinality(DOMAIN l) = 2 /\ DOMAIN l \subseteq Names(u)
          /\ \A n \in DOMAIN l : l[n] \notin Names(u) \ {n}
          /\ \A k \in u.links : \A n \in DOMAIN l, m \in DOMAIN k : l[n] = k[m] => n = m
  <2>1. \A l \in t.links :
          /\ Cardinality(DOMAIN l) = 2 /\ DOMAIN l \subseteq Names(t)
          /\ \A n \in DOMAIN l : l[n] \notin Names(t) \ {n}
          /\ \A k \in t.links : \A n \in DOMAIN l, m \in DOMAIN k : l[n] = k[m] => n = m
    BY DEF WellFormed
  <2> QED
    BY <1>4, <2>1
<1> QED
  BY <1>5, <1>7, <1>10, <1>11 DEF WellFormed

(* A rank order that is not empty is one of all nodes, the head first, of a *)
(* connected graph that is complete or a ring the order goes round.         *)
LEMMA Ranked ==
  ASSUME NEW t, t.nodes \in Seq(Nat), IsInjective(t.nodes), NEW head, NEW w, w = RankOrder(t, head), w # <<>>
  PROVE  /\ w \in Seq(Names(t)) /\ Len(w) = Len(t.nodes) /\ w[1] = head
         /\ \A j, k \in 1 .. Len(w) : w[j] = w[k] => j = k
         /\ \A n \in Names(t) : \E k \in 1 .. Len(w) : w[k] = n
         /\ Connected(t, head)
         /\ Complete(t) \/ (Ring(t) /\ Circle(t, w))
<1> DEFINE m == Len(t.nodes)
<1>1. Graph(t) /\ Cardinality(Names(t)) = m /\ m \in Nat /\ IsFiniteSet(Names(t)) /\ Names(t) \subseteq Nat
  BY WellFormedGraph DEF Graph
<1>2. PICK g : /\ RankWalkOf(t, head, m, g)
               /\ RankOrder(t, head) =
                      IF ~Connected(t, head) THEN <<>>
                      ELSE IF Complete(t) THEN <<head>> \o Ascending(Names(t) \ {head})
                      ELSE IF Ring(t) THEN g[m]
                      ELSE <<>>
  BY <1>1, RankOrderIs
<1>3. Connected(t, head) /\ head \in Names(t)
  BY <1>2 DEF Connected
<1> HIDE DEF m
<1>4. CASE Complete(t)
  <2> DEFINE rest == Names(t) \ {head}
             asc == Ascending(rest)
             v == <<head>> \o asc
  <2>1. w = v
    BY <1>2, <1>3, <1>4
  <2>2. IsFiniteSet(rest) /\ Cardinality(rest) = m - 1 /\ rest \subseteq Nat
    <3>1. IsFiniteSet(rest) /\ Cardinality(rest) = Cardinality(Names(t)) - 1
      BY <1>1, <1>3, FS_RemoveElement
    <3> QED
      BY <1>1, <3>1
  <2>3. /\ asc \in [1 .. m - 1 -> rest] /\ m - 1 \in Nat
        /\ \A j, k \in 1 .. m - 1 : asc[j] = asc[k] => j = k
    BY <2>2, AscendingLists
  <2>4. asc \in Seq(Names(t)) /\ Len(asc) = m - 1
    <3>1. asc \in [1 .. m - 1 -> Names(t)]
      BY <2>3
    <3> HIDE DEF asc
    <3> QED
      BY <2>3, <3>1
  <2>5. <<head>> \in Seq(Names(t)) /\ Len(<<head>>) = 1 /\ <<head>>[1] = head
    BY <1>3
  <2> HIDE DEF asc
  <2>6. /\ v \in Seq(Names(t)) /\ Len(v) = Len(<<head>>) + Len(asc)
        /\ \A a \in 1 .. Len(<<head>>) : v[a] = <<head>>[a]
        /\ \A k \in 1 .. Len(asc) : v[Len(<<head>>) + k] = asc[k]
    BY <2>4, <2>5, Joining
  <2> HIDE DEF v
  <2>7. v \in Seq(Names(t)) /\ Len(v) = m /\ v[1] = head /\ \A k \in 1 .. m - 1 : v[1 + k] = asc[k]
    BY <1>1, <2>4, <2>5, <2>6
  <2>8. \A a \in 2 .. m : a - 1 \in 1 .. m - 1 /\ v[a] = asc[a - 1] /\ v[a] # head
    <3> SUFFICES ASSUME NEW a \in 2 .. m
                 PROVE  a - 1 \in 1 .. m - 1 /\ v[a] = asc[a - 1] /\ v[a] # head
      OBVIOUS
    <3>1. a - 1 \in 1 .. m - 1 /\ 1 + (a - 1) = a
      BY <1>1
    <3>2. v[a] = asc[a - 1]
      BY <2>7, <3>1
    <3>3. asc[a - 1] \in rest
      BY <2>3, <3>1
    <3> QED
      BY <3>1, <3>2, <3>3
  <2>9. \A j, k \in 1 .. m : v[j] = v[k] => j = k
    <3> SUFFICES ASSUME NEW j \in 1 .. m, NEW k \in 1 .. m, v[j] = v[k]
                 PROVE  j = k
      OBVIOUS
    <3>1. CASE j = 1
      <4>1. k \notin 2 .. m
        BY <2>7, <2>8, <3>1
      <4> QED
        BY <3>1, <4>1
    <3>2. CASE k = 1
      <4>1. j \notin 2 .. m
        BY <2>7, <2>8, <3>2
      <4> QED
        BY <3>2, <4>1
    <3>3. CASE j # 1 /\ k # 1
      <4>1. j \in 2 .. m /\ k \in 2 .. m
        BY <3>3
      <4>2. j - 1 = k - 1
        BY <2>3, <2>8, <4>1
      <4> QED
        BY <4>2
    <3> QED
      BY <3>1, <3>2, <3>3
  <2>10. \A n \in Names(t) : \E k \in 1 .. m : v[k] = n
    BY <1>1, <2>7, <2>9, Full
  <2> QED
    BY <1>3, <1>4, <2>1, <2>7, <2>9, <2>10 DEF m
<1>5. CASE ~Complete(t)
  <2>1. Ring(t) /\ w = g[m]
    BY <1>2, <1>3, <1>5
  <2>2. Two(t) /\ m >= 3
    BY <1>1, <2>1 DEF Ring, Two, m
  <2>3. Circle(t, w) /\ Way(t, head, m, w)
    BY <1>1, <1>2, <1>3, <2>1, <2>2, RingWalk
  <2>4. w \in Seq(Names(t)) /\ Len(w) = m /\ w[1] = head /\ \A j, k \in 1 .. m : w[j] = w[k] => j = k
    BY <2>3 DEF Way
  <2>5. \A n \in Names(t) : \E k \in 1 .. Len(w) : w[k] = n
    BY <2>3 DEF Circle
  <2> QED
    BY <1>3, <2>1, <2>3, <2>4, <2>5 DEF m
<1> QED
  BY <1>4, <1>5

-----------------------------------------------------------------------------
(* Valid orders. *)

Shaped(t) == Complete(t) \/ (Ring(t) /\ Circle(t, t.nodes))

LEMMA TurnOf ==
  ASSUME NEW m \in Nat, NEW k \in 1 .. m
  PROVE  (k % m) + 1 = IF k = m THEN 1 ELSE k + 1
<1>1. CASE k = m
  <2>1. m % m = 0
    BY <1>1
  <2> QED
    BY <1>1, <2>1
<1>2. CASE k # m
  <2>1. k \in 0 .. m - 1
    BY <1>2
  <2>2. k % m = k
    BY <2>1
  <2> QED
    BY <1>2, <2>2
<1> QED
  BY <1>1, <1>2

LEMMA CircleTurns ==
  ASSUME NEW t, NEW w, Circle(t, w), NEW i \in 1 .. Len(w)
  PROVE  w[(i % Len(w)) + 1] \in Adj(t, w[i])
<1>1. /\ Len(w) \in Nat /\ w[1] \in Adj(t, w[Len(w)])
      /\ \A k \in 1 .. Len(w) - 1 : w[k + 1] \in Adj(t, w[k])
  <2>1. w \in Seq(Names(t))
    BY DEF Circle, Way
  <2> QED
    BY <2>1 DEF Circle, Way
<1>2. (i % Len(w)) + 1 = IF i = Len(w) THEN 1 ELSE i + 1
  BY <1>1, TurnOf
<1>3. CASE i = Len(w)
  BY <1>1, <1>2, <1>3
<1>4. CASE i # Len(w)
  <2>1. i \in 1 .. Len(w) - 1
    BY <1>1, <1>4
  <2> QED
    BY <1>1, <1>2, <1>4, <2>1
<1> QED
  BY <1>3, <1>4

(* All nodes, in any order that is a way round if the graph is a ring.      *)
LEMMA ValidWhole ==
  ASSUME NEW t, NEW u, Same(t, u), u = [nodes |-> u.nodes, links |-> u.links],
         u.nodes \in Seq(Nat), WellFormed(u), Shaped(u)
  PROVE  ValidOrder(t, u.nodes)
<1> DEFINE w == u.nodes
<1>1. ToSet(w) = Names(u) /\ Names(u) = Names(t) /\ t.links = u.links
  BY DEF Names, Same
<1>2. \A l \in u.links : DOMAIN l \subseteq Names(u)
  BY DEF WellFormed
<1>3. {l \in t.links : DOMAIN l \subseteq ToSet(w)} = u.links
  BY <1>1, <1>2
<1>4. Selected(t, w) = u
  BY <1>3 DEF Selected
<1> HIDE DEF w
<1>5. Complete(u) \/ (Ring(u) /\ \A i \in 1 .. Len(w) : w[(i % Len(w)) + 1] \in Adj(u, w[i]))
  <2>1. CASE Complete(u)
    BY <2>1
  <2>2. CASE Ring(u) /\ Circle(u, w)
    <3>1. \A i \in 1 .. Len(w) : w[(i % Len(w)) + 1] \in Adj(u, w[i])
      BY <2>2, CircleTurns
    <3> QED
      BY <2>2, <3>1
  <2> QED
    BY <2>1, <2>2 DEF Shaped, w
<1>6. ValidOrder(t, w)
  BY <1>1, <1>4, <1>5 DEF ValidOrder
<1> QED
  BY <1>6 DEF w

(* The first two nodes, if they are neighbours.                             *)
LEMMA ValidPair ==
  ASSUME NEW t, WellFormed(t), NEW a, NEW b, a \in Nat, b \in Nat, a # b,
         a \in Names(t), b \in Names(t), b \in Adj(t, a)
  PROVE  ValidOrder(t, <<a, b>>)
<1> DEFINE q == <<a, b>>
           s == Selected(t, q)
<1>1. q \in Seq(Nat) /\ Len(q) = 2 /\ q[1] = a /\ q[2] = b /\ q # <<>> /\ DOMAIN q = 1 .. 2
  OBVIOUS
<1>2. ToSet(q) = {a, b}
  BY DEF ToSet
<1>3. IsInjective(q)
  BY DEF IsInjective
<1> HIDE DEF q
<1>4. s.nodes = q /\ s.links = {l \in t.links : DOMAIN l \subseteq {a, b}}
  BY <1>2 DEF Selected
<1> HIDE DEF s
<1>5. Names(s) = {a, b}
  BY <1>2, <1>4 DEF Names
<1>6. Graph(s) /\ Cardinality(Names(s)) = 2
  <2>1. s.nodes \in Seq(Nat) /\ IsInjective(s.nodes) /\ Len(s.nodes) = 2
    BY <1>1, <1>3, <1>4
  <2> QED
    BY <2>1, WellFormedGraph
<1>7. b \in Adj(s, a)
  <2>1. Between(t, a, b) # {}
    BY AdjFacts
  <2>2. PICK l \in t.links : DOMAIN l = {a, b}
    BY <2>1 DEF Between
  <2>3. l \in Between(s, a, b)
    BY <1>4, <2>2 DEF Between
  <2> QED
    BY <1>5, <2>3 DEF Adj
<1>8. a \in Adj(s, b)
  BY <1>5, <1>7, AdjFacts
<1>9. Connected(s, s.nodes[1])
  BY <1>1, <1>4, <1>5, <1>6, <1>7, StarConnected
<1>10. Complete(s)
  <2>1. ASSUME NEW n \in Names(s)
        PROVE  Cardinality(Adj(s, n)) = 1
    <3>1. \A k \in Names(s) : k # n => k \in Adj(s, n)
      BY <1>5, <1>7, <1>8
    <3>2. Cardinality(Adj(s, n)) = Cardinality(Names(s)) - 1
      BY <1>6, <3>1, NeighboursAll
    <3> QED
      BY <1>6, <3>2
  <2>2. Len(s.nodes) - 1 = 1
    BY <1>1, <1>4
  <2> QED
    BY <2>1, <2>2 DEF Complete
<1>11. \A l \in s.links :
          /\ Cardinality(DOMAIN l) = 2 /\ DOMAIN l \subseteq Names(s)
          /\ \A n \in DOMAIN l : l[n] \notin Names(s) \ {n}
          /\ \A k \in s.links : \A n \in DOMAIN l, m \in DOMAIN k : l[n] = k[m] => n = m
  <2>1. \A l \in t.links :
          /\ Cardinality(DOMAIN l) = 2 /\ DOMAIN l \subseteq Names(t)
          /\ \A n \in DOMAIN l : l[n] \notin Names(t) \ {n}
          /\ \A k \in t.links : \A n \in DOMAIN l, m \in DOMAIN k : l[n] = k[m] => n = m
    BY DEF WellFormed
  <2>2. \A l \in s.links : l \in t.links /\ DOMAIN l \subseteq Names(s)
    BY <1>4, <1>5
  <2>3. Names(s) \subseteq Names(t)
    BY <1>5
  <2> QED
    BY <2>1, <2>2, <2>3
<1>12. WellFormed(s)
  BY <1>1, <1>3, <1>4, <1>9, <1>11 DEF WellFormed
<1>13. ToSet(q) \subseteq Names(t)
  BY <1>2
<1>14. ValidOrder(t, q)
  BY <1>10, <1>12, <1>13 DEF ValidOrder, s
<1> QED
  BY <1>14 DEF q

(* What is true of every graph that is saved.                               *)
GraphOf(e) == [nodes |-> e.nodes, links |-> e.links]
Sound(h, e) ==
    LET t == GraphOf(e) IN
    /\ e.nodes \in Seq(Nat) /\ Len(e.nodes) >= 2 /\ e.nodes[1] = h
    /\ \A l \in e.links : \A n \in DOMAIN l : l[n] \in Nat
    /\ WellFormed(t) /\ Shaped(t)
    /\ IF e.by = "discover" THEN e.ring /\ (Len(e.nodes) = 2 \/ Ring(t)) ELSE (e.ring <=> Ring(t))

LEMMA SoundFacts ==
  ASSUME NEW h, NEW e, Sound(h, e), NEW t, t = GraphOf(e)
  PROVE  /\ t.nodes = e.nodes /\ t.links = e.links /\ t = [nodes |-> t.nodes, links |-> t.links]
         /\ Graph(t) /\ Cardinality(Names(t)) = Len(t.nodes) /\ Names(t) \subseteq Nat
         /\ Len(t.nodes) \in Nat /\ Len(t.nodes) >= 2 /\ h \in Names(t) /\ t.nodes[1] = h
         /\ t.nodes[2] \in Names(t) /\ t.nodes[2] # h /\ t.nodes[2] \in Adj(t, h)
         /\ Connected(t, h)
<1>1. t.nodes = e.nodes /\ t.links = e.links /\ t = [nodes |-> t.nodes, links |-> t.links]
  BY DEF GraphOf
<1>2. t.nodes \in Seq(Nat) /\ Len(t.nodes) >= 2 /\ t.nodes[1] = h /\ WellFormed(t) /\ Shaped(t)
  BY <1>1 DEF Sound
<1>3. IsInjective(t.nodes) /\ Connected(t, h)
  BY <1>2 DEF WellFormed
<1>4. /\ Graph(t) /\ Cardinality(Names(t)) = Len(t.nodes)
      /\ \A k \in 1 .. Len(t.nodes) : t.nodes[k] \in Names(t)
      /\ \A j, k \in 1 .. Len(t.nodes) : t.nodes[j] = t.nodes[k] => j = k
  BY <1>2, <1>3, WellFormedGraph
<1>5. Len(t.nodes) \in Nat /\ 1 \in 1 .. Len(t.nodes) /\ 2 \in 1 .. Len(t.nodes)
  BY <1>2
<1>6. h \in Names(t) /\ t.nodes[2] \in Names(t) /\ t.nodes[2] # h
  BY <1>2, <1>4, <1>5
<1>7. t.nodes[2] \in Adj(t, h)
  <2>1. CASE Complete(t)
    <3>1. Cardinality(Adj(t, h)) = Cardinality(Names(t)) - 1
      BY <1>4, <1>6, <2>1 DEF Complete
    <3> QED
      BY <1>4, <1>6, <3>1, AllNeighbours
  <2>2. CASE Circle(t, t.nodes)
    <3>1. 1 \in 1 .. Len(t.nodes) - 1 /\ 1 + 1 = 2
      BY <1>2, <1>5
    <3>2. t.nodes[1 + 1] \in Adj(t, t.nodes[1])
      BY <2>2, <3>1 DEF Circle, Way
    <3> QED
      BY <1>2, <3>1, <3>2
  <2> QED
    BY <1>2, <2>1, <2>2 DEF Shaped
<1>8. Names(t) \subseteq Nat
  BY <1>4 DEF Graph
<1> QED
  BY <1>1, <1>2, <1>3, <1>4, <1>5, <1>6, <1>7, <1>8

LEMMA SoundRanks ==
  ASSUME NEW h, NEW e, Sound(h, e), NEW t, t = GraphOf(e)
  PROVE  RankOrder(t, h) # <<>>
<1>1. /\ Graph(t) /\ Cardinality(Names(t)) = Len(t.nodes) /\ Len(t.nodes) \in Nat /\ Len(t.nodes) >= 2
      /\ Connected(t, h) /\ h \in Names(t) /\ IsFiniteSet(Names(t)) /\ Names(t) \subseteq Nat
  BY SoundFacts DEF Graph
<1>2. PICK g : /\ RankWalkOf(t, h, Len(t.nodes), g)
               /\ RankOrder(t, h) =
                      IF ~Connected(t, h) THEN <<>>
                      ELSE IF Complete(t) THEN <<h>> \o Ascending(Names(t) \ {h})
                      ELSE IF Ring(t) THEN g[Len(t.nodes)]
                      ELSE <<>>
  BY <1>1, RankOrderIs
<1>3. CASE Complete(t)
  <2> DEFINE rest == Names(t) \ {h}
             asc == Ascending(rest)
  <2>1. IsFiniteSet(rest) /\ rest \subseteq Nat
    BY <1>1, FS_RemoveElement
  <2>2. asc \in [1 .. Cardinality(rest) -> rest] /\ Cardinality(rest) \in Nat
    BY <2>1, AscendingLists
  <2> HIDE DEF asc, rest
  <2>3. asc \in Seq(rest)
    BY <2>2
  <2>4. asc \in Seq(Names(t)) /\ <<h>> \in Seq(Names(t)) /\ Len(<<h>>) = 1
    <3>1. asc \in [1 .. Cardinality(rest) -> Names(t)]
      BY <2>2 DEF rest
    <3> QED
      BY <1>1, <2>2, <3>1
  <2>5. Len(<<h>> \o asc) = Len(<<h>>) + Len(asc) /\ Len(asc) \in Nat
    BY <2>4
  <2>6. <<h>> \o asc # <<>>
    BY <2>4, <2>5
  <2> QED
    BY <1>1, <1>2, <1>3, <2>6 DEF asc, rest
<1>4. CASE ~Complete(t)
  <2>1. Ring(t)
    BY <1>4 DEF Sound, Shaped
  <2>2. Two(t) /\ Cardinality(Names(t)) >= 3
    BY <1>1, <2>1 DEF Ring, Two
  <2> DEFINE w == g[Len(t.nodes)]
  <2>3. Way(t, h, Len(t.nodes), w)
    BY <1>1, <1>2, <2>2, RingWalk
  <2>4. Len(w) = Len(t.nodes)
    BY <2>3 DEF Way
  <2>5. w # <<>>
    BY <1>1, <2>4
  <2> QED
    BY <1>1, <1>2, <1>4, <2>1, <2>5
<1> QED
  BY <1>3, <1>4

(* Links that join each node of an order to the next one are a way round.   *)
After(m, k) == IF k = m THEN 1 ELSE k + 1
Around(t, m) ==
    \A j, k \in 1 .. m : t.nodes[j] \in Adj(t, t.nodes[k]) <=> (k = After(m, j) \/ j = After(m, k))

LEMMA RingGraph ==
  ASSUME NEW t, t.nodes \in Seq(Nat), IsInjective(t.nodes), NEW m, m = Len(t.nodes), m >= 3, Around(t, m)
  PROVE  /\ Circle(t, t.nodes) /\ Connected(t, t.nodes[1])
         /\ m = 3 => Complete(t) /\ ~Ring(t)
         /\ m >= 4 => Ring(t) /\ ~Complete(t)
<1> DEFINE w == t.nodes
<1>1. /\ Graph(t) /\ Cardinality(Names(t)) = m /\ m \in Nat
      /\ w \in Seq(Names(t)) /\ Len(w) = m
      /\ \A n \in Names(t) : \E k \in 1 .. m : w[k] = n
      /\ \A k \in 1 .. m : w[k] \in Names(t)
      /\ \A j, k \in 1 .. m : w[j] = w[k] => j = k
  BY WellFormedGraph
<1>2. \A j, k \in 1 .. m : w[j] \in Adj(t, w[k]) <=> (k = After(m, j) \/ j = After(m, k))
  BY DEF Around
<1>w. t.nodes = w
  OBVIOUS
<1> HIDE DEF w
<1>3. ASSUME NEW k \in 1 .. m - 1
      PROVE  w[k + 1] \in Adj(t, w[k])
  <2>1. k \in 1 .. m /\ k + 1 \in 1 .. m /\ k + 1 = After(m, k)
    BY <1>1 DEF After
  <2> QED
    BY <1>2, <2>1
<1>4. w[1] \in Adj(t, w[m])
  <2>1. 1 \in 1 .. m /\ m \in 1 .. m /\ 1 = After(m, m)
    BY <1>1 DEF After
  <2> QED
    BY <1>2, <2>1
<1>5. Circle(t, w)
  BY <1>1, <1>3, <1>4 DEF Circle, Way
<1>6. Connected(t, w[1])
  BY <1>1, <1>5, CircleConnected
<1> DEFINE Before1(k) == IF k = 1 THEN m ELSE k - 1
<1>7. ASSUME NEW k \in 1 .. m
      PROVE  /\ After(m, k) \in 1 .. m /\ Before1(k) \in 1 .. m /\ After(m, k) # k /\ Before1(k) # k
             /\ After(m, k) # Before1(k) /\ After(m, Before1(k)) = k
             /\ \A j \in 1 .. m : k = After(m, j) => j = Before1(k)
  <2>1. m \in Nat /\ m >= 3
    BY <1>1
  <2>2. After(m, k) \in 1 .. m /\ After(m, k) # k
    BY ONLY <2>1, k \in 1 .. m DEF After
  <2>3. Before1(k) \in 1 .. m /\ Before1(k) # k
    BY ONLY <2>1, k \in 1 .. m DEF Before1
  <2>4. After(m, k) # Before1(k)
    BY ONLY <2>1, k \in 1 .. m DEF After, Before1
  <2>5. After(m, Before1(k)) = k
    BY ONLY <2>1, k \in 1 .. m DEF After, Before1
  <2>6. ASSUME NEW j \in 1 .. m, k = After(m, j)
        PROVE  j = Before1(k)
    BY ONLY <2>1, <2>6, k \in 1 .. m, j \in 1 .. m DEF After, Before1
  <2> QED
    BY <2>2, <2>3, <2>4, <2>5, <2>6
<1> HIDE DEF Before1
<1>8. ASSUME NEW n \in Names(t)
      PROVE  Cardinality(Adj(t, n)) = 2
  <2>1. PICK k \in 1 .. m : w[k] = n
    BY <1>1
  <2> DEFINE a == w[After(m, k)]
             b == w[Before1(k)]
  <2>2. After(m, k) \in 1 .. m /\ Before1(k) \in 1 .. m /\ After(m, k) # Before1(k) /\ After(m, Before1(k)) = k
    BY <1>7
  <2>3. a # b
    BY <1>1, <2>2
  <2>4. a \in Adj(t, n) /\ b \in Adj(t, n)
    BY <1>2, <2>1, <2>2
  <2>5. ASSUME NEW p \in Adj(t, n)
        PROVE  p = a \/ p = b
    <3>1. PICK j \in 1 .. m : w[j] = p
      BY <1>1, AdjFacts
    <3>2. k = After(m, j) \/ j = After(m, k)
      BY <1>2, <2>1, <3>1
    <3>3. j = Before1(k) \/ j = After(m, k)
      BY <1>7, <3>2
    <3> QED
      BY <3>1, <3>3
  <2> HIDE DEF a, b
  <2>6. Adj(t, n) = {a} \cup {b}
    BY <2>4, <2>5
  <2>7. IsFiniteSet({a}) /\ Cardinality({a}) = 1
    BY FS_Singleton
  <2>8. b \notin {a}
    BY <2>3
  <2>9. Cardinality({a} \cup {b}) = Cardinality({a}) + 1
    BY <2>7, <2>8, FS_AddElement
  <2> QED
    BY <2>6, <2>7, <2>9
<1>9. w[1] \in Names(t)
  BY <1>1
<1>10. ASSUME m = 3
       PROVE  Complete(t) /\ ~Ring(t)
  <2>1. Len(t.nodes) = 3
    BY <1>1, <1>w, <1>10
  <2>2. Len(t.nodes) - 1 = 2 /\ ~(Len(t.nodes) >= 4)
    BY <2>1
  <2> QED
    BY <1>8, <2>2 DEF Complete, Ring
<1>11. m >= 4 => Ring(t) /\ ~Complete(t)
  BY <1>1, <1>8, <1>9, <1>w DEF Complete, Ring
<1> QED
  BY <1>5, <1>6, <1>10, <1>11, <1>w

(* Links between all nodes are complete.                                    *)
LEMMA StarGraph ==
  ASSUME NEW t, t.nodes \in Seq(Nat), IsInjective(t.nodes), Len(t.nodes) >= 1,
         \A n \in Names(t) : \A m \in Names(t) : m # n => m \in Adj(t, n)
  PROVE  Complete(t) /\ Connected(t, t.nodes[1]) /\ ~Ring(t)
<1>1. /\ Graph(t) /\ Cardinality(Names(t)) = Len(t.nodes) /\ Len(t.nodes) \in Nat
      /\ \A k \in 1 .. Len(t.nodes) : t.nodes[k] \in Names(t)
  BY WellFormedGraph
<1>2. t.nodes[1] \in Names(t)
  BY <1>1
<1>3. \A n \in Names(t) : Cardinality(Adj(t, n)) = Len(t.nodes) - 1
  BY <1>1, NeighboursAll
<1>4. Connected(t, t.nodes[1])
  BY <1>1, <1>2, StarConnected
<1>5. ~Ring(t)
  BY <1>1, <1>2, <1>3 DEF Ring
<1> QED
  BY <1>3, <1>4, <1>5 DEF Complete

(* The link of a pair of interfaces. *)
LinkOf(A, q) == Link(A, {q[1], q[2]})
Joins(l, A, q) ==
    DOMAIN l = {q[1][1], q[2][1]} /\ l[q[1][1]] = A[q[1]] /\ l[q[2][1]] = A[q[2]]

LEMMA LinkEnds ==
  ASSUME NEW A, NEW q, q[1][1] # q[2][1]
  PROVE  Joins(LinkOf(A, q), A, q)
<1> DEFINE x == q[1]
           y == q[2]
           w == {x, y}
           D == {z[1] : z \in w}
           l == LinkOf(A, q)
<1>1. l = [n \in D |-> A[CHOOSE z \in w : z[1] = n]]
  BY DEF Link, LinkOf
<1>x. x[1] # y[1]
  OBVIOUS
<1> HIDE DEF x, y
<1>2. D = {x[1], y[1]}
  OBVIOUS
<1>3. (CHOOSE z \in w : z[1] = x[1]) = x
  BY <1>x
<1>4. (CHOOSE z \in w : z[1] = y[1]) = y
  BY <1>x
<1> HIDE DEF D, w, l
<1>5. DOMAIN l = D
  BY <1>1
<1>6. x[1] \in D /\ y[1] \in D
  BY <1>2
<1>7. l[x[1]] = A[CHOOSE z \in w : z[1] = x[1]] /\ l[y[1]] = A[CHOOSE z \in w : z[1] = y[1]]
  BY <1>1, <1>6
<1>8. DOMAIN l = {x[1], y[1]} /\ l[x[1]] = A[x] /\ l[y[1]] = A[y]
  BY <1>2, <1>3, <1>4, <1>5, <1>7
<1> QED
  BY <1>8 DEF Joins, l, x, y

Couples(A, P, V) ==
    \A q \in P : /\ q[1] \in DOMAIN A /\ q[2] \in DOMAIN A /\ q[1][1] # q[2][1]
                 /\ q[1][1] \in V /\ q[2][1] \in V

Met(P, n, m) == \E q \in P : (q[1][1] = n /\ q[2][1] = m) \/ (q[1][1] = m /\ q[2][1] = n)

LEMMA LinksGraph ==
  ASSUME NEW t, NEW A, IsInjective(A), NEW P, Couples(A, P, Names(t)),
         \A i \in DOMAIN A : A[i] \in Nat /\ A[i] \notin Names(t),
         \A l : l \in t.links <=> \E q \in P : l = LinkOf(A, q)
  PROVE  /\ \A l \in t.links :
              /\ Cardinality(DOMAIN l) = 2 /\ DOMAIN l \subseteq Names(t)
              /\ \A n \in DOMAIN l : l[n] \notin Names(t) \ {n}
              /\ \A k \in t.links : \A n \in DOMAIN l, m \in DOMAIN k : l[n] = k[m] => n = m
         /\ \A l \in t.links : \A n \in DOMAIN l : l[n] \in Nat
         /\ \A n, m \in Names(t) : m \in Adj(t, n) <=> n # m /\ Met(P, n, m)
<1>1. ASSUME NEW l \in t.links
      PROVE  \E q \in P : Joins(l, A, q)
  <2>1. PICK q \in P : l = LinkOf(A, q)
    BY <1>1
  <2>2. q[1][1] # q[2][1]
    BY DEF Couples
  <2> QED
    BY <2>1, <2>2, LinkEnds
<1>2. ASSUME NEW l \in t.links, NEW n \in DOMAIN l
      PROVE  \E i \in DOMAIN A : l[n] = A[i] /\ i[1] = n /\ n \in Names(t)
  <2>1. PICK q \in P : Joins(l, A, q)
    BY <1>1, <1>2
  <2>2. q[1] \in DOMAIN A /\ q[2] \in DOMAIN A /\ q[1][1] \in Names(t) /\ q[2][1] \in Names(t)
    BY DEF Couples
  <2>3. n = q[1][1] \/ n = q[2][1]
    BY <1>2, <2>1 DEF Joins
  <2>4. l[q[1][1]] = A[q[1]] /\ l[q[2][1]] = A[q[2]]
    BY <2>1 DEF Joins
  <2> QED
    BY <2>2, <2>3, <2>4
<1>3. \A l \in t.links : DOMAIN l \subseteq Names(t) /\ \A n \in DOMAIN l : l[n] \in Nat /\ l[n] \notin Names(t)
  <2>1. ASSUME NEW l \in t.links, NEW n \in DOMAIN l
        PROVE  n \in Names(t) /\ l[n] \in Nat /\ l[n] \notin Names(t)
    <3>1. PICK i \in DOMAIN A : l[n] = A[i] /\ n \in Names(t)
      BY <1>2
    <3> QED
      BY <3>1
  <2> QED
    BY <2>1
<1>4. ASSUME NEW l \in t.links
      PROVE  Cardinality(DOMAIN l) = 2
  <2>1. PICK q \in P : DOMAIN l = {q[1][1], q[2][1]}
    BY <1>1, <1>4 DEF Joins
  <2> DEFINE a == q[1][1]
             b == q[2][1]
  <2>2. a # b
    BY DEF Couples
  <2>3. DOMAIN l = {a, b}
    BY <2>1
  <2> HIDE DEF a, b
  <2>4. DOMAIN l = {a} \cup {b} /\ b \notin {a}
    BY <2>2, <2>3
  <2>5. IsFiniteSet({a}) /\ Cardinality({a}) = 1
    BY FS_Singleton
  <2>6. Cardinality({a} \cup {b}) = Cardinality({a}) + 1
    BY <2>4, <2>5, FS_AddElement
  <2> QED
    BY <2>4, <2>5, <2>6
<1>5. ASSUME NEW l \in t.links, NEW k \in t.links, NEW n \in DOMAIN l, NEW m \in DOMAIN k, l[n] = k[m]
      PROVE  n = m
  <2>1. PICK i \in DOMAIN A : l[n] = A[i] /\ i[1] = n
    BY <1>2
  <2>2. PICK j \in DOMAIN A : k[m] = A[j] /\ j[1] = m
    BY <1>2
  <2>3. i = j
    BY <1>5, <2>1, <2>2 DEF IsInjective
  <2> QED
    BY <2>1, <2>2, <2>3
<1>6. ASSUME NEW n \in Names(t), NEW m \in Names(t), m \in Adj(t, n)
      PROVE  n # m /\ Met(P, n, m)
  <2>1. n # m /\ Between(t, n, m) # {}
    BY <1>6, AdjFacts
  <2>2. PICK l \in t.links : DOMAIN l = {n, m}
    BY <2>1 DEF Between
  <2>3. PICK q \in P : DOMAIN l = {q[1][1], q[2][1]}
    BY <1>1, <2>2 DEF Joins
  <2>4. {n, m} = {q[1][1], q[2][1]}
    BY <2>2, <2>3
  <2>5. (q[1][1] = n /\ q[2][1] = m) \/ (q[1][1] = m /\ q[2][1] = n)
    BY <2>1, <2>4
  <2> QED
    BY <2>1, <2>5 DEF Met
<1>7. ASSUME NEW n \in Names(t), NEW m \in Names(t), n # m, Met(P, n, m)
      PROVE  m \in Adj(t, n)
  <2>0. PICK q \in P : (q[1][1] = n /\ q[2][1] = m) \/ (q[1][1] = m /\ q[2][1] = n)
    BY <1>7 DEF Met
  <2> DEFINE l == LinkOf(A, q)
  <2>1. l \in t.links
    OBVIOUS
  <2>2. q[1][1] # q[2][1]
    BY DEF Couples
  <2>3. DOMAIN l = {q[1][1], q[2][1]}
    BY <2>2, LinkEnds DEF Joins
  <2> HIDE DEF l
  <2>4. DOMAIN l = {n, m}
    BY <2>0, <2>3
  <2>5. Between(t, n, m) # {}
    BY <2>1, <2>4 DEF Between
  <2> QED
    BY <1>7, <2>5 DEF Adj
<1> QED
  BY <1>3, <1>4, <1>5, <1>6, <1>7

(* A sound graph launches. *)
Whole(k) == [tp |-> k, pp |-> 1, dp |-> 1, ray |-> FALSE, conflict |-> FALSE]

LEMMA WholeRanks ==
  ASSUME NEW w, w \in Seq(Nat), NEW k \in 1 .. Len(w)
  PROVE  /\ Ranks(w, Whole(k)) = SubSeq(w, 1, k) /\ Len(Ranks(w, Whole(k))) = k
         /\ Whole(k).tp * Whole(k).pp * Whole(k).dp = k
<1>1. k \in Nat /\ k # 0 /\ Len(w) \in Nat
  OBVIOUS
<1>2. Whole(k).tp = k /\ Whole(k).pp = 1 /\ Whole(k).dp = 1
  BY DEF Whole
<1>3. k * 1 = k
  BY ONLY <1>1
<1>4. Whole(k).tp * Whole(k).pp * Whole(k).dp = k
  BY <1>2, <1>3
<1>5. Ranks(w, Whole(k)) = SubSeq(w, 1, k)
  BY <1>1, <1>4 DEF Ranks
<1>6. Len(SubSeq(w, 1, k)) = k
  BY <1>1
<1> QED
  BY <1>4, <1>5, <1>6

LEMMA PairStarts ==
  ASSUME NEW w, w \in Seq(Nat), Len(w) >= 2
  PROVE  SubSeq(w, 1, 2) = <<w[1], w[2]>>
<1> DEFINE s == SubSeq(w, 1, 2)
<1>1. s \in Seq(Nat) /\ Len(s) = 2 /\ s[1] = w[1] /\ s[2] = w[2]
  OBVIOUS
<1> HIDE DEF s
<1>2. s = <<w[1], w[2]>>
  BY <1>1
<1> QED
  BY <1>2 DEF s

LEMMA WholeStarts ==
  ASSUME NEW w, w \in Seq(Nat)
  PROVE  SubSeq(w, 1, Len(w)) = w
  OBVIOUS

LEMMA LaunchSound ==
  ASSUME NEW h, NEW e, Sound(h, e), NEW t, t = GraphOf(e), NEW n, n = Len(e.nodes)
  PROVE  /\ WellFormed(t) /\ RankOrder(t, h) # <<>>
         /\ \A k \in {2, n} : ValidLaunch(t, e.nodes, Whole(k))
         /\ (e.by = "discover" => n > 2) => (e.ring <=> RingSettings(t, e.nodes, Whole(n)))
<1>1. /\ t.nodes = e.nodes /\ t.links = e.links /\ t = [nodes |-> t.nodes, links |-> t.links]
      /\ h \in Names(t) /\ h \in Nat /\ t.nodes[1] = h
      /\ t.nodes[2] \in Names(t) /\ t.nodes[2] \in Nat /\ t.nodes[2] # h /\ t.nodes[2] \in Adj(t, h)
  BY SoundFacts
<1>2. /\ t.nodes \in Seq(Nat) /\ n \in Nat /\ n >= 2 /\ WellFormed(t) /\ Shaped(t) /\ Len(t.nodes) = n
  BY <1>1 DEF Sound
<1>3. RankOrder(t, h) # <<>>
  BY SoundRanks
<1>4. ValidOrder(t, t.nodes)
  <2>1. Same(t, t)
    BY DEF Same
  <2> QED
    BY <1>1, <1>2, <2>1, ValidWhole
<1>5. ValidOrder(t, <<t.nodes[1], t.nodes[2]>>)
  BY <1>1, <1>2, ValidPair
<1>6. ASSUME NEW k \in {2, n}
      PROVE  ValidLaunch(t, e.nodes, Whole(k))
  <2>1. k \in 1 .. Len(t.nodes)
    BY <1>2
  <2>2. /\ Ranks(t.nodes, Whole(k)) = SubSeq(t.nodes, 1, k)
        /\ Whole(k).tp * Whole(k).pp * Whole(k).dp = k
    BY <1>2, <2>1, WholeRanks
  <2>3. ValidOrder(t, Ranks(t.nodes, Whole(k)))
    <3>1. CASE k = 2
      BY <1>2, <1>5, <2>2, <3>1, PairStarts
    <3>2. CASE k = n
      <4>1. SubSeq(t.nodes, 1, k) = t.nodes
        BY <1>2, <3>2, WholeStarts
      <4> QED
        BY <1>4, <2>2, <4>1
    <3> QED
      BY <3>1, <3>2
  <2>4. ~Whole(k).ray /\ Whole(k).pp <= 1 /\ Whole(k).dp <= 1 /\ ~Whole(k).conflict
    BY DEF Whole
  <2>5. t.nodes # <<>>
    BY <1>2
  <2> QED
    BY <1>1, <2>1, <2>2, <2>3, <2>4, <2>5 DEF ValidLaunch
<1>7. RingSettings(t, e.nodes, Whole(n)) <=> Ring(t) /\ n > 2
  <2>1. n \in 1 .. Len(t.nodes)
    BY <1>2
  <2>2. Len(Ranks(t.nodes, Whole(n))) = n
    BY <1>2, <2>1, WholeRanks
  <2> QED
    BY <1>1, <2>2 DEF RingSettings
<1>8. Ring(t) => n > 2
  BY <1>2 DEF Ring
<1>9. (e.by = "discover" => n > 2) => (e.ring <=> RingSettings(t, e.nodes, Whole(n)))
  <2>1. CASE e.by = "discover"
    <3>1. e.ring /\ (Len(e.nodes) = 2 \/ Ring(t))
      BY <2>1 DEF Sound
    <3> QED
      <4>1. CASE n = 2
        BY <2>1, <4>1
      <4>2. CASE n # 2
        BY <1>7, <1>8, <3>1, <4>2
      <4> QED
        BY <4>1, <4>2
  <2>2. CASE e.by # "discover"
    <3>1. e.ring <=> Ring(t)
      BY <2>2 DEF Sound
    <3> QED
      BY <1>7, <1>8, <3>1
  <2> QED
    BY <2>1, <2>2
<1> QED
  BY <1>2, <1>3, <1>6, <1>9

(* Copies over a sound graph go a shortest way, by addresses of its links.  *)
Onward(t, hops, k) ==
    \E l \in Between(t, hops[k][1], hops[k + 1][1]) : l[hops[k + 1][1]] = hops[k + 1][2]

LEMMA Joint ==
  ASSUME NEW U, NEW x \in U, NEW p \in Seq(U)
  PROVE  /\ Len(<<x>> \o p) = 1 + Len(p) /\ (<<x>> \o p)[1] = x
         /\ \A k \in 1 .. Len(p) : (<<x>> \o p)[k + 1] = p[k]
<1> DEFINE s == <<x>>
<1>1. s \in Seq(U) /\ Len(s) = 1 /\ s[1] = x
  OBVIOUS
<1> HIDE DEF s
<1>2. Len(p) \in Nat
  OBVIOUS
<1>3. Len(s \o p) = Len(s) + Len(p)
  BY <1>1, Joining
<1>4. (s \o p)[1] = s[1]
  BY <1>1, Joining
<1>5. ASSUME NEW k \in 1 .. Len(p)
      PROVE  (s \o p)[Len(s) + k] = p[k]
  BY <1>1, Joining
<1>6. \A k \in 1 .. Len(p) : 1 + k = k + 1
  BY <1>2
<1> QED
  BY <1>1, <1>3, <1>4, <1>5, <1>6 DEF s

HopsOf(head, p) == <<<<head, 0>>>> \o p

LEMMA HopsAre ==
  ASSUME NEW t, NEW head, NEW n, NEW p, Trip(t, head, n, p), NEW hops, hops = HopsOf(head, p)
  PROVE  /\ Len(p) \in Nat /\ DOMAIN p = 1 .. Len(p) /\ Last(hops)[1] = n
         /\ \A k \in 1 .. Len(p) : hops[k][1] = From(head, p, k) /\ hops[k + 1] = p[k]
<1> DEFINE V == Names(t) \X {HopAddress(t, x, y) : x, y \in Names(t)}
           x == <<head, 0>>
           U == V \cup {x}
<1>1. p \in Seq(V) /\ IF Len(p) = 0 THEN n = head ELSE p[Len(p)][1] = n
  BY DEF Trip
<1> HIDE DEF V
<1>2. p \in Seq(U) /\ x \in U /\ x[1] = head /\ hops = <<x>> \o p
  BY <1>1 DEF HopsOf
<1>3. Len(p) \in Nat /\ DOMAIN p = 1 .. Len(p)
  BY <1>1
<1> HIDE DEF U, x
<1>5. Len(hops) = 1 + Len(p) /\ hops[1] = x
  BY <1>2, Joint
<1>6. \A k \in 1 .. Len(p) : hops[k + 1] = p[k]
  BY <1>2, Joint
<1>7. hops[1][1] = head
  BY <1>2, <1>5
<1>8. ASSUME NEW k \in 1 .. Len(p)
      PROVE  hops[k][1] = From(head, p, k)
  <2>1. CASE k = 1
    BY <1>7, <2>1 DEF From
  <2>2. CASE k # 1
    <3>1. k - 1 \in 1 .. Len(p) /\ (k - 1) + 1 = k
      BY <1>3, <2>2
    <3>2. hops[k] = p[k - 1]
      BY <1>6, <3>1
    <3> QED
      BY <2>2, <3>2 DEF From
  <2> QED
    BY <2>1, <2>2
<1>9. Last(hops)[1] = n
  <2>1. Last(hops) = hops[Len(hops)]
    BY DEF Last
  <2>2. CASE Len(p) = 0
    BY <1>1, <1>5, <1>7, <2>1, <2>2
  <2>3. CASE Len(p) # 0
    <3>1. Len(p) \in 1 .. Len(p) /\ Len(hops) = Len(p) + 1
      BY <1>3, <1>5, <2>3
    <3> QED
      BY <1>1, <1>6, <2>1, <2>3, <3>1
  <2> QED
    BY <2>2, <2>3
<1> QED
  BY <1>3, <1>6, <1>8, <1>9

Copied(m, t, W, n, p, hops) ==
    /\ Last(hops)[1] = n /\ n \in W[Len(p)]
    /\ \A k \in 0 .. Len(p) - 1 : n \notin W[k]
    /\ \A k \in DOMAIN p : Onward(t, hops, k)
    /\ 2 * Len(p) <= m

LEMMA CopiesSound ==
  ASSUME NEW h, NEW e, Sound(h, e), NEW t, t = GraphOf(e),
         NEW W, WithinOf(t, h, Len(e.nodes), W), NEW n \in Names(t),
         NEW p, p = Paths(t, h)[n], NEW hops, hops = HopsOf(h, p)
  PROVE  Copied(Len(e.nodes), t, W, n, p, hops)
<1>1. /\ t.nodes = e.nodes /\ t.links = e.links /\ Graph(t) /\ Cardinality(Names(t)) = Len(t.nodes)
      /\ Len(t.nodes) \in Nat /\ Len(t.nodes) >= 2 /\ h \in Names(t) /\ t.nodes[1] = h /\ Connected(t, h)
  BY SoundFacts
<1>2. n \in DOMAIN Paths(t, h)
  BY <1>1 DEF Connected
<1>3. Trip(t, h, n, p) /\ Len(p) \in Nat /\ Len(p) < Len(t.nodes)
  BY <1>1, <1>2, PathsFacts
<1>4. /\ DOMAIN p = 1 .. Len(p) /\ Last(hops)[1] = n
      /\ \A k \in 1 .. Len(p) : hops[k][1] = From(h, p, k) /\ hops[k + 1] = p[k]
  BY <1>3, HopsAre
<1> DEFINE m == Len(e.nodes)
<1>m. m \in Nat /\ Len(p) <= m /\ m = Len(t.nodes)
  BY <1>1, <1>3
<1>w. WithinOf(t, h, m, W)
  OBVIOUS
<1> HIDE DEF m
<1>5. n \in W[Len(p)]
  BY <1>1, <1>2, <1>m, <1>w, WithinOfPaths
<1>6. ASSUME NEW k \in 0 .. Len(p) - 1, n \in W[k]
      PROVE  FALSE
  <2>1. k \in 0 .. m /\ k < Len(p)
    BY <1>3, <1>m
  <2>2. Len(p) <= k
    BY <1>1, <1>6, <1>m, <1>w, <2>1, PathsShortest
  <2> QED
    BY <1>3, <2>1, <2>2
<1>7. ASSUME NEW k \in 1 .. Len(p)
      PROVE  Onward(t, hops, k)
  <2> DEFINE x == From(h, p, k)
             y == p[k][1]
  <2>1. y \in Adj(t, x) /\ p[k][2] = HopAddress(t, x, y)
    BY <1>3 DEF Trip
  <2>2. hops[k][1] = x /\ hops[k + 1][1] = y /\ hops[k + 1][2] = p[k][2]
    BY <1>4
  <2>3. x \in Names(t)
    <3>1. CASE k = 1
      BY <1>1, <3>1 DEF From
    <3>2. CASE k # 1
      <4>1. k - 1 \in 1 .. Len(p)
        BY <1>3, <3>2
      <4>2. p[k - 1][1] \in Adj(t, From(h, p, k - 1))
        BY <1>3, <4>1 DEF Trip
      <4>3. p[k - 1][1] \in Names(t)
        BY <4>2, AdjFacts
      <4> QED
        BY <3>2, <4>3 DEF From
    <3> QED
      BY <3>1, <3>2
  <2> HIDE DEF x, y
  <2>4. \A l \in t.links : \A q \in DOMAIN l : l[q] \in Nat
    BY <1>1 DEF Sound
  <2>5. \E l \in Between(t, x, y) : l[y] = HopAddress(t, x, y)
    BY <2>1, <2>3, <2>4, HopTaken
  <2> QED
    BY <2>1, <2>2, <2>5 DEF Onward
<1>8. 2 * Len(p) <= m
  <2>1. CASE Complete(t)
    <3>1. Cardinality(Adj(t, h)) = Cardinality(Names(t)) - 1
      BY <1>1, <2>1 DEF Complete
    <3>2. \A k \in Names(t) : k # h => k \in Adj(t, h)
      BY <1>1, <3>1, AllNeighbours
    <3>3. Len(p) <= 1
      BY <1>1, <3>2, StarConnected
    <3> QED
      BY <1>1, <1>3, <1>m, <3>3
  <2>2. CASE Circle(t, t.nodes)
    <3>1. 2 * Len(Paths(t, t.nodes[1])[n]) <= Len(t.nodes)
      BY <1>1, <2>2, HalfWay
    <3> QED
      BY <1>1, <1>m, <3>1
  <2> QED
    BY <2>1, <2>2 DEF Sound, Shaped
<1> QED
  BY <1>4, <1>5, <1>6, <1>7, <1>8 DEF m, Copied

-----------------------------------------------------------------------------
(* Sites. *)

LEMMA SiteFacts ==
  ASSUME site \in Sites
  PROVE  /\ site.nodes \in Seq(Nat) /\ N \in 2 .. 244 /\ IsInjective(site.nodes)
         /\ site.cables \subseteq SUBSET Ends /\ site.ports \in Seq({0, 1})
         /\ DOMAIN site.live \subseteq Interfaces /\ IsInjective(site.live)
         /\ site.pool \in Nat /\ site.pool % 256 = 0 /\ site.moves \in Nat
  BY SitesAssumption DEF N, Ends, Interfaces

LEMMA Count ==
  ASSUME site \in Sites
  PROVE  /\ N \in Nat /\ N \in 2 .. 244 /\ N >= 2 /\ 1 \in 1 .. N /\ N \in 1 .. N
         /\ Len(site.nodes) = N
<1>1. N \in 2 .. 244
  BY SitesAssumption DEF N
<1>2. N \in Nat /\ N >= 2 /\ 1 \in 1 .. N /\ N \in 1 .. N
  BY ONLY <1>1
<1>3. Len(site.nodes) = N
  BY DEF N
<1> QED
  BY ONLY <1>1, <1>2, <1>3

LEMMA NodesFacts ==
  ASSUME site \in Sites
  PROVE  /\ \A k \in 1 .. N : site.nodes[k] \in Nodes
         /\ \A n \in Nodes : \E k \in 1 .. N : site.nodes[k] = n
         /\ Nodes \subseteq Nat /\ DOMAIN site.nodes = 1 .. N
<1> site.nodes \in Seq(Nat)
  BY SiteFacts
<1> QED
  BY DEF Nodes, ToSet, N

LEMMA ListedOrder ==
  ASSUME site \in Sites
  PROVE  Order(site.nodes)
<1>1. site.nodes \in [1 .. N -> Nodes]
  <2>1. site.nodes \in Seq(Nat) /\ Len(site.nodes) = N
    BY SiteFacts DEF N
  <2>2. site.nodes \in [1 .. N -> Nat]
    BY <2>1
  <2> QED
    BY <2>2, NodesFacts
<1>2. site.nodes \in Seq(Nodes)
  <2>1. N \in Nat
    BY Count
  <2> QED
    BY ONLY <1>1, <2>1
<1> QED
  BY <1>2, SiteFacts, NodesFacts DEF Order, N

LEMMA NodesFinite ==
  ASSUME site \in Sites
  PROVE  IsFiniteSet(Nodes) /\ Cardinality(Nodes) = N
<1>0. N \in 2 .. 244 /\ site.nodes \in [1 .. N -> Nodes]
  BY ListedOrder, Count DEF Order
<1>1. site.nodes \in Surjection(1 .. N, Nodes)
  BY <1>0, NodesFacts DEF Surjection
<1>2. site.nodes \in Injection(1 .. N, Nodes)
  BY <1>0, SiteFacts DEF Injection, IsInjective
<1>3. IsFiniteSet(1 .. N) /\ Cardinality(1 .. N) = N
  <2>1. N \in Nat
    BY <1>0
  <2> QED
    BY ONLY <2>1, UpTo
<1> QED
  BY <1>1, <1>2, <1>3, FS_Surjection

(* As many different nodes as there are, are all of them. *)
LEMMA Exhausted ==
  ASSUME site \in Sites, NEW o \in Seq(Nodes), Len(o) = N, IsInjective(o)
  PROVE  \A n \in Nodes : \E k \in 1 .. N : o[k] = n
<1>1. o \in Injection(1 .. N, Nodes)
  BY SiteFacts DEF Injection, IsInjective
<1>2. IsFiniteSet(1 .. N) /\ Cardinality(1 .. N) = N
  <2>1. N \in Nat
    BY Count
  <2> QED
    BY ONLY <2>1, UpTo
<1>3. o \in Surjection(1 .. N, Nodes)
  BY <1>1, <1>2, NodesFinite, FS_Injection
<1> QED
  BY <1>3 DEF Surjection

LEMMA Positions ==
  ASSUME NEW o, Order(o)
  PROVE  /\ \A n \in Nodes : Position(o, n) \in 1 .. N /\ o[Position(o, n)] = n
         /\ \A k \in 1 .. N : o[k] \in Nodes /\ Position(o, o[k]) = k
<1>1. DOMAIN o = 1 .. N /\ \A k \in 1 .. N : o[k] \in Nodes
  BY DEF Order
<1>2. ASSUME NEW n \in Nodes
      PROVE  Position(o, n) \in 1 .. N /\ o[Position(o, n)] = n
  <2>1. \E k \in DOMAIN o : o[k] = n
    BY <1>1 DEF Order
  <2> QED
    BY <2>1, <1>1 DEF Position
<1>3. ASSUME NEW k \in 1 .. N
      PROVE  Position(o, o[k]) = k
  BY <1>1, <1>2 DEF Order, IsInjective
<1> QED
  BY <1>1, <1>2, <1>3

-----------------------------------------------------------------------------
(* The walk along next. *)

Further(next, w) ==
    IF next[Last(w)] \in ToSet(w) THEN w ELSE Append(w, next[Last(w)])
WalkOf(first, next, m, g) ==
    g = [i \in 1 .. m |-> IF i = 1 THEN <<first>> ELSE Further(next, g[i - 1])]

LEMMA WalkExists ==
  ASSUME NEW first, NEW next, NEW m \in Nat
  PROVE  \E g : WalkOf(first, next, m, g)
<1> DEFINE S == {n \in Nat : \E g : WalkOf(first, next, n, g)}
<1>1. 0 \in S
  <2> DEFINE g == [i \in 1 .. 0 |-> <<first>>]
  <2>1. WalkOf(first, next, 0, g)
    BY DEF WalkOf
  <2> QED
    BY <2>1
<1>2. ASSUME NEW n \in Nat, n \in S
      PROVE  n + 1 \in S
  <2>1. PICK g : WalkOf(first, next, n, g)
    BY <1>2
  <2> DEFINE h == [i \in 1 .. n + 1 |->
                      IF i <= n THEN g[i] ELSE IF i = 1 THEN <<first>> ELSE Further(next, g[n])]
  <2>2. ASSUME NEW i \in 1 .. n + 1
        PROVE  h[i] = IF i = 1 THEN <<first>> ELSE Further(next, h[i - 1])
    <3>1. CASE i <= n
      <4>1. i \in 1 .. n /\ (i # 1 => i - 1 \in 1 .. n + 1 /\ i - 1 <= n)
        BY <3>1
      <4>2. g[i] = IF i = 1 THEN <<first>> ELSE Further(next, g[i - 1])
        BY <2>1, <4>1 DEF WalkOf
      <4> QED
        BY <4>1, <4>2, <3>1
    <3>2. CASE i = n + 1
      BY <3>2
    <3> QED
      BY <3>1, <3>2
  <2>3. WalkOf(first, next, n + 1, h)
    <3> HIDE DEF h
    <3>1. h = [i \in 1 .. n + 1 |-> h[i]]
      BY DEF h
    <3> QED
      BY <3>1, <2>2 DEF WalkOf
  <2> QED
    BY <2>3
<1> HIDE DEF S
<1>3. m \in S
  BY <1>1, <1>2, SetInduction
<1> QED
  BY <1>3 DEF S

LEMMA ClosedWalk ==
  ASSUME NEW nodes, NEW next, Len(nodes) \in Nat
  PROVE  \E g : /\ WalkOf(nodes[1], next, Len(nodes), g)
                /\ Closed(nodes, next) =
                      LET order == g[Len(nodes)]
                      IN  IF Len(order) = Len(nodes) /\ next[Last(order)] = nodes[1] THEN order ELSE <<>>
<1> DEFINE g == CHOOSE f : WalkOf(nodes[1], next, Len(nodes), f)
<1>1. WalkOf(nodes[1], next, Len(nodes), g)
  BY WalkExists
<1>2. Closed(nodes, next) = LET order == g[Len(nodes)]
                      IN  IF Len(order) = Len(nodes) /\ next[Last(order)] = nodes[1] THEN order ELSE <<>>
  BY DEF Closed, WalkOf, Further
<1> QED
  BY <1>1, <1>2

Trail(T, first, w) == w \in Seq(T) /\ Len(w) >= 1 /\ w[1] = first /\ IsInjective(w)

LEMMA FurtherTrail ==
  ASSUME NEW T, NEW first, NEW next \in [T -> T], NEW w, Trail(T, first, w)
  PROVE  Trail(T, first, Further(next, w))
<1>1. w \in Seq(T) /\ Len(w) \in Nat /\ Len(w) >= 1 /\ w[1] = first /\ IsInjective(w)
  BY DEF Trail
<1>2. CASE next[Last(w)] \in ToSet(w)
  BY <1>2 DEF Further
<1>3. CASE next[Last(w)] \notin ToSet(w)
  <2> DEFINE x == next[Last(w)]
             v == Append(w, x)
  <2>1. x \in T
    BY <1>1 DEF Last
  <2>2. \A k \in 1 .. Len(w) : w[k] # x
    BY <1>1, <1>3 DEF ToSet
  <2> HIDE DEF x
  <2>3. /\ v \in Seq(T) /\ Len(v) = Len(w) + 1 /\ v[1] = first
        /\ \A k \in 1 .. Len(w) : v[k] = w[k]
        /\ v[Len(w) + 1] = x
    BY <1>1, <2>1
  <2>4. DOMAIN v = 1 .. Len(w) + 1 /\ DOMAIN w = 1 .. Len(w)
    BY <1>1, <2>3
  <2> HIDE DEF v
  <2>5. ASSUME NEW a \in 1 .. Len(w) + 1, NEW b \in 1 .. Len(w) + 1, v[a] = v[b]
        PROVE  a = b
    <3>1. CASE a \in 1 .. Len(w) /\ b \in 1 .. Len(w)
      BY <3>1, <2>3, <2>4, <2>5, <1>1 DEF IsInjective
    <3>2. CASE a \in 1 .. Len(w) /\ b = Len(w) + 1
      BY <3>2, <2>2, <2>3, <2>5
    <3>3. CASE a = Len(w) + 1 /\ b \in 1 .. Len(w)
      BY <3>3, <2>2, <2>3, <2>5
    <3> QED
      BY <3>1, <3>2, <3>3, <1>1
  <2>6. IsInjective(v)
    BY <2>4, <2>5 DEF IsInjective
  <2>7. Further(next, w) = v
    BY <1>3 DEF Further, v, x
  <2> QED
    BY <2>3, <2>6, <2>7, <1>1 DEF Trail
<1> QED
  BY <1>2, <1>3

LEMMA StartTrail ==
  ASSUME NEW T, NEW first \in T
  PROVE  Trail(T, first, <<first>>)
BY DEF Trail, IsInjective

LEMMA WalkTrail ==
  ASSUME NEW T, NEW first \in T, NEW next \in [T -> T], NEW m \in Nat, NEW g,
         WalkOf(first, next, m, g)
  PROVE  \A i \in 1 .. m : Trail(T, first, g[i])
<1> DEFINE S == {n \in Nat : n + 1 <= m => Trail(T, first, g[n + 1])}
<1>0. \A i \in 1 .. m : g[i] = IF i = 1 THEN <<first>> ELSE Further(next, g[i - 1])
  BY DEF WalkOf
<1>1. 0 \in S
  BY <1>0, StartTrail
<1>2. ASSUME NEW n \in Nat, n \in S
      PROVE  n + 1 \in S
  <2>1. CASE n + 2 <= m
    <3>1. Trail(T, first, g[n + 1])
      BY <1>2, <2>1
    <3>2. g[n + 2] = Further(next, g[n + 1])
      BY <1>0, <2>1
    <3>3. Trail(T, first, g[n + 2])
      BY <3>1, <3>2, FurtherTrail
    <3>4. n + 1 + 1 = n + 2
      OBVIOUS
    <3> QED
      BY <3>3, <3>4
  <2>2. CASE ~(n + 2 <= m)
    BY <2>2
  <2> QED
    BY <2>1, <2>2
<1> HIDE DEF S
<1>3. Nat \subseteq S
  BY <1>1, <1>2, SetInduction
<1>4. ASSUME NEW i \in 1 .. m
      PROVE  Trail(T, first, g[i])
  <2>1. i - 1 \in Nat /\ (i - 1) + 1 = i
    OBVIOUS
  <2>2. i - 1 \in S
    BY <2>1, <1>3
  <2> QED
    BY <2>1, <2>2 DEF S
<1> QED
  BY <1>4

(* What Closed returns is nothing or a ring order of the nodes. *)
LEMMA ClosedOrder ==
  ASSUME site \in Sites, NEW next \in [Nodes -> Nodes]
  PROVE  Closed(site.nodes, next) = <<>> \/ Order(Closed(site.nodes, next))
<1> DEFINE o == Closed(site.nodes, next)
<1>0. Len(site.nodes) = N /\ N \in Nat /\ N \in 1 .. N /\ site.nodes[1] \in Nodes
  <2>1. Len(site.nodes) = N /\ N \in Nat /\ N \in 1 .. N /\ 1 \in 1 .. N
    BY Count
  <2> QED
    BY <2>1, NodesFacts
<1>1. PICK g : /\ WalkOf(site.nodes[1], next, N, g)
               /\ o = LET order == g[N]
                      IN  IF Len(order) = N /\ next[Last(order)] = site.nodes[1] THEN order ELSE <<>>
  BY <1>0, ClosedWalk
<1>2. Trail(Nodes, site.nodes[1], g[N])
  BY <1>0, <1>1, WalkTrail
<1> HIDE DEF o
<1>3. CASE Len(g[N]) = N /\ next[Last(g[N])] = site.nodes[1]
  <2>1. o = g[N]
    BY <1>1, <1>3
  <2>2. o \in Seq(Nodes) /\ Len(o) = N /\ IsInjective(o) /\ o[1] = site.nodes[1]
    BY <2>1, <1>2, <1>3 DEF Trail
  <2> QED
    BY <2>2, Exhausted DEF Order, o
<1>4. CASE ~(Len(g[N]) = N /\ next[Last(g[N])] = site.nodes[1])
  BY <1>1, <1>4 DEF o
<1> QED
  BY <1>3, <1>4

(* Along a ring order that starts at the first node, the walk is that order. *)
Begins(o, i, w) == w \in Seq(Nodes) /\ Len(w) = i /\ \A k \in 1 .. i : w[k] = o[k]
Successor(o, k) == o[(k % N) + 1]

LEMMA Turn ==
  ASSUME site \in Sites, NEW k \in 1 .. N
  PROVE  (k % N) + 1 = IF k = N THEN 1 ELSE k + 1
<1>1. N \in Nat /\ N >= 2
  BY Count
<1>2. CASE k = N
  <2>1. N % N = 0
    BY <1>1
  <2> QED
    BY <1>2, <2>1
<1>3. CASE k # N
  <2>1. k \in 0 .. N - 1
    BY <1>1, <1>3
  <2>2. k % N = k
    BY <1>1, <2>1
  <2> QED
    BY <1>3, <2>2
<1> QED
  BY <1>2, <1>3

LEMMA FurtherBegins ==
  ASSUME site \in Sites, NEW o, Order(o), NEW next,
         \A k \in 1 .. N : next[o[k]] = Successor(o, k),
         NEW i \in 1 .. N, i < N, NEW w, Begins(o, i, w)
  PROVE  Begins(o, i + 1, Further(next, w))
<1>1. w \in Seq(Nodes) /\ Len(w) = i /\ (\A k \in 1 .. i : w[k] = o[k])
  BY DEF Begins
<1>2. N \in Nat /\ i \in Nat /\ i >= 1 /\ i + 1 \in 1 .. N
  BY Count
<1>3. Last(w) = o[i]
  BY <1>1, <1>2 DEF Last
<1>4. next[o[i]] = o[i + 1]
  BY Turn, <1>2 DEF Successor
<1>5. o[i + 1] \in Nodes /\ \A k \in 1 .. i : o[k] # o[i + 1]
  BY <1>2 DEF Order, IsInjective
<1>6. o[i + 1] \notin ToSet(w)
  BY <1>1, <1>5 DEF ToSet
<1>7. Further(next, w) = Append(w, o[i + 1])
  BY <1>3, <1>4, <1>6 DEF Further
<1> DEFINE v == Append(w, o[i + 1])
<1>8. v \in Seq(Nodes) /\ Len(v) = i + 1 /\ (\A k \in 1 .. i : v[k] = w[k]) /\ v[i + 1] = o[i + 1]
  BY <1>1, <1>5
<1> HIDE DEF v
<1>9. \A k \in 1 .. i + 1 : v[k] = o[k]
  BY <1>1, <1>2, <1>8
<1> QED
  BY <1>7, <1>8, <1>9 DEF Begins, v

LEMMA WalkBegins ==
  ASSUME site \in Sites, NEW o, Order(o), NEW next,
         \A k \in 1 .. N : next[o[k]] = Successor(o, k),
         NEW g, WalkOf(o[1], next, N, g)
  PROVE  \A i \in 1 .. N : Begins(o, i, g[i])
<1> DEFINE S == {n \in Nat : n + 1 <= N => Begins(o, n + 1, g[n + 1])}
<1>0. \A i \in 1 .. N : g[i] = IF i = 1 THEN <<o[1]>> ELSE Further(next, g[i - 1])
  BY DEF WalkOf
<1>00. N \in Nat /\ N >= 2 /\ 1 \in 1 .. N
  BY Count
<1>1. 0 \in S
  <2>1. g[1] = <<o[1]>> /\ o[1] \in Nodes
    BY <1>0, <1>00 DEF Order
  <2>2. Begins(o, 1, g[1])
    BY <2>1 DEF Begins
  <2> QED
    BY <2>2
<1>2. ASSUME NEW n \in Nat, n \in S
      PROVE  n + 1 \in S
  <2>1. CASE n + 2 <= N
    <3>1. Begins(o, n + 1, g[n + 1]) /\ n + 1 \in 1 .. N /\ n + 1 < N
      BY <1>2, <2>1, <1>00
    <3>2. g[n + 2] = Further(next, g[n + 1])
      BY <1>0, <2>1, <1>00
    <3>4. n + 1 + 1 = n + 2
      OBVIOUS
    <3>3. Begins(o, n + 2, g[n + 2])
      BY <3>1, <3>2, <3>4, FurtherBegins
    <3> QED
      BY <3>3, <3>4
  <2>2. CASE ~(n + 2 <= N)
    BY <2>2, <1>00
  <2> QED
    BY <2>1, <2>2
<1> HIDE DEF S
<1>3. Nat \subseteq S
  BY <1>1, <1>2, SetInduction
<1>4. ASSUME NEW i \in 1 .. N
      PROVE  Begins(o, i, g[i])
  <2>1. i - 1 \in Nat /\ (i - 1) + 1 = i /\ i <= N
    BY <1>00
  <2>2. i - 1 \in S
    BY <2>1, <1>3
  <2> QED
    BY <2>1, <2>2 DEF S
<1> QED
  BY <1>4

LEMMA ClosedAlong ==
  ASSUME site \in Sites, NEW o, Order(o), NEW next,
         \A k \in 1 .. N : next[o[k]] = Successor(o, k)
  PROVE  Closed(site.nodes, next) = o
<1>0. Len(site.nodes) = N /\ N \in Nat /\ N \in 1 .. N /\ N >= 2 /\ o[1] = site.nodes[1]
  <2>2. o[1] = site.nodes[1]
    BY DEF Order
  <2> QED
    BY <2>2, Count
<1>1. PICK g : /\ WalkOf(o[1], next, N, g)
               /\ Closed(site.nodes, next) =
                      LET order == g[N]
                      IN  IF Len(order) = N /\ next[Last(order)] = site.nodes[1] THEN order ELSE <<>>
  BY <1>0, ClosedWalk
<1>2. Begins(o, N, g[N])
  BY <1>0, <1>1, WalkBegins
<1>3. g[N] \in Seq(Nodes) /\ Len(g[N]) = N /\ \A k \in 1 .. N : g[N][k] = o[k]
  BY <1>2 DEF Begins
<1>4. o \in Seq(Nodes) /\ Len(o) = N
  BY DEF Order
<1>5. g[N] = o
  BY <1>0, <1>3, <1>4
<1>6. Last(o) = o[N]
  BY <1>4 DEF Last
<1>7. next[o[N]] = o[1]
  BY <1>0, Turn DEF Successor
<1> QED
  BY <1>0, <1>1, <1>3, <1>5, <1>6, <1>7

-----------------------------------------------------------------------------
(* The choice of a topology. *)

LEMMA OneNotEmpty ==
  ASSUME NEW S, Cardinality(S) = 1
  PROVE  S # {}
  BY FS_EmptySet

(* What detect_ring finds is a ring order, whatever the addresses are.      *)
LEMMA RingDetected ==
  ASSUME site \in Sites, NEW addresses
  PROVE  DetectRing(site.nodes, addresses) = <<>> \/ Order(DetectRing(site.nodes, addresses))
<1> DEFINE net(i) == IF i \in DOMAIN addresses THEN {Subnet(addresses[i])} ELSE {}
           matches(n, r) == {m \in ToSet(site.nodes) \ {n} : net(<<n, 0, r>>) \cap net(<<m, 1, r>>) # {}}
           next == [n \in ToSet(site.nodes) |-> CHOOSE m \in matches(n, 0) : TRUE]
<1>1. DetectRing(site.nodes, addresses) =
         IF \A n \in ToSet(site.nodes) : Cardinality(matches(n, 0)) = 1 /\ matches(n, 0) = matches(n, 1)
         THEN Closed(site.nodes, next) ELSE <<>>
  BY DEF DetectRing
<1>2. \A n, r : matches(n, r) \subseteq Nodes
  BY DEF Nodes
<1> HIDE DEF matches
<1>3. ASSUME \A n \in ToSet(site.nodes) : Cardinality(matches(n, 0)) = 1
      PROVE  next \in [Nodes -> Nodes]
  <2>1. \A n \in Nodes : matches(n, 0) # {}
    BY <1>3, OneNotEmpty DEF Nodes
  <2>2. \A n \in Nodes : (CHOOSE m \in matches(n, 0) : TRUE) \in Nodes
    BY <2>1, <1>2
  <2> QED
    BY <2>2 DEF Nodes
<1> HIDE DEF next
<1> QED
  BY <1>1, <1>3, ClosedOrder

LEMMA LldpDetected ==
  ASSUME site \in Sites
  PROVE  DetectLldpRing(site.nodes) = <<>> \/ Order(DetectLldpRing(site.nodes))
<1> DEFINE facing(x) == CHOOSE y \in Heard(x) : TRUE
           all == \A x \in Ends : /\ Cardinality(Heard(x)) = 1 /\ facing(x) \in Ends
                           /\ facing(x)[2] = 1 - x[2] /\ facing(facing(x)) = x
           next == [n \in ToSet(site.nodes) |-> facing(<<n, 0>>)[1]]
<1>1. DetectLldpRing(site.nodes) = IF all THEN Closed(site.nodes, next) ELSE <<>>
  BY DEF DetectLldpRing
<1>2. ASSUME all
      PROVE  next \in [Nodes -> Nodes]
  <2>1. \A x \in Ends : facing(x) \in Ends
    BY <1>2
  <2> HIDE DEF facing
  <2>2. \A n \in Nodes : <<n, 0>> \in Ends
    BY DEF Ends, Nodes
  <2>3. \A e \in Ends : e[1] \in Nodes
    BY DEF Ends, Nodes
  <2> QED
    BY <2>1, <2>2, <2>3 DEF Nodes
<1> HIDE DEF next, all
<1> QED
  BY <1>1, <1>2, ClosedOrder

LEMMA PortsListed ==
  ASSUME site \in Sites
  PROVE  SinglePorts(site.nodes) = <<>> \/ SinglePorts(site.nodes) \in [1 .. N -> {0, 1}]
<1> DEFINE listed == site.ports
           values == IF Len(listed) = 1 THEN [i \in 1 .. Len(site.nodes) |-> listed[1]] ELSE listed
           only == [i \in 1 .. Len(site.nodes) |-> CHOOSE p \in Active(site.nodes[i]) : TRUE]
           alone == \A n \in ToSet(site.nodes) : Cardinality(Active(n)) = 1
<1>0. Len(site.nodes) = N /\ N \in Nat
  BY Count
<1>1. SinglePorts(site.nodes) =
         IF listed # <<>> THEN IF Len(values) = Len(site.nodes) THEN values ELSE <<>>
         ELSE IF alone THEN only ELSE <<>>
  BY DEF SinglePorts
<1>2. listed \in Seq({0, 1})
  BY SiteFacts
<1> HIDE DEF listed
<1>3. ASSUME listed # <<>>, Len(values) = N
      PROVE  values \in [1 .. N -> {0, 1}]
  <2>1. CASE Len(listed) = 1
    <3>1. listed[1] \in {0, 1}
      BY <1>2, <2>1
    <3> QED
      BY <3>1, <2>1, <1>0
  <2>2. CASE Len(listed) # 1
    <3>1. values = listed
      BY <2>2
    <3> QED
      BY <3>1, <1>2, <1>3
  <2> QED
    BY <2>1, <2>2
<1>4. ASSUME alone
      PROVE  only \in [1 .. N -> {0, 1}]
  <2>1. \A i \in 1 .. N : site.nodes[i] \in ToSet(site.nodes)
    BY NodesFacts DEF Nodes
  <2>2. \A i \in 1 .. N : Active(site.nodes[i]) # {}
    BY <2>1, <1>4, OneNotEmpty
  <2>3. \A i \in 1 .. N : (CHOOSE p \in Active(site.nodes[i]) : TRUE) \in {0, 1}
    <3>1. \A n : Active(n) \subseteq {0, 1}
      BY DEF Active
    <3> QED
      BY <3>1, <2>2
  <2> QED
    BY <2>3, <1>0
<1> HIDE DEF values, only, alone
<1> QED
  BY <1>0, <1>1, <1>3, <1>4

(* The choice that comes out. *)
Ringed(c) ==
    /\ N >= 3 /\ Order(c.order)
    /\ c = [topology |-> "ring", order |-> c.order, ports |-> <<>>]
Ported(c) ==
    /\ c.topology \in {"direct", "switch"} /\ c.ports \in [1 .. N -> {0, 1}]
    /\ c = [topology |-> c.topology, order |-> site.nodes, ports |-> c.ports]

LEMMA ProposedOrder ==
  ASSUME site \in Sites, NEW physical, physical = <<>> \/ Order(physical)
  PROVE  Order(Proposed(site.nodes, physical).order)
<1> DEFINE found == DetectRing(site.nodes, live)
<1>1. found = <<>> \/ Order(found)
  BY RingDetected
<1>2. Order(site.nodes)
  BY ListedOrder
<1> HIDE DEF found
<1>3. Proposed(site.nodes, physical).order \in {site.nodes, physical, found}
  BY DEF Proposed, found
<1>4. /\ Proposed(site.nodes, physical).order = physical => physical # <<>> \/ physical = site.nodes
      /\ Proposed(site.nodes, physical).order = found => found # <<>> \/ found = site.nodes
  BY <1>2 DEF Proposed, found
<1> QED
  BY <1>1, <1>2, <1>3, <1>4

(* Every interface that has an address before is planned a new one. *)
LEMMA Chosen ==
  ASSUME site \in Sites, DOMAIN live \subseteq Interfaces,
         NEW c, c = ChooseTopology(site.nodes), c # NoChoice
  PROVE  /\ Ringed(c) \/ Ported(c)
         /\ DOMAIN live \subseteq Planned(c)
<1> DEFINE physical == IF N >= 3 THEN DetectLldpRing(site.nodes) ELSE <<>>
           p == Proposed(site.nodes, physical)
           ports == SinglePorts(site.nodes)
           used == {<<site.nodes[i], ports[i]>> : i \in DOMAIN ports}
           ring == [topology |-> "ring", order |-> p.order, ports |-> <<>>]
           other == [topology |-> p.topology, order |-> site.nodes, ports |-> ports]
<1>1. c = IF p.topology \in {"ring", "mesh"}
          THEN IF /\ N >= 3 /\ (p.topology = "mesh" => N = 3) /\ site.ports = <<>>
                  /\ physical \in {<<>>, p.order} /\ \A x \in Ends : PortUsable(x)
               THEN ring ELSE NoChoice
          ELSE IF /\ p.topology \in {"direct", "switch"} /\ (p.topology = "direct" => N = 2)
                  /\ ports # <<>> /\ \A x \in used : PortUsable(x)
                  /\ \A i \in DOMAIN live : End(i) \in used
               THEN other ELSE NoChoice
  BY DEF ChooseTopology
<1>2. Order(p.order)
  <2>1. physical = <<>> \/ Order(physical)
    BY LldpDetected
  <2> HIDE DEF physical
  <2> QED
    BY <2>1, ProposedOrder
<1>3. ports = <<>> \/ ports \in [1 .. N -> {0, 1}]
  BY PortsListed
<1> HIDE DEF p, ports, physical
<1>4. CASE c = ring /\ N >= 3
  <2>1. Ringed(c)
    BY <1>4, <1>2 DEF Ringed
  <2>2. Planned(c) = Interfaces
    BY <1>4 DEF Planned
  <2> QED
    BY <2>1, <2>2
<1>5. CASE c = other /\ p.topology \in {"direct", "switch"} /\ ports # <<>> /\ \A i \in DOMAIN live : End(i) \in used
  <2>1. Ported(c)
    BY <1>5, <1>3 DEF Ported
  <2>2. ASSUME NEW i \in DOMAIN live
        PROVE  i \in Planned(c)
    <3>1. i \in Interfaces /\ End(i) \in used
      BY <1>5
    <3>2. PICK k \in DOMAIN ports : <<i[1], i[2]>> = <<site.nodes[k], ports[k]>>
      BY <3>1 DEF End
    <3>3. k \in 1 .. N
      BY <1>3, <1>5, <3>2
    <3>4. i[1] = site.nodes[k] /\ i[2] = ports[k]
      BY <3>2
    <3>5. Position(site.nodes, site.nodes[k]) = k
      BY <3>3, ListedOrder, Positions
    <3>6. c.order = site.nodes /\ c.ports = ports /\ c.topology # "ring"
      BY <1>5
    <3>7. i[2] = c.ports[Position(c.order, i[1])]
      BY <3>4, <3>5, <3>6
    <3> QED
      BY <3>1, <3>6, <3>7 DEF Planned
  <2> QED
    BY <2>1, <2>2
<1>6. (c = ring /\ N >= 3) \/ (c = other /\ p.topology \in {"direct", "switch"} /\ ports # <<>>
          /\ \A i \in DOMAIN live : End(i) \in used)
  <2> HIDE DEF ring, other, used
  <2> QED
    BY <1>1
<1> QED
  BY <1>4, <1>5, <1>6

-----------------------------------------------------------------------------
(* The addresses of a plan. *)

LEMMA Before ==
  ASSUME site \in Sites, NEW k \in 1 .. N
  PROVE  ((k - 1) - 1 + N) % N = IF k = 1 THEN N - 1 ELSE k - 2
<1>1. N \in Nat /\ N >= 2
  BY Count
<1>2. CASE k = 1
  <2>1. (k - 1) - 1 + N = N - 1 /\ N - 1 \in 0 .. N - 1
    BY <1>1, <1>2
  <2>2. (N - 1) % N = N - 1
    BY <1>1, <2>1
  <2> QED
    BY <1>2, <2>1, <2>2
<1>3. CASE k # 1
  <2>1. k - 2 \in 0 .. N - 1 /\ (k - 1) - 1 + N = (k - 2) + N
    BY <1>1, <1>3
  <2>2. ((k - 2) + N) % N = k - 2
    BY <1>1, <2>1
  <2> QED
    BY <1>3, <2>1, <2>2
<1> QED
  BY <1>2, <1>3

(* The place of a node in the order, and the cables it is on. *)
Place(c, i) == Position(c.order, i[1])
Net(c, i) == 2 * Cable(c, End(i)) + i[3]

LEMMA Parts ==
  ASSUME NEW i \in Interfaces
  PROVE  /\ i[1] \in Nodes /\ i[2] \in {0, 1} /\ i[3] \in {0, 1}
         /\ i = <<i[1], i[2], i[3]>> /\ End(i) = <<i[1], i[2]>> /\ End(i) \in Ends
         /\ End(i)[1] = i[1] /\ End(i)[2] = i[2]
  BY DEF Interfaces, Ends, End, Nodes

LEMMA ChoiceOrder ==
  ASSUME site \in Sites, NEW c, Ringed(c) \/ Ported(c)
  PROVE  Order(c.order) /\ Len(c.order) = N /\ Planned(c) \subseteq Interfaces
<1>1. Order(c.order)
  BY ListedOrder DEF Ringed, Ported
<1> QED
  BY <1>1 DEF Order, Planned

LEMMA CableOf ==
  ASSUME site \in Sites, NEW c, Ringed(c) \/ Ported(c), NEW i \in Interfaces
  PROVE  /\ Place(c, i) \in 1 .. N
         /\ Ported(c) => Cable(c, End(i)) = 0
         /\ Ringed(c) =>
               Cable(c, End(i)) = IF i[2] = 0 THEN Place(c, i) - 1
                                  ELSE IF Place(c, i) = 1 THEN N - 1 ELSE Place(c, i) - 2
<1>1. Order(c.order) /\ Len(c.order) = N /\ i[1] \in Nodes /\ i[2] \in {0, 1}
  BY ChoiceOrder, Parts
<1>2. Place(c, i) \in 1 .. N
  BY <1>1, Positions DEF Place
<1>3. ASSUME Ported(c) PROVE Cable(c, End(i)) = 0
  BY <1>3 DEF Ported, Cable
<1>4. ASSUME Ringed(c)
      PROVE  Cable(c, End(i)) = IF i[2] = 0 THEN Place(c, i) - 1
                                  ELSE IF Place(c, i) = 1 THEN N - 1 ELSE Place(c, i) - 2
  <2>1. c.topology = "ring"
    BY <1>4 DEF Ringed
  <2>2. Cable(c, End(i)) = IF i[2] = 0 THEN Place(c, i) - 1
                           ELSE ((Place(c, i) - 1) - 1 + N) % N
    BY <2>1, <1>1, Parts DEF Cable, Place
  <2> QED
    BY <2>2, <1>2, Before
<1> QED
  BY <1>2, <1>3, <1>4

LEMMA NetRange ==
  ASSUME site \in Sites, NEW c, Ringed(c) \/ Ported(c), NEW i \in Interfaces
  PROVE  /\ Cable(c, End(i)) \in Nat /\ Net(c, i) \in Nat /\ Net(c, i) \in 0 .. Needed(c) - 1
         /\ Needed(c) \in Nat
<1>1. Place(c, i) \in 1 .. N /\ i[3] \in {0, 1} /\ i[2] \in {0, 1} /\ N \in Nat
  BY CableOf, Parts, Count
<1>2. CASE Ringed(c)
  <2>1. c.topology = "ring" /\ Len(c.order) = N
    BY <1>2, ChoiceOrder DEF Ringed
  <2>2. Needed(c) = 2 * N
    BY <2>1 DEF Needed
  <2>3. Cable(c, End(i)) \in 0 .. N - 1
    BY <1>1, <1>2, CableOf
  <2> QED
    BY <1>1, <2>2, <2>3 DEF Net
<1>3. CASE Ported(c)
  <2>1. c.topology # "ring"
    BY <1>3 DEF Ported
  <2>2. Needed(c) = 2 /\ Cable(c, End(i)) = 0
    BY <1>3, <2>1, CableOf DEF Needed
  <2> QED
    BY <1>1, <2>2 DEF Net
<1> QED
  BY <1>2, <1>3

LEMMA Quotient ==
  ASSUME NEW p \in Nat, p % 256 = 0, NEW k \in Nat, NEW h \in 0 .. 255
  PROVE  (p + 256 * k + h) \div 256 = (p \div 256) + k
  OBVIOUS

LEMMA AddressOf ==
  ASSUME site \in Sites, NEW c, Ringed(c) \/ Ported(c), NEW i \in Interfaces
  PROVE  /\ Address(c, i) = site.pool + 256 * Net(c, i) + (10 + Place(c, i))
         /\ Subnet(Address(c, i)) = Subnet(site.pool) + Net(c, i)
         /\ Subnet(site.pool) \in Nat
<1>1. Place(c, i) \in 1 .. N /\ N \in 2 .. 244 /\ Net(c, i) \in Nat
  BY CableOf, Count, NetRange
<1>2. site.pool \in Nat /\ site.pool % 256 = 0
  BY SiteFacts
<1>3. Address(c, i) = site.pool + 256 * Net(c, i) + 10 + Place(c, i)
  BY DEF Address, Net, Place
<1>4. 10 + Place(c, i) \in 0 .. 255
  BY <1>1
<1>5. Address(c, i) = site.pool + 256 * Net(c, i) + (10 + Place(c, i))
  BY <1>1, <1>2, <1>3
<1>6. Address(c, i) \div 256 = (site.pool \div 256) + Net(c, i)
  BY <1>1, <1>2, <1>4, <1>5, Quotient
<1>7. site.pool \div 256 \in Nat
  BY <1>2
<1> QED
  BY <1>5, <1>6, <1>7 DEF Subnet

LEMMA SameNet ==
  ASSUME site \in Sites, NEW c, Ringed(c) \/ Ported(c), NEW i \in Interfaces, NEW j \in Interfaces
  PROVE  /\ Net(c, i) = Net(c, j) <=> i[3] = j[3] /\ Cable(c, End(i)) = Cable(c, End(j))
         /\ Net(c, i) = Net(c, j) <=> Subnet(Address(c, i)) = Subnet(Address(c, j))
<1>1. /\ i[3] \in {0, 1} /\ Cable(c, End(i)) \in Nat /\ Net(c, i) \in Nat
      /\ j[3] \in {0, 1} /\ Cable(c, End(j)) \in Nat /\ Net(c, j) \in Nat
  BY Parts, NetRange
<1>2. Net(c, i) = Net(c, j) <=> i[3] = j[3] /\ Cable(c, End(i)) = Cable(c, End(j))
  <2> DEFINE a == Cable(c, End(i))
             b == Cable(c, End(j))
             r == i[3]
             q == j[3]
  <2>1. a \in Nat /\ b \in Nat /\ r \in {0, 1} /\ q \in {0, 1}
    BY <1>1
  <2>2. Net(c, i) = 2 * a + r /\ Net(c, j) = 2 * b + q
    BY DEF Net
  <2> HIDE DEF a, b, r, q
  <2>3. Net(c, i) = Net(c, j) <=> r = q /\ a = b
    BY <2>1, <2>2
  <2> QED
    BY <2>3 DEF a, b, r, q
<1>3. /\ Subnet(Address(c, i)) = Subnet(site.pool) + Net(c, i)
      /\ Subnet(Address(c, j)) = Subnet(site.pool) + Net(c, j)
      /\ Subnet(site.pool) \in Nat
  BY AddressOf
<1> QED
  BY <1>1, <1>2, <1>3

(* Both rails, both ports and all nodes together: no address is planned     *)
(* for two interfaces.                                                      *)
LEMMA AddressesDiffer ==
  ASSUME site \in Sites, NEW c, Ringed(c) \/ Ported(c),
         NEW i \in Planned(c), NEW j \in Planned(c), Address(c, i) = Address(c, j)
  PROVE  i = j
<1>0. i \in Interfaces /\ j \in Interfaces
  BY ChoiceOrder
<1>1. Net(c, i) = Net(c, j) /\ Place(c, i) = Place(c, j)
  <2>1. /\ Address(c, i) = site.pool + 256 * Net(c, i) + (10 + Place(c, i))
        /\ Address(c, j) = site.pool + 256 * Net(c, j) + (10 + Place(c, j))
    BY <1>0, AddressOf
  <2>2. /\ Place(c, i) \in 1 .. N /\ Place(c, j) \in 1 .. N /\ N \in 2 .. 244
        /\ Net(c, i) \in Nat /\ Net(c, j) \in Nat /\ site.pool \in Nat
    BY <1>0, CableOf, Count, NetRange, SiteFacts
  <2> DEFINE a == Place(c, i)
             b == Place(c, j)
             r == Net(c, i)
             q == Net(c, j)
             p == site.pool
  <2>3. a \in 1 .. 244 /\ b \in 1 .. 244 /\ r \in Nat /\ q \in Nat /\ p \in Nat
    BY <2>2
  <2>4. p + 256 * r + (10 + a) = p + 256 * q + (10 + b)
    BY <2>1
  <2> HIDE DEF a, b, r, q, p
  <2>5. r = q /\ a = b
    BY <2>3, <2>4
  <2> QED
    BY <2>5 DEF a, b, r, q
<1>2. Order(c.order) /\ i[1] \in Nodes /\ j[1] \in Nodes
  BY <1>0, ChoiceOrder, Parts
<1>3. i[1] = j[1]
  BY <1>1, <1>2, Positions DEF Place
<1>4. i[3] = j[3] /\ Cable(c, End(i)) = Cable(c, End(j))
  BY <1>0, <1>1, SameNet
<1>5. i[2] = j[2]
  <2>1. CASE Ringed(c)
    <3>1. i[2] \in {0, 1} /\ j[2] \in {0, 1} /\ N >= 3 /\ N \in Nat /\ Place(c, i) \in 1 .. N
      BY <1>0, <2>1, Parts, Count, CableOf DEF Ringed
    <3>2. /\ Cable(c, End(i)) = IF i[2] = 0 THEN Place(c, i) - 1
                                ELSE IF Place(c, i) = 1 THEN N - 1 ELSE Place(c, i) - 2
          /\ Cable(c, End(j)) = IF j[2] = 0 THEN Place(c, i) - 1
                                ELSE IF Place(c, i) = 1 THEN N - 1 ELSE Place(c, i) - 2
      BY <1>0, <1>1, <2>1, CableOf
    <3> QED
      BY <3>1, <3>2, <1>4
  <2>2. CASE Ported(c)
    <3>1. c.topology # "ring"
      BY <2>2 DEF Ported
    <3>2. i[2] = c.ports[Position(c.order, i[1])] /\ j[2] = c.ports[Position(c.order, j[1])]
      BY <3>1 DEF Planned
    <3> QED
      BY <3>2, <1>3
  <2> QED
    BY <2>1, <2>2
<1> QED
  BY <1>0, <1>3, <1>4, <1>5, Parts

-----------------------------------------------------------------------------
(* The plan that is made, and the state it is kept in. *)

Meet(c) ==
    {q \in Planned(c) \X Planned(c) :
        /\ q[1][1] # q[2][1] /\ q[1][3] = q[2][3]
        /\ Cable(c, End(q[1])) = Cable(c, End(q[2]))}

WellPlanned(p) ==
    /\ Ringed(p.choice) \/ Ported(p.choice)
    /\ p.addresses = [i \in Planned(p.choice) |-> Address(p.choice, i)]
    /\ p.pings = Meet(p.choice)
    /\ p = [choice |-> p.choice, addresses |-> p.addresses, pings |-> p.pings]
    /\ \A i \in DOMAIN p.addresses, n \in Nodes : Subnet(p.addresses[i]) # Subnet(n)

LEMMA PlanMade ==
  ASSUME site \in Sites, DOMAIN live \subseteq Interfaces,
         NEW p, p = MakePlan(ChooseTopology(site.nodes)), p # NoPlan
  PROVE  WellPlanned(p) /\ DOMAIN live \subseteq DOMAIN p.addresses
<1> DEFINE c == ChooseTopology(site.nodes)
           addresses == [i \in Planned(c) |-> Address(c, i)]
           nets == {Subnet(site.pool) + k : k \in 0 .. Needed(c) - 1}
<1>1. /\ c # NoChoice
      /\ \A n \in Nodes : Subnet(n) \notin nets
      /\ p = [choice |-> c, addresses |-> addresses, pings |-> Meet(c)]
  BY DEF MakePlan, Meet, Nodes
<1>2. (Ringed(c) \/ Ported(c)) /\ DOMAIN live \subseteq Planned(c)
  BY <1>1, Chosen
<1> HIDE DEF c
<1>3. ASSUME NEW i \in Planned(c), NEW n \in Nodes
      PROVE  Subnet(addresses[i]) # Subnet(n)
  <2>1. i \in Interfaces
    BY <1>2, ChoiceOrder
  <2>2. Net(c, i) \in 0 .. Needed(c) - 1 /\ Subnet(Address(c, i)) = Subnet(site.pool) + Net(c, i)
    BY <1>2, <2>1, NetRange, AddressOf
  <2>3. Subnet(addresses[i]) \in nets
    BY <2>2
  <2> QED
    BY <2>3, <1>1
<1> HIDE DEF addresses
<1>4. DOMAIN addresses = Planned(c)
  BY DEF addresses
<1>5. p.choice = c /\ p.addresses = addresses /\ p.pings = Meet(c)
  BY <1>1
<1>6. p = [choice |-> p.choice, addresses |-> p.addresses, pings |-> p.pings]
  BY <1>1
<1> QED
  BY <1>2, <1>3, <1>4, <1>5, <1>6 DEF WellPlanned, addresses

LEMMA PlanFacts ==
  ASSUME site \in Sites, NEW p, WellPlanned(p)
  PROVE  /\ p # NoPlan
         /\ DOMAIN p.addresses = Planned(p.choice) /\ DOMAIN p.addresses \subseteq Interfaces
         /\ IsInjective(p.addresses)
         /\ p.pings = Pings(p.addresses)
<1> DEFINE c == p.choice
           A == p.addresses
<1>1. (Ringed(c) \/ Ported(c)) /\ A = [i \in Planned(c) |-> Address(c, i)] /\ p.pings = Meet(c)
  BY DEF WellPlanned
<1>2. p # NoPlan
  <2>1. c.topology # "none"
    BY <1>1 DEF Ringed, Ported
  <2> QED
    BY <2>1 DEF NoPlan, NoChoice
<1> HIDE DEF c, A
<1>3. DOMAIN A = Planned(c) /\ Planned(c) \subseteq Interfaces /\ \A i \in Planned(c) : A[i] = Address(c, i)
  BY <1>1, ChoiceOrder
<1>4. IsInjective(A)
  BY <1>1, <1>3, AddressesDiffer DEF IsInjective
<1>5. ASSUME NEW q \in Planned(c) \X Planned(c)
      PROVE  q \in Meet(c) <=> q \in Pings(A)
  <2>1. q[1] \in Planned(c) /\ q[2] \in Planned(c)
    OBVIOUS
  <2>2. q[1] \in Interfaces /\ q[2] \in Interfaces /\ A[q[1]] = Address(c, q[1]) /\ A[q[2]] = Address(c, q[2])
    BY <2>1, <1>3
  <2>3. q[1][3] = q[2][3] /\ Cable(c, End(q[1])) = Cable(c, End(q[2]))
           <=> Subnet(A[q[1]]) = Subnet(A[q[2]])
    BY <1>1, <2>2, SameNet
  <2>4. q \in Meet(c) <=> q[1][1] # q[2][1] /\ q[1][3] = q[2][3]
                              /\ Cable(c, End(q[1])) = Cable(c, End(q[2]))
    BY DEF Meet
  <2>5. q \in Pings(A) <=> q[1][1] # q[2][1] /\ Subnet(A[q[1]]) = Subnet(A[q[2]])
    BY <1>3 DEF Pings
  <2> QED
    BY <2>3, <2>4, <2>5
<1>6. Meet(c) \subseteq Planned(c) \X Planned(c) /\ Pings(A) \subseteq Planned(c) \X Planned(c)
  BY <1>3 DEF Meet, Pings
<1>7. Meet(c) = Pings(A)
  BY <1>5, <1>6
<1> QED
  BY <1>1, <1>2, <1>3, <1>4, <1>7 DEF c, A

(* Until the plan is applied the addresses are the ones found, then the     *)
(* planned ones and no others.                                              *)
Setting ==
    /\ site \in Sites /\ phase \in {"new", "planned", "applied", "ready", "refused"}
    /\ cables \subseteq SUBSET Ends /\ moves \in 0 .. site.moves
Addressed ==
    /\ phase \in {"planned", "applied", "ready"} => \E p : plan = p /\ WellPlanned(p)
    /\ phase \in {"new", "refused"} => plan = NoPlan
    /\ phase \in {"applied", "ready"} => live = plan.addresses
    /\ phase \in {"new", "planned", "refused"} => live = site.live
    /\ phase = "planned" => DOMAIN live \subseteq DOMAIN plan.addresses
Planning == Setting /\ Addressed

LEMMA PlanningTyped ==
  ASSUME Planning
  PROVE  TypeOK
<1>1. site \in Sites
  BY DEF Planning, Setting
<1>2. DOMAIN site.live \subseteq Interfaces /\ IsInjective(site.live)
  BY <1>1, SiteFacts
<1>3. CASE phase \in {"planned", "applied", "ready"}
  <2>1. WellPlanned(plan)
    BY <1>3 DEF Planning, Addressed
  <2>2. DOMAIN plan.addresses \subseteq Interfaces /\ IsInjective(plan.addresses)
    BY <1>1, <2>1, PlanFacts
  <2>3. \A i \in DOMAIN plan.addresses, n \in ToSet(site.nodes) : Subnet(plan.addresses[i]) # Subnet(n)
    BY <2>1 DEF WellPlanned, Nodes
  <2>4. DOMAIN live \subseteq Interfaces /\ IsInjective(live)
    BY <1>2, <1>3, <2>2 DEF Planning, Addressed
  <2> QED
    BY <2>2, <2>3, <2>4 DEF TypeOK, Planning, Setting
<1>4. CASE phase \in {"new", "refused"}
  <2>1. plan.addresses = <<>> /\ live = site.live
    BY <1>4 DEF Planning, Addressed, NoPlan
  <2>2. DOMAIN plan.addresses = {} /\ IsInjective(plan.addresses)
    BY <2>1 DEF IsInjective
  <2> QED
    BY <1>2, <2>1, <2>2 DEF TypeOK, Planning, Setting
<1> QED
  BY <1>3, <1>4 DEF Planning, Setting

LEMMA StillSite ==
  ASSUME NEW CONSTANT p, site' = site
  PROVE  WellPlanned(p)' <=> WellPlanned(p)
<1>1. N' = N /\ Nodes' = Nodes /\ Interfaces' = Interfaces
  BY DEF N, Nodes, Interfaces
<1>2. ASSUME NEW CONSTANT o
      PROVE  Order(o)' <=> Order(o)
  BY <1>1 DEF Order
<1>3. ASSUME NEW CONSTANT c
      PROVE  /\ Ringed(c)' <=> Ringed(c)
             /\ Ported(c)' <=> Ported(c)
             /\ Planned(c)' = Planned(c)
  BY <1>1, <1>2 DEF Ringed, Ported, Planned, Position
<1>4. ASSUME NEW CONSTANT c, NEW CONSTANT i
      PROVE  Address(c, i)' = Address(c, i)
  BY DEF Address, Cable, Position, End
<1>5. ASSUME NEW CONSTANT c
      PROVE  Meet(c)' = Meet(c)
  BY <1>3 DEF Meet, Cable, Position, End
<1> QED
  BY <1>1, <1>3, <1>4, <1>5 DEF WellPlanned, Subnet

LEMMA PlanningInit ==
  ASSUME Init
  PROVE  Planning /\ LinksJoined
<1>1. /\ site \in Sites /\ cables = site.cables /\ live = site.live
      /\ plan = NoPlan /\ env = NoEnv /\ phase = "new" /\ moves = 0
  BY DEF Init
<1>2. site.cables \subseteq SUBSET Ends /\ site.moves \in Nat
  BY <1>1, SiteFacts
<1>3. Planning
  BY <1>1, <1>2 DEF Planning, Setting, Addressed
<1>4. env.links = {}
  BY <1>1 DEF NoEnv
<1> QED
  BY <1>3, <1>4 DEF LinksJoined

LEMMA PlannedStays ==
  ASSUME Addressed, UNCHANGED <<site, plan, live, phase>>
  PROVE  Addressed'
<1>1. ASSUME phase \in {"planned", "applied", "ready"}
      PROVE  \E p : plan' = p /\ WellPlanned(p)'
  <2>1. PICK p : plan = p /\ WellPlanned(p)
    BY <1>1 DEF Addressed
  <2>2. WellPlanned(p)'
    BY <2>1, StillSite
  <2> QED
    BY <2>1, <2>2
<1> QED
  BY <1>1 DEF Addressed, NoPlan, NoChoice

LEMMA PlanningNext ==
  ASSUME Planning, [Next]_vars
  PROVE  Planning'
<1>0. site \in Sites /\ site.moves \in Nat /\ DOMAIN site.live \subseteq Interfaces
  BY SiteFacts DEF Planning, Setting
<1>1. CASE Plan
  <2>1. phase = "new" /\ UNCHANGED <<site, cables, down, live, env, wired, moves>>
    BY <1>1 DEF Plan
  <2>2. live = site.live
    BY <2>1 DEF Planning, Addressed
  <2>3. PICK p : p = MakePlan(ChooseTopology(site.nodes))
    OBVIOUS
  <2>4. Setting'
    BY <1>1, <2>1 DEF Plan, Planning, Setting, Ends
  <2>5. CASE ClusterEnv(p) = NoEnv
    <3>1. phase' = "refused" /\ plan' = NoPlan
      BY <1>1, <2>3, <2>5 DEF Plan
    <3> QED
      BY <2>1, <2>2, <2>4, <3>1 DEF Planning, Addressed, NoPlan, NoChoice
  <2>6. CASE ClusterEnv(p) # NoEnv
    <3>1. phase' = "planned" /\ plan' = p
      BY <1>1, <2>3, <2>6 DEF Plan
    <3>2. p # NoPlan
      BY <2>6 DEF ClusterEnv
    <3>3. WellPlanned(p) /\ DOMAIN live \subseteq DOMAIN p.addresses
      BY <1>0, <2>2, <2>3, <3>2, PlanMade
    <3>4. WellPlanned(p)'
      BY <2>1, <3>3, StillSite
    <3> QED
      BY <2>1, <2>2, <2>4, <3>1, <3>3, <3>4 DEF Planning, Addressed
  <2> QED
    BY <2>5, <2>6
<1>2. CASE Apply
  <2>1. phase = "planned" /\ phase' = "applied" /\ UNCHANGED <<site, cables, plan, moves>>
    BY <1>2 DEF Apply
  <2>2. live' = [i \in DOMAIN plan.addresses \cup DOMAIN live |->
                   IF i \in DOMAIN plan.addresses THEN plan.addresses[i] ELSE live[i]]
    BY <1>2 DEF Apply
  <2>3. PICK p : plan = p /\ WellPlanned(p)
    BY <2>1 DEF Planning, Addressed
  <2>4. DOMAIN live \subseteq DOMAIN p.addresses
    BY <2>1, <2>3 DEF Planning, Addressed
  <2>5. p.addresses = [i \in DOMAIN p.addresses |-> p.addresses[i]]
    BY <2>3 DEF WellPlanned
  <2>6. live' = p.addresses
    BY <2>2, <2>3, <2>4, <2>5
  <2>7. WellPlanned(p)'
    BY <2>1, <2>3, StillSite
  <2>8. Setting'
    BY <2>1 DEF Planning, Setting, Ends
  <2> QED
    BY <2>1, <2>3, <2>6, <2>7, <2>8 DEF Planning, Addressed
<1>3. CASE Verify
  <2>1. phase = "applied" /\ phase' = "ready" /\ UNCHANGED <<site, cables, live, plan, moves>>
    BY <1>3 DEF Verify
  <2>2. PICK p : plan = p /\ WellPlanned(p)
    BY <2>1 DEF Planning, Addressed
  <2>3. WellPlanned(p)'
    BY <2>1, <2>2, StillSite
  <2>4. Setting'
    BY <2>1 DEF Planning, Setting, Ends
  <2>5. live' = plan'.addresses
    BY <2>1 DEF Planning, Addressed
  <2> QED
    BY <2>1, <2>2, <2>3, <2>4, <2>5 DEF Planning, Addressed
<1>4. CASE VerifyFails
  <2>1. phase' = "refused" /\ plan' = NoPlan /\ live' = site.live /\ UNCHANGED <<site, cables, moves>>
    BY <1>4 DEF VerifyFails
  <2>2. Setting'
    BY <2>1 DEF Planning, Setting, Ends
  <2>3. Addressed'
    BY <2>1 DEF Addressed, NoPlan, NoChoice
  <2> QED
    BY <2>2, <2>3 DEF Planning
<1>5. CASE SaveEnv
  <2>1. UNCHANGED <<site, cables, live, plan, phase, moves>>
    BY <1>5 DEF SaveEnv
  <2>2. Setting'
    BY <2>1 DEF Planning, Setting, Ends
  <2> QED
    BY <2>1, <2>2, PlannedStays DEF Planning
<1>6. CASE Discover
  <2>1. UNCHANGED <<site, cables, live, plan, phase, moves>>
    BY <1>6 DEF Discover
  <2>2. Setting'
    BY <2>1 DEF Planning, Setting, Ends
  <2> QED
    BY <2>1, <2>2, PlannedStays DEF Planning
<1>7. CASE MoveCable
  <2>1. moves < site.moves /\ moves' = moves + 1 /\ UNCHANGED <<site, live, plan, phase>>
    BY <1>7 DEF MoveCable
  <2>2. moves' \in 0 .. site.moves
    BY <1>0, <2>1 DEF Planning, Setting
  <2>3. cables' \subseteq SUBSET Ends
    <3>1. PICK out \in SUBSET cables : \E x, y \in Free(cables \ out) :
            cables' = IF x = y THEN cables \ out ELSE (cables \ out) \cup {{x, y}}
      BY <1>7 DEF MoveCable
    <3>2. PICK x \in Free(cables \ out), y \in Free(cables \ out) :
            cables' = IF x = y THEN cables \ out ELSE (cables \ out) \cup {{x, y}}
      BY <3>1
    <3>3. x \in Ends /\ y \in Ends
      BY <3>2 DEF Free
    <3>4. cables \subseteq SUBSET Ends
      BY DEF Planning, Setting
    <3> QED
      BY <3>2, <3>3, <3>4
  <2>4. Setting'
    BY <2>1, <2>2, <2>3 DEF Planning, Setting, Ends
  <2> QED
    BY <2>1, <2>4, PlannedStays DEF Planning
<1>8. CASE UNCHANGED vars
  <2>1. UNCHANGED <<site, cables, live, plan, phase, moves>>
    BY <1>8 DEF vars
  <2>2. Setting'
    BY <2>1 DEF Planning, Setting, Ends
  <2> QED
    BY <2>1, <2>2, PlannedStays DEF Planning
<1> QED
  BY <1>1, <1>2, <1>3, <1>4, <1>5, <1>6, <1>7, <1>8 DEF Next

(* No address is used twice, neither of the planned ones nor of those the   *)
(* interfaces have, and no planned one lies in a management network         *)
(* (make_plan).                                                             *)
THEOREM TypeCorrect == Spec => []TypeOK
<1>1. Init => Planning
  BY PlanningInit
<1>2. Planning /\ [Next]_vars => Planning'
  BY PlanningNext
<1>3. Planning => TypeOK
  BY PlanningTyped
<1> QED
  BY <1>1, <1>2, <1>3, PTL DEF Spec

-----------------------------------------------------------------------------
(* The saved links. *)

LEMMA SettingsLinks ==
  ASSUME NEW p
  PROVE  /\ \A l \in ClusterEnv(p).links : \E q \in p.pings : l = Link(p.addresses, {q[1], q[2]})
         /\ [ClusterEnv(p) EXCEPT !.by = "save-env"].links = ClusterEnv(p).links
  BY DEF ClusterEnv, NoEnv

LEMMA ReachedLink ==
  ASSUME DOMAIN live \subseteq Interfaces, NEW x \in DOMAIN live, NEW y \in DOMAIN live,
         x[1] # y[1], Joined(End(x), End(y))
  PROVE  Link(live, {x, y}) \in Linked
<1> DEFINE w == {x, y}
<1>1. x \in Interfaces /\ y \in Interfaces /\ w \subseteq DOMAIN live
  OBVIOUS
<1>2. w \in {{i, j} : i, j \in Interfaces}
  BY <1>1
<1>3. \E i, j \in w : w = {i, j} /\ i[1] # j[1] /\ Joined(End(i), End(j))
  OBVIOUS
<1> HIDE DEF w
<1>4. w \in Wires
  BY <1>2, <1>3 DEF Wires
<1>5. Link(live, w) \in Linked
  BY <1>1, <1>4 DEF Linked
<1> QED
  BY <1>5 DEF w

(* A configuration on the addresses that are live, reached by its pings,    *)
(* saves links that work.                                                   *)
LEMMA ReachedLinks ==
  ASSUME DOMAIN live \subseteq Interfaces, NEW p, p.addresses = live,
         Reachable(p.pings),
         \A q \in p.pings : q[1] \in DOMAIN live /\ q[2] \in DOMAIN live /\ q[1][1] # q[2][1]
  PROVE  ClusterEnv(p).links \subseteq Linked
<1>1. ASSUME NEW l \in ClusterEnv(p).links
      PROVE  l \in Linked
  <2>1. PICK q \in p.pings : l = Link(p.addresses, {q[1], q[2]})
    BY <1>1, SettingsLinks
  <2>2. Joined(End(q[1]), End(q[2]))
    BY DEF Reachable
  <2> QED
    BY <2>1, <2>2, ReachedLink
<1> QED
  BY <1>1

LEMMA PingsBetween ==
  ASSUME NEW addresses, NEW q \in Pings(addresses)
  PROVE  q[1] \in DOMAIN addresses /\ q[2] \in DOMAIN addresses /\ q[1][1] # q[2][1]
  BY DEF Pings

LEMMA DiscoveredLinks ==
  ASSUME Discover
  PROVE  env'.links \subseteq Linked
<1> DEFINE found == Discovered(site.nodes, site.nodes[1], live, Wires)
<1>1. found.nodes # <<>>
  BY DEF Discover
<1>2. PICK keep \in SUBSET ToSet(site.nodes) :
        env' = [nodes |-> RankOrder(Selected(found, Kept(found.nodes, keep)), site.nodes[1]),
                links |-> Selected(found, Kept(found.nodes, keep)).links,
                ring |-> TRUE, by |-> "discover"]
  BY DEF Discover
<1>3. env'.links \subseteq found.links
  <2> HIDE DEF found
  <2>1. env'.links = Selected(found, Kept(found.nodes, keep)).links
    BY <1>2
  <2>2. \A nodes : Selected(found, nodes).links \subseteq found.links
    BY DEF Selected
  <2> QED
    BY <2>1, <2>2
<1>4. Facing(live) \subseteq Wires /\ found.links = {Link(live, w) : w \in Facing(live)}
  <2> DEFINE all == [nodes |-> site.nodes, links |-> {Link(live, w) : w \in Facing(live)}]
  <2>1. found = IF Facing(live) \subseteq Wires /\ WellFormed(all)
                THEN [nodes |-> RankOrder(all, site.nodes[1]), links |-> all.links]
                ELSE [nodes |-> <<>>, links |-> {}]
    BY DEF Discovered
  <2>2. all.links = {Link(live, w) : w \in Facing(live)}
    OBVIOUS
  <2> HIDE DEF found, all
  <2> QED
    BY <1>1, <2>1, <2>2
<1>5. \A w \in Facing(live) : w \subseteq DOMAIN live
  BY DEF Facing
<1> HIDE DEF found
<1> QED
  BY <1>3, <1>4, <1>5 DEF Linked

LEMMA LinksNext ==
  ASSUME Planning, LinksJoined, [Next]_vars
  PROVE  LinksJoined'
<1>0. site \in Sites
  BY DEF Planning, Setting
<1>1. CASE Verify
  <2>1. phase = "applied" /\ Reachable(plan.pings) /\ env' = ClusterEnv(plan) /\ wired' = Linked
    BY <1>1 DEF Verify
  <2>2. PICK p : plan = p /\ WellPlanned(p)
    BY <2>1 DEF Planning, Addressed
  <2>3. live = p.addresses
    BY <2>1, <2>2 DEF Planning, Addressed
  <2>4. DOMAIN live \subseteq Interfaces /\ p.pings = Pings(live)
    BY <1>0, <2>2, <2>3, PlanFacts
  <2>5. ClusterEnv(p).links \subseteq Linked
    BY <2>1, <2>2, <2>3, <2>4, PingsBetween, ReachedLinks
  <2> QED
    BY <2>1, <2>2, <2>5 DEF LinksJoined
<1>2. CASE SaveEnv
  <2> DEFINE p == SavedConfiguration(site.nodes, plan.addresses)
  <2>1. /\ phase = "ready" /\ ClusterEnv(p) # NoEnv /\ Reachable(p.pings)
        /\ env' = [ClusterEnv(p) EXCEPT !.by = "save-env"] /\ wired' = Linked
    BY <1>2 DEF SaveEnv
  <2>2. PICK r : plan = r /\ WellPlanned(r)
    BY <2>1 DEF Planning, Addressed
  <2>3. live = plan.addresses /\ DOMAIN live \subseteq Interfaces
    BY <1>0, <2>1, <2>2, PlanFacts DEF Planning, Addressed
  <2>4. p # NoPlan
    BY <2>1 DEF ClusterEnv
  <2>5. p.addresses = plan.addresses /\ p.pings = Pings(plan.addresses)
    BY <2>4 DEF SavedConfiguration
  <2> HIDE DEF p
  <2>6. ClusterEnv(p).links \subseteq Linked
    BY <2>1, <2>3, <2>5, PingsBetween, ReachedLinks
  <2>7. env'.links = ClusterEnv(p).links
    BY <2>1, SettingsLinks
  <2> QED
    BY <2>1, <2>6, <2>7 DEF LinksJoined
<1>3. CASE Discover
  <2>1. wired' = Linked
    BY <1>3 DEF Discover
  <2> QED
    BY <1>3, <2>1, DiscoveredLinks DEF LinksJoined
<1>4. CASE Plan \/ Apply \/ VerifyFails \/ MoveCable \/ UNCHANGED vars
  <2>1. UNCHANGED <<env, wired>>
    BY <1>4 DEF Plan, Apply, VerifyFails, MoveCable, vars
  <2> QED
    BY <2>1 DEF LinksJoined
<1> QED
  BY <1>1, <1>2, <1>3, <1>4 DEF Next

(* Setup, --save-env and discovery save links that worked at that moment,   *)
(* wherever the topology was known from and whatever was moved before.      *)
THEOREM LinksWorked == Spec => []LinksJoined
<1>1. Init => Planning /\ LinksJoined
  BY PlanningInit
<1>2. Planning /\ LinksJoined /\ [Next]_vars => Planning' /\ LinksJoined'
  BY PlanningNext, LinksNext
<1> QED
  BY <1>1, <1>2, PTL DEF Spec

-----------------------------------------------------------------------------
(* The configuration recovered from the addresses. *)

Used(addresses, n) == {i[2] : i \in {j \in DOMAIN addresses : j[1] = n}}
OneNet(addresses, r) ==
    Cardinality({Subnet(addresses[i]) : i \in {j \in DOMAIN addresses : j[3] = r}}) = 1
Single(addresses) == {n \in Nodes : Cardinality(Used(addresses, n)) = 1}

LEMMA SavedIs ==
  ASSUME site \in Sites, NEW A, live = A
  PROVE  LET single == Single(A)
             order == DetectRing(site.nodes, A)
             ports == [k \in DOMAIN site.nodes |-> CHOOSE p \in Used(A, site.nodes[k]) : TRUE]
             as(c) == [choice |-> c, addresses |-> A, pings |-> Pings(A)]
         IN  SavedConfiguration(site.nodes, A) =
                 IF single = {} /\ N >= 3 /\ order # <<>>
                 THEN as([topology |-> "ring", order |-> order, ports |-> <<>>])
                 ELSE IF single = Nodes /\ OneNet(A, 0) /\ OneNet(A, 1)
                 THEN as([topology |-> IF N = 2 THEN "direct" ELSE "switch",
                          order |-> site.nodes, ports |-> ports])
                 ELSE NoPlan
  BY DEF SavedConfiguration, Single, Used, OneNet, Nodes

LEMMA OneElement ==
  ASSUME NEW x
  PROVE  Cardinality({x}) = 1 /\ (CHOOSE y \in {x} : TRUE) = x
  BY FS_Singleton

LEMMA BothPorts == Cardinality({0, 1}) # 1
<1>1. IsFiniteSet({0, 1})
  <2>1. IsFiniteSet({0})
    BY FS_Singleton
  <2>2. IsFiniteSet({0} \cup {1})
    BY <2>1, FS_AddElement
  <2>3. {0} \cup {1} = {0, 1}
    OBVIOUS
  <2> QED
    BY <2>2, <2>3
<1>2. ASSUME NEW x, {0, 1} = {x}
      PROVE  FALSE
  <2>1. 0 \in {x} /\ 1 \in {x}
    BY <1>2
  <2> QED
    BY <2>1
<1> QED
  BY <1>1, <1>2, FS_Singleton

(* In a ring every node shares each of its port 0 networks with port 1 of   *)
(* the next node of the order, and with no other.                           *)
LEMMA NextShares ==
  ASSUME site \in Sites, NEW c, Ringed(c), NEW n \in Nodes, NEW m \in Nodes, NEW r \in {0, 1}
  PROVE  Subnet(Address(c, <<n, 0, r>>)) = Subnet(Address(c, <<m, 1, r>>))
            <=> m = Successor(c.order, Position(c.order, n))
<1> DEFINE i == <<n, 0, r>>
           j == <<m, 1, r>>
           k == Position(c.order, n)
           l == Position(c.order, m)
<1>1. i \in Interfaces /\ j \in Interfaces
  BY DEF Interfaces, Nodes
<1>2. /\ i[1] = n /\ i[2] = 0 /\ i[3] = r
      /\ j[1] = m /\ j[2] = 1 /\ j[3] = r
  OBVIOUS
<1>3. Order(c.order) /\ N \in Nat /\ N >= 3
  BY Count DEF Ringed
<1> HIDE DEF i, j
<1>4. Place(c, i) = k /\ Place(c, j) = l
  BY <1>2 DEF Place
<1>5. /\ Cable(c, End(i)) = k - 1
      /\ Cable(c, End(j)) = IF l = 1 THEN N - 1 ELSE l - 2
  BY <1>1, <1>2, <1>4, CableOf
<1>6. Subnet(Address(c, i)) = Subnet(Address(c, j)) <=> Cable(c, End(i)) = Cable(c, End(j))
  BY <1>1, <1>2, SameNet
<1>7. k \in 1 .. N /\ l \in 1 .. N /\ c.order[l] = m
  BY <1>3, Positions
<1>8. \A a \in 1 .. N : Position(c.order, c.order[a]) = a
  BY <1>3, Positions
<1> HIDE DEF k, l
<1>9. (k % N) + 1 = IF k = N THEN 1 ELSE k + 1
  BY <1>7, Turn
<1>10. (k % N) + 1 \in 1 .. N
  BY <1>3, <1>7, <1>9
<1>11. m = Successor(c.order, k) <=> l = (k % N) + 1
  BY <1>7, <1>8, <1>10 DEF Successor, l
<1>12. k - 1 = (IF l = 1 THEN N - 1 ELSE l - 2) <=> l = IF k = N THEN 1 ELSE k + 1
  BY <1>3, <1>7
<1> QED
  BY <1>5, <1>6, <1>9, <1>11, <1>12 DEF i, j, k

LEMMA SuccessorOther ==
  ASSUME site \in Sites, NEW o, Order(o), NEW n \in Nodes
  PROVE  Successor(o, Position(o, n)) \in Nodes \ {n}
<1> DEFINE k == Position(o, n)
<1>1. k \in 1 .. N /\ o[k] = n /\ N \in Nat /\ N >= 2
  BY Positions, Count
<1> HIDE DEF k
<1>2. (k % N) + 1 = IF k = N THEN 1 ELSE k + 1
  BY <1>1, Turn
<1>3. (k % N) + 1 \in 1 .. N /\ (k % N) + 1 # k
  BY <1>1, <1>2
<1>4. o[(k % N) + 1] \in Nodes /\ o[(k % N) + 1] # n
  BY <1>1, <1>3, Positions
<1> QED
  BY <1>4 DEF Successor, k

LEMMA RingRecovered ==
  ASSUME site \in Sites, NEW c, Ringed(c)
  PROVE  DetectRing(site.nodes, [i \in Planned(c) |-> Address(c, i)]) = c.order
<1> DEFINE A == [i \in Planned(c) |-> Address(c, i)]
           net(i) == IF i \in DOMAIN A THEN {Subnet(A[i])} ELSE {}
           matches(n, r) == {m \in ToSet(site.nodes) \ {n} : net(<<n, 0, r>>) \cap net(<<m, 1, r>>) # {}}
           next == [n \in ToSet(site.nodes) |-> CHOOSE m \in matches(n, 0) : TRUE]
           after(n) == Successor(c.order, Position(c.order, n))
<1>0. Order(c.order) /\ Planned(c) = Interfaces
  BY DEF Ringed, Planned
<1>1. DetectRing(site.nodes, A) =
         IF \A n \in ToSet(site.nodes) : Cardinality(matches(n, 0)) = 1 /\ matches(n, 0) = matches(n, 1)
         THEN Closed(site.nodes, next) ELSE <<>>
  BY DEF DetectRing
<1>2. ASSUME NEW n \in Nodes, NEW p \in {0, 1}, NEW r \in {0, 1}
      PROVE  net(<<n, p, r>>) = {Subnet(Address(c, <<n, p, r>>))}
  <2>1. <<n, p, r>> \in Interfaces
    BY DEF Interfaces, Nodes
  <2> QED
    BY <1>0, <2>1
<1> HIDE DEF net
<1>3. ASSUME NEW n \in Nodes, NEW r \in {0, 1}
      PROVE  matches(n, r) = {after(n)}
  <2>1. after(n) \in Nodes \ {n}
    BY <1>0, SuccessorOther
  <2>2. ASSUME NEW m \in Nodes
        PROVE  net(<<n, 0, r>>) \cap net(<<m, 1, r>>) # {} <=> m = after(n)
    <3>1. /\ net(<<n, 0, r>>) = {Subnet(Address(c, <<n, 0, r>>))}
          /\ net(<<m, 1, r>>) = {Subnet(Address(c, <<m, 1, r>>))}
      BY <1>2
    <3>2. Subnet(Address(c, <<n, 0, r>>)) = Subnet(Address(c, <<m, 1, r>>)) <=> m = after(n)
      BY NextShares
    <3> QED
      BY <3>1, <3>2
  <2> HIDE DEF after
  <2> QED
    BY <2>1, <2>2 DEF Nodes
<1> HIDE DEF matches
<1>4. ASSUME NEW n \in Nodes
      PROVE  Cardinality(matches(n, 0)) = 1 /\ matches(n, 0) = matches(n, 1) /\ next[n] = after(n)
  <2>1. matches(n, 0) = {after(n)} /\ matches(n, 1) = {after(n)}
    BY <1>3
  <2>2. next[n] = CHOOSE m \in matches(n, 0) : TRUE
    BY DEF Nodes
  <2> QED
    BY <2>1, <2>2, OneElement
<1> HIDE DEF next
<1>5. \A k \in 1 .. N : next[c.order[k]] = Successor(c.order, k)
  <2> TAKE k \in 1 .. N
  <2>1. c.order[k] \in Nodes /\ Position(c.order, c.order[k]) = k
    BY <1>0, Positions
  <2> QED
    BY <2>1, <1>4
<1>6. Closed(site.nodes, next) = c.order
  BY <1>0, <1>5, ClosedAlong
<1> QED
  BY <1>1, <1>4, <1>6 DEF Nodes

LEMMA PortedInterfaces ==
  ASSUME site \in Sites, NEW c, Ported(c), NEW k \in 1 .. N, NEW r \in {0, 1}
  PROVE  <<site.nodes[k], c.ports[k], r>> \in Planned(c)
<1> DEFINE n == site.nodes[k]
           i == <<n, c.ports[k], r>>
<1>1. n \in Nodes /\ Position(site.nodes, n) = k /\ c.ports[k] \in {0, 1}
  BY ListedOrder, Positions DEF Ported
<1>2. i \in Interfaces /\ i[1] = n /\ i[2] = c.ports[k]
  BY <1>1 DEF Interfaces, Nodes
<1>3. c.topology # "ring" /\ c.order = site.nodes
  BY DEF Ported
<1> HIDE DEF n, i
<1>4. i \in Planned(c)
  BY <1>1, <1>2, <1>3 DEF Planned
<1> QED
  BY <1>4 DEF i, n

LEMMA PortedUsed ==
  ASSUME site \in Sites, NEW c, Ported(c), NEW A, DOMAIN A = Planned(c), NEW k \in 1 .. N
  PROVE  Used(A, site.nodes[k]) = {c.ports[k]}
<1>1. <<site.nodes[k], c.ports[k], 0>> \in DOMAIN A
  BY PortedInterfaces
<1>2. c.ports[k] \in Used(A, site.nodes[k])
  <2> DEFINE i == <<site.nodes[k], c.ports[k], 0>>
  <2>1. i \in DOMAIN A /\ i[1] = site.nodes[k] /\ i[2] = c.ports[k]
    BY <1>1
  <2> HIDE DEF i
  <2> QED
    BY <2>1 DEF Used
<1>3. ASSUME NEW i \in DOMAIN A, i[1] = site.nodes[k]
      PROVE  i[2] = c.ports[k]
  <2>1. Position(site.nodes, site.nodes[k]) = k
    BY ListedOrder, Positions
  <2>2. c.topology # "ring" /\ c.order = site.nodes
    BY DEF Ported
  <2>3. i[2] = c.ports[Position(c.order, i[1])]
    BY <2>2 DEF Planned
  <2> QED
    BY <1>3, <2>1, <2>2, <2>3
<1> QED
  BY <1>2, <1>3 DEF Used

LEMMA PortedOneNet ==
  ASSUME site \in Sites, NEW c, Ported(c), NEW A, A = [i \in Planned(c) |-> Address(c, i)],
         NEW r \in {0, 1}
  PROVE  OneNet(A, r)
<1> DEFINE nets == {Subnet(A[i]) : i \in {j \in DOMAIN A : j[3] = r}}
<1>1. ASSUME NEW i \in DOMAIN A, i[3] = r
      PROVE  Subnet(A[i]) = Subnet(site.pool) + r
  <2>1. i \in Interfaces /\ A[i] = Address(c, i)
    BY ChoiceOrder
  <2>2. Net(c, i) = r
    BY <1>1, <2>1, CableOf DEF Net
  <2> QED
    BY <2>1, <2>2, AddressOf
<1>2. \E i \in DOMAIN A : i[3] = r
  <2>1. 1 \in 1 .. N
    BY Count
  <2> DEFINE i == <<site.nodes[1], c.ports[1], r>>
  <2>2. i \in DOMAIN A /\ i[3] = r
    BY <2>1, PortedInterfaces
  <2> QED
    BY <2>2
<1>3. nets = {Subnet(site.pool) + r}
  <2> DEFINE x == Subnet(site.pool) + r
  <2>1. \A i \in DOMAIN A : i[3] = r => Subnet(A[i]) = x
    BY <1>1
  <2> HIDE DEF x
  <2>2. nets = {x}
    BY <1>2, <2>1
  <2> QED
    BY <2>2 DEF x
<1> QED
  BY <1>3, OneElement DEF OneNet

LEMMA RingSaved ==
  ASSUME site \in Sites, NEW p, WellPlanned(p), Ringed(p.choice), live = p.addresses
  PROVE  SavedConfiguration(site.nodes, p.addresses) = p
<1> DEFINE c == p.choice
           A == p.addresses
<1>1. A = [i \in Planned(c) |-> Address(c, i)] /\ p.pings = Pings(A)
  BY PlanFacts DEF WellPlanned
<1>2. p = [choice |-> c, addresses |-> A, pings |-> Pings(A)]
  BY <1>1 DEF WellPlanned
<1>3. c = [topology |-> "ring", order |-> c.order, ports |-> <<>>] /\ N >= 3 /\ Order(c.order)
  BY DEF Ringed
<1> HIDE DEF c, A
<1>4. DetectRing(site.nodes, A) = c.order
  BY <1>1, RingRecovered DEF c
<1>5. c.order # <<>>
  <2>1. Len(c.order) = N /\ N >= 2
    BY <1>3, Count DEF Order
  <2> QED
    BY <2>1
<1>6. DOMAIN A = Interfaces
  BY <1>1, <1>3 DEF Planned
<1>7. Single(A) = {}
  <2>1. ASSUME NEW n \in Nodes
        PROVE  Used(A, n) = {0, 1}
    <3>1. ASSUME NEW b \in {0, 1}
          PROVE  b \in Used(A, n)
      <4> DEFINE i == <<n, b, 0>>
      <4>1. i \in DOMAIN A /\ i[1] = n /\ i[2] = b
        BY <1>6 DEF Interfaces, Nodes
      <4> HIDE DEF i
      <4> QED
        BY <4>1 DEF Used
    <3>2. \A b \in Used(A, n) : b \in {0, 1}
      BY <1>6, Parts DEF Used
    <3> QED
      BY <3>1, <3>2
  <2> QED
    BY <2>1, BothPorts DEF Single
<1>8. SavedConfiguration(site.nodes, A) =
        [choice |-> [topology |-> "ring", order |-> c.order, ports |-> <<>>],
         addresses |-> A, pings |-> Pings(A)]
  BY <1>3, <1>4, <1>5, <1>7, SavedIs DEF A
<1> QED
  BY <1>2, <1>3, <1>8 DEF A

LEMMA PortsSaved ==
  ASSUME site \in Sites, NEW p, WellPlanned(p), Ported(p.choice), live = p.addresses
  PROVE  LET s == SavedConfiguration(site.nodes, p.addresses)
         IN  /\ s = [choice |-> [topology |-> s.choice.topology, order |-> p.choice.order,
                                 ports |-> p.choice.ports],
                     addresses |-> p.addresses, pings |-> p.pings]
             /\ s.choice.topology \in {"direct", "switch"}
<1> DEFINE c == p.choice
           A == p.addresses
           s == SavedConfiguration(site.nodes, A)
           ports == [k \in DOMAIN site.nodes |-> CHOOSE b \in Used(A, site.nodes[k]) : TRUE]
           t == IF N = 2 THEN "direct" ELSE "switch"
<1>1. A = [i \in Planned(c) |-> Address(c, i)] /\ p.pings = Pings(A)
  BY PlanFacts DEF WellPlanned
<1>2. c.ports \in [1 .. N -> {0, 1}] /\ c.order = site.nodes /\ Ported(c)
  BY DEF Ported
<1> HIDE DEF c, A
<1>3. \A k \in 1 .. N : Used(A, site.nodes[k]) = {c.ports[k]}
  BY <1>1, <1>2, PortedUsed
<1>4. Single(A) = Nodes
  <2>1. ASSUME NEW n \in Nodes
        PROVE  Cardinality(Used(A, n)) = 1
    <3>1. PICK k \in 1 .. N : site.nodes[k] = n
      BY NodesFacts
    <3>2. Used(A, n) = {c.ports[k]}
      BY <3>1, <1>3
    <3> QED
      BY <3>2, OneElement
  <2> QED
    BY <2>1 DEF Single
<1>5. Nodes # {}
  BY NodesFacts, Count
<1>6. OneNet(A, 0) /\ OneNet(A, 1)
  BY <1>1, <1>2, PortedOneNet
<1>7. ports = c.ports
  <2>1. DOMAIN site.nodes = 1 .. N
    BY NodesFacts
  <2>2. \A k \in 1 .. N : ports[k] = c.ports[k]
    BY <2>1, <1>3, OneElement
  <2>3. ports = [k \in 1 .. N |-> ports[k]]
    BY <2>1
  <2> HIDE DEF ports
  <2> QED
    BY <2>2, <2>3, <1>2
<1>8. s = [choice |-> [topology |-> t, order |-> site.nodes, ports |-> ports],
           addresses |-> A, pings |-> Pings(A)]
  BY <1>4, <1>5, <1>6, SavedIs DEF A
<1> HIDE DEF ports, s
<1>9. t \in {"direct", "switch"}
  OBVIOUS
<1> HIDE DEF t
<1>10. s.choice.topology = t
  BY <1>8
<1>11. s = [choice |-> [topology |-> s.choice.topology, order |-> c.order, ports |-> c.ports],
            addresses |-> A, pings |-> p.pings]
  BY <1>1, <1>2, <1>7, <1>8, <1>10
<1> QED
  BY <1>9, <1>10, <1>11 DEF s, c, A

LEMMA SameSettings ==
  ASSUME NEW p, NEW s, s # NoPlan, p # NoPlan,
         s.choice.order = p.choice.order, s.choice.ports = p.choice.ports,
         s.choice.topology # "ring", p.choice.topology # "ring",
         s.addresses = p.addresses, s.pings = p.pings
  PROVE  ClusterEnv(s) = ClusterEnv(p)
  BY DEF ClusterEnv, NcclRing

LEMMA PlanningHolds ==
  ASSUME Planning
  PROVE  JournalsHoldPlan
<1> SUFFICES ASSUME phase = "ready"
             PROVE  LET s == SavedConfiguration(site.nodes, plan.addresses)
                    IN  /\ s.pings = plan.pings /\ s.choice.order = plan.choice.order
                        /\ ClusterEnv(s) = ClusterEnv(plan)
  BY DEF JournalsHoldPlan
<1>0. site \in Sites
  BY DEF Planning, Setting
<1>1. PICK p : plan = p /\ WellPlanned(p)
  BY DEF Planning, Addressed
<1>2. live = p.addresses
  BY <1>1 DEF Planning, Addressed
<1> DEFINE s == SavedConfiguration(site.nodes, p.addresses)
<1>3. CASE Ringed(p.choice)
  <2>1. s = p
    BY <1>0, <1>1, <1>2, <1>3, RingSaved
  <2> HIDE DEF s
  <2> QED
    BY <1>1, <2>1 DEF s
<1>4. CASE Ported(p.choice)
  <2>1. /\ s = [choice |-> [topology |-> s.choice.topology, order |-> p.choice.order,
                            ports |-> p.choice.ports],
                addresses |-> p.addresses, pings |-> p.pings]
        /\ s.choice.topology \in {"direct", "switch"}
    BY <1>0, <1>1, <1>2, <1>4, PortsSaved
  <2> HIDE DEF s
  <2>2. /\ s.choice.order = p.choice.order /\ s.choice.ports = p.choice.ports
        /\ s.addresses = p.addresses /\ s.pings = p.pings
    BY <2>1
  <2>3. s.choice.topology # "ring" /\ p.choice.topology # "ring" /\ s.choice.topology # "none"
    BY <2>1, <1>4 DEF Ported
  <2>4. s # NoPlan /\ p # NoPlan
    BY <1>0, <1>1, <2>3, PlanFacts DEF NoPlan, NoChoice
  <2>5. ClusterEnv(s) = ClusterEnv(p)
    BY <2>2, <2>3, <2>4, SameSettings
  <2> QED
    BY <1>1, <2>2, <2>5 DEF s
<1> QED
  BY <1>1, <1>3, <1>4 DEF WellPlanned

(* saved_configuration finds the plan again in the addresses alone: order,  *)
(* pings and launch settings.                                               *)
THEOREM PlanRecovered == Spec => []JournalsHoldPlan
<1>1. Init => Planning
  BY PlanningInit
<1>2. Planning /\ [Next]_vars => Planning'
  BY PlanningNext
<1>3. Planning => JournalsHoldPlan
  BY PlanningHolds
<1> QED
  BY <1>1, <1>2, <1>3, PTL DEF Spec

-----------------------------------------------------------------------------
(* The graph of a plan. *)

LEMMA AfterIs ==
  ASSUME NEW m \in Nat, m >= 3, NEW k \in 1 .. m
  PROVE  After(m, k) \in 1 .. m /\ After(m, k) # k
  BY DEF After

(* In a ring the interfaces that meet are those of neighbours.              *)
LEMMA RingMeets ==
  ASSUME site \in Sites, NEW c, Ringed(c), NEW j \in 1 .. N, NEW k \in 1 .. N
  PROVE  (\E q \in Meet(c) : q[1][1] = c.order[j] /\ q[2][1] = c.order[k])
            <=> (k = After(N, j) \/ j = After(N, k))
<1> DEFINE o == c.order
<1>0. Order(o) /\ N \in Nat /\ N >= 3 /\ Planned(c) = Interfaces
  BY Count DEF Ringed, Planned
<1>1. \A a \in 1 .. N : o[a] \in Nodes /\ Position(o, o[a]) = a
  BY <1>0, Positions
<1>o. o = c.order
  OBVIOUS
<1> HIDE DEF o
<1>2. ASSUME NEW q \in Meet(c), q[1][1] = o[j], q[2][1] = o[k]
      PROVE  k = After(N, j) \/ j = After(N, k)
  <2> DEFINE x == q[1]
             y == q[2]
  <2>1. x \in Interfaces /\ y \in Interfaces /\ x[1] # y[1] /\ Cable(c, End(x)) = Cable(c, End(y))
    BY <1>0 DEF Meet
  <2>2. x[1] = o[j] /\ y[1] = o[k]
    BY <1>2
  <2> HIDE DEF x, y
  <2>3. Place(c, x) = j /\ Place(c, y) = k /\ j # k
    BY <1>1, <1>o, <2>1, <2>2 DEF Place
  <2>4. /\ Cable(c, End(x)) = IF x[2] = 0 THEN j - 1 ELSE IF j = 1 THEN N - 1 ELSE j - 2
        /\ Cable(c, End(y)) = IF y[2] = 0 THEN k - 1 ELSE IF k = 1 THEN N - 1 ELSE k - 2
    BY <2>1, <2>3, CableOf
  <2>5. (IF x[2] = 0 THEN j - 1 ELSE IF j = 1 THEN N - 1 ELSE j - 2)
          = (IF y[2] = 0 THEN k - 1 ELSE IF k = 1 THEN N - 1 ELSE k - 2)
    BY <2>1, <2>4
  <2> QED
    BY ONLY <1>0, <2>3, <2>5, j \in 1 .. N, k \in 1 .. N DEF After
<1>3. ASSUME NEW a \in 1 .. N, NEW b \in 1 .. N, b = After(N, a)
      PROVE  \E x, y \in Interfaces :
                /\ x[1] = o[a] /\ y[1] = o[b] /\ x[1] # y[1] /\ x[3] = y[3]
                /\ Cable(c, End(x)) = Cable(c, End(y))
  <2> DEFINE x == <<o[a], 0, 0>>
             y == <<o[b], 1, 0>>
  <2>1. x \in Interfaces /\ y \in Interfaces
    BY <1>1 DEF Interfaces, Nodes
  <2>2. x[1] = o[a] /\ x[2] = 0 /\ x[3] = 0 /\ y[1] = o[b] /\ y[2] = 1 /\ y[3] = 0
    OBVIOUS
  <2> HIDE DEF x, y
  <2>3. Place(c, x) = a /\ Place(c, y) = b
    BY <1>1, <1>o, <2>2 DEF Place
  <2>4. Cable(c, End(x)) = a - 1 /\ Cable(c, End(y)) = IF b = 1 THEN N - 1 ELSE b - 2
    BY <2>1, <2>2, <2>3, CableOf
  <2>5. a - 1 = (IF b = 1 THEN N - 1 ELSE b - 2)
    BY ONLY <1>0, <1>3, a \in 1 .. N DEF After
  <2>6. a # b
    BY <1>0, <1>3, AfterIs
  <2>7. o[a] # o[b]
    BY <1>1, <2>6
  <2> QED
    BY <2>1, <2>2, <2>4, <2>5, <2>7
<1>4. ASSUME k = After(N, j)
      PROVE  \E q \in Meet(c) : q[1][1] = o[j] /\ q[2][1] = o[k]
  <2>1. PICK x, y \in Interfaces :
                /\ x[1] = o[j] /\ y[1] = o[k] /\ x[1] # y[1] /\ x[3] = y[3]
                /\ Cable(c, End(x)) = Cable(c, End(y))
    BY <1>3, <1>4
  <2> DEFINE q == <<x, y>>
  <2>2. q \in Planned(c) \X Planned(c) /\ q[1] = x /\ q[2] = y
    BY <1>0
  <2> HIDE DEF q
  <2>3. q \in Meet(c)
    BY <2>1, <2>2 DEF Meet
  <2> QED
    BY <2>1, <2>2, <2>3
<1>5. ASSUME j = After(N, k)
      PROVE  \E q \in Meet(c) : q[1][1] = o[j] /\ q[2][1] = o[k]
  <2>1. PICK x, y \in Interfaces :
                /\ x[1] = o[k] /\ y[1] = o[j] /\ x[1] # y[1] /\ x[3] = y[3]
                /\ Cable(c, End(x)) = Cable(c, End(y))
    BY <1>3, <1>5
  <2> DEFINE q == <<y, x>>
  <2>2. q \in Planned(c) \X Planned(c) /\ q[1] = y /\ q[2] = x
    BY <1>0
  <2> HIDE DEF q
  <2>3. q \in Meet(c)
    BY <2>1, <2>2 DEF Meet
  <2> QED
    BY <2>1, <2>2, <2>3
<1> QED
  BY <1>2, <1>4, <1>5 DEF o

(* With one port of every node, an interface of each meets one of each.     *)
LEMMA PortsMeet ==
  ASSUME site \in Sites, NEW c, Ported(c), NEW n \in Nodes, NEW m \in Nodes, n # m
  PROVE  \E q \in Meet(c) : q[1][1] = n /\ q[2][1] = m
<1>1. PICK a \in 1 .. N : site.nodes[a] = n
  BY NodesFacts
<1>2. PICK b \in 1 .. N : site.nodes[b] = m
  BY NodesFacts
<1> DEFINE x == <<site.nodes[a], c.ports[a], 0>>
           y == <<site.nodes[b], c.ports[b], 0>>
<1>3. x \in Planned(c) /\ y \in Planned(c)
  BY PortedInterfaces
<1>4. x[1] = n /\ y[1] = m /\ x[3] = 0 /\ y[3] = 0
  BY <1>1, <1>2
<1> HIDE DEF x, y
<1>5. x \in Interfaces /\ y \in Interfaces
  BY <1>3, ChoiceOrder
<1>6. Cable(c, End(x)) = Cable(c, End(y))
  BY <1>5, CableOf
<1> DEFINE q == <<x, y>>
<1>7. q \in Planned(c) \X Planned(c) /\ q[1] = x /\ q[2] = y
  BY <1>3
<1> HIDE DEF q
<1>8. q \in Meet(c)
  BY <1>4, <1>6, <1>7 DEF Meet
<1> QED
  BY <1>4, <1>7, <1>8

(* The links of a plan. *)
PlanGraph(p) == [nodes |-> p.choice.order, links |-> {LinkOf(p.addresses, q) : q \in p.pings}]

LEMMA PlanGraphFacts ==
  ASSUME site \in Sites, NEW p, WellPlanned(p), NEW t, t = PlanGraph(p)
  PROVE  /\ t.nodes = p.choice.order /\ t.nodes \in Seq(Nat) /\ IsInjective(t.nodes) /\ Len(t.nodes) = N
         /\ t.nodes[1] = site.nodes[1] /\ Names(t) = Nodes
         /\ \A l \in t.links :
              /\ Cardinality(DOMAIN l) = 2 /\ DOMAIN l \subseteq Names(t)
              /\ \A n \in DOMAIN l : l[n] \notin Names(t) \ {n}
              /\ \A k \in t.links : \A n \in DOMAIN l, m \in DOMAIN k : l[n] = k[m] => n = m
         /\ \A l \in t.links : \A n \in DOMAIN l : l[n] \in Nat
         /\ \A n, m \in Nodes :
               m \in Adj(t, n) <=> n # m /\ \E q \in Meet(p.choice) : q[1][1] = m /\ q[2][1] = n
<1> DEFINE c == p.choice
           A == p.addresses
           P == p.pings
<1>1. /\ t.nodes = c.order /\ \A l : l \in t.links <=> \E q \in P : l = LinkOf(A, q)
  BY DEF PlanGraph
<1>2. (Ringed(c) \/ Ported(c)) /\ P = Meet(c) /\ A = [i \in Planned(c) |-> Address(c, i)]
      /\ \A i \in DOMAIN A, n \in Nodes : Subnet(A[i]) # Subnet(n)
  BY DEF WellPlanned
<1>3. IsInjective(A) /\ DOMAIN A = Planned(c) /\ DOMAIN A \subseteq Interfaces
  BY PlanFacts
<1> HIDE DEF c, A, P
<1>4. Order(c.order)
  BY <1>2, ChoiceOrder
<1>5. c.order \in Seq(Nodes) /\ Len(c.order) = N /\ IsInjective(c.order) /\ c.order[1] = site.nodes[1]
      /\ \A n \in Nodes : \E k \in 1 .. N : c.order[k] = n
  BY <1>4 DEF Order
<1>6. Nodes \subseteq Nat
  BY NodesFacts
<1>7. t.nodes \in Seq(Nat)
  <2>1. N \in Nat
    BY Count
  <2>2. c.order \in [1 .. N -> Nodes]
    BY <1>5
  <2>3. c.order \in [1 .. N -> Nat]
    BY <1>6, <2>2
  <2> QED
    BY <1>1, <2>1, <2>3
<1>8. Names(t) = Nodes
  <2>1. \A k \in 1 .. N : c.order[k] \in Nodes
    BY <1>5
  <2>2. DOMAIN c.order = 1 .. N
    BY <1>5
  <2> QED
    BY <1>1, <1>5, <2>1, <2>2 DEF Names, ToSet
<1>9. Couples(A, P, Names(t))
  <2>1. ASSUME NEW q \in P
        PROVE  /\ q[1] \in DOMAIN A /\ q[2] \in DOMAIN A /\ q[1][1] # q[2][1]
               /\ q[1][1] \in Nodes /\ q[2][1] \in Nodes
    <3>1. q[1] \in Planned(c) /\ q[2] \in Planned(c) /\ q[1][1] # q[2][1]
      BY <1>2 DEF Meet
    <3>2. q[1] \in Interfaces /\ q[2] \in Interfaces
      BY <1>3, <3>1
    <3> QED
      BY <1>3, <3>1, <3>2, Parts
  <2> QED
    BY <1>8, <2>1 DEF Couples
<1>10. \A i \in DOMAIN A : A[i] \in Nat /\ A[i] \notin Names(t)
  <2>1. ASSUME NEW i \in DOMAIN A
        PROVE  A[i] \in Nat /\ A[i] \notin Names(t)
    <3>1. i \in Interfaces /\ A[i] = Address(c, i)
      BY <1>2, <1>3
    <3>2. /\ Address(c, i) = site.pool + 256 * Net(c, i) + (10 + Place(c, i))
          /\ Net(c, i) \in Nat /\ Place(c, i) \in 1 .. N /\ N \in Nat /\ site.pool \in Nat
      BY <1>2, <3>1, AddressOf, NetRange, CableOf, Count, SiteFacts
    <3>3. A[i] \in Nat
      BY <3>1, <3>2
    <3>4. \A n \in Nodes : A[i] # n
      BY <1>2
    <3> QED
      BY <1>8, <3>3, <3>4
  <2> QED
    BY <2>1
<1>11. /\ \A l \in t.links :
             /\ Cardinality(DOMAIN l) = 2 /\ DOMAIN l \subseteq Names(t)
             /\ \A n \in DOMAIN l : l[n] \notin Names(t) \ {n}
             /\ \A k \in t.links : \A n \in DOMAIN l, m \in DOMAIN k : l[n] = k[m] => n = m
       /\ \A l \in t.links : \A n \in DOMAIN l : l[n] \in Nat
       /\ \A n, m \in Names(t) : m \in Adj(t, n) <=> n # m /\ Met(P, n, m)
  BY <1>1, <1>3, <1>9, <1>10, LinksGraph
<1>12. ASSUME NEW q \in Meet(c)
       PROVE  \E r \in Meet(c) : r[1] = q[2] /\ r[2] = q[1]
  <2>1. /\ q[1] \in Planned(c) /\ q[2] \in Planned(c) /\ q[1][1] # q[2][1] /\ q[1][3] = q[2][3]
        /\ Cable(c, End(q[1])) = Cable(c, End(q[2]))
    BY DEF Meet
  <2> DEFINE r == <<q[2], q[1]>>
  <2>2. r \in Planned(c) \X Planned(c) /\ r[1] = q[2] /\ r[2] = q[1]
    BY <2>1
  <2> HIDE DEF r
  <2>3. r \in Meet(c)
    BY <2>1, <2>2 DEF Meet
  <2> QED
    BY <2>2, <2>3
<1>13. \A n, m \in Nodes :
          m \in Adj(t, n) <=> n # m /\ \E q \in Meet(c) : q[1][1] = m /\ q[2][1] = n
  <2> TAKE n, m \in Nodes
  <2>1. Met(P, n, m) <=> \E q \in Meet(c) : q[1][1] = m /\ q[2][1] = n
    BY <1>2, <1>12 DEF Met
  <2>2. m \in Adj(t, n) <=> n # m /\ Met(P, n, m)
    <3>1. n \in Names(t) /\ m \in Names(t)
      BY <1>8
    <3> QED
      BY <1>11, <3>1
  <2> QED
    BY ONLY <2>1, <2>2
<1> QED
  BY <1>1, <1>5, <1>7, <1>8, <1>11, <1>13 DEF c

LEMMA PlanGraphShape ==
  ASSUME site \in Sites, NEW p, WellPlanned(p), NEW t, t = PlanGraph(p)
  PROVE  /\ WellFormed(t) /\ Shaped(t) /\ Connected(t, t.nodes[1])
         /\ Ring(t) <=> Ringed(p.choice) /\ N >= 4
         /\ Ring(t) => ~Complete(t)
<1> DEFINE c == p.choice
<1>0. N \in Nat /\ N >= 2
  BY Count
<1>1. /\ t.nodes = c.order /\ t.nodes \in Seq(Nat) /\ IsInjective(t.nodes) /\ Len(t.nodes) = N
      /\ Names(t) = Nodes
      /\ \A n, m \in Nodes :
            m \in Adj(t, n) <=> n # m /\ \E q \in Meet(c) : q[1][1] = m /\ q[2][1] = n
  BY PlanGraphFacts
<1>2. Ringed(c) \/ Ported(c)
  BY DEF WellPlanned
<1>3. ~(Ringed(c) /\ Ported(c))
  BY DEF Ringed, Ported
<1> HIDE DEF c
<1>4. Order(t.nodes)
  BY <1>1, <1>2, ChoiceOrder
<1>5. \A k \in 1 .. N : t.nodes[k] \in Nodes /\ Position(t.nodes, t.nodes[k]) = k
  BY <1>4, Positions
<1>6. ASSUME Ringed(c)
      PROVE  /\ Shaped(t) /\ Connected(t, t.nodes[1])
             /\ Ring(t) <=> N >= 4
             /\ Ring(t) => ~Complete(t)
  <2>0. N >= 3
    BY <1>6 DEF Ringed
  <2>1. ASSUME NEW j \in 1 .. N, NEW k \in 1 .. N
        PROVE  t.nodes[j] \in Adj(t, t.nodes[k]) <=> (k = After(N, j) \/ j = After(N, k))
    <3>1. t.nodes[j] \in Adj(t, t.nodes[k])
             <=> t.nodes[k] # t.nodes[j] /\ \E q \in Meet(c) : q[1][1] = t.nodes[j] /\ q[2][1] = t.nodes[k]
      BY <1>1, <1>5
    <3>2. (\E q \in Meet(c) : q[1][1] = t.nodes[j] /\ q[2][1] = t.nodes[k])
            <=> (k = After(N, j) \/ j = After(N, k))
      BY <1>1, <1>6, RingMeets
    <3>3. After(N, j) # j /\ After(N, k) # k
      BY <1>0, <2>0, AfterIs
    <3>4. t.nodes[k] = t.nodes[j] => k = j
      BY <1>5
    <3> QED
      BY <3>1, <3>2, <3>3, <3>4
  <2>2. /\ Circle(t, t.nodes) /\ Connected(t, t.nodes[1])
        /\ N = 3 => Complete(t) /\ ~Ring(t)
        /\ N >= 4 => Ring(t) /\ ~Complete(t)
    <3>1. Around(t, N)
      BY <2>1 DEF Around
    <3>2. N = Len(t.nodes) /\ t.nodes \in Seq(Nat) /\ IsInjective(t.nodes)
      BY <1>1
    <3> QED
      BY ONLY <2>0, <3>1, <3>2, RingGraph
  <2>3. N = 3 \/ N >= 4
    BY <1>0, <2>0
  <2>4. Shaped(t)
    BY <2>2, <2>3 DEF Shaped
  <2> QED
    BY <2>2, <2>3, <2>4
<1>7. ASSUME Ported(c)
      PROVE  Shaped(t) /\ Connected(t, t.nodes[1]) /\ ~Ring(t)
  <2>1. \A n \in Names(t) : \A m \in Names(t) : m # n => m \in Adj(t, n)
    BY <1>1, <1>7, PortsMeet
  <2>2. Complete(t) /\ Connected(t, t.nodes[1]) /\ ~Ring(t)
    BY <1>0, <1>1, <2>1, StarGraph
  <2> QED
    BY <2>2 DEF Shaped
<1>8. WellFormed(t)
  <2>1. t.nodes # <<>>
    BY <1>0, <1>1
  <2>2. Connected(t, t.nodes[1])
    BY <1>2, <1>6, <1>7
  <2>3. \A l \in t.links :
              /\ Cardinality(DOMAIN l) = 2 /\ DOMAIN l \subseteq Names(t)
              /\ \A n \in DOMAIN l : l[n] \notin Names(t) \ {n}
              /\ \A k \in t.links : \A n \in DOMAIN l, m \in DOMAIN k : l[n] = k[m] => n = m
    BY PlanGraphFacts
  <2> QED
    BY <1>1, <2>1, <2>2, <2>3 DEF WellFormed
<1> QED
  BY <1>2, <1>3, <1>6, <1>7, <1>8 DEF c

(* What setup saves with links is sound. *)
LEMMA PlanSettings ==
  ASSUME NEW p, ClusterEnv(p).links # {}
  PROVE  ClusterEnv(p) = [nodes |-> p.choice.order, links |-> {LinkOf(p.addresses, q) : q \in p.pings},
                          ring |-> NcclRing(p.choice), by |-> "setup"]
<1> DEFINE one == p.choice.topology # "ring" /\ Cardinality(ToSet(p.choice.ports)) = 1
           e1 == [nodes |-> [k \in DOMAIN p.choice.order |-> p.addresses[<<p.choice.order[k], p.choice.ports[k], 0>>]],
                  links |-> {}, ring |-> FALSE, by |-> "setup"]
           e2 == [nodes |-> p.choice.order, links |-> {Link(p.addresses, {q[1], q[2]}) : q \in p.pings},
                  ring |-> NcclRing(p.choice), by |-> "setup"]
<1>1. ClusterEnv(p) = IF p = NoPlan THEN NoEnv ELSE IF one THEN e1
                      ELSE IF ~site.oneManagementInterface THEN NoEnv ELSE e2
  BY DEF ClusterEnv
<1>2. e1.links = {} /\ NoEnv.links = {}
  BY DEF NoEnv
<1>3. {LinkOf(p.addresses, q) : q \in p.pings} = {Link(p.addresses, {q[1], q[2]}) : q \in p.pings}
  BY DEF LinkOf
<1> HIDE DEF one, e1
<1>4. ClusterEnv(p) = e2
  BY <1>1, <1>2
<1> QED
  BY <1>3, <1>4

LEMMA SetupSound ==
  ASSUME site \in Sites, NEW p, WellPlanned(p), NEW e, e = ClusterEnv(p), e.links # {}
  PROVE  Sound(site.nodes[1], e) /\ e.by = "setup"
<1> DEFINE t == PlanGraph(p)
<1>1. e = [nodes |-> p.choice.order, links |-> {LinkOf(p.addresses, q) : q \in p.pings},
           ring |-> NcclRing(p.choice), by |-> "setup"]
  BY PlanSettings
<1>2. /\ e.nodes = t.nodes /\ e.links = t.links /\ GraphOf(e) = t
      /\ e.ring = NcclRing(p.choice) /\ e.by = "setup"
  BY <1>1 DEF PlanGraph, GraphOf
<1> HIDE DEF t
<1>3. /\ t.nodes \in Seq(Nat) /\ Len(t.nodes) = N /\ t.nodes[1] = site.nodes[1]
      /\ \A l \in t.links : \A n \in DOMAIN l : l[n] \in Nat
  BY PlanGraphFacts DEF t
<1>4. WellFormed(t) /\ Shaped(t) /\ (Ring(t) <=> Ringed(p.choice) /\ N >= 4)
  BY PlanGraphShape DEF t
<1>5. NcclRing(p.choice) <=> Ringed(p.choice) /\ N >= 4
  BY DEF NcclRing, WellPlanned, Ringed, Ported
<1>6. N >= 2
  BY Count
<1> QED
  BY <1>2, <1>3, <1>4, <1>5, <1>6 DEF Sound

-----------------------------------------------------------------------------
(* Discovery. *)

LEMMA KeptFacts ==
  ASSUME NEW nodes, nodes \in Seq(Nat), NEW keep
  PROVE  Kept(nodes, keep) \in Seq(Nat) /\ ToSet(Kept(nodes, keep)) \subseteq ToSet(nodes)
<1> DEFINE K == {k \in DOMAIN nodes : nodes[k] \in keep}
           places == Ascending(K)
           m == Cardinality(K)
           w == Kept(nodes, keep)
<1>1. w = [k \in DOMAIN places |-> nodes[places[k]]]
  BY DEF Kept
<1>2. Len(nodes) \in Nat /\ DOMAIN nodes = 1 .. Len(nodes)
  OBVIOUS
<1>3. K \subseteq Nat /\ IsFiniteSet(K)
  <2>1. IsFiniteSet(1 .. Len(nodes)) /\ K \subseteq 1 .. Len(nodes)
    BY <1>2, UpTo
  <2> QED
    BY <1>2, <2>1, FS_Subset
<1>k. \A k \in K : k \in DOMAIN nodes
  OBVIOUS
<1> HIDE DEF K
<1>4. places \in [1 .. m -> K] /\ m \in Nat
  BY <1>3, AscendingLists
<1> HIDE DEF places, m, w
<1>5. DOMAIN w = 1 .. m /\ \A k \in 1 .. m : w[k] = nodes[places[k]] /\ places[k] \in DOMAIN nodes
  BY <1>1, <1>4, <1>k
<1>6. \A k \in 1 .. m : w[k] \in ToSet(nodes) /\ w[k] \in Nat
  BY <1>5 DEF ToSet
<1>7. w \in [1 .. m -> Nat]
  <2>1. w = [k \in 1 .. m |-> w[k]]
    BY <1>1, <1>4, <1>5
  <2> QED
    BY <1>6, <2>1
<1>8. w \in Seq(Nat)
  BY <1>4, <1>7
<1>9. ToSet(w) \subseteq ToSet(nodes)
  BY <1>5, <1>6 DEF ToSet
<1> QED
  BY <1>8, <1>9 DEF w

(* A graph in its rank order. *)
LEMMA RankedGraph ==
  ASSUME NEW t, t.nodes \in Seq(Nat), WellFormed(t), NEW head, NEW w, w = RankOrder(t, head), w # <<>>,
         NEW u, u = [nodes |-> w, links |-> t.links]
  PROVE  /\ Same(t, u) /\ Names(u) = Names(t) /\ u.nodes = w /\ u.links = t.links
         /\ w \in Seq(Nat) /\ Len(w) = Len(t.nodes) /\ w[1] = head /\ IsInjective(w)
         /\ WellFormed(u) /\ Shaped(u) /\ Connected(t, head) /\ head \in Names(t)
<1>1. IsInjective(t.nodes)
  BY DEF WellFormed
<1>2. Names(t) \subseteq Nat /\ Graph(t)
  BY <1>1, WellFormedGraph DEF Graph
<1>3. /\ w \in Seq(Names(t)) /\ Len(w) = Len(t.nodes) /\ w[1] = head
      /\ \A j, k \in 1 .. Len(w) : w[j] = w[k] => j = k
      /\ \A n \in Names(t) : \E k \in 1 .. Len(w) : w[k] = n
      /\ Connected(t, head)
      /\ Complete(t) \/ (Ring(t) /\ Circle(t, w))
  <2>1. t.nodes \in Seq(Nat) /\ w = RankOrder(t, head) /\ w # <<>>
    OBVIOUS
  <2> QED
    BY ONLY <1>1, <2>1, Ranked
<1>4. u.nodes = w /\ u.links = t.links /\ DOMAIN w = 1 .. Len(w) /\ Len(w) \in Nat
  BY <1>3
<1>5. w \in Seq(Nat)
  <2>1. w \in [1 .. Len(w) -> Nat]
    BY <1>2, <1>3
  <2> QED
    BY <1>4, <2>1
<1>6. IsInjective(w)
  BY <1>3, <1>4 DEF IsInjective
<1>7. Names(u) = Names(t)
  <2>1. \A k \in 1 .. Len(w) : w[k] \in Names(t)
    BY <1>3
  <2>2. Names(u) = ToSet(w)
    BY <1>4 DEF Names
  <2> QED
    <3>1. \A n : n \in Names(u) <=> \E k \in 1 .. Len(w) : w[k] = n
      BY <1>4, <2>2 DEF ToSet
    <3>2. \A n \in Names(t) : n \in Names(u)
      BY <1>3, <3>1
    <3>3. \A n \in Names(u) : n \in Names(t)
      BY <2>1, <3>1
    <3> QED
      BY <3>2, <3>3
<1>8. Same(t, u)
  BY <1>4, <1>7 DEF Same
<1>9. WellFormed(u)
  BY <1>4, <1>5, <1>6, <1>8, SameWellFormed
<1>10. Shaped(u)
  <2>1. \A n : Adj(t, n) = Adj(u, n)
    BY <1>8, SameAdj
  <2>0. Len(t.nodes) = Len(u.nodes)
    BY <1>3, <1>4
  <2>2. Complete(t) <=> Complete(u)
    BY ONLY <1>7, <2>0, <2>1 DEF Complete
  <2>3. Ring(t) <=> Ring(u)
    BY ONLY <1>7, <2>0, <2>1 DEF Ring
  <2>4. Circle(t, w) => Circle(u, w)
    BY <1>8, SameCircle
  <2> QED
    BY <1>3, <1>4, <2>2, <2>3, <2>4 DEF Shaped
<1>11. head \in Names(t)
  BY <1>3 DEF Connected
<1> QED
  BY <1>3, <1>4, <1>5, <1>6, <1>7, <1>8, <1>9, <1>10, <1>11

(* In a connected ring no three nodes are all linked to each other.         *)
LEMMA NoTriangle ==
  ASSUME NEW t, Graph(t), Ring(t), Cardinality(Names(t)) = Len(t.nodes), NEW head, Connected(t, head),
         NEW s, s.nodes \in Seq(Nat), IsInjective(s.nodes), Names(s) \subseteq Names(t), s.links \subseteq t.links,
         head \in Names(s), Complete(s)
  PROVE  Len(s.nodes) <= 2
<1> SUFFICES ASSUME ~(Len(s.nodes) <= 2)
             PROVE  FALSE
  OBVIOUS
<1>1. Graph(s) /\ Cardinality(Names(s)) = Len(s.nodes) /\ Len(s.nodes) \in Nat
  BY WellFormedGraph
<1>2. \A n \in Names(s) : Cardinality(Adj(s, n)) = Len(s.nodes) - 1
  BY DEF Complete
<1>3. \A n \in Names(t) : Cardinality(Adj(t, n)) = 2
  BY DEF Ring
<1>4. ASSUME NEW n \in Names(s)
      PROVE  Adj(s, n) \subseteq Adj(t, n)
  <2>1. ASSUME NEW p \in Adj(s, n)
        PROVE  p \in Adj(t, n)
    <3>1. p \in Names(s) /\ p # n /\ Between(s, n, p) # {}
      BY AdjFacts
    <3>2. PICK l \in s.links : DOMAIN l = {n, p}
      BY <3>1 DEF Between
    <3>3. l \in Between(t, n, p)
      BY <3>2 DEF Between
    <3> QED
      BY <3>1, <3>3 DEF Adj
  <2> QED
    BY <2>1
<1>5. ASSUME NEW n \in Names(s)
      PROVE  Adj(s, n) = Adj(t, n) /\ Len(s.nodes) = 3
  <2>1. IsFiniteSet(Adj(t, n)) /\ Adj(s, n) \subseteq Adj(t, n)
    BY <1>4, AdjFinite
  <2>2. Cardinality(Adj(s, n)) <= Cardinality(Adj(t, n))
    BY <2>1, FS_Subset
  <2>3. Cardinality(Adj(s, n)) = Len(s.nodes) - 1 /\ Cardinality(Adj(t, n)) = 2
    BY <1>2, <1>3
  <2>4. Len(s.nodes) = 3
    <3> DEFINE a == Len(s.nodes)
               x == Cardinality(Adj(s, n))
               y == Cardinality(Adj(t, n))
    <3>1. a \in Nat /\ ~(a <= 2) /\ x <= y /\ x = a - 1 /\ y = 2
      BY <1>1, <2>2, <2>3
    <3> HIDE DEF a, x, y
    <3>2. a = 3
      BY ONLY <3>1
    <3> QED
      BY <3>2 DEF a
  <2>5. Cardinality(Adj(s, n)) = Cardinality(Adj(t, n))
    BY <2>3, <2>4
  <2> QED
    BY <2>1, <2>4, <2>5, FS_Subset
<1> DEFINE C == Names(s)
<1>6. Closes(t, C)
  <2>1. ASSUME NEW n \in C, NEW p \in Adj(t, n)
        PROVE  p \in C
    <3>1. p \in Adj(s, n)
      BY <1>5, <2>1
    <3> QED
      BY <3>1, AdjFacts
  <2> QED
    BY <2>1 DEF Closes
<1>7. head \in C
  OBVIOUS
<1> HIDE DEF C
<1>8. Names(t) \subseteq C
  BY <1>6, <1>7, ConnectedCloses
<1>9. Cardinality(Names(t)) <= Cardinality(C)
  <2>1. IsFiniteSet(C)
    BY <1>1 DEF Graph, C
  <2> QED
    BY <1>8, <2>1, FS_Subset
<1>10. Cardinality(C) = 3
  BY <1>1, <1>5 DEF C
<1>11. Len(t.nodes) >= 4 /\ Len(t.nodes) \in Nat
  BY DEF Ring, Graph
<1> QED
  BY <1>9, <1>10, <1>11

(* Interfaces that face each other are those that a plan on the same        *)
(* addresses would ping.                                                    *)
Both(q) == {q[1], q[2]}

LEMMA PairCount ==
  ASSUME NEW S, NEW a \in S, NEW b \in S, \A x \in S : x = a \/ x = b
  PROVE  (Cardinality(S) = 1 <=> a = b) /\ (Cardinality(S) = 2 <=> a # b)
<1>1. IsFiniteSet({a}) /\ Cardinality({a}) = 1
  BY FS_Singleton
<1>2. CASE a = b
  <2>1. S = {a}
    BY <1>2
  <2> QED
    BY <1>1, <1>2, <2>1
<1>3. CASE a # b
  <2>1. S = {a} \cup {b} /\ b \notin {a}
    BY <1>3
  <2>2. Cardinality({a} \cup {b}) = Cardinality({a}) + 1
    BY <1>1, <2>1, FS_AddElement
  <2> QED
    BY <1>1, <1>3, <2>1, <2>2
<1> QED
  BY <1>2, <1>3

LEMMA FacingPair ==
  ASSUME NEW A, NEW x \in DOMAIN A, NEW y \in DOMAIN A
  PROVE  {x, y} \in Facing(A) <=> x[1] # y[1] /\ Subnet(A[x]) = Subnet(A[y])
<1> DEFINE w == {x, y}
           a == x[1]
           b == y[1]
           c == Subnet(A[x])
           d == Subnet(A[y])
<1>1. {z[1] : z \in w} = {a, b}
  OBVIOUS
<1>2. {Subnet(A[z]) : z \in w} = {c, d}
  OBVIOUS
<1>3. w \in {{u, v} : u, v \in DOMAIN A}
  OBVIOUS
<1> HIDE DEF w, a, b, c, d
<1>4. w \in Facing(A) <=> Cardinality({z[1] : z \in w}) = 2 /\ Cardinality({Subnet(A[z]) : z \in w}) = 1
  BY <1>3 DEF Facing
<1>5. w \in Facing(A) <=> Cardinality({a, b}) = 2 /\ Cardinality({c, d}) = 1
  BY <1>1, <1>2, <1>4
<1>6. Cardinality({a, b}) = 2 <=> a # b
  <2> DEFINE S == {a, b}
  <2>1. a \in S /\ b \in S /\ \A z \in S : z = a \/ z = b
    OBVIOUS
  <2> HIDE DEF S
  <2>2. Cardinality(S) = 2 <=> a # b
    BY <2>1, PairCount
  <2> QED
    BY <2>2 DEF S
<1>7. Cardinality({c, d}) = 1 <=> c = d
  <2> DEFINE S == {c, d}
  <2>1. c \in S /\ d \in S /\ \A z \in S : z = c \/ z = d
    OBVIOUS
  <2> HIDE DEF S
  <2>2. Cardinality(S) = 1 <=> c = d
    BY <2>1, PairCount
  <2> QED
    BY <2>2 DEF S
<1>8. w \in Facing(A) <=> a # b /\ c = d
  BY <1>5, <1>6, <1>7
<1> QED
  BY <1>8 DEF w, a, b, c, d

LEMMA FacingPings ==
  ASSUME NEW A
  PROVE  /\ \A w \in Facing(A) : \E q \in Pings(A) : w = Both(q)
         /\ \A q \in Pings(A) : Both(q) \in Facing(A)
<1>1. ASSUME NEW w \in Facing(A)
      PROVE  \E q \in Pings(A) : w = Both(q)
  <2>1. PICK x \in DOMAIN A, y \in DOMAIN A : w = {x, y}
    BY DEF Facing
  <2>2. x[1] # y[1] /\ Subnet(A[x]) = Subnet(A[y])
    BY <2>1, FacingPair
  <2> DEFINE q == <<x, y>>
  <2>3. q \in (DOMAIN A) \X (DOMAIN A) /\ q[1] = x /\ q[2] = y
    OBVIOUS
  <2> HIDE DEF q
  <2>4. q \in Pings(A)
    BY <2>2, <2>3 DEF Pings
  <2> QED
    BY <2>1, <2>3, <2>4 DEF Both
<1>2. ASSUME NEW q \in Pings(A)
      PROVE  Both(q) \in Facing(A)
  <2>1. q[1] \in DOMAIN A /\ q[2] \in DOMAIN A /\ q[1][1] # q[2][1] /\ Subnet(A[q[1]]) = Subnet(A[q[2]])
    BY DEF Pings
  <2> QED
    BY <2>1, FacingPair DEF Both
<1> QED
  BY <1>1, <1>2

LEMMA FacingLinks ==
  ASSUME NEW A
  PROVE  \A l : l \in {Link(A, w) : w \in Facing(A)} <=> \E q \in Pings(A) : l = LinkOf(A, q)
<1>1. \A q : LinkOf(A, q) = Link(A, Both(q))
  BY DEF LinkOf, Both
<1> QED
  BY <1>1, FacingPings

(* Whatever is configured, a link that is discovered has numbers as ends.   *)
LEMMA FacingNumbers ==
  ASSUME NEW A, \A i \in DOMAIN A : A[i] \in Nat, NEW l \in {Link(A, w) : w \in Facing(A)}, NEW n \in DOMAIN l
  PROVE  l[n] \in Nat
<1>1. PICK q \in Pings(A) : l = LinkOf(A, q)
  BY FacingLinks
<1>2. q[1] \in DOMAIN A /\ q[2] \in DOMAIN A /\ q[1][1] # q[2][1]
  BY DEF Pings
<1>3. Joins(l, A, q)
  BY <1>1, <1>2, LinkEnds
<1>4. (n = q[1][1] \/ n = q[2][1]) /\ l[q[1][1]] = A[q[1]] /\ l[q[2][1]] = A[q[2]]
  BY <1>3 DEF Joins
<1> QED
  BY <1>2, <1>4

LEMMA PlannedNumbers ==
  ASSUME site \in Sites, NEW p, WellPlanned(p)
  PROVE  \A i \in DOMAIN p.addresses : p.addresses[i] \in Nat
<1> DEFINE c == p.choice
           A == p.addresses
<1>1. (Ringed(c) \/ Ported(c)) /\ A = [i \in Planned(c) |-> Address(c, i)]
  BY DEF WellPlanned
<1> HIDE DEF c, A
<1>2. ASSUME NEW i \in DOMAIN A
      PROVE  A[i] \in Nat
  <2>1. i \in Interfaces /\ A[i] = Address(c, i)
    BY <1>1, ChoiceOrder
  <2>2. /\ Address(c, i) = site.pool + 256 * Net(c, i) + (10 + Place(c, i))
        /\ Net(c, i) \in Nat /\ Place(c, i) \in 1 .. N /\ N \in Nat /\ site.pool \in Nat
    BY <1>1, <2>1, AddressOf, NetRange, CableOf, Count, SiteFacts
  <2> QED
    BY <2>1, <2>2
<1> QED
  BY <1>2 DEF A

LEMMA LiveNumbers ==
  ASSUME Planning
  PROVE  \A i \in DOMAIN live : live[i] \in Nat
<1>0. site \in Sites /\ phase \in {"new", "planned", "applied", "ready", "refused"}
  BY DEF Planning, Setting
<1>1. CASE phase \in {"new", "planned", "refused"}
  <2>1. live = site.live
    BY <1>1 DEF Planning, Addressed
  <2> QED
    BY <1>0, <2>1, SitesAssumption
<1>2. CASE phase \in {"applied", "ready"}
  <2>1. PICK p : plan = p /\ WellPlanned(p)
    BY <1>2 DEF Planning, Addressed
  <2>2. live = p.addresses
    BY <1>2, <2>1 DEF Planning, Addressed
  <2> QED
    BY <1>0, <2>1, <2>2, PlannedNumbers
<1> QED
  BY <1>0, <1>1, <1>2

(* What a discovery has found when it goes on to a selection. *)
Everything == [nodes |-> site.nodes, links |-> {Link(live, w) : w \in Facing(live)}]

LEMMA FoundIs ==
  ASSUME site \in Sites, NEW found, found = Discovered(site.nodes, site.nodes[1], live, Wires),
         found.nodes # <<>>
  PROVE  /\ WellFormed(Everything) /\ Facing(live) \subseteq Wires
         /\ Everything.nodes = site.nodes /\ Everything.nodes \in Seq(Nat)
         /\ found = [nodes |-> RankOrder(Everything, site.nodes[1]), links |-> Everything.links]
<1>1. found = IF Facing(live) \subseteq Wires /\ WellFormed(Everything)
              THEN [nodes |-> RankOrder(Everything, site.nodes[1]), links |-> Everything.links]
              ELSE [nodes |-> <<>>, links |-> {}]
  BY DEF Discovered, Everything
<1>2. Facing(live) \subseteq Wires /\ WellFormed(Everything)
  BY <1>1
<1>3. found = [nodes |-> RankOrder(Everything, site.nodes[1]), links |-> Everything.links]
  BY <1>1, <1>2
<1>4. Everything.nodes = site.nodes
  BY DEF Everything
<1>5. site.nodes \in Seq(Nat)
  BY SiteFacts
<1> QED
  BY <1>2, <1>3, <1>4, <1>5

LEMMA DiscoverSound ==
  ASSUME Planning, Discover, env'.links # {}
  PROVE  Sound(site.nodes[1], env') /\ env'.by = "discover"
<1> DEFINE found == Discovered(site.nodes, site.nodes[1], live, Wires)
           h == site.nodes[1]
<1>0. site \in Sites
  BY DEF Planning, Setting
<1>1. found.nodes # <<>> /\ Ring(found)
  BY DEF Discover
<1>2. PICK keep \in SUBSET ToSet(site.nodes) :
        LET chosen == Selected(found, Kept(found.nodes, keep))
            order == RankOrder(chosen, site.nodes[1])
        IN  /\ WellFormed(chosen) /\ order # <<>>
            /\ env' = [nodes |-> order, links |-> chosen.links, ring |-> TRUE, by |-> "discover"]
  BY DEF Discover
<1> DEFINE chosen == Selected(found, Kept(found.nodes, keep))
           order == RankOrder(chosen, h)
<1>3. /\ WellFormed(chosen) /\ order # <<>>
      /\ env' = [nodes |-> order, links |-> chosen.links, ring |-> TRUE, by |-> "discover"]
  BY <1>2
<1>4. /\ WellFormed(Everything) /\ Everything.nodes \in Seq(Nat) /\ Everything.nodes = site.nodes
      /\ found = [nodes |-> RankOrder(Everything, h), links |-> Everything.links]
  BY <1>0, <1>1, FoundIs
<1>5. chosen = [nodes |-> Kept(found.nodes, keep),
                links |-> {l \in found.links : DOMAIN l \subseteq ToSet(Kept(found.nodes, keep))}]
  BY DEF Selected
<1> HIDE DEF found
<1>6. /\ found.nodes = RankOrder(Everything, h) /\ found.links = Everything.links
      /\ found.nodes \in Seq(Nat) /\ IsInjective(found.nodes)
      /\ Connected(Everything, h) /\ Same(Everything, found)
  <2>1. found.nodes = RankOrder(Everything, h) /\ found.links = Everything.links
    BY <1>4
  <2> QED
    BY <1>1, <1>4, <2>1, RankedGraph
<1>7. Graph(found) /\ Cardinality(Names(found)) = Len(found.nodes) /\ Connected(found, h)
  <2>1. Graph(found) /\ Cardinality(Names(found)) = Len(found.nodes)
    BY <1>6, WellFormedGraph
  <2>2. IsInjective(Everything.nodes)
    BY <1>4 DEF WellFormed
  <2>3. Graph(Everything)
    BY <1>4, <2>2, WellFormedGraph
  <2> QED
    BY <1>6, <2>1, <2>3, SameConnected
<1>8. /\ chosen.nodes \in Seq(Nat) /\ IsInjective(chosen.nodes)
      /\ Names(chosen) \subseteq Names(found) /\ chosen.links \subseteq found.links
  <2>1. chosen.nodes = Kept(found.nodes, keep) /\ chosen.links \subseteq found.links
    BY <1>5
  <2>2. IsInjective(chosen.nodes)
    BY <1>3 DEF WellFormed
  <2> QED
    BY <1>6, <2>1, <2>2, KeptFacts DEF Names
<1> HIDE DEF chosen
<1> DEFINE u == [nodes |-> order, links |-> chosen.links]
<1>9. /\ Same(chosen, u) /\ Names(u) = Names(chosen) /\ u.nodes = order /\ u.links = chosen.links
      /\ order \in Seq(Nat) /\ Len(order) = Len(chosen.nodes) /\ order[1] = h /\ IsInjective(order)
      /\ WellFormed(u) /\ Shaped(u) /\ h \in Names(chosen)
  BY <1>3, <1>8, RankedGraph
<1> HIDE DEF order
<1>10. env'.nodes = order /\ env'.links = chosen.links /\ GraphOf(env') = u /\ env'.ring /\ env'.by = "discover"
  BY <1>3 DEF GraphOf
<1> HIDE DEF u
<1>11. \A l \in chosen.links : \A n \in DOMAIN l : l[n] \in Nat
  <2>1. \A i \in DOMAIN live : live[i] \in Nat
    BY LiveNumbers
  <2>2. Everything.links = {Link(live, w) : w \in Facing(live)}
    BY DEF Everything
  <2>3. \A l \in Everything.links : \A n \in DOMAIN l : l[n] \in Nat
    BY <2>1, <2>2, FacingNumbers
  <2> QED
    BY <1>6, <1>8, <2>3
<1>12. Len(order) >= 2
  <2>1. PICK l \in chosen.links : TRUE
    BY <1>10
  <2>2. Cardinality(DOMAIN l) = 2 /\ DOMAIN l \subseteq Names(chosen)
    BY <1>3, <2>1 DEF WellFormed
  <2>3. Cardinality(Names(chosen)) = Len(chosen.nodes) /\ IsFiniteSet(Names(chosen)) /\ Len(chosen.nodes) \in Nat
    BY <1>8, WellFormedGraph DEF Graph
  <2>4. Cardinality(DOMAIN l) <= Cardinality(Names(chosen))
    BY <2>2, <2>3, FS_Subset
  <2> QED
    BY <1>9, <2>2, <2>3, <2>4
<1>13. Len(order) = 2 \/ Ring(u)
  <2>1. CASE Complete(u)
    <3>1. u.nodes \in Seq(Nat) /\ IsInjective(u.nodes) /\ Names(u) \subseteq Names(found)
          /\ u.links \subseteq found.links /\ h \in Names(u)
      BY <1>8, <1>9
    <3>2. Len(u.nodes) <= 2
      BY <1>1, <1>7, <2>1, <3>1, NoTriangle DEF found
    <3>3. Len(order) \in Nat
      BY <1>9
    <3>4. u.nodes = order
      BY <1>9
    <3>5. Len(order) <= 2
      BY ONLY <3>2, <3>4
    <3> DEFINE d == Len(order)
    <3>6. d \in Nat /\ d <= 2 /\ d >= 2
      BY <1>12, <3>3, <3>5
    <3> HIDE DEF d
    <3>7. d = 2
      BY ONLY <3>6
    <3> QED
      BY <3>7 DEF d
  <2> QED
    BY <1>9, <2>1 DEF Shaped
<1>14. Sound(h, env')
  BY <1>9, <1>10, <1>11, <1>12, <1>13 DEF Sound
<1> QED
  BY <1>10, <1>14

-----------------------------------------------------------------------------
(* The saved settings stay sound. *)

EnvSound == env.links # {} => Sound(site.nodes[1], env)

LEMMA Resaved ==
  ASSUME NEW h, NEW e, Sound(h, e), e.by = "setup",
         e = [nodes |-> e.nodes, links |-> e.links, ring |-> e.ring, by |-> e.by],
         NEW f, f = [e EXCEPT !.by = "save-env"]
  PROVE  Sound(h, f)
<1>1. f.nodes = e.nodes /\ f.links = e.links /\ f.ring = e.ring /\ f.by = "save-env"
  OBVIOUS
<1>2. GraphOf(f) = GraphOf(e)
  BY <1>1 DEF GraphOf
<1> QED
  BY <1>1, <1>2 DEF Sound

LEMMA SavedSettings ==
  ASSUME NEW p, NEW e, e = [ClusterEnv(p) EXCEPT !.by = "save-env"], e.links # {},
         site \in Sites, NEW r, WellPlanned(r), ClusterEnv(p) = ClusterEnv(r)
  PROVE  Sound(site.nodes[1], e)
<1> DEFINE s == ClusterEnv(p)
<1>1. s.links # {}
  BY SettingsLinks
<1>2. s = [nodes |-> p.choice.order, links |-> {LinkOf(p.addresses, q) : q \in p.pings},
           ring |-> NcclRing(p.choice), by |-> "setup"]
  BY <1>1, PlanSettings
<1>3. s = ClusterEnv(r) /\ e = [s EXCEPT !.by = "save-env"]
  OBVIOUS
<1> HIDE DEF s
<1>4. s = [nodes |-> s.nodes, links |-> s.links, ring |-> s.ring, by |-> s.by]
  BY <1>2
<1>5. Sound(site.nodes[1], s) /\ s.by = "setup"
  BY <1>1, <1>3, SetupSound
<1> QED
  BY <1>3, <1>4, <1>5, Resaved

LEMMA EnvNext ==
  ASSUME Planning, EnvSound, [Next]_vars
  PROVE  EnvSound'
<1> DEFINE h == site.nodes[1]
<1>0. site \in Sites
  BY DEF Planning, Setting
<1>s. site' = site
  BY DEF Next, Plan, Apply, Verify, VerifyFails, SaveEnv, Discover, MoveCable, vars
<1> SUFFICES ASSUME env'.links # {}
             PROVE  Sound(h, env')
  BY <1>s DEF EnvSound
<1>1. CASE Verify
  <2>1. phase = "applied" /\ env' = ClusterEnv(plan)
    BY <1>1 DEF Verify
  <2>2. PICK p : plan = p /\ WellPlanned(p)
    BY <2>1 DEF Planning, Addressed
  <2> QED
    BY <1>0, <2>1, <2>2, SetupSound
<1>2. CASE SaveEnv
  <2> DEFINE s == SavedConfiguration(site.nodes, plan.addresses)
  <2>1. phase = "ready" /\ env' = [ClusterEnv(s) EXCEPT !.by = "save-env"]
    BY <1>2 DEF SaveEnv
  <2>2. PICK p : plan = p /\ WellPlanned(p)
    BY <2>1 DEF Planning, Addressed
  <2>3. ClusterEnv(s) = ClusterEnv(p)
    BY <2>1, <2>2, PlanningHolds DEF JournalsHoldPlan
  <2> HIDE DEF s
  <2> QED
    BY <1>0, <2>1, <2>2, <2>3, SavedSettings
<1>3. CASE Discover
  BY <1>3, DiscoverSound
<1>4. CASE Plan \/ Apply \/ VerifyFails \/ MoveCable \/ UNCHANGED vars
  <2>1. env' = env
    BY <1>4 DEF Plan, Apply, VerifyFails, MoveCable, vars
  <2> QED
    BY <2>1 DEF EnvSound
<1> QED
  BY <1>1, <1>2, <1>3, <1>4 DEF Next

LEMMA EnvAlways == Spec => [](Planning /\ EnvSound)
<1>1. Init => Planning /\ EnvSound
  <2>1. Init => env.links = {}
    BY DEF Init, NoEnv
  <2> QED
    BY <2>1, PlanningInit DEF EnvSound
<1>2. Planning /\ EnvSound /\ [Next]_vars => Planning' /\ EnvSound'
  BY PlanningNext, EnvNext
<1> QED
  BY <1>1, <1>2, PTL DEF Spec

(* Whatever setup, --save-env or discovery saved, check_launch takes the    *)
(* saved nodes, all of them or the first two, and the launcher's ring is    *)
(* the ring of the settings.                                                *)
THEOREM LaunchAccepted == Spec => []LaunchAccepts
<1>1. EnvSound => LaunchAccepts
  <2> SUFFICES ASSUME EnvSound, env.links # {}
               PROVE  LaunchAccepts
    BY DEF LaunchAccepts
  <2> DEFINE t == GraphOf(env)
             n == Len(env.nodes)
  <2>1. /\ WellFormed(t) /\ RankOrder(t, site.nodes[1]) # <<>>
        /\ \A k \in {2, n} : ValidLaunch(t, env.nodes, Whole(k))
        /\ (env.by = "discover" => n > 2) => (env.ring <=> RingSettings(t, env.nodes, Whole(n)))
    BY LaunchSound DEF EnvSound
  <2>2. Topology = t
    BY DEF Topology, GraphOf
  <2> HIDE DEF t
  <2> QED
    BY <2>1, <2>2 DEF LaunchAccepts, Whole
<1> QED
  BY <1>1, EnvAlways, PTL

(* Every copy to a node of a saved graph takes a shortest way, by addresses *)
(* of the links it crosses (Topology.paths).                                *)
THEOREM CopiesShort == Spec => []CopyPathsShortest
<1>1. EnvSound => CopyPathsShortest
  <2> SUFFICES ASSUME EnvSound, env.links # {}
               PROVE  CopyPathsShortest
    BY DEF CopyPathsShortest
  <2> DEFINE h == env.nodes[1]
             t == Topology
             m == Len(env.nodes)
             W == CHOOSE f : WithinOf(t, h, m, f)
             path(n) == Paths(t, h)[n]
             hops(n) == <<<<h, 0>>>> \o path(n)
  <2>1. Sound(h, env)
    BY DEF EnvSound, Sound
  <2>2. m \in Nat
    BY <2>1 DEF Sound
  <2>3. WithinOf(t, h, m, W)
    BY <2>2, WithinExists
  <2>4. t = GraphOf(env) /\ Names(t) = ToSet(env.nodes)
    BY DEF Topology, GraphOf, Names
  <2>5. CopyPathsShortest <=>
          \A n \in ToSet(env.nodes) :
              /\ Last(hops(n))[1] = n /\ n \in W[Len(path(n))]
              /\ \A k \in 0 .. Len(path(n)) - 1 : n \notin W[k]
              /\ \A k \in DOMAIN path(n) : Onward(t, hops(n), k)
              /\ env.ring => 2 * Len(path(n)) <= Len(env.nodes)
    BY DEF CopyPathsShortest, WithinOf, Onward
  <2>6. \A n : hops(n) = HopsOf(h, path(n)) /\ path(n) = Paths(t, h)[n]
    BY DEF HopsOf
  <2> HIDE DEF W, hops, path, t, h
  <2>7. ASSUME NEW n \in Names(t)
        PROVE  Copied(Len(env.nodes), t, W, n, path(n), hops(n))
    <3> DEFINE p == path(n)
               s == hops(n)
    <3>1. p = Paths(t, h)[n] /\ s = HopsOf(h, p)
      BY <2>6
    <3> HIDE DEF p, s
    <3>2. Copied(Len(env.nodes), t, W, n, p, s)
      BY ONLY <2>1, <2>3, <2>4, <3>1, CopiesSound
    <3> QED
      BY <3>2 DEF p, s
  <2> QED
    BY <2>4, <2>5, <2>7 DEF Copied
<1> QED
  BY <1>1, EnvAlways, PTL
-----------------------------------------------------------------------------
(* Discovery on a ring of setup. *)

LEMMA RingRanks ==
  ASSUME NEW t, t.nodes \in Seq(Nat), IsInjective(t.nodes), NEW h, Connected(t, h), Ring(t), ~Complete(t)
  PROVE  RankOrder(t, h) # <<>>
<1>1. Graph(t) /\ Cardinality(Names(t)) = Len(t.nodes) /\ Len(t.nodes) \in Nat /\ h \in Names(t)
  BY WellFormedGraph DEF Connected
<1>2. Len(t.nodes) >= 4
  BY DEF Ring
<1>3. PICK g : /\ RankWalkOf(t, h, Len(t.nodes), g)
               /\ RankOrder(t, h) =
                      IF ~Connected(t, h) THEN <<>>
                      ELSE IF Complete(t) THEN <<h>> \o Ascending(Names(t) \ {h})
                      ELSE IF Ring(t) THEN g[Len(t.nodes)]
                      ELSE <<>>
  BY <1>1, RankOrderIs
<1>4. Two(t) /\ Cardinality(Names(t)) >= 3
  BY <1>1, <1>2 DEF Ring, Two
<1> DEFINE w == g[Len(t.nodes)]
<1>5. Way(t, h, Len(t.nodes), w)
  BY <1>1, <1>2, <1>3, <1>4, RingWalk
<1>6. Len(w) = Len(t.nodes)
  BY <1>5 DEF Way
<1>7. w # <<>>
  BY <1>1, <1>2, <1>6
<1> QED
  BY <1>3, <1>7

(* Pairs that a plan pings and that reach each other are wires.             *)
LEMMA FacingWires ==
  ASSUME DOMAIN live \subseteq Interfaces, Reachable(Pings(live))
  PROVE  Facing(live) \subseteq Wires
<1> SUFFICES ASSUME NEW w \in Facing(live)
             PROVE  w \in Wires
  OBVIOUS
<1>1. PICK q \in Pings(live) : w = Both(q)
  BY FacingPings
<1> DEFINE x == q[1]
           y == q[2]
<1>2. x \in DOMAIN live /\ y \in DOMAIN live /\ x[1] # y[1] /\ w = {x, y}
  BY <1>1 DEF Pings, Both
<1>3. Joined(End(x), End(y))
  BY <1>1 DEF Reachable
<1> HIDE DEF x, y
<1>4. x \in Interfaces /\ y \in Interfaces
  BY <1>2
<1> QED
  BY <1>2, <1>3, <1>4 DEF Wires

LEMMA RingDiscovered ==
  ASSUME site \in Sites, NEW p, WellPlanned(p), Ringed(p.choice), N >= 4,
         live = p.addresses, Reachable(p.pings),
         NEW found, found = Discovered(site.nodes, site.nodes[1], live, Wires)
  PROVE  /\ found.links = PlanGraph(p).links
         /\ ValidOrder(found, found.nodes) /\ ValidOrder(found, p.choice.order)
<1> DEFINE t == PlanGraph(p)
           u == Everything
           h == site.nodes[1]
<1>1. p.pings = Pings(live) /\ DOMAIN live \subseteq Interfaces
  BY PlanFacts
<1>2. Facing(live) \subseteq Wires
  BY <1>1, FacingWires
<1>3. /\ t.nodes \in Seq(Nat) /\ IsInjective(t.nodes) /\ Len(t.nodes) = N /\ t.nodes[1] = h
      /\ Names(t) = Nodes /\ t.nodes = p.choice.order
  BY PlanGraphFacts
<1>4. WellFormed(t) /\ Shaped(t) /\ Connected(t, h) /\ Ring(t) /\ ~Complete(t)
  BY <1>3, PlanGraphShape
<1>5. u.nodes = site.nodes /\ u.links = {Link(live, w) : w \in Facing(live)}
  BY DEF Everything
<1>6. \A l : l \in u.links <=> \E q \in p.pings : l = LinkOf(p.addresses, q)
  BY <1>1, <1>5, FacingLinks
<1>7. \A l : l \in t.links <=> \E q \in p.pings : l = LinkOf(p.addresses, q)
  BY DEF PlanGraph
<1>8. t.links = u.links
  BY <1>6, <1>7 DEF PlanGraph, Everything
<1>9. /\ u.nodes \in Seq(Nat) /\ IsInjective(u.nodes) /\ Len(u.nodes) = N
      /\ Names(u) = Nodes
  BY <1>5, SiteFacts DEF N, Names, Nodes
<1>10. found = IF Facing(live) \subseteq Wires /\ WellFormed(u)
               THEN [nodes |-> RankOrder(u, h), links |-> u.links]
               ELSE [nodes |-> <<>>, links |-> {}]
  BY DEF Discovered, Everything
<1>t. t = [nodes |-> t.nodes, links |-> t.links]
  BY DEF PlanGraph
<1> HIDE DEF t, u
<1>11. Same(t, u)
  BY <1>3, <1>8, <1>9 DEF Same
<1>12. WellFormed(u)
  BY <1>3, <1>4, <1>9, <1>11, SameWellFormed
<1>13. Connected(u, h)
  BY <1>3, <1>4, <1>9, <1>11, SameConnected, WellFormedGraph
<1>14. Ring(u) /\ ~Complete(u)
  <2>1. \A n : Adj(t, n) = Adj(u, n)
    BY <1>11, SameAdj
  <2> QED
    BY <1>3, <1>4, <1>9, <2>1 DEF Ring, Complete
<1> DEFINE w == RankOrder(u, h)
           f == [nodes |-> w, links |-> u.links]
<1>15. w # <<>>
  BY <1>9, <1>13, <1>14, RingRanks
<1>16. /\ Same(u, f) /\ f.nodes = w /\ f.links = u.links /\ f = [nodes |-> f.nodes, links |-> f.links]
       /\ w \in Seq(Nat) /\ WellFormed(f) /\ Shaped(f)
  BY <1>9, <1>12, <1>15, RankedGraph
<1>17. found = f
  BY <1>2, <1>10, <1>12
<1> HIDE DEF f, w
<1>18. ValidOrder(f, f.nodes)
  <2>1. Same(f, f)
    BY DEF Same
  <2> QED
    BY <1>16, <2>1, ValidWhole
<1>19. ValidOrder(f, t.nodes)
  <2>1. Same(f, t)
    BY <1>11, <1>16 DEF Same
  <2> QED
    BY <1>3, <1>4, <1>t, <2>1, ValidWhole
<1> QED
  BY <1>3, <1>8, <1>16, <1>17, <1>18, <1>19 DEF t

(* A ring is planned only where its settings can be written.                *)
Launchable ==
    phase \in {"planned", "applied", "ready"} /\ plan.choice.topology = "ring" =>
        site.oneManagementInterface

LEMMA LaunchableNext ==
  ASSUME Launchable, [Next]_vars
  PROVE  Launchable'
<1>1. CASE Plan
  <2>1. UNCHANGED site
    BY <1>1 DEF Plan
  <2>2. PICK p : p = MakePlan(ChooseTopology(site.nodes))
    OBVIOUS
  <2>3. CASE ClusterEnv(p) = NoEnv
    <3>1. phase' = "refused"
      BY <1>1, <2>2, <2>3 DEF Plan
    <3> QED
      BY <3>1 DEF Launchable
  <2>4. CASE ClusterEnv(p) # NoEnv
    <3>1. plan' = p
      BY <1>1, <2>2, <2>4 DEF Plan
    <3>2. p.choice.topology = "ring" => site.oneManagementInterface
      BY <2>4 DEF ClusterEnv
    <3> QED
      BY <2>1, <3>1, <3>2 DEF Launchable
  <2> QED
    BY <2>3, <2>4
<1>2. CASE VerifyFails
  <2>1. phase' = "refused"
    BY <1>2 DEF VerifyFails
  <2> QED
    BY <2>1 DEF Launchable
<1>3. CASE Apply \/ Verify \/ SaveEnv \/ Discover \/ MoveCable \/ UNCHANGED vars
  <2>1. UNCHANGED <<site, plan>>
    BY <1>3 DEF Apply, Verify, SaveEnv, Discover, MoveCable, vars
  <2>2. phase' \in {"planned", "applied", "ready"} => phase \in {"planned", "applied", "ready"}
    BY <1>3 DEF Apply, Verify, SaveEnv, Discover, MoveCable, vars
  <2> QED
    BY <2>1, <2>2 DEF Launchable
<1> QED
  BY <1>1, <1>2, <1>3 DEF Next

(* While the cables of a ring that setup made are in place, a discovery     *)
(* finds the links that setup saved, and both its own order and the one     *)
(* setup planned are launch orders of them.                                 *)
THEOREM DiscoveryAgrees == Spec => []DiscoverAgrees
<1>1. Init => Planning /\ Launchable
  BY PlanningInit DEF Init, Launchable
<1>2. Planning /\ Launchable /\ [Next]_vars => Planning' /\ Launchable'
  BY PlanningNext, LaunchableNext
<1>3. Planning /\ Launchable => DiscoverAgrees
  <2> SUFFICES ASSUME Planning, Launchable,
                      phase = "ready", plan.choice.topology = "ring", N >= 4, Reachable(plan.pings)
               PROVE  LET found == Discovered(site.nodes, site.nodes[1], live, Wires)
                      IN  /\ found.links = ClusterEnv(plan).links
                          /\ ValidOrder(found, found.nodes) /\ ValidOrder(found, plan.choice.order)
    BY DEF DiscoverAgrees
  <2> DEFINE found == Discovered(site.nodes, site.nodes[1], live, Wires)
  <2>1. site \in Sites /\ live = plan.addresses /\ site.oneManagementInterface
    BY DEF Planning, Setting, Addressed, Launchable
  <2>2. PICK p : plan = p /\ WellPlanned(p)
    BY DEF Planning, Addressed
  <2>3. Ringed(p.choice)
    BY <2>2 DEF WellPlanned, Ported
  <2>4. p # NoPlan
    BY <2>2 DEF NoPlan, NoChoice
  <2>5. ClusterEnv(p).links = {Link(p.addresses, {q[1], q[2]}) : q \in p.pings}
    BY <2>1, <2>2, <2>4 DEF ClusterEnv
  <2>6. ClusterEnv(p).links = PlanGraph(p).links
    BY <2>5 DEF LinkOf, PlanGraph
  <2> HIDE DEF found
  <2>7. /\ found.links = PlanGraph(p).links
        /\ ValidOrder(found, found.nodes) /\ ValidOrder(found, p.choice.order)
    BY <2>1, <2>2, <2>3, RingDiscovered DEF found
  <2> QED
    BY <2>2, <2>6, <2>7 DEF found
<1> QED
  BY <1>1, <1>2, <1>3, PTL DEF Spec
===============================================================================
