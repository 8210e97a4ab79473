---------------------------- MODULE ClusterTopology ----------------------------
(***************************************************************************)
(* The saved graph of RoCE links (src/cluster_topology.py): what a valid   *)
(* one is, the rank order along it, the copy paths over it, the check of   *)
(* a launch, and discovery.  All of it is pure.                            *)
(*                                                                         *)
(* An address is its number, a node its management address.  A topology    *)
(* is a record of a sequence of nodes and a set of links; a link maps its  *)
(* two nodes to the addresses of its ends.  (The saved list could repeat a *)
(* link, which the constructor refuses; a set cannot.)                     *)
(***************************************************************************)
EXTENDS Integers, Sequences, FiniteSets, SequencesExt, FiniteSetsExt, Functions

Ascending(S) ==
    [k \in 1 .. Cardinality(S) |-> CHOOSE x \in S : Cardinality({y \in S : y < x}) = k - 1]
Subnet(address) == address \div 256     \* every network is a /24

Names(t) == ToSet(t.nodes)
Between(t, a, b) == {l \in t.links : DOMAIN l = {a, b}}
Adj(t, n) == {p \in Names(t) \ {n} : Between(t, n, p) # {}}

HopAddressOwn(t, node, p) ==      \* faulty variant: the near end of the link
    Min({l[node] : l \in Between(t, node, p)})
HopAddress(t, node, p) == Min({l[p] : l \in Between(t, node, p)})

(* Breadth first from the head, peers and parallel rails by lowest address: *)
(* for every node reached, the hops to it and the address of each.         *)
Paths(t, head) ==
    LET Scan[i \in 0 .. Len(t.nodes)] ==
            IF i = 0 THEN [order |-> <<head>>, path |-> [n \in {head} |-> <<>>]]
            ELSE LET s == Scan[i - 1] IN
                 IF i > Len(s.order) THEN s
                 ELSE LET node == s.order[i]
                          new == Adj(t, node) \ ToSet(s.order)
                      IN  [order |-> s.order \o Ascending(new),
                           path |-> [n \in DOMAIN s.path \cup new |->
                                        IF n \in new THEN Append(s.path[node], <<n, HopAddress(t, node, n)>>)
                                        ELSE s.path[n]]]
    IN  Scan[Len(t.nodes)].path

Connected(t, head) == head \in Names(t) /\ DOMAIN Paths(t, head) = Names(t)

(* What the constructor accepts. *)
WellFormed(t) ==
    /\ t.nodes # <<>> /\ IsInjective(t.nodes)
    /\ \A l \in t.links :
          /\ Cardinality(DOMAIN l) = 2 /\ DOMAIN l \subseteq Names(t)
          /\ \A n \in DOMAIN l : l[n] \notin Names(t) \ {n}
          /\ \A k \in t.links : \A n \in DOMAIN l, m \in DOMAIN k : l[n] = k[m] => n = m
    /\ Connected(t, t.nodes[1])

RingOfThree(t) ==      \* faulty variant: a triangle is a ring
    Len(t.nodes) >= 3 /\ \A n \in Names(t) : Cardinality(Adj(t, n)) = 2
Ring(t) == Len(t.nodes) >= 4 /\ \A n \in Names(t) : Cardinality(Adj(t, n)) = 2
Complete(t) == \A n \in Names(t) : Cardinality(Adj(t, n)) = Len(t.nodes) - 1

(* <<>> when the links form neither. *)
RankOrder(t, head) ==
    LET Walk[i \in 1 .. Len(t.nodes)] ==
            IF i = 1 THEN <<head>>
            ELSE Append(Walk[i - 1], Min(Adj(t, Last(Walk[i - 1])) \ ToSet(Walk[i - 1])))
    IN  IF ~Connected(t, head) THEN <<>>
        ELSE IF Complete(t) THEN <<head>> \o Ascending(Names(t) \ {head})
        ELSE IF Ring(t) THEN Walk[Len(t.nodes)]
        ELSE <<>>

Selected(t, nodes) ==
    [nodes |-> nodes,
     links |-> {l \in t.links : DOMAIN l \subseteq ToSet(nodes)}]

ValidOrder(t, nodes) ==
    LET s == Selected(t, nodes) IN
    /\ ToSet(nodes) \subseteq Names(t) /\ WellFormed(s)
    /\ \/ Complete(s)
       \/ Ring(s) /\ \A i \in 1 .. Len(nodes) :
                        nodes[(i % Len(nodes)) + 1] \in Adj(s, nodes[i])

(* A launch: the ranks, the sizes if the command has any (0 otherwise), the *)
(* backend, and whether the NCCL settings in effect conflict with a ring.   *)
Ranks(nodes, o) ==
    LET needed == o.tp * o.pp * o.dp
    IN  IF needed = 0 THEN nodes ELSE SubSeq(nodes, 1, needed)

ValidLaunch(t, nodes, o) ==
    /\ nodes # <<>> /\ nodes[1] = t.nodes[1]
    /\ o.tp * o.pp * o.dp <= Len(nodes)
    /\ ValidOrder(t, Ranks(nodes, o))
    /\ Ring(t) /\ Len(Ranks(nodes, o)) > 2 => ~o.ray /\ o.pp <= 1 /\ o.dp <= 1 /\ ~o.conflict
RingSettings(t, nodes, o) == Ring(t) /\ Len(Ranks(nodes, o)) > 2

(* Interfaces of two nodes on one network.  An interface is a <<node, port, *)
(* rail>>, addresses is a function on the addressed ones.                  *)
FacingOneRail(addresses) ==      \* faulty variant: the first rail stands for both
    {w \in {{x, y} : x, y \in DOMAIN addresses} :
        /\ Cardinality({x[1] : x \in w}) = 2
        /\ Cardinality({Subnet(addresses[x]) : x \in w}) = 1
        /\ \A x \in w : x[3] = 0}
Facing(addresses) ==
    {w \in {{x, y} : x, y \in DOMAIN addresses} :
        /\ Cardinality({x[1] : x \in w}) = 2
        /\ Cardinality({Subnet(addresses[x]) : x \in w}) = 1}
Link(addresses, w) == [n \in {x[1] : x \in w} |-> addresses[CHOOSE x \in w : x[1] = n]]

(* Every facing pair is a link if it answers both ways (is in wires) and an *)
(* error if it does not.  A graph without a rank order is one too: <<>>.    *)
Discovered(nodes, head, addresses, wires) ==
    LET found == [nodes |-> nodes,
                  links |-> {Link(addresses, w) : w \in Facing(addresses)}]
    IN  IF Facing(addresses) \subseteq wires /\ WellFormed(found)
        THEN [nodes |-> RankOrder(found, head), links |-> found.links]
        ELSE [nodes |-> <<>>, links |-> {}]
================================================================================
