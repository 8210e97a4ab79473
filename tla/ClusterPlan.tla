------------------------------ MODULE ClusterPlan ------------------------------
(***************************************************************************)
(* From cables to .env: how setup-cluster.py finds the topology, plans the *)
(* addresses, applies and verifies them and writes the launch settings,    *)
(* and how --save-env and the discovery of autodiscover.sh write them      *)
(* again.  Cables can be moved in between.                                 *)
(*                                                                         *)
(* A node is its management address, an end one of its two ports, an       *)
(* interface one of the two twins (rails) behind a port.                   *)
(***************************************************************************)
EXTENDS ClusterTopology

CONSTANT Sites    \* the clusters and options to start from: records of the
                  \* fields used below; moves bounds the moves of cables

(* What parse_nodes, the options and an IPv4 network allow; no interface has *)
(* the address of another before the first setup.                           *)
ASSUME SitesAssumption ==
    \A s \in Sites :
        LET ends == ToSet(s.nodes) \X {0, 1} IN
        /\ s.nodes \in Seq(Nat) /\ Len(s.nodes) \in 2 .. 244 /\ IsInjective(s.nodes)
        /\ s.cables \subseteq SUBSET ends /\ s.ports \in Seq({0, 1})
        /\ DOMAIN s.live \subseteq ToSet(s.nodes) \X {0, 1} \X {0, 1} /\ IsInjective(s.live)
        /\ \A i \in DOMAIN s.live : s.live[i] \in Nat
        /\ s.pool \in Nat /\ s.pool % 256 = 0 /\ s.moves \in Nat

VARIABLES
    site,      \* the cluster as found, and the options of the run
    cables,    \* pairs of ends
    down,      \* ends that are administratively down
    live,      \* the address of each addressed interface
    plan,      \* the planned topology, NoPlan before there is one
    env,       \* the launch settings and who saved them, NoEnv before
    wired,     \* the addresses that reached each other when env was saved
    phase,     \* "new", "planned", "applied", "ready" or "refused"
    moves

vars == <<site, cables, down, live, plan, env, wired, phase, moves>>

-----------------------------------------------------------------------------
(* What the nodes see. *)

N == Len(site.nodes)
Ends == ToSet(site.nodes) \X {0, 1}
Interfaces == ToSet(site.nodes) \X {0, 1} \X {0, 1}
End(i) == <<i[1], i[2]>>

Joined(x, y) == {x, y} \in cables \/ {x, y} \subseteq site.switch
Carrier(x) ==
    x \notin down /\ (x \in site.switch \/ \E y \in Ends \ {x} : {x, y} \in cables /\ y \notin down)
Active(n) == {p \in {0, 1} : Carrier(<<n, p>>)}

(* Pairs of interfaces that reach each other when they are addressed. *)
Wires == {w \in {{i, j} : i, j \in Interfaces} :
             \E i, j \in w : w = {i, j} /\ i[1] # j[1] /\ Joined(End(i), End(j))}

Linked == {Link(live, w) : w \in {v \in Wires : v \subseteq DOMAIN live}}

(* The ports of other nodes an end hears of; a switch is heard too.  The    *)
(* twins behind an end hear the same, and each other, which is left out.    *)
Heard(x) ==
    IF x[1] \notin site.lldp \/ ~Carrier(x) THEN {}
    ELSE {y \in Ends : {x, y} \in cables /\ y[1] # x[1] /\ y[1] \in site.lldp}
         \cup (IF x \in site.switch THEN {"switch"} ELSE {})

(* The order along next, if it passes all nodes and closes. *)
Closed(nodes, next) ==
    LET Walk[i \in 1 .. Len(nodes)] ==
            IF i = 1 THEN <<nodes[1]>>
            ELSE IF next[Last(Walk[i - 1])] \in ToSet(Walk[i - 1]) THEN Walk[i - 1]
            ELSE Append(Walk[i - 1], next[Last(Walk[i - 1])])
        order == Walk[Len(nodes)]
    IN  IF Len(order) = Len(nodes) /\ next[Last(order)] = nodes[1] THEN order ELSE <<>>

(* Every end hears exactly one end of another node, the opposite port, and  *)
(* is heard by it.                                                          *)
DetectLldpRing(nodes) ==
    LET facing(x) == CHOOSE y \in Heard(x) : TRUE
    IN  IF \A x \in Ends : /\ Cardinality(Heard(x)) = 1 /\ facing(x) \in Ends
                           /\ facing(x)[2] = 1 - x[2] /\ facing(facing(x)) = x
        THEN Closed(nodes, [n \in ToSet(nodes) |-> facing(<<n, 0>>)[1]])
        ELSE <<>>

(* Port 0 of every node shares a subnet with port 1 of one other node, the  *)
(* same one on both rails.                                                  *)
DetectRingBackward(nodes, addresses) ==      \* faulty variant: port 1 to port 0
    LET net(i) == IF i \in DOMAIN addresses THEN {Subnet(addresses[i])} ELSE {}
        matches(n, r) == {m \in ToSet(nodes) \ {n} : net(<<n, 1, r>>) \cap net(<<m, 0, r>>) # {}}
    IN  IF \A n \in ToSet(nodes) : Cardinality(matches(n, 0)) = 1 /\ matches(n, 0) = matches(n, 1)
        THEN Closed(nodes, [n \in ToSet(nodes) |-> CHOOSE m \in matches(n, 0) : TRUE])
        ELSE <<>>
DetectRing(nodes, addresses) ==
    LET net(i) == IF i \in DOMAIN addresses THEN {Subnet(addresses[i])} ELSE {}
        matches(n, r) == {m \in ToSet(nodes) \ {n} : net(<<n, 0, r>>) \cap net(<<m, 1, r>>) # {}}
    IN  IF \A n \in ToSet(nodes) : Cardinality(matches(n, 0)) = 1 /\ matches(n, 0) = matches(n, 1)
        THEN Closed(nodes, [n \in ToSet(nodes) |-> CHOOSE m \in matches(n, 0) : TRUE])
        ELSE <<>>

-----------------------------------------------------------------------------
(* The plan. *)

NoChoice == [topology |-> "none", order |-> <<>>, ports |-> <<>>]

PortUsable(x) == x \in down \/ Carrier(x)

(* One port of every node: the listed ones, or the only active one. *)
SinglePorts(nodes) ==
    LET listed == site.ports
        values == IF Len(listed) = 1 THEN [i \in 1 .. Len(nodes) |-> listed[1]] ELSE listed
    IN  IF listed # <<>>
        THEN IF Len(values) = Len(nodes) THEN values ELSE <<>>
        ELSE IF \A n \in ToSet(nodes) : Cardinality(Active(n)) = 1
             THEN [i \in 1 .. Len(nodes) |-> CHOOSE p \in Active(nodes[i]) : TRUE]
             ELSE <<>>

(* Automatic topologies: the only port, LLDP, existing subnets, the answer. *)
Proposed(nodes, physical) ==
    LET found == DetectRing(nodes, live)
        as(topology, order) == [topology |-> topology, order |-> order]
    IN  IF site.topology # "auto" THEN as(site.topology, nodes)
        ELSE IF site.ports # <<>> \/ \A n \in ToSet(nodes) : Cardinality(Active(n)) = 1
             THEN as(IF N = 2 THEN "direct" ELSE "switch", nodes)
        ELSE IF physical # <<>> THEN as("ring", physical)
        ELSE IF N >= 3 /\ found # <<>> THEN as("ring", found)
        ELSE as(site.answer, nodes)

ChooseTopology(nodes) ==
    LET physical == IF N >= 3 THEN DetectLldpRing(nodes) ELSE <<>>
        p == Proposed(nodes, physical)
        ports == SinglePorts(nodes)
        used == {<<nodes[i], ports[i]>> : i \in DOMAIN ports}
    IN  IF p.topology \in {"ring", "mesh"}
        THEN IF /\ N >= 3 /\ (p.topology = "mesh" => N = 3) /\ site.ports = <<>>
                /\ physical \in {<<>>, p.order} /\ \A x \in Ends : PortUsable(x)
             THEN [topology |-> "ring", order |-> p.order, ports |-> <<>>]
             ELSE NoChoice
        ELSE IF /\ p.topology \in {"direct", "switch"} /\ (p.topology = "direct" => N = 2)
                /\ ports # <<>> /\ \A x \in used : PortUsable(x)
                /\ \A i \in DOMAIN live : End(i) \in used
             THEN [topology |-> p.topology, order |-> nodes, ports |-> ports]
             ELSE NoChoice

(* The cable, in the order of the nodes, an end is on; the port a node uses. *)
Position(order, n) == CHOOSE i \in DOMAIN order : order[i] = n
Cable(c, x) ==
    LET i == Position(c.order, x[1]) - 1
    IN  IF c.topology # "ring" THEN 0
        ELSE IF x[2] = 0 THEN i ELSE (i - 1 + Len(c.order)) % Len(c.order)
Planned(c) ==
    IF c.topology = "ring" THEN Interfaces
    ELSE {i \in Interfaces : i[2] = c.ports[Position(c.order, i[1])]}

(* Two /24 networks a cable, one a rail; hosts from .11 in the order. *)
AddressOneRail(c, i) ==      \* faulty variant: both rails on one network
    site.pool + 512 * Cable(c, End(i)) + 10 + Position(c.order, i[1])
Address(c, i) ==
    site.pool + 256 * (2 * Cable(c, End(i)) + i[3]) + 10 + Position(c.order, i[1])

Needed(c) == IF c.topology = "ring" THEN 2 * Len(c.order) ELSE 2

NoPlan == [choice |-> NoChoice, addresses |-> <<>>, pings |-> {}]
Pings(addresses) ==
    {q \in (DOMAIN addresses) \X (DOMAIN addresses) :
        q[1][1] # q[2][1] /\ Subnet(addresses[q[1]]) = Subnet(addresses[q[2]])}
MakePlan(c) ==
    LET addresses == [i \in Planned(c) |-> Address(c, i)]
        nets == {Subnet(site.pool) + k : k \in 0 .. Needed(c) - 1}
    IN  IF \/ c = NoChoice \/ site.subnets < Needed(c)
           \/ \E n \in ToSet(site.nodes) : Subnet(n) \in nets
        THEN NoPlan
        ELSE [choice |-> c, addresses |-> addresses,
              pings |-> {q \in Planned(c) \X Planned(c) :
                            /\ q[1][1] # q[2][1] /\ q[1][3] = q[2][3]
                            /\ Cable(c, End(q[1])) = Cable(c, End(q[2]))}]

(* The launch settings: ranks on the CX7 addresses if all use one port, on  *)
(* the management addresses and with their links otherwise.                 *)
NoEnv == [nodes |-> <<>>, links |-> {}, ring |-> FALSE, by |-> "nobody"]
NcclRing(c) == c.topology = "ring" /\ N >= 4
ClusterEnv(p) ==
    LET c == p.choice
    IN  IF p = NoPlan THEN NoEnv
        ELSE IF c.topology # "ring" /\ Cardinality(ToSet(c.ports)) = 1
        THEN [nodes |-> [k \in DOMAIN c.order |-> p.addresses[<<c.order[k], c.ports[k], 0>>]],
              links |-> {}, ring |-> FALSE, by |-> "setup"]
        ELSE IF ~site.oneManagementInterface THEN NoEnv
        ELSE [nodes |-> c.order, links |-> {Link(p.addresses, {q[1], q[2]}) : q \in p.pings},
              ring |-> NcclRing(c), by |-> "setup"]

(* What --save-env and doctor make of the addresses in the journals. *)
SavedConfiguration(nodes, addresses) ==
    LET used(n) == {i[2] : i \in {j \in DOMAIN addresses : j[1] = n}}
        single == {n \in ToSet(nodes) : Cardinality(used(n)) = 1}
        order == DetectRing(nodes, addresses)
        ports == [k \in DOMAIN nodes |-> CHOOSE p \in used(nodes[k]) : TRUE]
        oneNet(r) == Cardinality({Subnet(addresses[i]) : i \in {j \in DOMAIN addresses : j[3] = r}}) = 1
        as(c) == [choice |-> c, addresses |-> addresses, pings |-> Pings(addresses)]
    IN  IF ~(\A i \in DOMAIN addresses : i \in DOMAIN live /\ live[i] = addresses[i]) THEN NoPlan
        ELSE IF single = {} /\ N >= 3 /\ order # <<>>
        THEN as([topology |-> "ring", order |-> order, ports |-> <<>>])
        ELSE IF single = ToSet(nodes) /\ oneNet(0) /\ oneNet(1)
        THEN as([topology |-> IF N = 2 THEN "direct" ELSE "switch",
                 order |-> nodes, ports |-> ports])
        ELSE NoPlan

ReachableFromHead(pings) ==      \* faulty variant: verified on the head only
    \A q \in pings : q[1][1] = site.nodes[1] => Joined(End(q[1]), End(q[2]))
Reachable(pings) == \A q \in pings : Joined(End(q[1]), End(q[2]))

-----------------------------------------------------------------------------

Init ==
    /\ \E s \in Sites :
          site = s /\ cables = s.cables /\ down = s.down /\ live = s.live
    /\ plan = NoPlan /\ env = NoEnv /\ wired = {} /\ phase = "new" /\ moves = 0

(* Inspection, choice, plan and settings, before anything is changed. *)
Plan ==
    /\ phase = "new"
    /\ LET p == MakePlan(ChooseTopology(site.nodes))
       IN  IF ClusterEnv(p) = NoEnv
           THEN phase' = "refused" /\ plan' = NoPlan
           ELSE phase' = "planned" /\ plan' = p
    /\ UNCHANGED <<site, cables, down, live, env, wired, moves>>

(* Netplan brings the planned interfaces up and keeps the others' addresses. *)
Apply ==
    /\ phase = "planned" /\ phase' = "applied"
    /\ live' = [i \in DOMAIN plan.addresses \cup DOMAIN live |->
                   IF i \in DOMAIN plan.addresses THEN plan.addresses[i] ELSE live[i]]
    /\ down' = down \ {End(i) : i \in DOMAIN plan.addresses}
    /\ UNCHANGED <<site, cables, plan, env, wired, moves>>

Verify ==
    /\ phase = "applied" /\ Reachable(plan.pings)
    /\ phase' = "ready" /\ env' = ClusterEnv(plan) /\ wired' = Linked
    /\ UNCHANGED <<site, cables, down, live, plan, moves>>

(* The rollback puts the addresses back and takes the new ones away. *)
VerifyFails ==
    /\ phase = "applied" /\ ~Reachable(plan.pings)
    /\ phase' = "refused" /\ plan' = NoPlan
    /\ live' = site.live /\ down' = site.down
    /\ UNCHANGED <<site, cables, env, wired, moves>>

SaveEnv ==
    /\ phase = "ready"
    /\ LET p == SavedConfiguration(site.nodes, plan.addresses)
       IN  /\ ClusterEnv(p) # NoEnv /\ Reachable(p.pings)
           /\ env' = [ClusterEnv(p) EXCEPT !.by = "save-env"] /\ wired' = Linked
    /\ UNCHANGED <<site, cables, down, live, plan, phase, moves>>

(* The kept nodes, in the order of the nodes. *)
Kept(nodes, keep) ==
    LET places == Ascending({k \in DOMAIN nodes : nodes[k] \in keep})
    IN  [k \in DOMAIN places |-> nodes[places[k]]]

(* autodiscover.sh, four nodes or more: the selected nodes of a ring. *)
Discover ==
    /\ phase \in {"new", "ready", "refused"} /\ N >= 4
    /\ LET found == Discovered(site.nodes, site.nodes[1], live, Wires)
       IN  /\ found.nodes # <<>> /\ Ring(found)
           /\ \E keep \in SUBSET ToSet(site.nodes) :
                 LET chosen == Selected(found, Kept(found.nodes, keep))
                     order == RankOrder(chosen, site.nodes[1])
                 IN  /\ site.nodes[1] \in keep /\ WellFormed(chosen) /\ order # <<>>
                     /\ env' = [nodes |-> order, links |-> chosen.links, ring |-> TRUE,
                                by |-> "discover"]
    /\ wired' = Linked
    /\ UNCHANGED <<site, cables, down, live, plan, phase, moves>>

(* A cable is taken out, put in, or both. *)
Free(C) == {x \in Ends \ site.switch : \A c \in C : x \notin c}
MoveCable ==
    /\ moves < site.moves /\ moves' = moves + 1
    /\ \E out \in SUBSET cables :
          /\ Cardinality(out) <= 1
          /\ \E x, y \in Free(cables \ out) :
                cables' = IF x = y THEN cables \ out ELSE (cables \ out) \cup {{x, y}}
    /\ cables' # cables
    /\ UNCHANGED <<site, down, live, plan, env, wired, phase>>

Next == Plan \/ Apply \/ Verify \/ VerifyFails \/ SaveEnv \/ Discover \/ MoveCable

Spec == Init /\ [][Next]_vars

-----------------------------------------------------------------------------

Topology == [nodes |-> env.nodes, links |-> env.links]

(* No address is used twice, or lies in a network of the management         *)
(* addresses, whatever was configured on the interfaces before.            *)
TypeOK ==
    /\ phase \in {"new", "planned", "applied", "ready", "refused"}
    /\ cables \subseteq SUBSET Ends /\ moves \in 0 .. site.moves
    /\ DOMAIN live \subseteq Interfaces /\ DOMAIN plan.addresses \subseteq Interfaces
    /\ IsInjective(live) /\ IsInjective(plan.addresses)
    /\ \A i \in DOMAIN plan.addresses, n \in ToSet(site.nodes) :
          Subnet(plan.addresses[i]) # Subnet(n)

(* Every saved link was a working pair of interfaces when it was saved,     *)
(* although the order can come from a listing, from LLDP, from subnets left *)
(* by an earlier cabling or from an answer, and cables may move between any *)
(* two steps (docs/NETWORKING.md: "Saved links describe the network at     *)
(* discovery time").                                                       *)
LinksJoined == env.links \subseteq wired

(* What setup, --save-env and discovery save is what the launcher accepts: *)
(* the saved graph is valid and has a rank order, all nodes and the first  *)
(* two launch with tensor parallelism, and the launcher's ring, which is a *)
(* graph, is the ring of the saved settings, which is a choice of topology *)
(* made from ports: a ring cabled with one end wrong is never saved.  (A   *)
(* pair selected out of a discovered ring keeps the ring's setting, see    *)
(* Discover.)                                                              *)
LaunchAccepts ==
    env.links # {} =>
        LET launch(n) == [tp |-> n, pp |-> 1, dp |-> 1, ray |-> FALSE, conflict |-> FALSE]
            n == Len(env.nodes)
        IN  /\ WellFormed(Topology) /\ RankOrder(Topology, site.nodes[1]) # <<>>
            /\ \A k \in {2, n} : ValidLaunch(Topology, env.nodes, launch(k))
            /\ (env.by = "discover" => n > 2) =>
                  (env.ring <=> RingSettings(Topology, env.nodes, launch(n)))

(* The configuration --save-env and doctor recover from the interfaces in  *)
(* the journals is the one that was planned: same ranks, links, settings   *)
(* and verification, from the listed nodes and not from their ring order.  *)
JournalsHoldPlan ==
    phase = "ready" =>
        LET p == SavedConfiguration(site.nodes, plan.addresses)
        IN  /\ p.pings = plan.pings /\ p.choice.order = plan.choice.order
            /\ ClusterEnv(p) = ClusterEnv(plan)

(* Discovery on a ring that setup made, its cables in place, finds the     *)
(* links setup saved and an order along them.                              *)
DiscoverAgrees ==
    phase = "ready" /\ plan.choice.topology = "ring" /\ N >= 4 /\ Reachable(plan.pings) =>
        LET found == Discovered(site.nodes, site.nodes[1], live, Wires)
        IN  /\ found.links = ClusterEnv(plan).links
            /\ ValidOrder(found, found.nodes) /\ ValidOrder(found, plan.choice.order)

(* Copies take a shortest way over saved links, every hop by an address of *)
(* the node it names, and in a ring through at most half of the nodes.     *)
CopyPathsShortest ==
    env.links # {} =>
        LET head == env.nodes[1]
            Within[k \in 0 .. Len(env.nodes)] ==
                IF k = 0 THEN {head}
                ELSE UNION {Adj(Topology, n) \cup {n} : n \in Within[k - 1]}
            paths == Paths(Topology, head)
        IN  \A n \in ToSet(env.nodes) :
              LET hops == <<<<head, 0>>>> \o paths[n] IN
              /\ Last(hops)[1] = n /\ n \in Within[Len(paths[n])]
              /\ \A k \in 0 .. Len(paths[n]) - 1 : n \notin Within[k]
              /\ \A k \in DOMAIN paths[n] :
                    \E l \in Between(Topology, hops[k][1], hops[k + 1][1]) :
                        l[hops[k + 1][1]] = hops[k + 1][2]
              /\ env.ring => 2 * Len(paths[n]) <= Len(env.nodes)
================================================================================
