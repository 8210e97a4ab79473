---------------------------- MODULE MCClusterPlan ----------------------------
(* Clusters of two to six nodes: every cabling of up to four nodes, rings  *)
(* whose cables move, switches, and the limits of the address pool.        *)
EXTENDS ClusterPlan

Order(n) == SubSeq(<<11, 14, 12, 13, 16, 15>>, 1, n)     \* the head first
EndsOf(n) == ToSet(Order(n)) \X {0, 1}

(* All ways to put cables in: sets of disjoint pairs of ends. *)
Cablings(n) ==
    LET pairs == {c \in SUBSET EndsOf(n) : Cardinality(c) = 2}
        Some[k \in 0 .. n] ==
            IF k = 0 THEN {{}}
            ELSE Some[k - 1] \cup
                 UNION {{C \cup {c} : c \in {d \in pairs : d \cap UNION C = {}}} : C \in Some[k - 1]}
    IN  Some[n]

RingOf(order) ==
    {{<<order[k], 0>>, <<order[(k % Len(order)) + 1], 1>>} : k \in DOMAIN order}
RingAddresses(order, pool) ==
    [i \in ToSet(order) \X {0, 1} \X {0, 1} |->
        LET k == CHOOSE j \in DOMAIN order : order[j] = i[1]
            cable == IF i[2] = 0 THEN k ELSE IF k = 1 THEN Len(order) ELSE k - 1
        IN  pool + 256 * (2 * cable + i[3]) + 20 + k]

Pool == 2560
Plain(n) ==
    [nodes |-> Order(n), cables |-> {}, switch |-> {}, lldp |-> {}, down |-> {}, live |-> <<>>,
     topology |-> "auto", ports |-> <<>>, answer |-> "none", pool |-> Pool, subnets |-> 256,
     oneManagementInterface |-> TRUE, moves |-> 0]

Lldps(n) == {{}, ToSet(Order(n)), ToSet(Order(n)) \ {14}}
Topologies == {"direct", "switch", "mesh", "ring"}
Options(n) ==
    {[Plain(n) EXCEPT !.topology = t, !.answer = a, !.ports = p, !.lldp = d] :
        t \in {"auto"} \cup Topologies, a \in {"none", "ring", "switch"},
        p \in {<<>>, <<0>>, <<0, 1>>}, d \in Lldps(n)}

Small ==
    UNION {{[o EXCEPT !.cables = C] : C \in Cablings(n),
            o \in {x \in Options(n) : x.answer = "none" \/ (x.topology = "auto" /\ x.ports = <<>>)}} : n \in {2, 3}}
Found(order) == {<<>>, RingAddresses(order, 12800)}
Four ==
    {[Plain(4) EXCEPT !.cables = C, !.topology = t, !.lldp = d, !.live = a] :
        C \in {D \in Cablings(4) : Cardinality(D) >= 3}, t \in {"auto", "ring"},
        d \in {{}, ToSet(Order(4))}, a \in Found(Order(4))}
Moving ==
    UNION {{[Plain(n) EXCEPT !.cables = RingOf(o), !.topology = t, !.lldp = d, !.live = a,
             !.moves = m] :
               o \in {Order(n), <<11, 12, 13, 14>>}, t \in {"auto", "ring"},
               d \in {{}, ToSet(Order(n))}, a \in Found(Order(n)), m \in {1, 2}} : n \in {4}}
    \cup {[Plain(3) EXCEPT !.cables = RingOf(Order(3)), !.topology = "mesh", !.moves = 2]}
Large ==
    {[Plain(n) EXCEPT !.cables = RingOf(Order(n)), !.lldp = ToSet(Order(n)), !.moves = m] :
        n \in {5, 6}, m \in {0}}
Switched ==
    UNION {{[Plain(n) EXCEPT !.switch = s, !.topology = t, !.ports = p, !.lldp = d, !.down = w] :
               s \in {ToSet(Order(n)) \X {0}, EndsOf(n),
                      {<<Order(n)[k], k % 2>> : k \in 1 .. n}},
               t \in {"auto"} \cup Topologies,
               p \in {<<>>, <<1>>, [k \in 1 .. n |-> k % 2]}, d \in Lldps(n),
               w \in {{}, {<<11, 0>>}, {<<11, 1>>}}} : n \in {2, 3, 4}}
Limits ==
    UNION {{[Plain(n) EXCEPT !.cables = RingOf(Order(n)), !.topology = "ring", !.subnets = k,
             !.pool = p, !.oneManagementInterface = b] :
               k \in {2 * n - 1, 2 * n}, p \in {0, 256, Pool}, b \in BOOLEAN} : n \in {3, 4}}

AllSites == Small \cup Four \cup Moving \cup Large \cup Switched \cup Limits
==============================================================================
