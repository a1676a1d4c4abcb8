----------------------------- MODULE Addressing -----------------------------
(***************************************************************************)
(* The address plan of a deploy (AllocateAddresses in                      *)
(* internal/topology/addressing.go): links with addresses in the           *)
(* configuration, then one LAN subnet per bridge, then the links without a *)
(* bridge, and last the check that no node is twice in one subnet.         *)
(*                                                                         *)
(* An address or a network is a record of a number and the size of its     *)
(* network, so that a prefix of 32 - n bits is a span of 2^n.  Nodes are   *)
(* numbered in the order of their names.  Every end of a link is an        *)
(* interface of its own: validate refuses a configuration without          *)
(* interface names, or with one twice on a node.                           *)
(***************************************************************************)
EXTENDS Naturals, Sequences, FiniteSets

CONSTANTS
  Configs,    \* the configurations to plan for, as LoadConfig accepts them
  LanBlock    \* the size of a LAN subnet; 256 in the code, whose prefix is /24

P2PBlock == 4

(* The pools are cut into blocks from their start.                         *)
Block(x) == IF x = "p2p" THEN P2PBlock ELSE LanBlock

Kinds == {"host", "router", "bridge"}
Cidrs == [addr : Nat, span : Nat]

(* The empty string, in place of an address, a network or a pool.          *)
Unset == [addr |-> 0, span |-> 0]

Apart(c, d) == c.addr + c.span <= d.addr \/ d.addr + d.span <= c.addr

(* A pool is a network: net.ParseCIDR clears the host bits, so that it     *)
(* starts at a multiple of its size, and of any block that fits in it.     *)
IsConfig(c) ==
  /\ c.kind \in Seq(Kinds)
  /\ c.links \in Seq((DOMAIN c.kind) \X (DOMAIN c.kind))
  /\ c.ipv4 \in [DOMAIN c.links -> Seq(Cidrs)]
  /\ c.pool \in [{"p2p", "lan"} -> Cidrs]
  /\ c.pool["p2p"].span > 0 /\ c.pool["lan"].span > 0 => Apart(c.pool["p2p"], c.pool["lan"])
  /\ \A x \in {"p2p", "lan"} : c.pool[x].span >= Block(x) => c.pool[x].addr % Block(x) = 0
  /\ c.auto_static \in BOOLEAN

ASSUME ConfigsOK ==
  /\ \A c \in Configs : IsConfig(c)
  /\ LanBlock \in Nat /\ LanBlock >= 4

VARIABLES
  cfg,      \* the configuration
  phase,    \* which loop of AllocateAddresses runs
  li,       \* the next link of that loop
  bridges,  \* the bridges it has yet to serve (Go map order is arbitrary)
  next,     \* how many subnets of each pool are taken
  ip,       \* Interface.IP of each end of a link
  subnet    \* Link.Subnet

plan == <<next, ip, subnet>>
vars == <<cfg, phase, li, bridges, plan>>

Links == DOMAIN cfg.links
Ports == Links \X {1, 2}
NodeOf(p) == cfg.links[p[1]][p[2]]
KindOf(p) == cfg.kind[NodeOf(p)]
OnBridge(k) == \E s \in {1, 2} : KindOf(<<k, s>>) = "bridge"
L3Ends(k) == {s \in {1, 2} : KindOf(<<k, s>>) # "bridge"}
Touches(k, b) == \E s \in {1, 2} : NodeOf(<<k, s>>) = b

Automatic(k) == Len(cfg.ipv4[k]) = 0

(* The interfaces that share the LAN of bridge b.                          *)
LanPorts(b) == {p \in Ports : Automatic(p[1]) /\ KindOf(p) # "bridge" /\ Touches(p[1], b)}
Segments == {b \in DOMAIN cfg.kind : cfg.kind[b] = "bridge" /\ LanPorts(b) # {}}

TypeOK ==
  /\ IsConfig(cfg)
  /\ phase \in {"shape", "manual", "segments", "direct", "check", "accepted", "rejected"}
  /\ li \in 1 .. Len(cfg.links) + 1
  /\ bridges \subseteq Segments
  /\ next \in [{"p2p", "lan"} -> Nat]
  /\ ip \in [Ports -> Cidrs]
  /\ subnet \in [Links -> Cidrs]

Init ==
  /\ cfg \in Configs
  /\ phase = "shape"
  /\ li = 1
  /\ bridges = {}
  /\ next = [x \in {"p2p", "lan"} |-> 0]
  /\ ip = [p \in Ports |-> Unset]
  /\ subnet = [k \in Links |-> Unset]

-----------------------------------------------------------------------------
Reject == phase' = "rejected" /\ UNCHANGED <<cfg, li, bridges, plan>>

(* ipv4 has no entry or two.                                               *)
CheckShape ==
  /\ phase = "shape"
  /\ phase' = IF \A k \in Links : Len(cfg.ipv4[k]) \in {0, 2} THEN "manual" ELSE "rejected"
  /\ UNCHANGED <<cfg, li, bridges, plan>>

Network(c) == [addr |-> c.addr - (c.addr % c.span), span |-> c.span]

(* allocateManualPlanned: the ends that are no bridge ports have addresses *)
(* that can be read, in one network.                                       *)
Agree(k) == \A s, t \in L3Ends(k) :
  cfg.ipv4[k][s].span > 0 /\ cfg.ipv4[k][t].span > 0
    /\ Network(cfg.ipv4[k][s]) = Network(cfg.ipv4[k][t])

Configure(k) ==
  /\ ip' = [p \in Ports |-> IF p[1] = k /\ p[2] \in L3Ends(k) THEN cfg.ipv4[k][p[2]] ELSE ip[p]]
  /\ subnet' = [subnet EXCEPT ![k] =
       IF L3Ends(k) = {} THEN Unset ELSE Network(cfg.ipv4[k][CHOOSE s \in L3Ends(k) : TRUE])]

ManualLink ==
  /\ phase = "manual" /\ li <= Len(cfg.links)
  /\ IF ~Automatic(li) /\ ~Agree(li) THEN Reject
     ELSE /\ li' = li + 1
          /\ IF Automatic(li) THEN UNCHANGED <<ip, subnet>> ELSE Configure(li)
          /\ UNCHANGED <<cfg, phase, bridges, next>>

(* Mutant of CollectSegments: a bridge without interfaces is served too.   *)
CollectBridges ==
  /\ phase = "manual" /\ li > Len(cfg.links)
  /\ IF Segments # {} /\ cfg.pool["lan"] = Unset THEN Reject
     ELSE /\ phase' = "segments"
          /\ bridges' = {b \in DOMAIN cfg.kind : cfg.kind[b] = "bridge"}
          /\ UNCHANGED <<cfg, li, plan>>

(* allocateAutoBridgeSegments collects the segments; they need a LAN pool. *)
CollectSegments ==
  /\ phase = "manual" /\ li > Len(cfg.links)
  /\ IF Segments # {} /\ cfg.pool["lan"] = Unset THEN Reject
     ELSE /\ phase' = "segments"
          /\ bridges' = Segments
          /\ UNCHANGED <<cfg, li, plan>>

-----------------------------------------------------------------------------
(* subnetAllocator.                                                        *)
(* Mutant of HasNext: the last block of a pool is not used.                *)
HasMore(x) == (next[x] + 2) * Block(x) <= cfg.pool[x].span

HasNext(x) == (next[x] + 1) * Block(x) <= cfg.pool[x].span

NextSubnet(x) == [addr |-> cfg.pool[x].addr + next[x] * Block(x), span |-> Block(x)]

(* Mutant of TakeNext: the allocator does not advance.                     *)
TakeAgain(x) == next' = next

TakeNext(x) == next' = [next EXCEPT ![x] = @ + 1]

(* Mutant of Host: the first host has the address of the network.          *)
HostFromZero(net, n) == [addr |-> net.addr + (n - 1), span |-> net.span]

Host(net, n) == [addr |-> net.addr + n, span |-> net.span]

(* sortBridgeLANEndpoints: routers before hosts, each by name.             *)
Before(p, q) ==
  \/ KindOf(p) = "router" /\ KindOf(q) = "host"
  \/ KindOf(p) = KindOf(q) /\ NodeOf(p) < NodeOf(q)
  \/ /\ NodeOf(p) = NodeOf(q)
     /\ (p[1] < q[1] \/ (p[1] = q[1] /\ p[2] < q[2]))

(* The position of p in that order, counted from 1.                        *)
Rank(b, p) == Cardinality({q \in LanPorts(b) : q = p \/ Before(q, p)})

BridgeSegment == \E b \in bridges : LET net == NextSubnet("lan") IN
  /\ phase = "segments"
  /\ IF ~HasNext("lan") \/ Cardinality(LanPorts(b)) > LanBlock - 2 THEN Reject
     ELSE /\ ip' = [p \in Ports |-> IF p \in LanPorts(b) THEN Host(net, Rank(b, p)) ELSE ip[p]]
          /\ subnet' = [k \in Links |-> IF Automatic(k) /\ Touches(k, b) THEN net ELSE subnet[k]]
          /\ TakeNext("lan")
          /\ bridges' = bridges \ {b}
          /\ UNCHANGED <<cfg, phase, li>>

EnterDirect ==
  /\ phase = "segments" /\ bridges = {}
  /\ phase' = "direct" /\ li' = 1
  /\ UNCHANGED <<cfg, bridges, plan>>

(* Links between equal kinds take from the P2P pool, the others, a host    *)
(* and a router, from the LAN pool.                                        *)
PoolOf(k) == IF KindOf(<<k, 1>>) = KindOf(<<k, 2>>) THEN "p2p" ELSE "lan"

(* Which host of the subnet an end gets.  On a P2P link the ends are       *)
(* swapped for the order of names, and the two addresses with them.        *)
HostNumber(k, s) ==
  IF PoolOf(k) = "lan"
  THEN IF KindOf(<<k, s>>) = "router" THEN 1 ELSE 2
  ELSE LET swapped == NodeOf(<<k, 2>>) < NodeOf(<<k, 1>>)
           first   == IF swapped THEN 2 ELSE 1
           a       == IF swapped THEN 2 ELSE 1
       IN  IF s = first THEN a ELSE 3 - a

Skipped(k) == ~Automatic(k) \/ OnBridge(k) \/ \E s \in {1, 2} : ip[<<k, s>>] # Unset

DirectLink == LET x == PoolOf(li)  net == NextSubnet(x) IN
  /\ phase = "direct" /\ li <= Len(cfg.links)
  /\ IF ~Skipped(li) /\ ~HasNext(x) THEN Reject
     ELSE /\ li' = li + 1
          /\ IF Skipped(li) THEN UNCHANGED plan
             ELSE /\ ip' = [p \in Ports |-> IF p[1] = li THEN Host(net, HostNumber(li, p[2])) ELSE ip[p]]
                  /\ subnet' = [subnet EXCEPT ![li] = net]
                  /\ TakeNext(x)
          /\ UNCHANGED <<cfg, phase, bridges>>

EnterCheck ==
  /\ phase = "direct" /\ li > Len(cfg.links)
  /\ phase' = "check"
  /\ UNCHANGED <<cfg, li, bridges, plan>>

(* validateNoDuplicateSubnetPerNode                                        *)
Duplicate(p, q) ==
  /\ p # q /\ NodeOf(p) = NodeOf(q)
  /\ ip[p] # Unset /\ ip[q] # Unset /\ Network(ip[p]) = Network(ip[q])

CheckDuplicates ==
  /\ phase = "check"
  /\ phase' = IF \E p, q \in Ports : Duplicate(p, q) THEN "rejected" ELSE "accepted"
  /\ UNCHANGED <<cfg, li, bridges, plan>>

Next ==
  \/ CheckShape \/ ManualLink \/ CollectSegments
  \/ BridgeSegment \/ EnterDirect \/ DirectLink \/ EnterCheck
  \/ CheckDuplicates

Spec == Init /\ [][Next]_vars

-----------------------------------------------------------------------------
(* Properties.                                                             *)

(* The subnets handed out by the allocators, for links and for bridges in  *)
(* whatever order, do not overlap and stay in their pool (README.md:8):    *)
(* two links have one in common only where they share a bridge.            *)
Within(net, pool) == pool.addr <= net.addr /\ net.addr + net.span <= pool.addr + pool.span

SubnetsApart ==
  \A j, k \in Links : Automatic(j) /\ Automatic(k) /\ subnet[j] # Unset /\ subnet[k] # Unset =>
    /\ \E x \in {"p2p", "lan"} : Within(subnet[j], cfg.pool[x])
    /\ \/ Apart(subnet[j], subnet[k])
       \/ subnet[j] = subnet[k] /\ (j = k \/ \E b \in Segments : Touches(j, b) /\ Touches(k, b))

(* In an accepted plan every interface of a host or a router has an        *)
(* address and no bridge port has one.  Where it was allocated it is a     *)
(* usable one of the subnet its link was given, and no other interface     *)
(* with an allocated one has the same, wherever it is in the lab.          *)
AddressesUsable ==
  phase = "accepted" => \A p \in Ports :
    /\ ip[p] # Unset <=> KindOf(p) # "bridge"
    /\ Automatic(p[1]) /\ ip[p] # Unset =>
         /\ ip[p].span = subnet[p[1]].span
         /\ ip[p].addr > subnet[p[1]].addr
         /\ ip[p].addr < subnet[p[1]].addr + subnet[p[1]].span - 1
         /\ \A q \in Ports : Automatic(q[1]) /\ q # p => ip[q].addr # ip[p].addr

(* Whether a configuration without addresses of its own is accepted does   *)
(* not depend on the order in which the map of bridges is walked: exactly  *)
(* those are that have room for their segments in the pools, and for their *)
(* interfaces in the segments, and no node twice on a segment.             *)
Direct(x) == {k \in Links : ~OnBridge(k) /\ PoolOf(k) = x}

Plannable ==
  /\ Cardinality(Direct("p2p")) * P2PBlock <= cfg.pool["p2p"].span
  /\ (Cardinality(Direct("lan")) + Cardinality(Segments)) * LanBlock <= cfg.pool["lan"].span
  /\ \A k \in Links : ~OnBridge(k) => NodeOf(<<k, 1>>) # NodeOf(<<k, 2>>)
  /\ \A b \in Segments :
       /\ Cardinality(LanPorts(b)) <= LanBlock - 2
       /\ \A p, q \in LanPorts(b) : NodeOf(p) = NodeOf(q) => p = q

AcceptedIfPlannable ==
  phase \in {"accepted", "rejected"} /\ (\A k \in Links : Automatic(k))
    => (phase = "accepted" <=> Plannable)

(* addressing.go:357, `Stable order: lexicographic by node name`: of the   *)
(* two ends of a P2P link, the one whose node's name comes first has the   *)
(* lower address.                                                          *)
LowerNameLowerAddress ==
  phase = "accepted" => \A k \in Links :
    Automatic(k) /\ ~OnBridge(k) /\ PoolOf(k) = "p2p" /\ NodeOf(<<k, 1>>) # NodeOf(<<k, 2>>)
      => (NodeOf(<<k, 1>>) < NodeOf(<<k, 2>>) <=> ip[<<k, 1>>].addr < ip[<<k, 2>>].addr)
=============================================================================
