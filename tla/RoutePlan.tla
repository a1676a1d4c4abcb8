----------------------------- MODULE RoutePlan ------------------------------
(***************************************************************************)
(* The routes of a deploy, computed from the address plan: static routes   *)
(* of the routers (internal/routing/graph.go and autostatic.go) and the    *)
(* default gateways of the hosts (internal/topology/host_gateway.go).      *)
(***************************************************************************)
EXTENDS Addressing

VARIABLES
  stage,     \* what is computed next
  routes,    \* the static routes: on which router, to which network, via which address
  gateways   \* the default gateway of each host that has one, or 0

planVars == <<vars, stage, routes, gateways>>

Nodes == DOMAIN cfg.kind
NodesOfKind(x) == {n \in Nodes : cfg.kind[n] = x}
Routers == NodesOfKind("router")
Hosts == NodesOfKind("host")

PortsOf(n) == {p \in Ports : NodeOf(p) = n}
OtherEnd(p) == <<p[1], 3 - p[2]>>

(* Mutant of PeerIP: the interface's own address.                          *)
OwnIP(p) ==
  IF OnBridge(p[1]) \/ ip[p] = Unset \/ ip[OtherEnd(p)] = Unset THEN Unset ELSE ip[p]

(* setPeerIPsForL3Links                                                    *)
PeerIP(p) ==
  IF OnBridge(p[1]) \/ ip[p] = Unset \/ ip[OtherEnd(p)] = Unset THEN Unset ELSE ip[OtherEnd(p)]

-----------------------------------------------------------------------------
(* BuildGraph.                                                             *)

RouterLink(k) == \A s \in {1, 2} : KindOf(<<k, s>>) = "router"

(* The interfaces at the ends of the links between two routers.            *)
LinkEnds == {p \in Ports : RouterLink(p[1])}

NetworksOf(r) == {Network(ip[p]) : p \in {q \in PortsOf(r) : ip[q] # Unset}}

(* The subnets of a router are recorded only if it has a link to a router. *)
RouterIfaces(r) == IF \E p \in LinkEnds : NodeOf(p) = r THEN NetworksOf(r) ELSE {}

Subnets == UNION {RouterIfaces(r) : r \in Routers}

(* SubnetOwners[cidr][0]: the loop takes the links in order, and of each   *)
(* the first end before the second.                                        *)
Owner(net) ==
  LET ends == {p \in LinkEnds : net \in RouterIfaces(NodeOf(p))}
  IN  NodeOf(CHOOSE p \in ends : \A q \in ends : p[1] < q[1] \/ (p[1] = q[1] /\ p[2] <= q[2]))

-----------------------------------------------------------------------------
(* bfsNextHop.  A parent of 0 says that a router has not been visited.     *)

Discover(src, r, n, s) ==
  IF n = src \/ s.parent[n] # 0 THEN s
  ELSE [queue |-> Append(s.queue, n), parent |-> [s.parent EXCEPT ![n] = r]]

Neighbour(k, r) == IF NodeOf(<<k, 1>>) = r THEN NodeOf(<<k, 2>>) ELSE NodeOf(<<k, 1>>)

(* The neighbours of the head of the queue, in the order in which links    *)
(* made them neighbours.  Where a second link leads to one, Adjacency does *)
(* not repeat it; here it has been visited by then.                        *)
Visit(src, dst, s) ==
  IF s.queue = <<>> \/ Head(s.queue) = dst THEN s
  ELSE LET r == Head(s.queue)
           seen[k \in 0 .. Len(cfg.links)] ==
             IF k = 0 THEN [queue |-> Tail(s.queue), parent |-> s.parent]
             ELSE IF ~(RouterLink(k) /\ Touches(k, r)) THEN seen[k - 1]
             ELSE Discover(src, r, Neighbour(k, r), seen[k - 1])
       IN  seen[Len(cfg.links)]

(* Mutant of Search: it ends one visit too early.                          *)
ShortSearch(src, dst) ==
  LET after[i \in 0 .. Cardinality(Routers)] ==
        IF i = 0 THEN [queue |-> <<src>>, parent |-> [n \in Routers |-> 0]]
        ELSE Visit(src, dst, after[i - 1])
  IN  after[Cardinality(Routers) - 2].parent

(* Every router enters the queue at most once.                             *)
Search(src, dst) ==
  LET after[i \in 0 .. Cardinality(Routers)] ==
        IF i = 0 THEN [queue |-> <<src>>, parent |-> [n \in Routers |-> 0]]
        ELSE Visit(src, dst, after[i - 1])
  IN  after[Cardinality(Routers)].parent

(* From dst back along the parents to the router whose parent is src; 0 if *)
(* dst was not reached.                                                    *)
NextHop(src, dst) ==
  LET parent == Search(src, dst)
      back[i \in 0 .. Cardinality(Routers)] ==
        IF i = 0 THEN dst
        ELSE IF back[i - 1] = 0 \/ parent[back[i - 1]] = src THEN back[i - 1]
        ELSE parent[back[i - 1]]
  IN  back[Cardinality(Routers)]

(* findNextHopIP takes the first link between the two routers.             *)
FirstLinkPort(r, n) ==
  LET between == {p \in PortsOf(r) : NodeOf(OtherEnd(p)) = n}
  IN  CHOOSE p \in between : \A q \in between : p[1] <= q[1]

(* The networks a router needs a route for.                                *)
Remote(r) == Subnets \ RouterIfaces(r)

(* AddRoute strips the prefix of the next hop.                             *)
Route(r, net) ==
  [at |-> r, to |-> net, via |-> PeerIP(FirstLinkPort(r, NextHop(r, Owner(net)))).addr]

ComputeStaticRoutes ==
  /\ stage = "routes" /\ phase = "accepted"
  /\ IF ~cfg.auto_static THEN stage' = "gateways" /\ UNCHANGED routes
     ELSE IF \E r \in Routers : \E net \in Remote(r) : NextHop(r, Owner(net)) = 0
     THEN stage' = "failed" /\ UNCHANGED routes
     ELSE /\ stage' = "gateways"
          /\ routes' = UNION {{Route(r, net) : net \in Remote(r)} : r \in Routers}
  /\ UNCHANGED <<vars, gateways>>

-----------------------------------------------------------------------------
(* HostDefaultGateways.                                                    *)

(* endpointsFacingBridge, those that have an address.                      *)
Facing(b, x) ==
  {p \in Ports : NodeOf(OtherEnd(p)) = b /\ KindOf(p) = x /\ ip[p] # Unset}

LeastNode(ps) == CHOOSE p \in ps : \A q \in ps :
  NodeOf(p) < NodeOf(q) \/ (NodeOf(p) = NodeOf(q) /\ p[1] <= q[1])

FirstLink(ps) == CHOOSE p \in ps : \A q \in ps : p[1] <= q[1]

(* Mutant of GatewayOf: the first bridge with a router, whether or not the *)
(* host is on it.                                                          *)
GatewayOfAny(h) ==
  LET bs == {b \in NodesOfKind("bridge") : Facing(b, "router") # {} /\ Facing(b, "host") # {}}
      ps == {OtherEnd(p) : p \in {q \in PortsOf(h) : KindOf(OtherEnd(q)) = "router"}}
  IN  IF bs # {} THEN ip[LeastNode(Facing(CHOOSE b \in bs : \A c \in bs : b <= c, "router"))].addr
      ELSE IF ps # {} THEN ip[FirstLink(ps)].addr
      ELSE 0

(* Bridges come before links without a bridge, the bridge whose name comes *)
(* first before the others, and so on.                                     *)
GatewayOf(h) ==
  LET bs == {b \in NodesOfKind("bridge") :
               Facing(b, "router") # {} /\ \E p \in Facing(b, "host") : NodeOf(p) = h}
      ps == {OtherEnd(p) : p \in {q \in PortsOf(h) : KindOf(OtherEnd(q)) = "router"
                                                       /\ ip[OtherEnd(q)] # Unset}}
  IN  IF bs # {} THEN ip[LeastNode(Facing(CHOOSE b \in bs : \A c \in bs : b <= c, "router"))].addr
      ELSE IF ps # {} THEN ip[FirstLink(ps)].addr
      ELSE 0

HostDefaultGateways ==
  /\ stage = "gateways"
  /\ gateways' = [h \in Hosts |-> GatewayOf(h)]
  /\ stage' = "done"
  /\ UNCHANGED <<vars, routes>>

PlanInit ==
  /\ Init
  /\ stage = "routes"
  /\ routes = {}
  /\ gateways = [h \in Hosts |-> 0]

PlanNext ==
  \/ Next /\ UNCHANGED <<stage, routes, gateways>>
  \/ ComputeStaticRoutes
  \/ HostDefaultGateways

PlanSpec == PlanInit /\ [][PlanNext]_planVars

PlanTypeOK ==
  /\ TypeOK
  /\ stage \in {"routes", "gateways", "done", "failed"}
  /\ \A r \in routes : r.at \in Routers /\ r.to \in Subnets /\ r.via \in Nat
  /\ gateways \in [Hosts -> Nat]

-----------------------------------------------------------------------------
(* Properties.                                                             *)

(* Two interfaces are on one link or on one bridge.                        *)
SameSegment(p, q) ==
  p[1] = q[1] \/ (OnBridge(p[1]) /\ NodeOf(OtherEnd(p)) = NodeOf(OtherEnd(q)))

Addressed == {p \in Ports : ip[p] # Unset}

(* No two interfaces have one address, and those of different segments are *)
(* in networks that do not overlap: so it is without addresses in the      *)
(* configuration, and where those were chosen with care.                   *)
WellAddressed == \A p, q \in Addressed :
  /\ p # q => ip[p].addr # ip[q].addr
  /\ Apart(Network(ip[p]), Network(ip[q])) \/ SameSegment(p, q)

(* Wherever a packet for a subnet of the graph enters, following the       *)
(* static routes from router to router brings it to one that has the       *)
(* subnet, without a loop, although every router has computed its routes   *)
(* by a search of its own and for the first owner of the subnet only: each *)
(* next hop is an address of a router at the other end of a link.          *)
NextRouter(r, net) ==
  LET hops == {q \in Addressed : \E t \in routes :
                 t.at = r /\ t.to = net /\ t.via = ip[q].addr /\ NodeOf(OtherEnd(q)) = r}
  IN  IF hops = {} THEN 0 ELSE NodeOf(CHOOSE q \in hops : TRUE)

RoutesLead ==
  stage = "done" /\ cfg.auto_static /\ WellAddressed =>
    \A r \in Routers, net \in Subnets :
      LET walk[i \in 0 .. Cardinality(Routers)] ==
            IF i = 0 THEN r
            ELSE IF net \in NetworksOf(walk[i - 1]) THEN walk[i - 1]
            ELSE NextRouter(walk[i - 1], net)
      IN  net \in NetworksOf(walk[Cardinality(Routers)])

(* The search gives up exactly when the links between routers do not       *)
(* connect them all: there is a set of routers that none of them leaves.   *)
Split == \E S \in SUBSET Routers :
  /\ S # {} /\ S # Routers
  /\ \A k \in Links : RouterLink(k) => (NodeOf(<<k, 1>>) \in S <=> NodeOf(<<k, 2>>) \in S)

FailsOnlyWhenSplit ==
  stage # "routes" /\ cfg.auto_static /\ WellAddressed =>
    (stage = "failed" <=> LinkEnds # {} /\ Split)

(* README.md:11: a host has a gateway exactly when a router is on one of   *)
(* its segments.  It is the address of such a router, in a network of the  *)
(* host, so that the route to it can be installed.                         *)
GatewaysLocal ==
  stage = "done" /\ (\A k \in Links : Automatic(k)) => \A h \in Hosts :
    LET near == {x \in PortsOf(h) \X Addressed : KindOf(x[2]) = "router" /\ SameSegment(x[1], x[2])}
    IN  /\ gateways[h] # 0 <=> near # {}
        /\ gateways[h] # 0 => \E x \in near :
             gateways[h] = ip[x[2]].addr /\ Network(ip[x[1]]) = Network(ip[x[2]])
=============================================================================
