----------------------------- MODULE MCRoutePlan ----------------------------
(* Configurations for TLC, with LAN subnets of 8 addresses.                *)
EXTENDS RoutePlan

Pool(base, span) == [addr |-> base, span |-> span]

Config(k, l, v, p, q) ==
  [kind |-> k, links |-> l, ipv4 |-> v, pool |-> [p2p |-> p, lan |-> q],
   auto_static |-> TRUE]

(* Four links between any two of four nodes, some in both directions or    *)
(* looped back to their node: rings, trees and islands of routers, some    *)
(* joined by a bridge only, hosts with several routers, several links      *)
(* between two nodes, bridges joined to bridges.  The pools hold them all, *)
(* or only some of them.                                                   *)
MixedKinds == {
  <<"router", "router", "router", "router">>, <<"router", "bridge", "router", "router">>,
  <<"bridge", "router", "host", "bridge">>, <<"host", "router", "bridge", "host">> }

Pairs == {e \in (1 .. 4) \X (1 .. 4) : e[1] < e[2]} \cup {<<3, 1>>, <<4, 2>>, <<1, 1>>}

MixedPools == {<<Pool(0, 16), Pool(32, 32)>>, <<Pool(0, 8), Pool(16, 16)>>}

Mixed == {Config(k, l, [i \in 1 .. 4 |-> <<>>], p[1], p[2]) :
  k \in MixedKinds, l \in [1 .. 4 -> Pairs], p \in MixedPools}

(* Six or seven hosts on one bridge: the subnet holds six.                 *)
Star(n) == Config([i \in 1 .. n + 1 |-> IF i = 1 THEN "bridge" ELSE "host"],
                  [i \in 1 .. n |-> <<1, i + 1>>], [i \in 1 .. n |-> <<>>],
                  Unset, Pool(16, 16))

(* Two links of a router, with addresses of their own or without: some in  *)
(* one network, some not, some that the pools hold too, some unreadable.   *)
Given == {Pool(1, 4), Pool(2, 4), Pool(17, 8), Unset}
Manual == {<<>>, <<Pool(9, 4)>>} \cup (Given \X Given)

WithManual == {Config(<<"bridge", "host", "router">>, l, v, p, Pool(16, 16)) :
  l \in {<<<<3, 2>>, <<3, 1>>>>, <<<<1, 3>>, <<1, 2>>>>, <<<<3, 2>>, <<2, 3>>>>},
  v \in Manual \X Manual, p \in {Pool(0, 8)}}

(* A ring of three routers with addresses of its own, and pools that are   *)
(* not set.                                                                *)
Ring(static) == [Config(<<"router", "router", "router">>, <<<<1, 2>>, <<2, 3>>, <<3, 1>>>>,
  <<<<Pool(1, 4), Pool(2, 4)>>, <<Pool(5, 4), Pool(6, 4)>>, <<Pool(9, 4), Pool(10, 4)>>>>,
  Unset, Unset) EXCEPT !.auto_static = static]

MCConfigs == ({Star(6), Star(7), Ring(TRUE), Ring(FALSE)} \cup WithManual) \cup Mixed
=============================================================================
