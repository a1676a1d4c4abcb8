----------------------------- MODULE PlanProofs -----------------------------
(***************************************************************************)
(* Theorems about Addressing and RoutePlan, for every set of               *)
(* configurations and every size of a LAN subnet: types, the subnets       *)
(* handed out, the addresses of interfaces, which plans are accepted, the  *)
(* default gateways of hosts and the static routes of routers.             *)
(***************************************************************************)
EXTENDS RoutePlan, FiniteSetTheorems, SequenceTheorems, WellFoundedInduction, TLAPS

-----------------------------------------------------------------------------
(* Numbers.                                                                *)

LEMMA NetworkStart ==
  ASSUME NEW a \in Nat, NEW s \in Nat, s > 0
  PROVE  a - (a % s) \in Nat
<1>1. a % s \in 0 .. s - 1
  OBVIOUS
<1>2. a \div s \in Nat
  OBVIOUS
<1>3. a = s * (a \div s) + (a % s)
  OBVIOUS
<1>4. s * (a \div s) \in Nat
  BY <1>2
<1> QED
  BY <1>1, <1>3, <1>4

(* Block i of n addresses ends before block j > i begins.                  *)
LEMMA BlocksInOrder ==
  ASSUME NEW i \in Nat, NEW j \in Nat, i < j, NEW n \in Nat
  PROVE  i * n \in Nat /\ j * n \in Nat /\ i * n + n <= j * n
<1>1. PICK d \in Nat : j = i + 1 + d
  <2>1. j - i - 1 \in Nat /\ j = i + 1 + (j - i - 1)
    OBVIOUS
  <2> QED
    BY <2>1
<1>2. j * n = i * n + n + d * n
  BY <1>1
<1>3. d * n \in Nat /\ i * n \in Nat
  OBVIOUS
<1> QED
  BY <1>2, <1>3

-----------------------------------------------------------------------------
(* Types of the address plan.                                              *)

(* What the types of a configuration say of its links and ports.           *)
LEMMA ConfigFacts ==
  ASSUME IsConfig(cfg)
  PROVE  /\ Len(cfg.links) \in Nat
         /\ Links = 1 .. Len(cfg.links)
         /\ \A p \in Ports : NodeOf(p) \in DOMAIN cfg.kind /\ KindOf(p) \in Kinds
         /\ \A k \in Links : cfg.ipv4[k] \in Seq(Cidrs)
         /\ \A x \in {"p2p", "lan"} : cfg.pool[x] \in Cidrs
         /\ IsFiniteSet(Ports)
<1> DEFINE D == DOMAIN cfg.kind
<1>1. cfg.links \in Seq(D \X D) /\ cfg.kind \in Seq(Kinds)
  BY DEF IsConfig
<1>2. Len(cfg.links) \in Nat /\ Links = 1 .. Len(cfg.links)
  BY <1>1, LenProperties DEF Links
<1>3. cfg.links \in [Links -> D \X D]
  BY <1>1, <1>2, LenProperties
<1>4. cfg.kind \in [D -> Kinds]
  BY <1>1, LenProperties
<1>5. ASSUME NEW p \in Ports PROVE NodeOf(p) \in D /\ KindOf(p) \in Kinds
  <2>1. p[1] \in Links /\ p[2] \in {1, 2}
    BY DEF Ports
  <2>2. cfg.links[p[1]] \in D \X D
    BY <1>3, <2>1
  <2>3. NodeOf(p) \in D
    BY <2>1, <2>2 DEF NodeOf
  <2> QED
    BY <1>4, <2>3 DEF KindOf
<1>6. IsFiniteSet(Links)
  BY <1>2, FS_Interval
<1>7. IsFiniteSet({1, 2})
  <2>1. {1, 2} = {1} \cup {2}
    OBVIOUS
  <2>2. IsFiniteSet({1} \cup {2})
    BY FS_Singleton, FS_AddElement
  <2> QED
    BY <2>1, <2>2
<1>8. IsFiniteSet(Ports)
  BY <1>6, <1>7, FS_Product DEF Ports
<1> QED
  BY <1>2, <1>5, <1>8 DEF IsConfig, Links

(* Once its shape has been checked, a link has two addresses or none.      *)
Shaped == phase \notin {"shape", "rejected"} => \A k \in Links : Len(cfg.ipv4[k]) \in {0, 2}

TypeInv == TypeOK /\ Shaped

LEMMA UnsetIsCidr == Unset \in Cidrs
  BY DEF Unset, Cidrs

LEMMA NetworkType ==
  ASSUME NEW c \in Cidrs, c.span > 0
  PROVE  Network(c) \in Cidrs
<1>1. c.addr \in Nat /\ c.span \in Nat
  BY DEF Cidrs
<1> QED
  BY <1>1, NetworkStart DEF Network, Cidrs

LEMMA HostType ==
  ASSUME NEW net \in Cidrs, NEW n \in Nat
  PROVE  Host(net, n) \in Cidrs
  BY DEF Host, Cidrs

LEMMA BlockType == \A x \in {"p2p", "lan"} : Block(x) \in Nat /\ Block(x) >= 4
  BY ConfigsOK DEF Block, P2PBlock

LEMMA NextSubnetType ==
  ASSUME TypeOK, NEW x \in {"p2p", "lan"}
  PROVE  /\ NextSubnet(x) \in Cidrs
         /\ NextSubnet(x).addr = cfg.pool[x].addr + next[x] * Block(x)
         /\ NextSubnet(x).span = Block(x)
<1>1. next[x] \in Nat /\ Block(x) \in Nat
  BY BlockType DEF TypeOK
<1>2. next[x] * Block(x) \in Nat
  BY <1>1
<1>3. cfg.pool[x].addr \in Nat
  BY ConfigFacts DEF TypeOK, Cidrs
<1> QED
  BY <1>1, <1>2, <1>3 DEF NextSubnet, Cidrs

LEMMA RankType ==
  ASSUME IsConfig(cfg), NEW b, NEW p
  PROVE  Rank(b, p) \in Nat
<1> DEFINE S == {q \in LanPorts(b) : q = p \/ Before(q, p)}
<1>1. S \in SUBSET Ports
  BY DEF LanPorts
<1>2. IsFiniteSet(S)
  BY <1>1, ConfigFacts, FS_Subset
<1> QED
  BY <1>2, FS_CardinalityType DEF Rank

LEMMA HostNumberType == ASSUME NEW k, NEW s \in {1, 2} PROVE HostNumber(k, s) \in Nat
  BY DEF HostNumber

LEMMA TypeInvInit == Init => TypeInv
<1> SUFFICES ASSUME Init PROVE TypeInv
  OBVIOUS
<1>1. IsConfig(cfg)
  BY ConfigsOK DEF Init
<1>2. Len(cfg.links) \in Nat
  BY <1>1, ConfigFacts
<1> QED
  BY <1>1, <1>2, UnsetIsCidr DEF Init, TypeInv, TypeOK, Shaped

LEMMA ManualLinkTypes ==
  ASSUME TypeInv, ManualLink
  PROVE  ip' \in [Ports -> Cidrs] /\ subnet' \in [Links -> Cidrs] /\ li' \in 1 .. Len(cfg.links) + 1
<1> USE DEF TypeInv, TypeOK
<1>1. CASE UNCHANGED <<ip, subnet, li>>
  BY <1>1
<1>2. CASE li' = li + 1 /\ UNCHANGED <<ip, subnet>>
  BY <1>2, ConfigFacts DEF ManualLink
<1>3. CASE li' = li + 1 /\ ~Automatic(li) /\ Agree(li) /\ Configure(li)
  <2>1. li \in Links
    BY ConfigFacts DEF ManualLink
  <2>2. cfg.ipv4[li] \in Seq(Cidrs) /\ Len(cfg.ipv4[li]) = 2
    BY <1>3, <2>1, ConfigFacts DEF Automatic, Shaped, ManualLink
  <2>3. \A s \in {1, 2} : cfg.ipv4[li][s] \in Cidrs
    BY <2>2, ElementOfSeq
  <2>4. \A s \in L3Ends(li) : s \in {1, 2} /\ cfg.ipv4[li][s].span > 0
    BY <1>3 DEF Agree, L3Ends
  <2>5. ip' \in [Ports -> Cidrs]
    BY <1>3, <2>3, <2>4 DEF Configure
  <2>6. \A s \in L3Ends(li) : Network(cfg.ipv4[li][s]) \in Cidrs
    BY <2>3, <2>4, NetworkType
  <2>7. subnet' \in [Links -> Cidrs]
    <3> DEFINE net == IF L3Ends(li) = {} THEN Unset
                      ELSE Network(cfg.ipv4[li][CHOOSE s \in L3Ends(li) : TRUE])
    <3>1. net \in Cidrs
      BY <2>6, UnsetIsCidr
    <3>2. subnet' = [subnet EXCEPT ![li] = net]
      BY <1>3 DEF Configure
    <3> QED
      BY <3>1, <3>2
  <2> QED
    BY <1>3, <2>1, <2>5, <2>7, ConfigFacts
<1> QED
  BY <1>1, <1>2, <1>3 DEF ManualLink, Reject, plan

LEMMA BridgeSegmentTypes ==
  ASSUME TypeInv, BridgeSegment
  PROVE  /\ ip' \in [Ports -> Cidrs] /\ subnet' \in [Links -> Cidrs]
         /\ next' \in [{"p2p", "lan"} -> Nat] /\ bridges' \subseteq Segments
<1> USE DEF TypeInv, TypeOK
<1>1. CASE UNCHANGED <<ip, subnet, next, bridges>>
  BY <1>1
<1>2. CASE \E b \in bridges :
            /\ ip' = [p \in Ports |-> IF p \in LanPorts(b) THEN Host(NextSubnet("lan"), Rank(b, p)) ELSE ip[p]]
            /\ subnet' = [k \in Links |-> IF Automatic(k) /\ Touches(k, b) THEN NextSubnet("lan") ELSE subnet[k]]
            /\ TakeNext("lan")
            /\ bridges' = bridges \ {b}
  <2>1. NextSubnet("lan") \in Cidrs
    BY NextSubnetType
  <2>2. \A b, p : Host(NextSubnet("lan"), Rank(b, p)) \in Cidrs
    BY <2>1, HostType, RankType
  <2>3. next' \in [{"p2p", "lan"} -> Nat]
    BY <1>2 DEF TakeNext
  <2> QED
    BY <1>2, <2>1, <2>2, <2>3
<1> QED
  BY <1>1, <1>2 DEF BridgeSegment, Reject, plan

LEMMA DirectLinkTypes ==
  ASSUME TypeInv, DirectLink
  PROVE  /\ ip' \in [Ports -> Cidrs] /\ subnet' \in [Links -> Cidrs]
         /\ next' \in [{"p2p", "lan"} -> Nat] /\ li' \in 1 .. Len(cfg.links) + 1
<1> USE DEF TypeInv, TypeOK
<1> DEFINE x == PoolOf(li)
<1>1. CASE UNCHANGED <<ip, subnet, next, li>>
  BY <1>1
<1>2. CASE li' = li + 1 /\ UNCHANGED plan
  BY <1>2, ConfigFacts DEF DirectLink, plan
<1>3. CASE /\ li' = li + 1
           /\ ip' = [p \in Ports |-> IF p[1] = li THEN Host(NextSubnet(x), HostNumber(li, p[2])) ELSE ip[p]]
           /\ subnet' = [subnet EXCEPT ![li] = NextSubnet(x)]
           /\ TakeNext(x)
  <2>1. x \in {"p2p", "lan"}
    BY DEF PoolOf
  <2>2. NextSubnet(x) \in Cidrs
    BY <2>1, NextSubnetType
  <2>3. \A p \in Ports : Host(NextSubnet(x), HostNumber(li, p[2])) \in Cidrs
    BY <2>2, HostType, HostNumberType DEF Ports
  <2>4. next' \in [{"p2p", "lan"} -> Nat]
    BY <1>3, <2>1 DEF TakeNext
  <2>5. li' \in 1 .. Len(cfg.links) + 1
    BY <1>3, ConfigFacts DEF DirectLink
  <2>6. ip' \in [Ports -> Cidrs]
    BY <1>3, <2>3
  <2>7. subnet' \in [Links -> Cidrs]
    BY <1>3, <2>2
  <2> QED
    BY <2>4, <2>5, <2>6, <2>7
<1> QED
  BY <1>1, <1>2, <1>3 DEF DirectLink, Reject, plan

LEMMA TypeInvNext == TypeInv /\ [Next]_vars => TypeInv'
<1> SUFFICES ASSUME TypeInv, [Next]_vars PROVE TypeInv'
  OBVIOUS
<1>1. UNCHANGED cfg
  BY DEF Next, vars, CheckShape, ManualLink, CollectSegments, BridgeSegment, EnterDirect,
         DirectLink, EnterCheck, CheckDuplicates, Reject
<1>2. Ports' = Ports /\ Links' = Links /\ Segments' = Segments
  BY <1>1 DEF Ports, Links, Segments, LanPorts, Automatic, KindOf, NodeOf, Touches
<1>3. Shaped'
  <2>1. phase' \in {"shape", "rejected"} \/ phase \notin {"shape", "rejected"} \/ CheckShape
    BY DEF Next, vars, CheckShape, ManualLink, CollectSegments, BridgeSegment, EnterDirect,
           DirectLink, EnterCheck, CheckDuplicates, Reject
  <2>2. CASE CheckShape
    BY <1>1, <2>2 DEF CheckShape, Shaped, Links
  <2> QED
    BY <1>1, <2>1, <2>2 DEF TypeInv, Shaped, Links
<1>4. SUFFICES TypeOK'
  BY <1>3 DEF TypeInv
<1> USE DEF TypeInv, TypeOK
<1>5. CASE CheckShape
  BY <1>1, <1>2, <1>5 DEF CheckShape, plan
<1>6. CASE ManualLink
  BY <1>1, <1>2, <1>6, ManualLinkTypes DEF ManualLink, Reject, plan
<1>7. CASE CollectSegments
  BY <1>1, <1>2, <1>7 DEF CollectSegments, Reject, plan
<1>8. CASE BridgeSegment
  BY <1>1, <1>2, <1>8, BridgeSegmentTypes DEF BridgeSegment, Reject, plan
<1>9. CASE EnterDirect
  BY <1>1, <1>2, <1>9, ConfigFacts DEF EnterDirect, plan
<1>10. CASE DirectLink
  BY <1>1, <1>2, <1>10, DirectLinkTypes DEF DirectLink, Reject, plan
<1>11. CASE EnterCheck
  BY <1>1, <1>2, <1>11 DEF EnterCheck, plan
<1>12. CASE CheckDuplicates
  BY <1>1, <1>2, <1>12 DEF CheckDuplicates, plan
<1>13. CASE UNCHANGED vars
  BY <1>1, <1>2, <1>13 DEF vars, plan
<1> QED
  BY <1>5, <1>6, <1>7, <1>8, <1>9, <1>10, <1>11, <1>12, <1>13 DEF Next

(* TypeOK, for every configuration: the addresses given are only used      *)
(* where there are two of them, and every number allocated is one.         *)
THEOREM TypeCorrect == Spec => []TypeOK
<1>1. TypeInv => TypeOK
  BY DEF TypeInv
<1> QED
  BY TypeInvInit, TypeInvNext, <1>1, PTL DEF Spec

-----------------------------------------------------------------------------
(* Subnets.                                                                *)

(* The i-th subnet of pool x of configuration c.                           *)
Slot(c, x, i) == [addr |-> c.pool[x].addr + i * Block(x), span |-> Block(x)]

(* A subnet that was handed out is inside a pool x, and one of the first   *)
(* n[x] of it.  That those to come are apart from it follows.              *)
Handed(c, n, net) == \E x \in {"p2p", "lan"} : \E i \in Nat :
  i < n[x] /\ net = Slot(c, x, i) /\ Within(net, c.pool[x])

HandedOut == \A k \in Links : Automatic(k) /\ subnet[k] # Unset => Handed(cfg, next, subnet[k])

SubnetInv == TypeInv /\ HandedOut /\ SubnetsApart

(* The next subnet is inside its pool, and apart from all before it.       *)
LEMMA NextIsNew ==
  ASSUME TypeInv, NEW x \in {"p2p", "lan"}, HasNext(x)
  PROVE  /\ NextSubnet(x) = Slot(cfg, x, next[x])
         /\ Within(NextSubnet(x), cfg.pool[x])
         /\ \A net : Handed(cfg, next, net) => Apart(net, NextSubnet(x)) /\ Apart(NextSubnet(x), net)
<1> DEFINE n == next[x]  B == Block(x)
<1>1. n \in Nat /\ B \in Nat /\ B >= 4
  BY BlockType DEF TypeInv, TypeOK
<1>2. cfg.pool[x].addr \in Nat /\ cfg.pool[x].span \in Nat
  BY ConfigFacts DEF TypeInv, TypeOK, Cidrs
<1>3. n * B \in Nat /\ (n + 1) * B = n * B + B
  BY <1>1
<1>4. Within(NextSubnet(x), cfg.pool[x])
  BY <1>1, <1>2, <1>3 DEF Within, NextSubnet, HasNext
<1>5. ASSUME NEW net, Handed(cfg, next, net)
      PROVE  Apart(net, NextSubnet(x)) /\ Apart(NextSubnet(x), net)
  <2>1. PICK y \in {"p2p", "lan"}, i \in Nat :
          i < next[y] /\ net = Slot(cfg, y, i) /\ Within(net, cfg.pool[y])
    BY <1>5 DEF Handed
  <2>2. next[y] \in Nat /\ Block(y) \in Nat /\ Block(y) >= 4
    BY BlockType DEF TypeInv, TypeOK
  <2>3. i \in Nat /\ i < next[y]
    BY <2>1
  <2>4. cfg.pool[y].addr \in Nat /\ cfg.pool[y].span \in Nat
    BY ConfigFacts DEF TypeInv, TypeOK, Cidrs
  <2>5. CASE x = y
    <3>1. i * B + B <= n * B /\ i * B \in Nat
      BY <1>1, <2>3, <2>5, BlocksInOrder
    <3>2. net.addr = cfg.pool[x].addr + i * B /\ net.span = B
      BY <2>1, <2>5 DEF Slot
    <3>3. NextSubnet(x).addr = cfg.pool[x].addr + n * B /\ NextSubnet(x).span = B
      BY DEF NextSubnet
    <3> HIDE DEF B, n
    <3> QED
      BY <1>2, <1>3, <3>1, <3>2, <3>3, <1>1 DEF Apart
  <2>6. CASE x # y
    <3>1. net.addr \in Nat /\ net.span \in Nat /\ net.span >= 4
      <4>1. i * Block(y) \in Nat
        BY <2>2, <2>3
      <4> QED
        BY <2>1, <2>2, <2>4, <4>1 DEF Slot
    <3>2. NextSubnet(x).addr \in Nat /\ NextSubnet(x).span \in Nat /\ NextSubnet(x).span >= 4
      BY <1>1, <1>2, <1>3 DEF NextSubnet
    <3>3. cfg.pool[x].span > 0 /\ cfg.pool[y].span > 0
      BY <1>2, <1>4, <2>1, <2>4, <3>1, <3>2 DEF Within
    <3>4. Apart(cfg.pool[x], cfg.pool[y])
      <4>1. IsConfig(cfg)
        BY DEF TypeInv, TypeOK
      <4> QED
        BY <2>6, <3>3, <4>1 DEF IsConfig, Apart
    <3> QED
      BY <1>2, <1>4, <2>1, <2>4, <3>1, <3>2, <3>4 DEF Within, Apart
  <2> QED
    BY <2>5, <2>6
<1> QED
  BY <1>4, <1>5 DEF Slot, NextSubnet

(* What was handed out before is still when one more subnet is taken.      *)
LEMMA HandedStays ==
  ASSUME TypeInv, UNCHANGED cfg, NEW x \in {"p2p", "lan"}, TakeNext(x), NEW net, Handed(cfg, next, net)
  PROVE  Handed(cfg', next', net)
<1>1. PICK y \in {"p2p", "lan"}, i \in Nat :
        i < next[y] /\ net = Slot(cfg, y, i) /\ Within(net, cfg.pool[y])
  BY DEF Handed
<1>2. next \in [{"p2p", "lan"} -> Nat]
  BY DEF TypeInv, TypeOK
<1>3. i < next'[y]
  BY <1>1, <1>2 DEF TakeNext
<1>4. net = Slot(cfg', y, i) /\ Within(net, cfg'.pool[y])
  BY <1>1 DEF Slot, Within, Block
<1> QED
  BY <1>3, <1>4 DEF Handed, Slot, Block, Within

(* Steps that give some links the next subnet, which share a bridge if     *)
(* they are several, and leave the others alone.                           *)
LEMMA TakingKeepsApart ==
  ASSUME SubnetInv, UNCHANGED cfg, NEW x \in {"p2p", "lan"}, HasNext(x), TakeNext(x),
         NEW K \in SUBSET Links,
         \A k \in K : subnet'[k] = NextSubnet(x),
         \A k \in Links \ K : subnet'[k] = subnet[k],
         \A j, k \in K : j = k \/ \E b \in Segments : Touches(j, b) /\ Touches(k, b)
  PROVE  (HandedOut /\ SubnetsApart)'
<1> DEFINE net == NextSubnet(x)
<1>1. TypeInv /\ HandedOut /\ SubnetsApart
  BY DEF SubnetInv
<1>2. /\ net = Slot(cfg, x, next[x]) /\ Within(net, cfg.pool[x])
      /\ \A c : Handed(cfg, next, c) => Apart(c, net) /\ Apart(net, c)
  BY <1>1, NextIsNew
<1>3. /\ Links' = Links /\ Segments' = Segments
      /\ (\A k : Automatic(k)' <=> Automatic(k))
      /\ (\A k, b : Touches(k, b)' <=> Touches(k, b))
  BY DEF Links, Segments, LanPorts, Ports, KindOf, NodeOf, Automatic, Touches
<1>4. Handed(cfg', next', net)
  <2>1. next[x] \in Nat /\ next'[x] = next[x] + 1
    BY <1>1 DEF TypeInv, TypeOK, TakeNext
  <2> DEFINE m == next[x]
  <2>2. m \in Nat /\ m < next'[x] /\ net = Slot(cfg, x, m) /\ Within(net, cfg.pool[x])
    BY <1>2, <2>1
  <2> HIDE DEF m, net
  <2> QED
    BY <2>2 DEF Handed, Slot, Block, Within
<1>5. ASSUME NEW k \in Links, Automatic(k), subnet'[k] # Unset PROVE Handed(cfg', next', subnet'[k])
  <2>1. CASE k \in K
    BY <1>4, <2>1
  <2>2. CASE k \notin K
    <3>1. Handed(cfg, next, subnet[k]) /\ subnet'[k] = subnet[k]
      BY <1>1, <1>5, <2>2 DEF HandedOut
    <3> QED
      BY <1>1, <3>1, HandedStays
  <2> QED
    BY <2>1, <2>2
<1>6. HandedOut'
  BY <1>3, <1>5 DEF HandedOut
<1>7. ASSUME NEW j \in Links, NEW k \in Links, Automatic(j), Automatic(k),
             subnet'[j] # Unset, subnet'[k] # Unset
      PROVE  \/ Apart(subnet'[j], subnet'[k])
             \/ /\ subnet'[j] = subnet'[k]
                /\ j = k \/ \E b \in Segments : Touches(j, b) /\ Touches(k, b)
  <2>1. CASE j \in K /\ k \in K
    BY <2>1
  <2>2. CASE j \in K /\ k \notin K
    <3>1. subnet'[j] = net /\ Handed(cfg, next, subnet'[k])
      BY <1>1, <1>7, <2>2 DEF HandedOut
    <3> QED
      BY <1>2, <3>1
  <2>3. CASE j \notin K /\ k \in K
    <3>1. subnet'[k] = net /\ Handed(cfg, next, subnet'[j])
      BY <1>1, <1>7, <2>3 DEF HandedOut
    <3> QED
      BY <1>2, <3>1
  <2>4. CASE j \notin K /\ k \notin K
    BY <1>1, <1>7, <2>4 DEF SubnetsApart
  <2> QED
    BY <2>1, <2>2, <2>3, <2>4
<1>8. ASSUME NEW j \in Links, Automatic(j), subnet'[j] # Unset
      PROVE  \E y \in {"p2p", "lan"} : Within(subnet'[j], cfg.pool[y])
  BY <1>5, <1>8 DEF Handed
<1>9. SubnetsApart'
  BY <1>3, <1>7, <1>8 DEF SubnetsApart
<1> QED
  BY <1>6, <1>9

(* Where no link gets a subnet by an allocator, all stays as it was.       *)
LEMMA NotTaking ==
  ASSUME SubnetInv, UNCHANGED <<cfg, next>>,
         \A k \in Links : Automatic(k) => subnet'[k] = subnet[k]
  PROVE  (HandedOut /\ SubnetsApart)'
<1>1. /\ Links' = Links /\ Segments' = Segments
      /\ (\A k : Automatic(k)' <=> Automatic(k))
      /\ (\A k, b : Touches(k, b)' <=> Touches(k, b))
  BY DEF Links, Segments, LanPorts, Ports, KindOf, NodeOf, Automatic, Touches
<1>2. HandedOut'
  BY <1>1 DEF SubnetInv, HandedOut, Handed, Slot, Block
<1>3. SubnetsApart'
  BY <1>1 DEF SubnetInv, SubnetsApart
<1> QED
  BY <1>2, <1>3

LEMMA BridgeSegmentApart ==
  ASSUME SubnetInv, BridgeSegment
  PROVE  (HandedOut /\ SubnetsApart)'
<1>1. TypeInv /\ UNCHANGED cfg
  BY DEF SubnetInv, BridgeSegment, Reject
<1>2. CASE Reject
  BY <1>2, NotTaking DEF Reject, plan
<1>3. CASE ~Reject
  <2>1. PICK b \in bridges :
          /\ HasNext("lan") /\ TakeNext("lan")
          /\ subnet' = [k \in Links |-> IF Automatic(k) /\ Touches(k, b) THEN NextSubnet("lan")
                                        ELSE subnet[k]]
    BY <1>3 DEF BridgeSegment
  <2> DEFINE K == {k \in Links : Automatic(k) /\ Touches(k, b)}
  <2>2. b \in Segments
    BY <1>1 DEF TypeInv, TypeOK
  <2>3. \A k \in K : subnet'[k] = NextSubnet("lan")
    BY <2>1
  <2>4. \A k \in Links \ K : subnet'[k] = subnet[k]
    BY <2>1
  <2>5. \A j, k \in K : j = k \/ \E c \in Segments : Touches(j, c) /\ Touches(k, c)
    BY <2>2
  <2>6. K \in SUBSET Links /\ "lan" \in {"p2p", "lan"}
    OBVIOUS
  <2> HIDE DEF K
  <2> QED
    BY <1>1, <2>1, <2>3, <2>4, <2>5, <2>6, TakingKeepsApart
<1> QED
  BY <1>2, <1>3

LEMMA DirectLinkApart ==
  ASSUME SubnetInv, DirectLink
  PROVE  (HandedOut /\ SubnetsApart)'
<1> DEFINE x == PoolOf(li)
<1>1. TypeInv /\ UNCHANGED cfg
  BY DEF SubnetInv, DirectLink, Reject
<1>2. CASE Reject \/ UNCHANGED plan
  BY <1>1, <1>2, NotTaking DEF Reject, plan
<1>3. CASE ~Reject /\ ~UNCHANGED plan
  <2>1. HasNext(x) /\ TakeNext(x) /\ subnet' = [subnet EXCEPT ![li] = NextSubnet(x)]
    BY <1>3 DEF DirectLink
  <2>2. x \in {"p2p", "lan"} /\ li \in Links
    BY <1>1, ConfigFacts DEF PoolOf, DirectLink, TypeInv, TypeOK
  <2>3. subnet \in [Links -> Cidrs]
    BY <1>1 DEF TypeInv, TypeOK
  <2>4. \A k \in {li} : subnet'[k] = NextSubnet(x)
    BY <2>1, <2>2, <2>3
  <2>5. \A k \in Links \ {li} : subnet'[k] = subnet[k]
    BY <2>1, <2>3
  <2>6. \A j, k \in {li} : j = k \/ \E c \in Segments : Touches(j, c) /\ Touches(k, c)
    OBVIOUS
  <2>7. {li} \in SUBSET Links
    BY <2>2
  <2> HIDE DEF x
  <2> QED
    BY <1>1, <2>1, <2>2, <2>4, <2>5, <2>6, <2>7, TakingKeepsApart
<1> QED
  BY <1>2, <1>3

(* An address of the configuration never goes to a link without one.       *)
LEMMA ManualLinkApart ==
  ASSUME SubnetInv, ManualLink
  PROVE  (HandedOut /\ SubnetsApart)'
<1>1. UNCHANGED <<cfg, next>>
  BY DEF ManualLink, Reject, plan
<1>2. subnet \in [Links -> Cidrs]
  BY DEF SubnetInv, TypeInv, TypeOK
<1>3. ASSUME NEW k \in Links, Automatic(k) PROVE subnet'[k] = subnet[k]
  <2>1. CASE UNCHANGED subnet
    BY <2>1
  <2>2. CASE ~Automatic(li) /\ Configure(li)
    <3>1. li # k
      BY <1>3, <2>2
    <3> QED
      BY <1>2, <2>2, <3>1 DEF Configure
  <2> QED
    BY <2>1, <2>2 DEF ManualLink, Reject, plan
<1> QED
  BY <1>1, <1>3, NotTaking

LEMMA SubnetInvInit == Init => SubnetInv
<1> SUFFICES ASSUME Init PROVE SubnetInv
  OBVIOUS
<1>1. \A k \in Links : subnet[k] = Unset
  BY DEF Init
<1> QED
  BY <1>1, TypeInvInit DEF SubnetInv, HandedOut, SubnetsApart

LEMMA SubnetInvNext == SubnetInv /\ [Next]_vars => SubnetInv'
<1> SUFFICES ASSUME SubnetInv, [Next]_vars PROVE SubnetInv'
  OBVIOUS
<1>1. TypeInv'
  BY TypeInvNext DEF SubnetInv
<1>2. SUFFICES (HandedOut /\ SubnetsApart)'
  BY <1>1 DEF SubnetInv
<1>3. CASE ManualLink
  BY <1>3, ManualLinkApart
<1>4. CASE BridgeSegment
  BY <1>4, BridgeSegmentApart
<1>5. CASE DirectLink
  BY <1>5, DirectLinkApart
<1>6. CASE \/ CheckShape \/ CollectSegments \/ EnterDirect
           \/ EnterCheck \/ CheckDuplicates \/ UNCHANGED vars
  <2>1. UNCHANGED <<cfg, next, subnet>>
    BY <1>6 DEF CheckShape, CollectSegments, EnterDirect, EnterCheck, CheckDuplicates, Reject,
                vars, plan
  <2> QED
    BY <2>1, NotTaking
<1> QED
  BY <1>3, <1>4, <1>5, <1>6 DEF Next

(* SubnetsApart, for every configuration whose pools are apart: in         *)
(* whatever order links and bridges are served, the subnets of two links   *)
(* overlap only where they are that of a bridge both are at.               *)
THEOREM SubnetsNeverOverlap == Spec => []SubnetsApart
<1>1. SubnetInv => SubnetsApart
  BY DEF SubnetInv
<1> QED
  BY SubnetInvInit, SubnetInvNext, <1>1, PTL DEF Spec

-----------------------------------------------------------------------------
(* Addresses.                                                              *)

(* The node at the other end of the link of p: where the link has a bridge *)
(* and p is no port of one, that bridge.                                   *)
Across(p) == NodeOf(<<p[1], 3 - p[2]>>)

(* Which host of its subnet an allocated interface is.                     *)
Number(p) == IF OnBridge(p[1]) THEN Rank(Across(p), p) ELSE HostNumber(p[1], p[2])

(* An interface that has been given an address has that one of its number  *)
(* in the subnet of its link, and the number is usable.                    *)
Placed(p) ==
  /\ subnet[p[1]] # Unset
  /\ Number(p) \in 1 .. subnet[p[1]].span - 2
  /\ ip[p] = Host(subnet[p[1]], Number(p))

PlacedInv == \A p \in Ports : Automatic(p[1]) /\ ip[p] # Unset => Placed(p)

(* Links of one bridge have one subnet.                                    *)
SharedInv == \A p, q \in Ports :
  /\ Automatic(p[1]) /\ OnBridge(p[1]) /\ ip[p] # Unset
  /\ Automatic(q[1]) /\ OnBridge(q[1]) /\ ip[q] # Unset
  /\ Across(p) = Across(q)
  => subnet[p[1]] = subnet[q[1]]

(* The interfaces whose turn is over.                                      *)
Served(p) ==
  IF ~Automatic(p[1])
  THEN phase \in {"segments", "direct", "check", "accepted"} \/ (phase = "manual" /\ p[1] < li)
  ELSE IF OnBridge(p[1])
  THEN phase \in {"segments", "direct", "check", "accepted"} /\ Across(p) \notin bridges
  ELSE phase \in {"check", "accepted"} \/ (phase = "direct" /\ p[1] < li)

ServedInv == phase # "rejected" =>
  /\ \A p \in Ports : ip[p] # Unset <=> KindOf(p) # "bridge" /\ Served(p)
  /\ phase \in {"direct", "check", "accepted"} => bridges = {}
  /\ phase = "shape" => li = 1

BridgePortsBare == \A p \in Ports : ip[p] # Unset => KindOf(p) # "bridge"

PlanInv == SubnetInv /\ PlacedInv /\ SharedInv /\ ServedInv /\ BridgePortsBare

(* What the allocators have handed out so far.                             *)
DirectDone(x) == {k \in Direct(x) :
  Automatic(k) /\ (phase \in {"check", "accepted"} \/ (phase = "direct" /\ k < li))}

BridgesDone == IF phase \in {"segments", "direct", "check", "accepted"} THEN Segments \ bridges ELSE {}

CountInv == phase # "rejected" =>
  /\ next["p2p"] = Cardinality(DirectDone("p2p"))
  /\ next["lan"] = Cardinality(DirectDone("lan")) + Cardinality(BridgesDone)
  /\ \A x \in {"p2p", "lan"} : next[x] * Block(x) <= cfg.pool[x].span
  /\ \A b \in BridgesDone : Cardinality(LanPorts(b)) <= LanBlock - 2

(* The configuration has no addresses of its own.                          *)
NoneGiven == \A k \in Links : Automatic(k)

(* A plan is rejected for want of room or for a node twice on a segment.   *)
OutcomeInv ==
  /\ phase = "rejected" /\ NoneGiven => ~Plannable
  /\ phase = "accepted" => ~\E p, q \in Ports : Duplicate(p, q)

CountedInv == PlanInv /\ CountInv /\ OutcomeInv

StageInv ==
  /\ stage # "routes" => phase = "accepted"
  /\ stage = "done" => gateways = [h \in Hosts |-> GatewayOf(h)]

-----------------------------------------------------------------------------
(* Links and bridges.                                                      *)

(* What depends on the configuration alone does not change with it.        *)
LEMMA SameShape ==
  ASSUME UNCHANGED cfg
  PROVE  /\ Links' = Links /\ Ports' = Ports /\ Segments' = Segments
         /\ \A p : NodeOf(p)' = NodeOf(p) /\ KindOf(p)' = KindOf(p)
         /\ \A p : Across(p)' = Across(p) /\ Number(p)' = Number(p)
         /\ \A k : (Automatic(k)' <=> Automatic(k)) /\ (OnBridge(k)' <=> OnBridge(k))
         /\ \A b : LanPorts(b)' = LanPorts(b)
  BY DEF Links, Ports, Segments, NodeOf, KindOf, Across, Number, Automatic, OnBridge,
         LanPorts, Touches, Rank, Before, HostNumber, PoolOf

LEMMA PortParts ==
  ASSUME NEW p \in Ports
  PROVE  /\ p[1] \in Links /\ p[2] \in {1, 2} /\ 3 - p[2] \in {1, 2} /\ 3 - p[2] # p[2]
         /\ p = <<p[1], p[2]>>
         /\ <<p[1], 3 - p[2]>> \in Ports
         /\ \A s \in {1, 2} : s = p[2] \/ s = 3 - p[2]
  BY DEF Ports

(* An interface of a host or a router whose link has a bridge: the bridge  *)
(* is at the other end, and is the only one the link touches.              *)
LEMMA BridgeAcross ==
  ASSUME IsConfig(cfg), NEW p \in Ports, KindOf(p) # "bridge"
  PROVE  /\ OnBridge(p[1]) <=> cfg.kind[Across(p)] = "bridge"
         /\ Across(p) \in DOMAIN cfg.kind
         /\ Touches(p[1], Across(p))
         /\ \A b : cfg.kind[b] = "bridge" /\ Touches(p[1], b) => b = Across(p) /\ OnBridge(p[1])
         /\ OnBridge(p[1]) /\ Automatic(p[1]) => Across(p) \in Segments /\ p \in LanPorts(Across(p))
<1> DEFINE q == <<p[1], 3 - p[2]>>
<1>1. /\ p[1] \in Links /\ p[2] \in {1, 2} /\ 3 - p[2] \in {1, 2} /\ p = <<p[1], p[2]>>
      /\ q \in Ports /\ \A s \in {1, 2} : s = p[2] \/ s = 3 - p[2]
  BY PortParts
<1>2. Across(p) \in DOMAIN cfg.kind /\ Across(p) = NodeOf(q)
  BY <1>1, ConfigFacts DEF Across
<1>3. KindOf(q) = cfg.kind[Across(p)]
  BY <1>2 DEF KindOf
<1>4. OnBridge(p[1]) <=> KindOf(q) = "bridge"
  BY <1>1 DEF OnBridge
<1>5. Touches(p[1], Across(p))
  BY <1>1, <1>2 DEF Touches
<1>6. ASSUME NEW b, cfg.kind[b] = "bridge", Touches(p[1], b)
      PROVE  b = Across(p) /\ OnBridge(p[1])
  <2>1. NodeOf(p) # b
    BY <1>6 DEF KindOf
  <2>2. NodeOf(q) = b
    BY <1>1, <1>6, <2>1 DEF Touches
  <2> QED BY <1>2, <1>3, <1>4, <1>6, <2>2
<1>7. ASSUME OnBridge(p[1]), Automatic(p[1])
      PROVE  Across(p) \in Segments /\ p \in LanPorts(Across(p))
  <2>1. p \in LanPorts(Across(p))
    BY <1>5, <1>7 DEF LanPorts
  <2> QED BY <1>2, <1>3, <1>4, <1>7, <2>1 DEF Segments
<1> QED BY <1>2, <1>3, <1>4, <1>5, <1>6, <1>7

(* What LanPorts collects for a bridge.                                    *)
LEMMA LanPortFacts ==
  ASSUME IsConfig(cfg), NEW b, cfg.kind[b] = "bridge", NEW p \in LanPorts(b)
  PROVE  /\ p \in Ports /\ Automatic(p[1]) /\ KindOf(p) \in {"host", "router"}
         /\ OnBridge(p[1]) /\ Across(p) = b /\ Touches(p[1], b)
<1>1. p \in Ports /\ Automatic(p[1]) /\ KindOf(p) # "bridge" /\ Touches(p[1], b)
  BY DEF LanPorts
<1>2. KindOf(p) \in Kinds
  BY <1>1, ConfigFacts
<1> QED BY <1>1, <1>2, BridgeAcross DEF Kinds

-----------------------------------------------------------------------------
(* Ranks on a bridge.                                                      *)

(* The order of interfaces on a bridge is strict and total.                *)
LEMMA BeforeIsOrder ==
  ASSUME IsConfig(cfg), NEW b, cfg.kind[b] = "bridge"
  PROVE  /\ \A p \in LanPorts(b) : ~Before(p, p)
         /\ \A p, q \in LanPorts(b) : p # q => Before(p, q) \/ Before(q, p)
         /\ \A p, q, r \in LanPorts(b) : Before(p, q) /\ Before(q, r) => Before(p, r)
<1>1. ASSUME NEW p \in LanPorts(b)
      PROVE  /\ KindOf(p) \in {"host", "router"} /\ NodeOf(p) \in Nat
             /\ p[1] \in Nat /\ p[2] \in Nat /\ p = <<p[1], p[2]>>
             /\ KindOf(p) = cfg.kind[NodeOf(p)]
  <2>1. p \in Ports /\ KindOf(p) \in {"host", "router"}
    BY LanPortFacts
  <2>2. p[1] \in Links /\ p[2] \in {1, 2} /\ p = <<p[1], p[2]>>
    BY <2>1, PortParts
  <2>3. NodeOf(p) \in DOMAIN cfg.kind /\ Links = 1 .. Len(cfg.links)
    BY <2>1, ConfigFacts
  <2>4. DOMAIN cfg.kind \subseteq Nat
    BY LenProperties DEF IsConfig
  <2> QED BY <2>1, <2>2, <2>3, <2>4 DEF KindOf
<1>2. \A p \in LanPorts(b) : ~Before(p, p)
  BY <1>1 DEF Before
<1>3. \A p, q \in LanPorts(b) : p # q => Before(p, q) \/ Before(q, p)
  <2> SUFFICES ASSUME NEW p \in LanPorts(b), NEW q \in LanPorts(b), p # q
               PROVE  Before(p, q) \/ Before(q, p)
    OBVIOUS
  <2>1. p[1] # q[1] \/ p[2] # q[2]
    BY <1>1
  <2> QED BY <1>1, <2>1 DEF Before
<1>4. \A p, q, r \in LanPorts(b) : Before(p, q) /\ Before(q, r) => Before(p, r)
  <2> SUFFICES ASSUME NEW p \in LanPorts(b), NEW q \in LanPorts(b), NEW r \in LanPorts(b),
                      Before(p, q), Before(q, r)
               PROVE  Before(p, r)
    OBVIOUS
  <2>1. NodeOf(p) = NodeOf(q) => KindOf(p) = KindOf(q)
    BY <1>1
  <2>2. NodeOf(q) = NodeOf(r) => KindOf(q) = KindOf(r)
    BY <1>1
  <2> QED BY <1>1, <2>1, <2>2 DEF Before
<1> QED BY <1>2, <1>3, <1>4

(* So no two interfaces have one rank, and the ranks are those of the      *)
(* hosts 1 to n of the subnet.                                             *)
LEMMA RanksDiffer ==
  ASSUME IsConfig(cfg), NEW b, cfg.kind[b] = "bridge"
  PROVE  /\ IsFiniteSet(LanPorts(b)) /\ Cardinality(LanPorts(b)) \in Nat
         /\ \A p \in LanPorts(b) : Rank(b, p) \in 1 .. Cardinality(LanPorts(b))
         /\ \A p, q \in LanPorts(b) : p # q => Rank(b, p) # Rank(b, q)
<1> DEFINE UpTo(p) == {q \in LanPorts(b) : q = p \/ Before(q, p)}
<1>1. IsFiniteSet(LanPorts(b)) /\ Cardinality(LanPorts(b)) \in Nat
  <2>1. LanPorts(b) \in SUBSET Ports
    BY DEF LanPorts
  <2> QED BY <2>1, ConfigFacts, FS_Subset, FS_CardinalityType
<1>2. \A p \in LanPorts(b) : IsFiniteSet(UpTo(p)) /\ Cardinality(UpTo(p)) \in Nat
                             /\ Cardinality(UpTo(p)) <= Cardinality(LanPorts(b))
  BY <1>1, FS_Subset, FS_CardinalityType
<1>3. \A p \in LanPorts(b) : Cardinality(UpTo(p)) # 0
  <2> SUFFICES ASSUME NEW p \in LanPorts(b) PROVE Cardinality(UpTo(p)) # 0
    OBVIOUS
  <2>1. p \in UpTo(p)
    OBVIOUS
  <2>2. UpTo(p) # {}
    BY <2>1
  <2> QED BY <1>2, <2>2, FS_EmptySet
<1>4. ASSUME NEW p \in LanPorts(b), NEW q \in LanPorts(b), Before(p, q)
      PROVE  Cardinality(UpTo(p)) < Cardinality(UpTo(q))
  <2>1. UpTo(p) \subseteq UpTo(q)
    BY <1>4, BeforeIsOrder
  <2>2. q \in UpTo(q) /\ q \notin UpTo(p)
    BY <1>4, BeforeIsOrder
  <2>3. IsFiniteSet(UpTo(p)) /\ IsFiniteSet(UpTo(q)) /\ Cardinality(UpTo(p)) \in Nat
        /\ Cardinality(UpTo(q)) \in Nat
    BY <1>2
  <2>4. UpTo(p) # UpTo(q)
    BY <2>2
  <2> HIDE DEF UpTo
  <2>5. UpTo(p) \in SUBSET UpTo(q)
    BY <2>1
  <2>6. Cardinality(UpTo(p)) <= Cardinality(UpTo(q)) /\ Cardinality(UpTo(p)) # Cardinality(UpTo(q))
    BY <2>3, <2>4, <2>5, FS_Subset
  <2> QED BY <2>3, <2>6
<1>5. \A p : Rank(b, p) = Cardinality(UpTo(p))
  BY DEF Rank
<1>6. \A p \in LanPorts(b) : Rank(b, p) \in 1 .. Cardinality(LanPorts(b))
  <2> HIDE DEF UpTo
  <2> QED BY <1>1, <1>2, <1>3, <1>5
<1>7. \A p, q \in LanPorts(b) : p # q => Rank(b, p) # Rank(b, q)
  <2> SUFFICES ASSUME NEW p \in LanPorts(b), NEW q \in LanPorts(b), p # q
               PROVE  Cardinality(UpTo(p)) # Cardinality(UpTo(q))
    BY <1>5
  <2>1. Before(p, q) \/ Before(q, p)
    BY BeforeIsOrder
  <2> HIDE DEF UpTo
  <2> QED BY <1>2, <1>4, <2>1
<1> QED BY <1>1, <1>6, <1>7

(* The two ends of a link without a bridge get the hosts 1 and 2.          *)
LEMMA HostNumbersDiffer ==
  ASSUME IsConfig(cfg), NEW k \in Links, ~OnBridge(k)
  PROVE  /\ \A s \in {1, 2} : HostNumber(k, s) \in {1, 2}
         /\ HostNumber(k, 1) # HostNumber(k, 2)
<1>1. \A s \in {1, 2} : KindOf(<<k, s>>) \in {"host", "router"}
  <2>1. \A s \in {1, 2} : <<k, s>> \in Ports /\ KindOf(<<k, s>>) # "bridge"
    BY DEF Ports, OnBridge
  <2> QED BY <2>1, ConfigFacts DEF Kinds
<1>2. KindOf(<<k, 1>>) \in {"host", "router"} /\ KindOf(<<k, 2>>) \in {"host", "router"}
  BY <1>1
<1>3. CASE PoolOf(k) = "lan"
  <2>1. KindOf(<<k, 1>>) # KindOf(<<k, 2>>)
    BY <1>3 DEF PoolOf
  <2> QED BY <1>2, <1>3, <2>1 DEF HostNumber
<1>4. CASE PoolOf(k) # "lan"
  BY <1>4 DEF HostNumber
<1> QED BY <1>3, <1>4

-----------------------------------------------------------------------------
(* The plan invariant.                                                     *)

LEMMA PlanInvInit == Init => PlanInv
<1> SUFFICES ASSUME Init PROVE PlanInv
  OBVIOUS
<1>1. \A p \in Ports : ip[p] = Unset
  BY DEF Init
<1>2. \A p \in Ports : ~Served(p)
  BY DEF Init, Served
<1>3. PlacedInv /\ SharedInv /\ BridgePortsBare
  BY <1>1 DEF PlacedInv, SharedInv, BridgePortsBare
<1>4. ServedInv
  BY <1>1, <1>2 DEF Init, ServedInv
<1> QED BY <1>3, <1>4, SubnetInvInit DEF PlanInv

(* Where no address and no subnet changes, only the turns may.             *)
LEMMA PlanKept ==
  ASSUME PlanInv, UNCHANGED <<cfg, ip, subnet>>
  PROVE  PlacedInv' /\ SharedInv' /\ BridgePortsBare'
<1>1. PlacedInv'
  BY SameShape DEF PlanInv, PlacedInv, Placed, Host
<1>2. SharedInv'
  BY SameShape DEF PlanInv, SharedInv
<1>3. BridgePortsBare'
  BY SameShape DEF PlanInv, BridgePortsBare
<1> QED BY <1>1, <1>2, <1>3

LEMMA ServedKept ==
  ASSUME PlanInv, UNCHANGED <<cfg, ip>>,
         phase # "rejected",
         \A p \in Ports : KindOf(p) # "bridge" => (Served(p)' <=> Served(p)),
         phase' \in {"direct", "check", "accepted"} => bridges' = {},
         phase' = "shape" => li' = 1
  PROVE  ServedInv'
<1>1. \A p \in Ports : ip[p] # Unset <=> KindOf(p) # "bridge" /\ Served(p)
  BY DEF PlanInv, ServedInv
<1>2. \A p \in Ports : ip'[p] # Unset <=> KindOf(p)' # "bridge" /\ Served(p)'
  BY <1>1, SameShape
<1> QED BY <1>2, SameShape DEF ServedInv

(* The links of the configuration, whose ends are ports in their order.    *)
LEMMA LinkNumbers ==
  ASSUME TypeInv
  PROVE  /\ IsConfig(cfg) /\ Len(cfg.links) \in Nat /\ Links = 1 .. Len(cfg.links) /\ li \in Nat
         /\ \A p \in Ports : p[1] \in Nat /\ p[1] >= 1 /\ p[1] <= Len(cfg.links)
<1>1. IsConfig(cfg) /\ li \in 1 .. Len(cfg.links) + 1
  BY DEF TypeInv, TypeOK
<1>2. Len(cfg.links) \in Nat /\ Links = 1 .. Len(cfg.links)
  BY <1>1, ConfigFacts
<1>3. \A p \in Ports : p[1] \in 1 .. Len(cfg.links)
  BY <1>2, PortParts
<1>4. li \in Nat
  BY <1>1, <1>2
<1>5. \A p \in Ports : p[1] \in Nat /\ p[1] >= 1 /\ p[1] <= Len(cfg.links)
  BY <1>2, <1>3
<1> QED BY <1>1, <1>2, <1>4, <1>5

LEMMA CheckShapePlan ==
  ASSUME PlanInv, CheckShape
  PROVE  PlacedInv' /\ SharedInv' /\ BridgePortsBare' /\ ServedInv'
<1>1. phase = "shape" /\ phase' \in {"manual", "rejected"} /\ UNCHANGED <<cfg, li, bridges, ip, subnet>>
  BY DEF CheckShape, plan
<1>2. PlacedInv' /\ SharedInv' /\ BridgePortsBare'
  BY <1>1, PlanKept
<1>3. CASE phase' = "rejected"
  BY <1>2, <1>3 DEF ServedInv
<1>4. CASE phase' = "manual"
  <2>1. li = 1
    BY <1>1 DEF PlanInv, ServedInv
  <2>2. \A p \in Ports : ~(p[1] < li)
    BY <2>1, LinkNumbers DEF PlanInv, SubnetInv
  <2>3. \A p \in Ports : Served(p)' <=> Served(p)
    BY <1>1, <1>4, <2>2, SameShape DEF Served
  <2>4. ServedInv'
    BY <1>1, <1>4, <2>3, ServedKept
  <2> QED BY <1>2, <2>4
<1> QED BY <1>1, <1>3, <1>4

(* A configured link gives its ends addresses, but for bridge ports.       *)
LEMMA ConfigureFills ==
  ASSUME PlanInv, phase = "manual", li \in Links, ~Automatic(li), Agree(li), Configure(li)
  PROVE  \A p \in Ports : ip'[p] # Unset <=> ip[p] # Unset \/ (p[1] = li /\ KindOf(p) # "bridge")
<1> SUFFICES ASSUME NEW p \in Ports
             PROVE  ip'[p] # Unset <=> ip[p] # Unset \/ (p[1] = li /\ KindOf(p) # "bridge")
  OBVIOUS
<1>1. p[2] \in {1, 2} /\ p = <<p[1], p[2]>>
  BY PortParts
<1>2. p[1] = li => (p[2] \in L3Ends(li) <=> KindOf(p) # "bridge")
  BY <1>1 DEF L3Ends
<1>3. ip'[p] = IF p[1] = li /\ p[2] \in L3Ends(li) THEN cfg.ipv4[li][p[2]] ELSE ip[p]
  BY DEF Configure
<1>4. \A s \in L3Ends(li) : cfg.ipv4[li][s].span > 0
  BY DEF Agree
<1>5. \A s \in L3Ends(li) : cfg.ipv4[li][s] # Unset
  BY <1>4 DEF Unset
<1> QED BY <1>2, <1>3, <1>5

LEMMA ManualLinkPlan ==
  ASSUME PlanInv, ManualLink
  PROVE  PlacedInv' /\ SharedInv' /\ BridgePortsBare' /\ ServedInv'
<1>1. phase = "manual" /\ li <= Len(cfg.links) /\ TypeInv
  BY DEF ManualLink, PlanInv, SubnetInv
<1>2. li \in Links /\ li \in Nat /\ \A p \in Ports : p[1] \in Nat
  BY <1>1, LinkNumbers DEF TypeInv, TypeOK
<1>3. CASE Reject
  BY <1>3, PlanKept DEF Reject, plan, ServedInv
<1>4. CASE /\ li' = li + 1 /\ Automatic(li)
           /\ UNCHANGED <<cfg, phase, bridges, next, ip, subnet>>
  <2>1. \A p \in Ports : ~Automatic(p[1]) => (p[1] < li + 1 <=> p[1] < li)
    <3> SUFFICES ASSUME NEW p \in Ports, ~Automatic(p[1]) PROVE p[1] < li + 1 <=> p[1] < li
      OBVIOUS
    <3>1. p[1] # li
      BY <1>4
    <3> QED BY <1>2, <3>1
  <2>2. \A p \in Ports : Served(p)' <=> Served(p)
    BY <1>1, <1>4, <2>1, SameShape DEF Served
  <2> QED BY <1>1, <1>4, <2>2, PlanKept, ServedKept
<1>5. CASE /\ li' = li + 1 /\ ~Automatic(li) /\ Agree(li) /\ Configure(li)
           /\ UNCHANGED <<cfg, phase, bridges, next>>
  <2>1. \A p \in Ports : ip'[p] # Unset <=> ip[p] # Unset \/ (p[1] = li /\ KindOf(p) # "bridge")
    BY <1>1, <1>2, <1>5, ConfigureFills
  <2>2. \A p \in Ports : Automatic(p[1]) => ip'[p] = ip[p] /\ subnet'[p[1]] = subnet[p[1]]
    <3> SUFFICES ASSUME NEW p \in Ports, Automatic(p[1])
                 PROVE  ip'[p] = ip[p] /\ subnet'[p[1]] = subnet[p[1]]
      OBVIOUS
    <3>1. p[1] # li
      BY <1>5
    <3>2. subnet \in [Links -> Cidrs] /\ p[1] \in Links
      BY <1>1, PortParts DEF TypeInv, TypeOK
    <3> QED BY <1>5, <3>1, <3>2 DEF Configure
  <2>3. PlacedInv'
    BY <1>5, <2>2, SameShape DEF PlanInv, PlacedInv, Placed, Host
  <2>4. SharedInv'
    BY <1>5, <2>2, SameShape DEF PlanInv, SharedInv
  <2>5. BridgePortsBare'
    BY <1>5, <2>1, SameShape DEF PlanInv, BridgePortsBare
  <2>6. \A p \in Ports : Served(p)' <=> Served(p) \/ p[1] = li
    <3> SUFFICES ASSUME NEW p \in Ports PROVE Served(p)' <=> Served(p) \/ p[1] = li
      OBVIOUS
    <3>1. p[1] < li + 1 <=> p[1] < li \/ p[1] = li
      BY <1>2
    <3>2. Automatic(p[1]) => p[1] # li
      BY <1>5
    <3>3. Automatic(p[1]) => ~Served(p) /\ ~Served(p)'
      BY <1>1, <1>5, SameShape DEF Served
    <3>4. ~Automatic(p[1]) => (Served(p) <=> p[1] < li) /\ (Served(p)' <=> p[1] < li + 1)
      BY <1>1, <1>5, SameShape DEF Served
    <3> QED BY <3>1, <3>2, <3>3, <3>4
  <2>7. \A p \in Ports : ip[p] # Unset <=> KindOf(p) # "bridge" /\ Served(p)
    BY <1>1 DEF PlanInv, ServedInv
  <2>8. \A p \in Ports : ip'[p] # Unset <=> KindOf(p)' # "bridge" /\ Served(p)'
    BY <1>5, <2>1, <2>6, <2>7, SameShape
  <2>9. ServedInv'
    BY <1>1, <1>5, <2>8, SameShape DEF ServedInv
  <2> QED BY <2>3, <2>4, <2>5, <2>9
<1> QED BY <1>3, <1>4, <1>5 DEF ManualLink

LEMMA CollectSegmentsPlan ==
  ASSUME PlanInv, CollectSegments
  PROVE  PlacedInv' /\ SharedInv' /\ BridgePortsBare' /\ ServedInv'
<1>1. phase = "manual" /\ li > Len(cfg.links) /\ TypeInv
  BY DEF CollectSegments, PlanInv, SubnetInv
<1>2. CASE Reject
  BY <1>2, PlanKept DEF Reject, plan, ServedInv
<1>3. CASE phase' = "segments" /\ bridges' = Segments /\ UNCHANGED <<cfg, li, plan>>
  <2>1. \A p \in Ports : p[1] < li
    BY <1>1, LinkNumbers
  <2>2. \A p \in Ports : KindOf(p) # "bridge" /\ Automatic(p[1]) /\ OnBridge(p[1]) => Across(p) \in Segments
    BY <1>1, BridgeAcross DEF TypeInv, TypeOK
  <2>3. \A p \in Ports : KindOf(p) # "bridge" => (Served(p)' <=> Served(p))
    BY <1>1, <1>3, <2>1, <2>2, SameShape DEF Served
  <2> QED BY <1>1, <1>3, <2>3, PlanKept, ServedKept DEF plan
<1> QED BY <1>2, <1>3 DEF CollectSegments

LEMMA EnterDirectPlan ==
  ASSUME PlanInv, EnterDirect
  PROVE  PlacedInv' /\ SharedInv' /\ BridgePortsBare' /\ ServedInv'
<1>1. /\ phase = "segments" /\ bridges = {} /\ phase' = "direct" /\ li' = 1
      /\ UNCHANGED <<cfg, bridges, plan>> /\ TypeInv
  BY DEF EnterDirect, PlanInv, SubnetInv
<1>2. \A p \in Ports : ~(p[1] < 1)
  BY <1>1, LinkNumbers
<1>3. \A p \in Ports : Served(p)' <=> Served(p)
  BY <1>1, <1>2, SameShape DEF Served, plan
<1> QED BY <1>1, <1>3, PlanKept, ServedKept DEF plan

LEMMA EnterCheckPlan ==
  ASSUME PlanInv, EnterCheck
  PROVE  PlacedInv' /\ SharedInv' /\ BridgePortsBare' /\ ServedInv'
<1>1. /\ phase = "direct" /\ li > Len(cfg.links) /\ phase' = "check" /\ TypeInv
      /\ UNCHANGED <<cfg, li, bridges, plan>>
  BY DEF EnterCheck, PlanInv, SubnetInv
<1>2. \A p \in Ports : p[1] < li
  BY <1>1, LinkNumbers
<1>3. \A p \in Ports : Served(p)' <=> Served(p)
  BY <1>1, <1>2, SameShape DEF Served, plan
<1>4. bridges = {}
  BY <1>1 DEF PlanInv, ServedInv
<1> QED BY <1>1, <1>3, <1>4, PlanKept, ServedKept DEF plan

LEMMA CheckDuplicatesPlan ==
  ASSUME PlanInv, CheckDuplicates
  PROVE  PlacedInv' /\ SharedInv' /\ BridgePortsBare' /\ ServedInv'
<1>1. /\ phase = "check" /\ phase' \in {"rejected", "accepted"}
      /\ UNCHANGED <<cfg, li, bridges, plan>>
  BY DEF CheckDuplicates
<1>2. PlacedInv' /\ SharedInv' /\ BridgePortsBare'
  BY <1>1, PlanKept DEF plan
<1>3. CASE phase' = "rejected"
  BY <1>2, <1>3 DEF ServedInv
<1>4. CASE phase' = "accepted"
  <2>1. \A p \in Ports : Served(p)' <=> Served(p)
    BY <1>1, <1>4, SameShape DEF Served, plan
  <2>2. bridges = {}
    BY <1>1 DEF PlanInv, ServedInv
  <2> QED BY <1>1, <1>2, <1>4, <2>1, <2>2, ServedKept DEF plan
<1> QED BY <1>1, <1>3, <1>4

(* A bridge is served: its interfaces get the hosts of their ranks.        *)
LEMMA BridgeSegmentPlan ==
  ASSUME PlanInv, BridgeSegment
  PROVE  PlacedInv' /\ SharedInv' /\ BridgePortsBare' /\ ServedInv'
<1>1. phase = "segments" /\ TypeInv /\ IsConfig(cfg)
  BY DEF BridgeSegment, PlanInv, SubnetInv, TypeInv, TypeOK
<1>2. CASE Reject
  BY <1>2, PlanKept DEF Reject, plan, ServedInv
<1>3. CASE ~Reject
  <2> DEFINE net == NextSubnet("lan")
  <2>1. PICK b \in bridges :
          /\ Cardinality(LanPorts(b)) <= LanBlock - 2
          /\ ip' = [p \in Ports |-> IF p \in LanPorts(b) THEN Host(net, Rank(b, p)) ELSE ip[p]]
          /\ subnet' = [k \in Links |-> IF Automatic(k) /\ Touches(k, b) THEN net ELSE subnet[k]]
          /\ bridges' = bridges \ {b}
          /\ UNCHANGED <<cfg, phase, li>>
    <3>1. PICK b \in bridges :
            /\ ~(~HasNext("lan") \/ Cardinality(LanPorts(b)) > LanBlock - 2)
            /\ ip' = [p \in Ports |-> IF p \in LanPorts(b) THEN Host(net, Rank(b, p)) ELSE ip[p]]
            /\ subnet' = [k \in Links |-> IF Automatic(k) /\ Touches(k, b) THEN net ELSE subnet[k]]
            /\ bridges' = bridges \ {b}
            /\ UNCHANGED <<cfg, phase, li>>
      BY <1>3 DEF BridgeSegment
    <3>2. b \in Segments
      BY <1>1 DEF TypeInv, TypeOK
    <3>3. Cardinality(LanPorts(b)) \in Nat /\ LanBlock \in Nat
      BY <1>1, <3>2, RanksDiffer, ConfigsOK DEF Segments
    <3> QED BY <3>1, <3>3
  <2>2. cfg.kind[b] = "bridge"
    BY <1>1 DEF TypeInv, TypeOK, Segments
  <2>3. net.span = LanBlock /\ net \in Cidrs /\ LanBlock \in Nat /\ LanBlock >= 4
    BY <1>1, NextSubnetType, ConfigsOK DEF TypeInv, Block
  <2>4. net # Unset
    BY <2>3 DEF Unset
  <2>5. \A p \in LanPorts(b) :
          /\ p \in Ports /\ Automatic(p[1]) /\ KindOf(p) # "bridge"
          /\ OnBridge(p[1]) /\ Across(p) = b /\ Touches(p[1], b)
    BY <1>1, <2>2, LanPortFacts
  <2>6. \A p \in Ports : KindOf(p) # "bridge" /\ Automatic(p[1]) /\ OnBridge(p[1]) /\ Across(p) = b
                           => p \in LanPorts(b)
    BY <1>1, BridgeAcross
  <2>7. \A p \in LanPorts(b) :
          /\ subnet'[p[1]] = net /\ ip'[p] = Host(net, Rank(b, p)) /\ ip'[p] # Unset
          /\ Rank(b, p) \in 1 .. LanBlock - 2
    <3> SUFFICES ASSUME NEW p \in LanPorts(b)
                 PROVE  /\ subnet'[p[1]] = net /\ ip'[p] = Host(net, Rank(b, p)) /\ ip'[p] # Unset
                        /\ Rank(b, p) \in 1 .. LanBlock - 2
      OBVIOUS
    <3>1. p[1] \in Links /\ p \in Ports
      BY <2>5, PortParts
    <3>2. subnet'[p[1]] = net /\ ip'[p] = Host(net, Rank(b, p))
      BY <2>1, <2>5, <3>1
    <3>3. Host(net, Rank(b, p)).span = LanBlock
      BY <2>3 DEF Host
    <3>4. ip'[p] # Unset
      BY <2>3, <3>2, <3>3 DEF Unset
    <3>5. Rank(b, p) \in 1 .. Cardinality(LanPorts(b)) /\ Cardinality(LanPorts(b)) \in Nat
      BY <1>1, <2>2, RanksDiffer
    <3>6. Rank(b, p) \in 1 .. LanBlock - 2
      BY <2>1, <2>3, <3>5
    <3> QED BY <3>2, <3>4, <3>6
  <2>8. \A p \in Ports : p \notin LanPorts(b) /\ ip[p] # Unset =>
          subnet'[p[1]] = subnet[p[1]]
    <3> SUFFICES ASSUME NEW p \in Ports, p \notin LanPorts(b), ip[p] # Unset
                 PROVE  subnet'[p[1]] = subnet[p[1]]
      OBVIOUS
    <3>1. p[1] \in Links /\ KindOf(p) # "bridge"
      BY PortParts DEF PlanInv, BridgePortsBare
    <3>2. ~(Automatic(p[1]) /\ Touches(p[1], b))
      BY <3>1 DEF LanPorts
    <3> QED BY <2>1, <3>1, <3>2
  <2>9. \A p \in Ports : p \notin LanPorts(b) => ip'[p] = ip[p]
    BY <2>1
  <2> HIDE DEF net
  <2>10. PlacedInv'
    <3> SUFFICES ASSUME NEW p \in Ports, Automatic(p[1]), ip'[p] # Unset PROVE Placed(p)'
      BY <2>1, SameShape DEF PlacedInv
    <3>1. CASE p \in LanPorts(b)
      <4>1. Number(p) = Rank(b, p)
        BY <2>5, <3>1 DEF Number
      <4>2. Number(p)' = Number(p) /\ subnet'[p[1]] = net /\ ip'[p] = Host(net, Number(p))
        BY <2>1, <2>7, <3>1, <4>1, SameShape
      <4>3. Number(p) \in 1 .. net.span - 2
        BY <2>3, <2>7, <3>1, <4>1
      <4> QED BY <2>4, <4>2, <4>3 DEF Placed, Host
    <3>2. CASE p \notin LanPorts(b)
      <4>1. ip'[p] = ip[p] /\ subnet'[p[1]] = subnet[p[1]] /\ Number(p)' = Number(p)
        BY <2>1, <2>8, <2>9, <3>2, SameShape
      <4>2. Placed(p)
        BY <4>1 DEF PlanInv, PlacedInv
      <4> QED BY <4>1, <4>2 DEF Placed, Host
    <3> QED BY <3>1, <3>2
  <2>11. BridgePortsBare'
    BY <2>1, <2>5, <2>9, SameShape DEF PlanInv, BridgePortsBare
  <2>12. SharedInv'
    <3> SUFFICES ASSUME NEW p \in Ports, NEW q \in Ports,
                        Automatic(p[1]), OnBridge(p[1]), ip'[p] # Unset,
                        Automatic(q[1]), OnBridge(q[1]), ip'[q] # Unset,
                        Across(p) = Across(q)
                 PROVE  subnet'[p[1]] = subnet'[q[1]]
      BY <2>1, SameShape DEF SharedInv
    <3>1. KindOf(p) # "bridge" /\ KindOf(q) # "bridge"
      BY <2>1, <2>11, SameShape DEF BridgePortsBare
    <3>2. p \in LanPorts(b) <=> q \in LanPorts(b)
      BY <2>5, <2>6, <3>1
    <3>3. CASE p \in LanPorts(b)
      BY <2>7, <3>2, <3>3
    <3>4. CASE p \notin LanPorts(b)
      BY <2>8, <2>9, <3>2, <3>4 DEF PlanInv, SharedInv
    <3> QED BY <3>3, <3>4
  <2>13. \A p \in Ports : ip'[p] # Unset <=> KindOf(p) # "bridge" /\ Served(p)'
    <3> SUFFICES ASSUME NEW p \in Ports
                 PROVE  ip'[p] # Unset <=> KindOf(p) # "bridge" /\ Served(p)'
      OBVIOUS
    <3>1. ip[p] # Unset <=> KindOf(p) # "bridge" /\ Served(p)
      BY <1>1 DEF PlanInv, ServedInv
    <3>2. CASE p \in LanPorts(b)
      <4>1. Served(p)'
        BY <1>1, <2>1, <2>5, <3>2, SameShape DEF Served
      <4> QED BY <2>5, <2>7, <3>2, <4>1
    <3>3. CASE p \notin LanPorts(b)
      <4>1. KindOf(p) # "bridge" => (Served(p)' <=> Served(p))
        BY <1>1, <2>1, <2>6, <3>3, SameShape DEF Served
      <4> QED BY <2>9, <3>1, <3>3, <4>1
    <3> QED BY <3>2, <3>3
  <2>14. ServedInv'
    BY <1>1, <2>1, <2>13, SameShape DEF ServedInv
  <2> QED BY <2>10, <2>11, <2>12, <2>14
<1> QED BY <1>2, <1>3

(* A link without a bridge gets a subnet for its two ends.                 *)
LEMMA DirectLinkPlan ==
  ASSUME PlanInv, DirectLink
  PROVE  PlacedInv' /\ SharedInv' /\ BridgePortsBare' /\ ServedInv'
<1> DEFINE x == PoolOf(li)  net == NextSubnet(x)
<1>1. phase = "direct" /\ TypeInv /\ IsConfig(cfg) /\ li <= Len(cfg.links)
  BY DEF DirectLink, PlanInv, SubnetInv, TypeInv, TypeOK
<1>2. /\ li \in Links /\ li \in Nat /\ \A p \in Ports : p[1] \in Nat
      /\ \A s \in {1, 2} : <<li, s>> \in Ports
  BY <1>1, LinkNumbers DEF TypeInv, TypeOK, Ports
<1>3. bridges = {} /\ \A p \in Ports : ip[p] # Unset <=> KindOf(p) # "bridge" /\ Served(p)
  BY <1>1 DEF PlanInv, ServedInv
<1>4. \A p \in Ports : Automatic(p[1]) /\ ~OnBridge(p[1]) => (Served(p) <=> p[1] < li)
  BY <1>1 DEF Served
<1>5. Skipped(li) <=> ~Automatic(li) \/ OnBridge(li)
  <2> SUFFICES ASSUME Automatic(li), ~OnBridge(li) PROVE \A s \in {1, 2} : ip[<<li, s>>] = Unset
    BY DEF Skipped
  <2>1. \A s \in {1, 2} : ~Served(<<li, s>>)
    BY <1>2, <1>4
  <2> QED BY <1>2, <1>3, <2>1
<1>6. CASE Reject
  BY <1>6, PlanKept DEF Reject, plan, ServedInv
<1>7. CASE Skipped(li) /\ li' = li + 1 /\ UNCHANGED <<cfg, phase, bridges, plan>>
  <2>1. \A p \in Ports : Automatic(p[1]) /\ ~OnBridge(p[1]) => (p[1] < li + 1 <=> p[1] < li)
    <3> SUFFICES ASSUME NEW p \in Ports, Automatic(p[1]), ~OnBridge(p[1]) PROVE p[1] < li + 1 <=> p[1] < li
      OBVIOUS
    <3>1. p[1] # li
      BY <1>5, <1>7
    <3> QED BY <1>2, <3>1
  <2>2. \A p \in Ports : Served(p)' <=> Served(p)
    BY <1>1, <1>7, <2>1, SameShape DEF Served
  <2> QED BY <1>1, <1>3, <1>7, <2>2, PlanKept, ServedKept DEF plan
<1>8. CASE /\ ~Skipped(li) /\ li' = li + 1
           /\ ip' = [p \in Ports |-> IF p[1] = li THEN Host(net, HostNumber(li, p[2])) ELSE ip[p]]
           /\ subnet' = [subnet EXCEPT ![li] = net]
           /\ UNCHANGED <<cfg, phase, bridges>>
  <2>1. Automatic(li) /\ ~OnBridge(li)
    BY <1>5, <1>8
  <2>2. net.span = Block(x) /\ net \in Cidrs /\ Block(x) \in Nat /\ Block(x) >= 4
    BY <1>1, NextSubnetType, BlockType DEF TypeInv, PoolOf
  <2>3. net # Unset
    BY <2>2 DEF Unset
  <2>4. \A p \in Ports : p[1] = li =>
          /\ subnet'[p[1]] = net /\ ip'[p] = Host(net, Number(p)) /\ ip'[p] # Unset
          /\ Number(p) \in {1, 2} /\ KindOf(p) # "bridge"
    <3> SUFFICES ASSUME NEW p \in Ports, p[1] = li
                 PROVE  /\ subnet'[p[1]] = net /\ ip'[p] = Host(net, Number(p)) /\ ip'[p] # Unset
                        /\ Number(p) \in {1, 2} /\ KindOf(p) # "bridge"
      OBVIOUS
    <3>1. p[2] \in {1, 2} /\ p = <<li, p[2]>>
      BY PortParts
    <3>2. Number(p) = HostNumber(li, p[2])
      BY <2>1 DEF Number
    <3>3. subnet \in [Links -> Cidrs]
      BY <1>1 DEF TypeInv, TypeOK
    <3>4. subnet'[p[1]] = net
      BY <1>2, <1>8, <3>3
    <3>5. ip'[p] = Host(net, Number(p))
      BY <1>8, <3>2
    <3>6. ip'[p] # Unset
      BY <2>2, <3>5 DEF Host, Unset
    <3>7. Number(p) \in {1, 2}
      BY <1>1, <1>2, <2>1, <3>1, <3>2, HostNumbersDiffer
    <3>8. KindOf(p) # "bridge"
      BY <2>1, <3>1 DEF OnBridge
    <3> QED BY <3>4, <3>5, <3>6, <3>7, <3>8
  <2>5. \A p \in Ports : p[1] # li => subnet'[p[1]] = subnet[p[1]] /\ ip'[p] = ip[p]
    <3> SUFFICES ASSUME NEW p \in Ports, p[1] # li
                 PROVE  subnet'[p[1]] = subnet[p[1]] /\ ip'[p] = ip[p]
      OBVIOUS
    <3>1. p[1] \in Links /\ subnet \in [Links -> Cidrs]
      BY <1>1, PortParts DEF TypeInv, TypeOK
    <3> QED BY <1>8, <3>1
  <2> HIDE DEF net, x
  <2>6. PlacedInv'
    <3> SUFFICES ASSUME NEW p \in Ports, Automatic(p[1]), ip'[p] # Unset PROVE Placed(p)'
      BY <1>8, SameShape DEF PlacedInv
    <3>n. Number(p)' = Number(p)
      BY <1>8, SameShape
    <3>1. CASE p[1] = li
      <4>1. subnet'[p[1]] = net /\ ip'[p] = Host(net, Number(p))
        BY <2>4, <3>1
      <4>2. Number(p) \in 1 .. net.span - 2
        BY <2>2, <2>4, <3>1
      <4> QED BY <2>3, <3>n, <4>1, <4>2 DEF Placed, Host
    <3>2. CASE p[1] # li
      <4>1. ip'[p] = ip[p] /\ subnet'[p[1]] = subnet[p[1]]
        BY <2>5, <3>2
      <4>2. Placed(p)
        BY <4>1 DEF PlanInv, PlacedInv
      <4> QED BY <3>n, <4>1, <4>2 DEF Placed, Host
    <3> QED BY <3>1, <3>2
  <2>7. BridgePortsBare'
    BY <1>8, <2>4, <2>5, SameShape DEF PlanInv, BridgePortsBare
  <2>8. SharedInv'
    <3> SUFFICES ASSUME NEW p \in Ports, NEW q \in Ports,
                        Automatic(p[1]), OnBridge(p[1]), ip'[p] # Unset,
                        Automatic(q[1]), OnBridge(q[1]), ip'[q] # Unset,
                        Across(p) = Across(q)
                 PROVE  subnet'[p[1]] = subnet'[q[1]]
      BY <1>8, SameShape DEF SharedInv
    <3>1. p[1] # li /\ q[1] # li
      BY <2>1
    <3> QED BY <2>5, <3>1 DEF PlanInv, SharedInv
  <2>9. \A p \in Ports : ip'[p] # Unset <=> KindOf(p) # "bridge" /\ Served(p)'
    <3> SUFFICES ASSUME NEW p \in Ports
                 PROVE  ip'[p] # Unset <=> KindOf(p) # "bridge" /\ Served(p)'
      OBVIOUS
    <3>1. CASE p[1] = li
      <4>1. p[1] < li + 1
        BY <1>2, <3>1
      <4>2. Served(p)'
        BY <1>1, <1>8, <2>1, <3>1, <4>1, SameShape DEF Served
      <4> QED BY <2>4, <3>1, <4>2
    <3>2. CASE p[1] # li
      <4>1. p[1] < li + 1 <=> p[1] < li
        BY <1>2, <3>2
      <4>2. Served(p)' <=> Served(p)
        BY <1>1, <1>8, <4>1, SameShape DEF Served
      <4> QED BY <1>3, <2>5, <3>2, <4>2
    <3> QED BY <3>1, <3>2
  <2>10. ServedInv'
    BY <1>1, <1>3, <1>8, <2>9, SameShape DEF ServedInv
  <2> QED BY <2>6, <2>7, <2>8, <2>10
<1> QED BY <1>6, <1>7, <1>8 DEF DirectLink

LEMMA PlanInvNext == PlanInv /\ [Next]_vars => PlanInv'
<1> SUFFICES ASSUME PlanInv, [Next]_vars PROVE PlanInv'
  OBVIOUS
<1>1. SubnetInv'
  BY SubnetInvNext DEF PlanInv
<1>2. CASE UNCHANGED vars
  <2>1. \A p \in Ports : Served(p)' <=> Served(p)
    BY <1>2, SameShape DEF Served, vars, plan
  <2>2. PlacedInv' /\ SharedInv' /\ BridgePortsBare'
    BY <1>2, PlanKept DEF vars, plan
  <2>3. ServedInv'
    BY <1>2, <2>1, SameShape DEF PlanInv, ServedInv, vars, plan
  <2> QED BY <1>1, <2>2, <2>3 DEF PlanInv
<1>3. CASE Next
  BY <1>1, <1>3, CheckShapePlan, ManualLinkPlan, CollectSegmentsPlan, BridgeSegmentPlan,
     EnterDirectPlan, DirectLinkPlan, EnterCheckPlan, CheckDuplicatesPlan DEF Next, PlanInv
<1> QED BY <1>2, <1>3

-----------------------------------------------------------------------------
(* The addresses.                                                          *)

(* An allocated address is a usable one of the subnet of its link.         *)
LEMMA PlacedUsable ==
  ASSUME PlanInv, NEW p \in Ports, Automatic(p[1]), ip[p] # Unset
  PROVE  /\ subnet[p[1]] \in Cidrs /\ subnet[p[1]] # Unset
         /\ ip[p].span = subnet[p[1]].span
         /\ ip[p].addr = subnet[p[1]].addr + Number(p) /\ Number(p) \in Nat
         /\ ip[p].addr > subnet[p[1]].addr
         /\ ip[p].addr < subnet[p[1]].addr + subnet[p[1]].span - 1
<1>1. subnet[p[1]] \in Cidrs
  BY PortParts DEF PlanInv, SubnetInv, TypeInv, TypeOK
<1>2. subnet[p[1]].addr \in Nat /\ subnet[p[1]].span \in Nat
  BY <1>1 DEF Cidrs
<1>3. Placed(p)
  BY DEF PlanInv, PlacedInv
<1>4. /\ subnet[p[1]] # Unset /\ Number(p) \in Nat /\ Number(p) >= 1
      /\ Number(p) <= subnet[p[1]].span - 2
      /\ ip[p].addr = subnet[p[1]].addr + Number(p) /\ ip[p].span = subnet[p[1]].span
  BY <1>2, <1>3 DEF Placed, Host
<1> QED BY <1>1, <1>2, <1>4

(* Two interfaces whose links have one subnet are those of one link, or    *)
(* those of one bridge.                                                    *)
LEMMA SameSubnet ==
  ASSUME PlanInv, NEW p \in Ports, NEW q \in Ports, Automatic(p[1]), Automatic(q[1]),
         ip[p] # Unset, ip[q] # Unset, ~Apart(subnet[p[1]], subnet[q[1]])
  PROVE  /\ subnet[p[1]] = subnet[q[1]]
         /\ \/ p[1] = q[1] /\ ~OnBridge(p[1])
            \/ /\ OnBridge(p[1]) /\ OnBridge(q[1]) /\ Across(p) = Across(q)
               /\ Across(p) \in Segments
               /\ p \in LanPorts(Across(p)) /\ q \in LanPorts(Across(p))
<1>1. /\ IsConfig(cfg) /\ KindOf(p) # "bridge" /\ KindOf(q) # "bridge"
      /\ p[1] \in Links /\ q[1] \in Links
  BY PortParts DEF PlanInv, SubnetInv, TypeInv, TypeOK, BridgePortsBare
<1>2. subnet[p[1]] # Unset /\ subnet[q[1]] # Unset
  BY PlacedUsable
<1>3. /\ subnet[p[1]] = subnet[q[1]]
      /\ p[1] = q[1] \/ \E b \in Segments : Touches(p[1], b) /\ Touches(q[1], b)
  BY <1>1, <1>2 DEF PlanInv, SubnetInv, SubnetsApart
<1>4. CASE \E b \in Segments : Touches(p[1], b) /\ Touches(q[1], b)
  <2>1. PICK b \in Segments : Touches(p[1], b) /\ Touches(q[1], b)
    BY <1>4
  <2>2. cfg.kind[b] = "bridge"
    BY <2>1 DEF Segments
  <2>3. b = Across(p) /\ OnBridge(p[1]) /\ b = Across(q) /\ OnBridge(q[1])
    BY <1>1, <2>1, <2>2, BridgeAcross
  <2>4. p \in LanPorts(b) /\ q \in LanPorts(b)
    BY <1>1, <2>3, BridgeAcross
  <2> QED BY <1>3, <2>1, <2>3, <2>4
<1>5. CASE p[1] = q[1] /\ OnBridge(p[1])
  <2>1. Across(p) \in Segments /\ Touches(p[1], Across(p))
    BY <1>1, <1>5, BridgeAcross
  <2> QED BY <1>4, <1>5, <2>1
<1>6. CASE p[1] = q[1] /\ ~OnBridge(p[1])
  BY <1>3, <1>6
<1> QED BY <1>3, <1>4, <1>5, <1>6

LEMMA PlacedDiffer ==
  ASSUME PlanInv, NEW p \in Ports, NEW q \in Ports, p # q, Automatic(p[1]), Automatic(q[1]),
         ip[p] # Unset, ip[q] # Unset
  PROVE  ip[p].addr # ip[q].addr
<1>1. IsConfig(cfg)
  BY DEF PlanInv, SubnetInv, TypeInv, TypeOK
<1>2. /\ subnet[p[1]] \in Cidrs /\ subnet[q[1]] \in Cidrs
      /\ ip[p].addr = subnet[p[1]].addr + Number(p) /\ Number(p) \in Nat
      /\ ip[q].addr = subnet[q[1]].addr + Number(q) /\ Number(q) \in Nat
      /\ ip[p].addr > subnet[p[1]].addr
      /\ ip[p].addr < subnet[p[1]].addr + subnet[p[1]].span - 1
      /\ ip[q].addr > subnet[q[1]].addr
      /\ ip[q].addr < subnet[q[1]].addr + subnet[q[1]].span - 1
  BY PlacedUsable
<1>3. /\ subnet[p[1]].addr \in Nat /\ subnet[p[1]].span \in Nat
      /\ subnet[q[1]].addr \in Nat /\ subnet[q[1]].span \in Nat
  BY <1>2 DEF Cidrs
<1>4. CASE Apart(subnet[p[1]], subnet[q[1]])
  BY <1>2, <1>3, <1>4 DEF Apart
<1>5. CASE ~Apart(subnet[p[1]], subnet[q[1]])
  <2>1. /\ subnet[p[1]] = subnet[q[1]]
        /\ \/ p[1] = q[1] /\ ~OnBridge(p[1])
           \/ /\ OnBridge(p[1]) /\ OnBridge(q[1]) /\ Across(p) = Across(q)
              /\ Across(p) \in Segments
              /\ p \in LanPorts(Across(p)) /\ q \in LanPorts(Across(p))
    BY <1>5, SameSubnet
  <2>2. Number(p) # Number(q)
    <3>1. CASE p[1] = q[1] /\ ~OnBridge(p[1])
      <4>1. p[1] \in Links /\ p[2] \in {1, 2} /\ q[2] \in {1, 2} /\ p[2] # q[2]
        BY <3>1, PortParts
      <4>2. HostNumber(p[1], 1) # HostNumber(p[1], 2)
        BY <1>1, <3>1, <4>1, HostNumbersDiffer
      <4> QED BY <3>1, <4>1, <4>2 DEF Number
    <3>2. CASE OnBridge(p[1]) /\ OnBridge(q[1]) /\ Across(p) = Across(q)
               /\ Across(p) \in Segments /\ p \in LanPorts(Across(p)) /\ q \in LanPorts(Across(p))
      <4>1. cfg.kind[Across(p)] = "bridge"
        BY <3>2 DEF Segments
      <4>2. Rank(Across(p), p) # Rank(Across(p), q)
        BY <1>1, <3>2, <4>1, RanksDiffer
      <4> QED BY <3>2, <4>2 DEF Number
    <3> QED BY <2>1, <3>1, <3>2
  <2> QED BY <1>2, <1>3, <2>1, <2>2
<1> QED BY <1>4, <1>5

LEMMA PlanInvUsable == ASSUME PlanInv PROVE AddressesUsable
<1> SUFFICES ASSUME phase = "accepted", NEW p \in Ports
             PROVE  /\ ip[p] # Unset <=> KindOf(p) # "bridge"
                    /\ Automatic(p[1]) /\ ip[p] # Unset =>
                         /\ ip[p].span = subnet[p[1]].span
                         /\ ip[p].addr > subnet[p[1]].addr
                         /\ ip[p].addr < subnet[p[1]].addr + subnet[p[1]].span - 1
                         /\ \A q \in Ports : Automatic(q[1]) /\ q # p => ip[q].addr # ip[p].addr
  BY DEF AddressesUsable
<1>1. Served(p)
  BY DEF Served, PlanInv, ServedInv
<1>2. ip[p] # Unset <=> KindOf(p) # "bridge"
  BY <1>1 DEF PlanInv, ServedInv
<1>3. ASSUME Automatic(p[1]), ip[p] # Unset
      PROVE  /\ ip[p].span = subnet[p[1]].span
             /\ ip[p].addr > subnet[p[1]].addr
             /\ ip[p].addr < subnet[p[1]].addr + subnet[p[1]].span - 1
             /\ subnet[p[1]].addr \in Nat /\ ip[p].addr \in Nat
  BY <1>3, PlacedUsable DEF Cidrs
<1>4. ASSUME Automatic(p[1]), ip[p] # Unset, NEW q \in Ports, Automatic(q[1]), q # p
      PROVE  ip[q].addr # ip[p].addr
  <2>1. CASE ip[q] = Unset
    BY <1>3, <1>4, <2>1 DEF Unset
  <2>2. CASE ip[q] # Unset
    BY <1>4, <2>2, PlacedDiffer
  <2> QED BY <2>1, <2>2
<1> QED BY <1>2, <1>3, <1>4

-----------------------------------------------------------------------------
(* The theorems on addresses, for the plan and for the whole of RoutePlan. *)

LEMMA PlanInvAlways == Spec => []PlanInv
BY PlanInvInit, PlanInvNext, PTL DEF Spec

(* The routes and gateways are computed from a plan and leave it alone.    *)
LEMMA PlanSpecKeepsPlan == PlanSpec => Spec
<1>1. PlanInit => Init
  BY DEF PlanInit
<1>2. [PlanNext]_planVars => [Next]_vars
  BY DEF PlanNext, planVars, ComputeStaticRoutes, HostDefaultGateways
<1> QED BY <1>1, <1>2, PTL DEF PlanSpec, Spec

(* AddressesUsable, for every configuration and every order in which the   *)
(* bridges are served: an accepted plan leaves no interface without an     *)
(* address, gives none to a bridge port, and none twice.                   *)
THEOREM AddressesAreUsable == PlanSpec => []AddressesUsable
BY PlanSpecKeepsPlan, PlanInvAlways, PlanInvUsable, PTL

-----------------------------------------------------------------------------
(* Networks.                                                               *)

LEMMA Remainder ==
  ASSUME NEW m \in Nat, NEW n \in Nat, n > 0, NEW r \in Nat, r < n
  PROVE  m * n + r \in Nat /\ (m * n + r) % n = r
<1> DEFINE v == m * n + r
<1>1. m * n \in Nat /\ v \in Nat
  OBVIOUS
<1>2. v \div n \in Nat /\ v % n \in 0 .. n - 1 /\ v = n * (v \div n) + (v % n)
  BY <1>1
<1>3. v = (v \div n) * n + (v % n) /\ (v \div n) * n \in Nat
  BY <1>1, <1>2
<1>4. PICK d \in Nat : d = v \div n
  BY <1>2
<1>5. ~(m < d)
  <2> SUFFICES ASSUME m < d PROVE FALSE
    OBVIOUS
  <2>1. m * n + n <= d * n
    BY BlocksInOrder
  <2> HIDE DEF v
  <2> QED BY <1>1, <1>2, <1>3, <1>4, <2>1 DEF v
<1>6. ~(d < m)
  <2> SUFFICES ASSUME d < m PROVE FALSE
    OBVIOUS
  <2>1. d * n + n <= m * n
    BY BlocksInOrder
  <2> QED BY <1>1, <1>2, <1>3, <1>4, <2>1
<1>7. m = d
  BY <1>5, <1>6
<1> QED BY <1>1, <1>2, <1>3, <1>4, <1>7

(* Every allocated subnet is a network: it starts at a multiple of its     *)
(* size, as the pools do.                                                  *)
LEMMA SubnetAligned ==
  ASSUME SubnetInv, NEW k \in Links, Automatic(k), subnet[k] # Unset
  PROVE  \E m \in Nat, n \in Nat : n >= 4 /\ subnet[k].addr = m * n /\ subnet[k].span = n
<1>1. TypeInv /\ HandedOut /\ IsConfig(cfg)
  BY DEF SubnetInv, TypeInv, TypeOK
<1>2. PICK x \in {"p2p", "lan"}, i \in Nat :
        i < next[x] /\ subnet[k] = Slot(cfg, x, i) /\ Within(subnet[k], cfg.pool[x])
  BY <1>1 DEF HandedOut, Handed
<1> DEFINE n == Block(x)  a == cfg.pool[x].addr
<1>3. n \in Nat /\ n >= 4 /\ a \in Nat /\ cfg.pool[x].span \in Nat
  BY <1>1, ConfigFacts, BlockType DEF Cidrs
<1>4. i * n \in Nat
  BY <1>3
<1>5. subnet[k].addr = a + i * n /\ subnet[k].span = n
  BY <1>2 DEF Slot
<1>6. cfg.pool[x].span >= n
  <2> HIDE DEF n, a
  <2> QED BY <1>2, <1>3, <1>4, <1>5 DEF Within, a
<1>7. a % n = 0
  BY <1>1, <1>6 DEF IsConfig
<1> HIDE DEF n, a
<1>8. PICK d \in Nat : d = a \div n /\ a = n * d
  BY <1>3, <1>7
<1>9. d + i \in Nat /\ a + i * n = (d + i) * n
  BY <1>3, <1>4, <1>8
<1> QED BY <1>3, <1>5, <1>9

(* So the network of an allocated address is the subnet of its link.       *)
LEMMA NetworkIsSubnet ==
  ASSUME PlanInv, NEW p \in Ports, Automatic(p[1]), ip[p] # Unset
  PROVE  Network(ip[p]) = subnet[p[1]]
<1>1. /\ subnet[p[1]] \in Cidrs /\ subnet[p[1]] # Unset
      /\ ip[p].span = subnet[p[1]].span
      /\ ip[p].addr = subnet[p[1]].addr + Number(p) /\ Number(p) \in Nat
      /\ ip[p].addr < subnet[p[1]].addr + subnet[p[1]].span - 1
  BY PlacedUsable
<1>2. PICK m \in Nat, n \in Nat : n >= 4 /\ subnet[p[1]].addr = m * n /\ subnet[p[1]].span = n
  BY <1>1, SubnetAligned, PortParts DEF PlanInv
<1>3. m * n \in Nat /\ Number(p) < n
  BY <1>1, <1>2
<1>4. (m * n + Number(p)) % n = Number(p)
  BY <1>1, <1>2, <1>3, Remainder
<1>5. Network(ip[p]) = [addr |-> m * n + Number(p) - Number(p), span |-> n]
  BY <1>1, <1>2, <1>4 DEF Network
<1>6. m * n + Number(p) - Number(p) = m * n
  BY <1>1, <1>3
<1>7. subnet[p[1]] = [addr |-> m * n, span |-> n]
  BY <1>1, <1>2 DEF Cidrs
<1> QED BY <1>5, <1>6, <1>7

(* Without addresses of the configuration, a node is twice in a network    *)
(* where it is twice on one link or on one bridge, and nowhere else.       *)
LEMMA DuplicateMeans ==
  ASSUME PlanInv, NoneGiven, NEW p \in Ports, NEW q \in Ports, p # q, NodeOf(p) = NodeOf(q),
         ip[p] # Unset, ip[q] # Unset
  PROVE  Duplicate(p, q) <=>
           \/ p[1] = q[1] /\ ~OnBridge(p[1])
           \/ \E b \in Segments : p \in LanPorts(b) /\ q \in LanPorts(b)
<1>1. p[1] \in Links /\ q[1] \in Links /\ Automatic(p[1]) /\ Automatic(q[1]) /\ IsConfig(cfg)
  BY PortParts DEF NoneGiven, PlanInv, SubnetInv, TypeInv, TypeOK
<1>2. Duplicate(p, q) <=> subnet[p[1]] = subnet[q[1]]
  BY <1>1, NetworkIsSubnet DEF Duplicate
<1>3. ASSUME subnet[p[1]] = subnet[q[1]]
      PROVE  \/ p[1] = q[1] /\ ~OnBridge(p[1])
             \/ \E b \in Segments : p \in LanPorts(b) /\ q \in LanPorts(b)
  <2>1. /\ subnet[p[1]] \in Cidrs
        /\ ip[p].addr > subnet[p[1]].addr /\ ip[p].addr < subnet[p[1]].addr + subnet[p[1]].span - 1
        /\ ip[p].addr = subnet[p[1]].addr + Number(p) /\ Number(p) \in Nat
    BY <1>1, PlacedUsable
  <2>2. subnet[p[1]].addr \in Nat /\ subnet[p[1]].span \in Nat /\ subnet[p[1]].span > 0
    BY <2>1 DEF Cidrs
  <2>3. ~Apart(subnet[p[1]], subnet[q[1]])
    BY <1>3, <2>2 DEF Apart
  <2> QED BY <1>1, <2>3, SameSubnet
<1>4. ASSUME NEW b \in Segments, p \in LanPorts(b), q \in LanPorts(b)
      PROVE  subnet[p[1]] = subnet[q[1]]
  <2>1. cfg.kind[b] = "bridge"
    BY DEF Segments
  <2>2. OnBridge(p[1]) /\ OnBridge(q[1]) /\ Across(p) = b /\ Across(q) = b
    BY <1>1, <1>4, <2>1, LanPortFacts
  <2> QED BY <1>1, <2>2 DEF PlanInv, SharedInv
<1> QED BY <1>2, <1>3, <1>4

-----------------------------------------------------------------------------
(* Which plans are accepted.                                               *)

LEMMA TimesMonotonic ==
  ASSUME NEW i \in Nat, NEW j \in Nat, i <= j, NEW n \in Nat
  PROVE  i * n \in Nat /\ j * n \in Nat /\ i * n <= j * n
<1>1. CASE i = j
  BY <1>1
<1>2. CASE i < j
  BY <1>2, BlocksInOrder
<1> QED BY <1>1, <1>2

LEMMA SamePlannable ==
  ASSUME UNCHANGED cfg
  PROVE  /\ NoneGiven' <=> NoneGiven
         /\ Plannable' <=> Plannable
         /\ \A x : Direct(x)' = Direct(x)
         /\ \A x : Block(x)' = Block(x)
  BY DEF NoneGiven, Plannable, Direct, Links, Ports, Segments, NodeOf, KindOf, Automatic, OnBridge,
         LanPorts, Touches, PoolOf, Block

LEMMA CountsFinite ==
  ASSUME IsConfig(cfg)
  PROVE  /\ IsFiniteSet(Segments) /\ IsFiniteSet(BridgesDone)
         /\ \A x : IsFiniteSet(Direct(x)) /\ IsFiniteSet(DirectDone(x))
<1>1. IsFiniteSet(Links)
  <2>1. Len(cfg.links) \in Nat /\ Links = 1 .. Len(cfg.links)
    BY ConfigFacts
  <2> QED BY <2>1, FS_Interval
<1>2. IsFiniteSet(DOMAIN cfg.kind)
  <2>1. Len(cfg.kind) \in Nat /\ DOMAIN cfg.kind = 1 .. Len(cfg.kind)
    BY LenProperties DEF IsConfig
  <2>2. IsFiniteSet(1 .. Len(cfg.kind))
    BY <2>1, FS_Interval
  <2> QED BY <2>1, <2>2
<1>3. Segments \in SUBSET (DOMAIN cfg.kind) /\ BridgesDone \in SUBSET (DOMAIN cfg.kind)
  BY DEF Segments, BridgesDone
<1>4. \A x : Direct(x) \in SUBSET Links /\ DirectDone(x) \in SUBSET Links
  BY DEF Direct, DirectDone
<1> QED BY <1>1, <1>2, <1>3, <1>4, FS_Subset

(* Where nothing is taken, the counts stay.                                *)
LEMMA CountKept ==
  ASSUME CountInv, phase # "rejected", UNCHANGED <<cfg, next>>,
         \A x \in {"p2p", "lan"} : DirectDone(x)' = DirectDone(x),
         BridgesDone' = BridgesDone
  PROVE  CountInv'
<1>1. \A b : LanPorts(b)' = LanPorts(b)
  BY SameShape
<1>2. \A x : Block(x)' = Block(x)
  BY SamePlannable
<1> QED BY <1>1, <1>2 DEF CountInv

LEMMA CountedInit == Init => CountedInv
<1> SUFFICES ASSUME Init PROVE CountedInv
  OBVIOUS
<1>1. PlanInv
  BY PlanInvInit
<1>2. BridgesDone = {} /\ \A x : DirectDone(x) = {}
  BY DEF Init, BridgesDone, DirectDone
<1>3. next["p2p"] = 0 /\ next["lan"] = 0
  BY DEF Init
<1>4. ASSUME NEW x \in {"p2p", "lan"} PROVE next[x] * Block(x) <= cfg.pool[x].span
  <2>1. Block(x) \in Nat /\ cfg.pool[x].span \in Nat
    BY <1>1, BlockType, ConfigFacts DEF PlanInv, SubnetInv, TypeInv, TypeOK, Cidrs
  <2>2. next[x] = 0 /\ 0 * Block(x) = 0
    BY <1>3, <2>1
  <2> QED BY <2>1, <2>2
<1>5. CountInv
  BY <1>2, <1>3, <1>4, FS_EmptySet DEF CountInv
<1>6. OutcomeInv
  BY DEF OutcomeInv, Init
<1> QED BY <1>1, <1>5, <1>6 DEF CountedInv

(* A rejection before the last check is for want of room.                  *)
LEMMA TooFewSegments ==
  ASSUME CountedInv, phase = "segments", NEW b \in bridges,
         ~HasNext("lan") \/ Cardinality(LanPorts(b)) > LanBlock - 2
  PROVE  ~Plannable
<1>1. /\ IsConfig(cfg) /\ b \in Segments /\ cfg.kind[b] = "bridge" /\ bridges \subseteq Segments
      /\ next \in [{"p2p", "lan"} -> Nat]
  BY DEF CountedInv, PlanInv, SubnetInv, TypeInv, TypeOK, Segments
<1>2. CASE Cardinality(LanPorts(b)) > LanBlock - 2
  <2>1. Cardinality(LanPorts(b)) \in Nat /\ LanBlock \in Nat
    BY <1>1, RanksDiffer, ConfigsOK
  <2>2. ~(Cardinality(LanPorts(b)) <= LanBlock - 2)
    BY <1>2, <2>1
  <2> QED BY <1>1, <2>2 DEF Plannable
<1>3. CASE ~HasNext("lan")
  <2>1. DirectDone("lan") = {} /\ BridgesDone = Segments \ bridges
    BY DEF DirectDone, BridgesDone
  <2>2. next["lan"] = Cardinality(Segments \ bridges)
    BY <2>1, FS_EmptySet, FS_CardinalityType, CountsFinite, <1>1 DEF CountedInv, CountInv
  <2>3. IsFiniteSet(Segments) /\ IsFiniteSet(Segments \ bridges) /\ IsFiniteSet(Direct("lan"))
    BY <1>1, <2>1, CountsFinite
  <2>4. Cardinality((Segments \ bridges) \cup {b}) = Cardinality(Segments \ bridges) + 1
    BY <2>3, FS_AddElement
  <2>5. (Segments \ bridges) \cup {b} \in SUBSET Segments
    BY <1>1
  <2>6. Cardinality((Segments \ bridges) \cup {b}) <= Cardinality(Segments)
    BY <2>3, <2>5, FS_Subset
  <2>7. Cardinality(Segments) \in Nat /\ Cardinality(Direct("lan")) \in Nat /\ next["lan"] \in Nat
    BY <1>1, <2>3, FS_CardinalityType
  <2>8. next["lan"] + 1 <= Cardinality(Direct("lan")) + Cardinality(Segments)
    BY <2>2, <2>4, <2>6, <2>7
  <2> DEFINE n == next["lan"] + 1  t == Cardinality(Direct("lan")) + Cardinality(Segments)
  <2>9. n \in Nat /\ t \in Nat /\ n <= t /\ LanBlock \in Nat
    BY <2>7, <2>8, ConfigsOK
  <2>10. ~(n * LanBlock <= cfg.pool["lan"].span)
    BY <1>3 DEF HasNext, Block
  <2>11. cfg.pool["lan"].span \in Nat
    BY <1>1, ConfigFacts DEF Cidrs
  <2>12. ~(t * LanBlock <= cfg.pool["lan"].span)
    <3> HIDE DEF n, t
    <3>1. n * LanBlock \in Nat /\ t * LanBlock \in Nat /\ n * LanBlock <= t * LanBlock
      BY <2>9, TimesMonotonic
    <3> QED BY <2>10, <2>11, <3>1
  <2> QED BY <2>12 DEF Plannable
<1> QED BY <1>2, <1>3

LEMMA TooFewDirect ==
  ASSUME CountedInv, phase = "direct", li \in Links, Automatic(li), ~OnBridge(li), ~HasNext(PoolOf(li))
  PROVE  ~Plannable
<1> DEFINE x == PoolOf(li)
<1>1. /\ IsConfig(cfg) /\ x \in {"p2p", "lan"} /\ next \in [{"p2p", "lan"} -> Nat]
      /\ bridges = {}
  BY DEF CountedInv, PlanInv, SubnetInv, ServedInv, TypeInv, TypeOK, PoolOf
<1>2. li \in Direct(x) /\ li \notin DirectDone(x) /\ DirectDone(x) \subseteq Direct(x)
  <2>1. ~(li < li)
    BY LinkNumbers DEF CountedInv, PlanInv, SubnetInv
  <2> QED BY <2>1 DEF Direct, DirectDone
<1>3. IsFiniteSet(Segments) /\ IsFiniteSet(Direct(x)) /\ IsFiniteSet(DirectDone(x))
  BY <1>1, CountsFinite
<1>4. Cardinality(DirectDone(x) \cup {li}) = Cardinality(DirectDone(x)) + 1
  BY <1>2, <1>3, FS_AddElement
<1>5. DirectDone(x) \cup {li} \in SUBSET Direct(x)
  BY <1>2
<1>6. Cardinality(DirectDone(x) \cup {li}) <= Cardinality(Direct(x))
  BY <1>3, <1>5, FS_Subset
<1>7. Cardinality(Segments) \in Nat /\ Cardinality(Direct(x)) \in Nat /\ Cardinality(DirectDone(x)) \in Nat
  BY <1>3, FS_CardinalityType
<1>8. BridgesDone = Segments
  BY <1>1 DEF BridgesDone
<1> DEFINE n == next[x] + 1
           t == IF x = "lan" THEN Cardinality(Direct("lan")) + Cardinality(Segments) ELSE Cardinality(Direct("p2p"))
<1>9. n \in Nat /\ t \in Nat /\ n <= t
  <2>1. CASE x = "lan"
    <3>1. next["lan"] = Cardinality(DirectDone("lan")) + Cardinality(Segments)
      BY <1>8 DEF CountedInv, CountInv
    <3> QED BY <1>4, <1>6, <1>7, <2>1, <3>1
  <2>2. CASE x = "p2p"
    <3>1. next["p2p"] = Cardinality(DirectDone("p2p"))
      BY DEF CountedInv, CountInv
    <3> QED BY <1>4, <1>6, <1>7, <2>2, <3>1
  <2> QED BY <1>1, <2>1, <2>2
<1>10. ~(n * Block(x) <= cfg.pool[x].span)
  BY DEF HasNext
<1>11. cfg.pool[x].span \in Nat /\ Block(x) \in Nat
  BY <1>1, ConfigFacts, BlockType DEF Cidrs
<1>12. ~(t * Block(x) <= cfg.pool[x].span)
  <2>1. PICK m \in Nat, u \in Nat, c \in Nat : m = n /\ u = t /\ c = Block(x)
    BY <1>9, <1>11
  <2>2. m * c \in Nat /\ u * c \in Nat /\ m * c <= u * c
    BY <1>9, <2>1, TimesMonotonic
  <2>3. ~(m * c <= cfg.pool[x].span)
    BY <1>10, <2>1
  <2>4. ~(u * c <= cfg.pool[x].span)
    BY <1>11, <2>2, <2>3
  <2> QED BY <2>1, <2>4
<1>13. CASE x = "lan"
  BY <1>12, <1>13 DEF Plannable, Block
<1>14. CASE x = "p2p"
  BY <1>12, <1>14 DEF Plannable, Block
<1> QED BY <1>1, <1>13, <1>14

(* A link that the last loop skips is none it hands subnets out for.       *)
LEMMA SkippedMeans ==
  ASSUME PlanInv, phase = "direct", li \in Links
  PROVE  Skipped(li) <=> ~Automatic(li) \/ OnBridge(li)
<1> SUFFICES ASSUME Automatic(li), ~OnBridge(li) PROVE \A s \in {1, 2} : ip[<<li, s>>] = Unset
  BY DEF Skipped
<1>1. \A s \in {1, 2} : <<li, s>> \in Ports
  BY DEF Ports
<1>2. ~(li < li)
  BY LinkNumbers DEF PlanInv, SubnetInv
<1>3. \A s \in {1, 2} : ~Served(<<li, s>>)
  BY <1>2 DEF Served
<1> QED BY <1>1, <1>3 DEF PlanInv, ServedInv

LEMMA BridgeSegmentCount ==
  ASSUME CountedInv, BridgeSegment
  PROVE  CountInv' /\ OutcomeInv'
<1>1. phase = "segments" /\ UNCHANGED cfg /\ IsConfig(cfg) /\ TypeInv
  BY DEF BridgeSegment, Reject, CountedInv, PlanInv, SubnetInv, TypeInv, TypeOK
<1>2. PICK b \in bridges :
        IF ~HasNext("lan") \/ Cardinality(LanPorts(b)) > LanBlock - 2 THEN Reject
        ELSE TakeNext("lan") /\ bridges' = bridges \ {b} /\ UNCHANGED <<cfg, phase, li>>
  BY DEF BridgeSegment
<1>3. CASE ~HasNext("lan") \/ Cardinality(LanPorts(b)) > LanBlock - 2
  <2>1. ~Plannable
    BY <1>1, <1>3, TooFewSegments
  <2>2. phase' = "rejected"
    BY <1>2, <1>3 DEF Reject
  <2> QED BY <1>1, <2>1, <2>2, SamePlannable DEF CountInv, OutcomeInv
<1>4. CASE ~(~HasNext("lan") \/ Cardinality(LanPorts(b)) > LanBlock - 2)
  <2>1. TakeNext("lan") /\ bridges' = bridges \ {b} /\ UNCHANGED <<cfg, phase, li>> /\ HasNext("lan")
    BY <1>2, <1>4
  <2>2. b \in Segments /\ bridges \subseteq Segments /\ cfg.kind[b] = "bridge"
    BY <1>1 DEF TypeInv, TypeOK, Segments
  <2>3. BridgesDone = Segments \ bridges /\ BridgesDone' = (Segments \ bridges) \cup {b}
    BY <1>1, <2>1, <2>2, SameShape DEF BridgesDone
  <2>4. \A x : DirectDone(x) = {} /\ DirectDone(x)' = {}
    BY <1>1, <2>1 DEF DirectDone
  <2>5. next' = [next EXCEPT !["lan"] = next["lan"] + 1] /\ next \in [{"p2p", "lan"} -> Nat]
    BY <1>1, <2>1 DEF TakeNext, TypeInv, TypeOK
  <2>6. next'["lan"] = next["lan"] + 1 /\ next'["p2p"] = next["p2p"] /\ next["lan"] \in Nat
    BY <2>5
  <2>7. Cardinality(BridgesDone') = Cardinality(BridgesDone) + 1 /\ Cardinality(BridgesDone) \in Nat
    <3>1. IsFiniteSet(Segments \ bridges)
      BY <1>1, <2>3, CountsFinite
    <3> QED BY <2>3, <3>1, FS_AddElement, FS_CardinalityType
  <2>8. Cardinality(LanPorts(b)) <= LanBlock - 2
    <3>1. Cardinality(LanPorts(b)) \in Nat /\ LanBlock \in Nat
      BY <1>1, <2>2, RanksDiffer, ConfigsOK
    <3> QED BY <1>4, <3>1
  <2>9. /\ next'["p2p"] = Cardinality(DirectDone("p2p")')
        /\ next'["lan"] = Cardinality(DirectDone("lan")') + Cardinality(BridgesDone')
    <3>1. /\ next["p2p"] = Cardinality(DirectDone("p2p"))
          /\ next["lan"] = Cardinality(DirectDone("lan")) + Cardinality(BridgesDone)
      BY <1>1 DEF CountedInv, CountInv
    <3>2. /\ DirectDone("p2p") = DirectDone("p2p")' /\ DirectDone("lan") = {}
          /\ DirectDone("lan")' = {}
      BY <2>4
    <3>3. Cardinality(DirectDone("lan")) = 0 /\ Cardinality(DirectDone("lan")') = 0
      BY <3>2, FS_EmptySet
    <3>4. Cardinality(DirectDone("p2p")) = Cardinality(DirectDone("p2p")')
      BY <3>2
    <3> QED BY <2>6, <2>7, <3>1, <3>3, <3>4
  <2>10. \A x \in {"p2p", "lan"} : next'[x] * Block(x) <= cfg.pool[x].span
    <3>1. next'["lan"] * Block("lan") <= cfg.pool["lan"].span
      BY <2>1, <2>6 DEF HasNext
    <3> QED BY <1>1, <2>6, <3>1 DEF CountedInv, CountInv
  <2>11. \A c \in BridgesDone' : Cardinality(LanPorts(c)) <= LanBlock - 2
    BY <1>1, <2>3, <2>8 DEF CountedInv, CountInv
  <2>12. CountInv'
    BY <2>1, <2>9, <2>10, <2>11, SameShape, SamePlannable DEF CountInv
  <2> QED BY <1>1, <2>1, <2>12 DEF OutcomeInv
<1> QED BY <1>3, <1>4

LEMMA DirectLinkCount ==
  ASSUME CountedInv, DirectLink
  PROVE  CountInv' /\ OutcomeInv'
<1>x. PICK x \in {"p2p", "lan"} : x = PoolOf(li)
  BY DEF PoolOf
<1>1. /\ phase = "direct" /\ UNCHANGED <<cfg, bridges>> /\ IsConfig(cfg) /\ TypeInv /\ PlanInv
      /\ x \in {"p2p", "lan"}
  BY DEF DirectLink, Reject, CountedInv, PlanInv, SubnetInv, TypeInv, TypeOK
<1>2. li \in Links /\ li \in Nat /\ Links \subseteq Nat
  BY <1>1, LinkNumbers DEF DirectLink, TypeInv, TypeOK
<1>3. Skipped(li) <=> ~Automatic(li) \/ OnBridge(li)
  BY <1>1, <1>2, SkippedMeans
<1>b. phase' # "rejected" => BridgesDone' = BridgesDone
  BY <1>1, SameShape DEF DirectLink, Reject, BridgesDone
<1>4. CASE ~Skipped(li) /\ ~HasNext(x)
  <2>1. ~Plannable
    BY <1>x, <1>1, <1>2, <1>3, <1>4, TooFewDirect
  <2>2. phase' = "rejected"
    BY <1>x, <1>4 DEF DirectLink, Reject
  <2> QED BY <1>1, <2>1, <2>2, SamePlannable DEF CountInv, OutcomeInv
<1>5. CASE Skipped(li)
  <2>1. li' = li + 1 /\ UNCHANGED <<cfg, phase, bridges, plan>>
    BY <1>5 DEF DirectLink
  <2>2. ASSUME NEW y \in {"p2p", "lan"} PROVE DirectDone(y)' = DirectDone(y)
    <3>1. \A k \in Direct(y) : Automatic(k) => (k < li + 1 <=> k < li)
      <4> SUFFICES ASSUME NEW k \in Direct(y), Automatic(k) PROVE k < li + 1 <=> k < li
        OBVIOUS
      <4>1. k # li /\ k \in Nat
        BY <1>2, <1>3, <1>5 DEF Direct
      <4> QED BY <1>2, <4>1
    <3> QED BY <1>1, <2>1, <3>1, SameShape, SamePlannable DEF DirectDone
  <2>3. CountInv'
    BY <1>1, <1>b, <2>1, <2>2, CountKept DEF CountedInv, plan
  <2> QED BY <1>1, <2>1, <2>3 DEF OutcomeInv
<1>6. CASE ~Skipped(li) /\ HasNext(x)
  <2>1. li' = li + 1 /\ TakeNext(x) /\ UNCHANGED <<cfg, phase, bridges>>
    BY <1>x, <1>6 DEF DirectLink
  <2>2. Automatic(li) /\ ~OnBridge(li)
    BY <1>3, <1>6
  <2>3. DirectDone(x)' = DirectDone(x) \cup {li} /\ li \notin DirectDone(x)
    <3>1. \A k \in Links : k < li + 1 <=> k < li \/ k = li
      BY <1>2
    <3>2. li \in Direct(x) /\ ~(li < li)
      BY <1>x, <1>2, <2>2 DEF Direct
    <3>3. DirectDone(x)' = {k \in Direct(x) : Automatic(k) /\ k < li + 1}
      BY <1>1, <2>1, SameShape, SamePlannable DEF DirectDone
    <3>4. DirectDone(x) = {k \in Direct(x) : Automatic(k) /\ k < li}
      BY <1>1 DEF DirectDone
    <3>5. Direct(x) \subseteq Links
      BY DEF Direct
    <3> QED BY <2>2, <3>1, <3>2, <3>3, <3>4, <3>5
  <2>4. \A y \in {"p2p", "lan"} : y # x => DirectDone(y)' = DirectDone(y)
    <3> SUFFICES ASSUME NEW y \in {"p2p", "lan"}, y # x PROVE DirectDone(y)' = DirectDone(y)
      OBVIOUS
    <3>1. \A k \in Direct(y) : k # li /\ (k < li + 1 <=> k < li)
      <4> SUFFICES ASSUME NEW k \in Direct(y) PROVE k # li /\ (k < li + 1 <=> k < li)
        OBVIOUS
      <4>1. k # li /\ k \in Nat
        BY <1>x, <1>2 DEF Direct
      <4> QED BY <1>2, <4>1
    <3> QED BY <1>1, <2>1, <3>1, SameShape, SamePlannable DEF DirectDone
  <2>5. next' = [next EXCEPT ![x] = next[x] + 1] /\ next \in [{"p2p", "lan"} -> Nat]
    BY <1>1, <2>1 DEF TakeNext, TypeInv, TypeOK
  <2>6. next'[x] = next[x] + 1 /\ \A y \in {"p2p", "lan"} : y # x => next'[y] = next[y]
    BY <1>1, <2>5
  <2>7. /\ Cardinality(DirectDone(x)') = Cardinality(DirectDone(x)) + 1
        /\ Cardinality(DirectDone(x)) \in Nat /\ Cardinality(BridgesDone) \in Nat
    BY <1>1, <2>3, CountsFinite, FS_AddElement, FS_CardinalityType
  <2>8. next'["p2p"] = Cardinality(DirectDone("p2p")')
    <3>1. next["p2p"] = Cardinality(DirectDone("p2p"))
      BY <1>1 DEF CountedInv, CountInv
    <3>2. CASE x = "p2p"
      BY <2>6, <2>7, <3>1, <3>2
    <3>3. CASE x # "p2p"
      BY <2>4, <2>6, <3>1, <3>3
    <3> QED BY <3>2, <3>3
  <2>9. next'["lan"] = Cardinality(DirectDone("lan")') + Cardinality(BridgesDone')
    <3>1. next["lan"] = Cardinality(DirectDone("lan")) + Cardinality(BridgesDone)
      BY <1>1 DEF CountedInv, CountInv
    <3>2. BridgesDone' = BridgesDone
      BY <1>1, <1>b, <2>1
    <3>3. CASE x = "lan"
      BY <2>6, <2>7, <3>1, <3>2, <3>3
    <3>4. CASE x # "lan"
      BY <2>4, <2>6, <3>1, <3>2, <3>4
    <3> QED BY <3>3, <3>4
  <2>10. \A y \in {"p2p", "lan"} : next'[y] * Block(y) <= cfg.pool[y].span
    <3>1. next'[x] * Block(x) <= cfg.pool[x].span
      BY <1>6, <2>6 DEF HasNext
    <3> QED BY <1>1, <2>6, <3>1 DEF CountedInv, CountInv
  <2>11. \A b \in BridgesDone : Cardinality(LanPorts(b)) <= LanBlock - 2
    BY <1>1 DEF CountedInv, CountInv
  <2>12. CountInv'
    BY <1>1, <1>b, <2>1, <2>8, <2>9, <2>10, <2>11, SameShape, SamePlannable DEF CountInv
  <2> QED BY <1>1, <2>1, <2>12 DEF OutcomeInv
<1> QED BY <1>4, <1>5, <1>6

(* The last check finds what makes a plan impossible, and nothing else.    *)
LEMMA CheckDuplicatesCount ==
  ASSUME CountedInv, CheckDuplicates
  PROVE  CountInv' /\ OutcomeInv'
<1>1. /\ phase = "check" /\ UNCHANGED <<cfg, li, bridges, next, ip, subnet>> /\ PlanInv
      /\ phase' = IF \E p, q \in Ports : Duplicate(p, q) THEN "rejected" ELSE "accepted"
  BY DEF CheckDuplicates, CountedInv, plan
<1>2. CASE \E p, q \in Ports : Duplicate(p, q)
  <2>1. ASSUME NoneGiven PROVE ~Plannable
    <3>1. PICK p \in Ports, q \in Ports : Duplicate(p, q)
      BY <1>2
    <3>2. p # q /\ NodeOf(p) = NodeOf(q) /\ ip[p] # Unset /\ ip[q] # Unset
      BY <3>1 DEF Duplicate
    <3>3. \/ p[1] = q[1] /\ ~OnBridge(p[1])
          \/ \E b \in Segments : p \in LanPorts(b) /\ q \in LanPorts(b)
      BY <1>1, <2>1, <3>1, <3>2, DuplicateMeans
    <3>4. CASE p[1] = q[1] /\ ~OnBridge(p[1])
      <4>1. /\ p[1] \in Links /\ p = <<p[1], p[2]>> /\ q = <<p[1], q[2]>>
            /\ p[2] \in {1, 2} /\ q[2] \in {1, 2} /\ p[2] # q[2]
        BY <3>2, <3>4, PortParts
      <4>2. NodeOf(<<p[1], 1>>) = NodeOf(<<p[1], 2>>)
        BY <3>2, <4>1
      <4> QED BY <3>4, <4>1, <4>2 DEF Plannable
    <3>5. CASE \E b \in Segments : p \in LanPorts(b) /\ q \in LanPorts(b)
      BY <3>2, <3>5 DEF Plannable
    <3> QED BY <3>3, <3>4, <3>5
  <2>2. phase' = "rejected"
    BY <1>1, <1>2
  <2> QED BY <1>1, <2>1, <2>2, SamePlannable DEF CountInv, OutcomeInv
<1>3. CASE ~\E p, q \in Ports : Duplicate(p, q)
  <2>1. phase' = "accepted"
    BY <1>1, <1>3
  <2>2. (\A x : DirectDone(x)' = DirectDone(x)) /\ BridgesDone' = BridgesDone
    BY <1>1, <2>1, SameShape, SamePlannable DEF DirectDone, BridgesDone
  <2>3. CountInv'
    BY <1>1, <2>2, CountKept DEF CountedInv
  <2>4. ~\E p, q \in Ports : Duplicate(p, q)'
    BY <1>1, <1>3, SameShape DEF Duplicate, Network
  <2> QED BY <1>1, <2>1, <2>3, <2>4, SameShape DEF OutcomeInv
<1> QED BY <1>2, <1>3

LEMMA CountedNext == CountedInv /\ [Next]_vars => CountedInv'
<1> SUFFICES ASSUME CountedInv, [Next]_vars PROVE CountedInv'
  OBVIOUS
<1>1. PlanInv /\ PlanInv' /\ TypeInv /\ IsConfig(cfg)
  BY PlanInvNext DEF CountedInv, PlanInv, SubnetInv, TypeInv, TypeOK
<1> SUFFICES CountInv' /\ OutcomeInv'
  BY <1>1 DEF CountedInv
<1>2. CASE CheckShape
  <2>1. /\ phase = "shape" /\ UNCHANGED <<cfg, next>>
        /\ phase' = IF \A k \in Links : Len(cfg.ipv4[k]) \in {0, 2} THEN "manual" ELSE "rejected"
    BY <1>2 DEF CheckShape, plan
  <2>2. NoneGiven => phase' = "manual"
    BY <2>1 DEF NoneGiven, Automatic
  <2>3. phase' # "rejected" => (\A x : DirectDone(x)' = DirectDone(x)) /\ BridgesDone' = BridgesDone
    BY <2>1 DEF DirectDone, BridgesDone
  <2>4. CountInv'
    BY <2>1, <2>3, CountKept DEF CountedInv, CountInv
  <2> QED BY <2>1, <2>2, <2>4, SamePlannable DEF OutcomeInv
<1>3. CASE ManualLink
  <2>1. phase = "manual" /\ UNCHANGED <<cfg, next>> /\ phase' \in {"manual", "rejected"} /\ li \in Links
    BY <1>1, <1>3, LinkNumbers DEF ManualLink, Reject, plan, TypeInv, TypeOK
  <2>2. NoneGiven => phase' = "manual"
    BY <1>3, <2>1 DEF NoneGiven, ManualLink
  <2>3. phase' # "rejected" => (\A x : DirectDone(x)' = DirectDone(x)) /\ BridgesDone' = BridgesDone
    BY <2>1 DEF DirectDone, BridgesDone
  <2>4. CountInv'
    BY <2>1, <2>3, CountKept DEF CountedInv, CountInv
  <2> QED BY <2>1, <2>2, <2>4, SamePlannable DEF OutcomeInv
<1>4. CASE CollectSegments
  <2>1. phase = "manual" /\ UNCHANGED <<cfg, next>> /\ phase' \in {"segments", "rejected"}
    BY <1>4 DEF CollectSegments, Reject, plan
  <2>2. CASE phase' = "segments"
    <3>1. bridges' = Segments
      BY <1>4, <2>2 DEF CollectSegments, Reject
    <3>2. (\A x : DirectDone(x)' = DirectDone(x)) /\ BridgesDone' = BridgesDone
      BY <2>1, <2>2, <3>1, SameShape DEF DirectDone, BridgesDone
    <3> QED BY <2>1, <2>2, <3>2, CountKept DEF CountedInv, OutcomeInv
  <2>3. CASE phase' = "rejected"
    <3>1. Segments # {} /\ cfg.pool["lan"] = Unset
      BY <1>4, <2>3 DEF CollectSegments
    <3>2. IsFiniteSet(Segments) /\ IsFiniteSet(Direct("lan"))
      BY <1>1, CountsFinite
    <3>3. /\ Cardinality(Segments) \in Nat /\ Cardinality(Segments) # 0
          /\ Cardinality(Direct("lan")) \in Nat
      BY <3>1, <3>2, FS_EmptySet, FS_CardinalityType
    <3> DEFINE n == Cardinality(Direct("lan")) + Cardinality(Segments)
    <3>4. n \in Nat /\ 1 <= n
      BY <3>3
    <3>5. LanBlock \in Nat /\ LanBlock >= 4
      BY ConfigsOK
    <3>6. ~(n * LanBlock <= 0)
      <4> HIDE DEF n
      <4>1. n * LanBlock \in Nat /\ 1 * LanBlock <= n * LanBlock
        BY <3>4, <3>5, TimesMonotonic
      <4> QED BY <3>5, <4>1
    <3>7. ~Plannable
      BY <3>1, <3>6 DEF Plannable, Unset
    <3> QED BY <2>1, <2>3, <3>7, SamePlannable DEF CountInv, OutcomeInv
  <2> QED BY <2>1, <2>2, <2>3
<1>5. CASE BridgeSegment
  BY <1>5, BridgeSegmentCount
<1>6. CASE EnterDirect
  <2>1. /\ phase = "segments" /\ phase' = "direct" /\ li' = 1 /\ bridges' = bridges
        /\ UNCHANGED <<cfg, next>>
    BY <1>6 DEF EnterDirect, plan
  <2>2. \A x : DirectDone(x) = {} /\ DirectDone(x)' = {}
    <3>1. \A k \in Links : ~(k < 1)
      BY <1>1, LinkNumbers
    <3> QED BY <2>1, <3>1, SamePlannable DEF DirectDone, Direct
  <2>3. BridgesDone' = BridgesDone
    BY <2>1, SameShape DEF BridgesDone
  <2> QED BY <2>1, <2>2, <2>3, CountKept DEF CountedInv, OutcomeInv
<1>7. CASE DirectLink
  BY <1>7, DirectLinkCount
<1>8. CASE EnterCheck
  <2>1. /\ phase = "direct" /\ phase' = "check" /\ li > Len(cfg.links) /\ bridges' = bridges
        /\ UNCHANGED <<cfg, next>>
    BY <1>8 DEF EnterCheck, plan
  <2>2. \A x : DirectDone(x)' = DirectDone(x)
    <3>1. \A k \in Links : k < li
      BY <1>1, <2>1, LinkNumbers
    <3>2. \A x : Direct(x) \subseteq Links
      BY DEF Direct
    <3> QED BY <2>1, <3>1, <3>2, SameShape, SamePlannable DEF DirectDone
  <2>3. BridgesDone' = BridgesDone
    BY <2>1, SameShape DEF BridgesDone
  <2> QED BY <2>1, <2>2, <2>3, CountKept DEF CountedInv, OutcomeInv
<1>9. CASE CheckDuplicates
  BY <1>9, CheckDuplicatesCount
<1>10. CASE UNCHANGED vars
  <2>1. UNCHANGED <<cfg, phase, li, bridges, next, ip, subnet>>
    BY <1>10 DEF vars, plan
  <2>2. (\A x : DirectDone(x)' = DirectDone(x)) /\ BridgesDone' = BridgesDone
    BY <2>1, SameShape, SamePlannable DEF DirectDone, BridgesDone
  <2>3. CountInv'
    BY <2>1, <2>2, CountKept DEF CountedInv, CountInv
  <2>4. \A p, q : Duplicate(p, q)' <=> Duplicate(p, q)
    BY <2>1, SameShape DEF Duplicate, Network
  <2>5. OutcomeInv'
    BY <2>1, <2>4, SameShape, SamePlannable DEF CountedInv, OutcomeInv
  <2> QED BY <2>3, <2>5
<1> QED BY <1>2, <1>3, <1>4, <1>5, <1>6, <1>7, <1>8, <1>9, <1>10 DEF Next

LEMMA AcceptedIsPlannable ==
  ASSUME CountedInv, phase = "accepted", NoneGiven
  PROVE  Plannable
<1>1. IsConfig(cfg) /\ PlanInv /\ bridges = {}
  BY DEF CountedInv, PlanInv, SubnetInv, ServedInv, TypeInv, TypeOK
<1>2. /\ \A x : DirectDone(x) = Direct(x)
      /\ BridgesDone = Segments
  BY <1>1 DEF DirectDone, BridgesDone, NoneGiven, Direct
<1>3. /\ next["p2p"] = Cardinality(Direct("p2p"))
      /\ next["lan"] = Cardinality(Direct("lan")) + Cardinality(Segments)
      /\ \A x \in {"p2p", "lan"} : next[x] * Block(x) <= cfg.pool[x].span
      /\ \A b \in Segments : Cardinality(LanPorts(b)) <= LanBlock - 2
  BY <1>2 DEF CountedInv, CountInv
<1>4. /\ Cardinality(Direct("p2p")) * P2PBlock <= cfg.pool["p2p"].span
      /\ (Cardinality(Direct("lan")) + Cardinality(Segments)) * LanBlock <= cfg.pool["lan"].span
  BY <1>3 DEF Block
<1>5. \A p, q \in Ports : ~Duplicate(p, q)
  BY DEF CountedInv, OutcomeInv
<1>6. \A p \in Ports : KindOf(p) # "bridge" => ip[p] # Unset
  BY <1>1 DEF PlanInv, ServedInv, Served
<1>7. ASSUME NEW k \in Links, ~OnBridge(k) PROVE NodeOf(<<k, 1>>) # NodeOf(<<k, 2>>)
  <2> DEFINE p == <<k, 1>>  q == <<k, 2>>
  <2>1. p \in Ports /\ q \in Ports /\ p # q /\ p[1] = k /\ q[1] = k
    BY DEF Ports
  <2>2. KindOf(p) # "bridge" /\ KindOf(q) # "bridge"
    BY <1>7 DEF OnBridge
  <2>3. ip[p] # Unset /\ ip[q] # Unset
    BY <1>6, <2>1, <2>2
  <2> HIDE DEF p, q
  <2>4. NodeOf(p) = NodeOf(q) => Duplicate(p, q)
    BY <1>1, <1>7, <2>1, <2>3, DuplicateMeans
  <2> QED BY <1>5, <2>1, <2>4 DEF p, q
<1>8. ASSUME NEW b \in Segments, NEW p \in LanPorts(b), NEW q \in LanPorts(b), NodeOf(p) = NodeOf(q)
      PROVE  p = q
  <2>1. p \in Ports /\ q \in Ports /\ KindOf(p) # "bridge" /\ KindOf(q) # "bridge"
    BY DEF LanPorts
  <2>2. ip[p] # Unset /\ ip[q] # Unset
    BY <1>6, <2>1
  <2>3. p # q => Duplicate(p, q)
    BY <1>1, <1>8, <2>1, <2>2, DuplicateMeans
  <2> QED BY <1>5, <2>1, <2>3
<1> QED BY <1>3, <1>4, <1>7, <1>8 DEF Plannable

LEMMA CountedAlways == Spec => []CountedInv
BY CountedInit, CountedNext, PTL DEF Spec

(* AcceptedIfPlannable, for every configuration: the arbitrary order in    *)
(* which Go walks the map of bridges never decides whether a lab can be    *)
(* deployed.                                                               *)
THEOREM OrderDoesNotMatter == PlanSpec => []AcceptedIfPlannable
<1>1. CountedInv => AcceptedIfPlannable
  BY AcceptedIsPlannable DEF CountedInv, OutcomeInv, AcceptedIfPlannable, NoneGiven
<1> QED BY <1>1, PlanSpecKeepsPlan, CountedAlways, PTL

-----------------------------------------------------------------------------
(* The default gateways of hosts.                                          *)

(* What a CHOOSE of a least number chooses exists.                         *)
LEMMA Least ==
  ASSUME NEW T \in SUBSET Nat, T # {}
  PROVE  \E x \in T : \A y \in T : x <= y
<1> DEFINE R == {ss \in Nat \X Nat : ss[1] < ss[2]}
<1>1. IsWellFoundedOn(R, Nat)
  <2>1. R = OpToRel(<, Nat)
    BY DEF OpToRel
  <2> QED BY <2>1, NatLessThanWellFounded
<1>2. \A x, y \in Nat : <<y, x>> \in R <=> y < x
  OBVIOUS
<1> HIDE DEF R
<1>3. PICK x \in T : \A y \in T : ~(<<y, x>> \in R)
  BY <1>1, WFMin
<1>4. \A y \in T : ~(y < x) /\ x \in Nat /\ y \in Nat
  BY <1>2, <1>3
<1>5. \A y \in T : x <= y
  BY <1>4
<1> QED BY <1>5

(* The choices of HostDefaultGateways.                                     *)
LEMMA LeastBridge ==
  ASSUME IsConfig(cfg), NEW bs \in SUBSET NodesOfKind("bridge"), bs # {}
  PROVE  (CHOOSE b \in bs : \A c \in bs : b <= c) \in bs
<1>1. bs \subseteq Nat
  BY LenProperties DEF IsConfig, NodesOfKind, Nodes
<1>2. \E b \in bs : \A c \in bs : b <= c
  BY <1>1, Least
<1> QED BY <1>2

LEMMA NumbersOfPorts ==
  ASSUME IsConfig(cfg), NEW p \in Ports
  PROVE  p[1] \in Nat /\ NodeOf(p) \in Nat /\ NodeOf(p) \in Nodes
<1>1. p[1] \in Nat
  <2>1. p[1] \in Links /\ Links = 1 .. Len(cfg.links) /\ Len(cfg.links) \in Nat
    BY PortParts, ConfigFacts
  <2> QED BY <2>1
<1>2. NodeOf(p) \in DOMAIN cfg.kind
  BY ConfigFacts
<1> QED BY <1>1, <1>2, LenProperties DEF IsConfig, Nodes

LEMMA FirstLinkIsOne ==
  ASSUME IsConfig(cfg), NEW ps \in SUBSET Ports, ps # {}
  PROVE  FirstLink(ps) \in ps
<1> DEFINE T == {p[1] : p \in ps}
<1>1. T \subseteq Nat /\ T # {}
  BY NumbersOfPorts
<1>2. PICK k \in T : \A j \in T : k <= j
  BY <1>1, Least
<1>3. PICK p \in ps : p[1] = k
  BY <1>2
<1>4. \A q \in ps : p[1] <= q[1]
  BY <1>2, <1>3
<1> QED BY <1>4 DEF FirstLink

LEMMA LeastNodeIsOne ==
  ASSUME IsConfig(cfg), NEW ps \in SUBSET Ports, ps # {}
  PROVE  LeastNode(ps) \in ps
<1> DEFINE T == {NodeOf(p) : p \in ps}
<1>1. T \subseteq Nat /\ T # {}
  BY NumbersOfPorts
<1>2. PICK n \in T : \A m \in T : n <= m
  BY <1>1, Least
<1> DEFINE U == {p \in ps : NodeOf(p) = n}
           V == {p[1] : p \in U}
<1>3. V \subseteq Nat /\ V # {}
  BY <1>2, NumbersOfPorts
<1>4. PICK k \in V : \A j \in V : k <= j
  BY <1>3, Least
<1>5. PICK p \in U : p[1] = k
  BY <1>4
<1>6. ASSUME NEW q \in ps
      PROVE  NodeOf(p) < NodeOf(q) \/ (NodeOf(p) = NodeOf(q) /\ p[1] <= q[1])
  <2>1. n <= NodeOf(q) /\ n \in Nat /\ NodeOf(q) \in Nat /\ NodeOf(p) = n
    BY <1>1, <1>2, <1>5
  <2>2. CASE NodeOf(q) = n
    BY <1>4, <1>5, <2>1, <2>2
  <2> QED BY <2>1, <2>2
<1> QED BY <1>5, <1>6 DEF LeastNode

(* In an accepted plan without addresses of the configuration, the         *)
(* addresses of interfaces on one segment are in one network.              *)
LEMMA AcceptedAddresses ==
  ASSUME PlanInv, phase = "accepted", NoneGiven
  PROVE  /\ IsConfig(cfg)
         /\ Addressed = {p \in Ports : KindOf(p) # "bridge"}
         /\ \A p \in Addressed : ip[p].addr # 0
         /\ \A p, q \in Addressed : SameSegment(p, q) => Network(ip[p]) = Network(ip[q])
<1>1. IsConfig(cfg)
  BY DEF PlanInv, SubnetInv, TypeInv, TypeOK
<1>2. Addressed = {p \in Ports : KindOf(p) # "bridge"}
  BY PlanInvUsable DEF AddressesUsable, Addressed
<1>3. \A p \in Ports : Automatic(p[1])
  BY PortParts DEF NoneGiven
<1>4. ASSUME NEW p \in Addressed PROVE ip[p].addr # 0
  <2>1. p \in Ports /\ ip[p] # Unset
    BY DEF Addressed
  <2>2. /\ subnet[p[1]] \in Cidrs /\ ip[p].addr > subnet[p[1]].addr
        /\ ip[p].addr = subnet[p[1]].addr + Number(p) /\ Number(p) \in Nat
    BY <1>3, <2>1, PlacedUsable
  <2> QED BY <2>2 DEF Cidrs
<1>5. ASSUME NEW p \in Addressed, NEW q \in Addressed, SameSegment(p, q)
      PROVE  Network(ip[p]) = Network(ip[q])
  <2>1. p \in Ports /\ q \in Ports /\ ip[p] # Unset /\ ip[q] # Unset
    BY DEF Addressed
  <2>2. Network(ip[p]) = subnet[p[1]] /\ Network(ip[q]) = subnet[q[1]]
    BY <1>3, <2>1, NetworkIsSubnet
  <2>3. CASE p[1] = q[1]
    BY <2>2, <2>3
  <2>4. CASE OnBridge(p[1]) /\ NodeOf(OtherEnd(p)) = NodeOf(OtherEnd(q))
    <3>1. Across(p) = Across(q) /\ KindOf(p) # "bridge" /\ KindOf(q) # "bridge"
      BY <1>2, <2>4 DEF Across, OtherEnd
    <3>2. cfg.kind[Across(p)] = "bridge" /\ OnBridge(q[1])
      BY <1>1, <2>1, <2>4, <3>1, BridgeAcross
    <3>3. subnet[p[1]] = subnet[q[1]]
      BY <1>3, <2>1, <2>4, <3>1, <3>2 DEF PlanInv, SharedInv
    <3> QED BY <2>2, <3>3
  <2> QED BY <1>5, <2>3, <2>4 DEF SameSegment
<1> QED BY <1>1, <1>2, <1>4, <1>5

(* A router near a host is one that GatewayOf finds.                       *)
LEMMA NearIsFound ==
  ASSUME PlanInv, phase = "accepted", NoneGiven, NEW h \in Hosts,
         NEW p \in PortsOf(h), NEW q \in Addressed, KindOf(q) = "router", SameSegment(p, q)
  PROVE  \/ KindOf(OtherEnd(p)) = "router" /\ ip[OtherEnd(p)] # Unset
         \/ \E b \in NodesOfKind("bridge") :
              Facing(b, "router") # {} /\ \E r \in Facing(b, "host") : NodeOf(r) = h
<1>1. /\ p \in Ports /\ q \in Ports /\ KindOf(p) = "host" /\ NodeOf(p) = h /\ IsConfig(cfg)
      /\ p \in Addressed /\ ip[p] # Unset /\ ip[q] # Unset
  BY AcceptedAddresses DEF PortsOf, Hosts, NodesOfKind, KindOf, Addressed
<1>2. CASE p[1] = q[1]
  <2>1. p # q /\ p = <<p[1], p[2]>> /\ q = <<q[1], q[2]>>
    BY <1>1, PortParts
  <2>2. q[2] \in {1, 2} /\ \A s \in {1, 2} : s = p[2] \/ s = 3 - p[2]
    BY <1>1, PortParts
  <2>3. q = OtherEnd(p)
    BY <1>2, <2>1, <2>2 DEF OtherEnd
  <2> QED BY <1>1, <2>3
<1>3. CASE OnBridge(p[1]) /\ NodeOf(OtherEnd(p)) = NodeOf(OtherEnd(q))
  <2> DEFINE b == NodeOf(OtherEnd(p))
  <2>1. b = Across(p)
    BY DEF OtherEnd, Across
  <2>2. b \in NodesOfKind("bridge")
    BY <1>1, <1>3, <2>1, BridgeAcross DEF NodesOfKind, Nodes
  <2>3. p \in Facing(b, "host") /\ q \in Facing(b, "router")
    BY <1>1, <1>3 DEF Facing
  <2> QED BY <1>1, <2>2, <2>3
<1> QED BY <1>2, <1>3 DEF SameSegment

(* And the one that GatewayOf finds is near the host.                      *)
LEMMA FoundIsNear ==
  ASSUME PlanInv, phase = "accepted", NoneGiven, NEW h \in Hosts
  PROVE  LET near == {x \in PortsOf(h) \X Addressed : KindOf(x[2]) = "router" /\ SameSegment(x[1], x[2])}
         IN  /\ GatewayOf(h) # 0 <=> near # {}
             /\ GatewayOf(h) # 0 => \E x \in near :
                  GatewayOf(h) = ip[x[2]].addr /\ Network(ip[x[1]]) = Network(ip[x[2]])
<1> DEFINE near == {x \in PortsOf(h) \X Addressed : KindOf(x[2]) = "router" /\ SameSegment(x[1], x[2])}
           bs == {b \in NodesOfKind("bridge") :
                    Facing(b, "router") # {} /\ \E p \in Facing(b, "host") : NodeOf(p) = h}
           ps == {OtherEnd(p) : p \in {q \in PortsOf(h) : KindOf(OtherEnd(q)) = "router"
                                                       /\ ip[OtherEnd(q)] # Unset}}
           b0 == CHOOSE b \in bs : \A c \in bs : b <= c
           q0 == LeastNode(Facing(b0, "router"))
           q1 == FirstLink(ps)
<1>1. /\ IsConfig(cfg)
      /\ Addressed = {p \in Ports : KindOf(p) # "bridge"}
      /\ \A p \in Addressed : ip[p].addr # 0
      /\ \A p, q \in Addressed : SameSegment(p, q) => Network(ip[p]) = Network(ip[q])
  BY AcceptedAddresses
<1>2. GatewayOf(h) = IF bs # {} THEN ip[q0].addr ELSE IF ps # {} THEN ip[q1].addr ELSE 0
  BY DEF GatewayOf
<1>3. PortsOf(h) \subseteq Addressed
  BY <1>1 DEF PortsOf, Hosts, NodesOfKind, KindOf
<1>4. ASSUME NEW p \in PortsOf(h), NEW q \in Addressed, KindOf(q) = "router", SameSegment(p, q),
             GatewayOf(h) = ip[q].addr
      PROVE  /\ GatewayOf(h) # 0
             /\ \E x \in near : GatewayOf(h) = ip[x[2]].addr /\ Network(ip[x[1]]) = Network(ip[x[2]])
  <2>1. <<p, q>> \in near
    BY <1>4
  <2>2. Network(ip[p]) = Network(ip[q]) /\ ip[q].addr # 0
    BY <1>1, <1>3, <1>4
  <2> QED BY <1>4, <2>1, <2>2
<1>5. ASSUME bs # {}
      PROVE  \E p \in PortsOf(h), q \in Addressed :
               KindOf(q) = "router" /\ SameSegment(p, q) /\ GatewayOf(h) = ip[q].addr
  <2>1. b0 \in bs
    <3>1. bs \in SUBSET NodesOfKind("bridge")
      OBVIOUS
    <3> HIDE DEF bs
    <3> QED BY <1>1, <1>5, <3>1, LeastBridge
  <2>2. q0 \in Facing(b0, "router")
    <3>1. Facing(b0, "router") \in SUBSET Ports /\ Facing(b0, "router") # {}
      BY <2>1 DEF Facing
    <3> HIDE DEF b0
    <3> QED BY <1>1, <3>1, LeastNodeIsOne
  <2>3. PICK p \in Facing(b0, "host") : NodeOf(p) = h
    BY <2>1
  <2>4. GatewayOf(h) = ip[q0].addr
    BY <1>2, <1>5
  <2> HIDE DEF bs, b0, q0
  <2>5. p \in PortsOf(h) /\ q0 \in Addressed /\ KindOf(q0) = "router"
    BY <2>2, <2>3 DEF Facing, PortsOf, Addressed
  <2>6. NodeOf(OtherEnd(p)) = b0 /\ NodeOf(OtherEnd(q0)) = b0
    BY <2>2, <2>3 DEF Facing
  <2>7. OnBridge(p[1])
    <3>1. KindOf(OtherEnd(p)) = "bridge"
      BY <2>1, <2>6 DEF bs, KindOf, NodesOfKind
    <3>2. p \in Ports
      BY <2>3 DEF Facing
    <3> QED BY <3>1, <3>2, PortParts DEF OnBridge, OtherEnd
  <2>8. SameSegment(p, q0)
    BY <2>6, <2>7 DEF SameSegment
  <2> QED BY <2>4, <2>5, <2>8
<1>6. ASSUME bs = {}, ps # {}
      PROVE  \E p \in PortsOf(h), q \in Addressed :
               KindOf(q) = "router" /\ SameSegment(p, q) /\ GatewayOf(h) = ip[q].addr
  <2>1. ps \in SUBSET Ports
    BY PortParts DEF OtherEnd, PortsOf
  <2>2. GatewayOf(h) = ip[q1].addr
    BY <1>2, <1>6
  <2>3. q1 \in ps
    <3> HIDE DEF ps
    <3> QED BY <1>1, <1>6, <2>1, FirstLinkIsOne
  <2>4. PICK p \in PortsOf(h) : q1 = OtherEnd(p) /\ KindOf(q1) = "router" /\ ip[q1] # Unset
    BY <2>3
  <2> HIDE DEF bs, ps, q1
  <2>5. q1 \in Addressed
    BY <2>1, <2>3, <2>4 DEF Addressed
  <2>6. SameSegment(p, q1)
    BY <2>4 DEF SameSegment, OtherEnd
  <2> QED BY <2>2, <2>4, <2>5, <2>6
<1>7. ASSUME near # {} PROVE bs # {} \/ ps # {}
  <2>1. PICK x \in near : TRUE
    BY <1>7
  <2>2. x[1] \in PortsOf(h) /\ x[2] \in Addressed /\ KindOf(x[2]) = "router" /\ SameSegment(x[1], x[2])
    OBVIOUS
  <2>3. CASE KindOf(OtherEnd(x[1])) = "router" /\ ip[OtherEnd(x[1])] # Unset
    <3>1. OtherEnd(x[1]) \in ps
      BY <2>2, <2>3
    <3> QED BY <3>1
  <2>4. CASE \E b \in NodesOfKind("bridge") :
               Facing(b, "router") # {} /\ \E r \in Facing(b, "host") : NodeOf(r) = h
    BY <2>4
  <2> QED BY <2>2, <2>3, <2>4, NearIsFound
<1>8. CASE bs # {} \/ ps # {}
  <2>1. \E p \in PortsOf(h), q \in Addressed :
          KindOf(q) = "router" /\ SameSegment(p, q) /\ GatewayOf(h) = ip[q].addr
    BY <1>5, <1>6, <1>8
  <2> HIDE DEF bs, ps, near
  <2>2. GatewayOf(h) # 0 /\ \E x \in near : GatewayOf(h) = ip[x[2]].addr /\ Network(ip[x[1]]) = Network(ip[x[2]])
    BY <1>4, <2>1
  <2>3. near # {}
    BY <2>2
  <2> QED BY <2>2, <2>3 DEF near
<1>9. CASE bs = {} /\ ps = {}
  <2>1. GatewayOf(h) = 0 /\ near = {}
    BY <1>2, <1>7, <1>9
  <2> HIDE DEF bs, ps, near
  <2> QED BY <2>1 DEF near
<1> QED BY <1>8, <1>9

(* Gateways are computed once the plan is accepted, and the plan is not    *)
(* changed any more.                                                       *)
LEMMA StageInvInit == PlanInit => StageInv
BY DEF PlanInit, StageInv

LEMMA StageInvNext == StageInv /\ [PlanNext]_planVars => StageInv'
<1> SUFFICES ASSUME StageInv, [PlanNext]_planVars PROVE StageInv'
  OBVIOUS
<1>1. UNCHANGED vars => Hosts' = Hosts /\ [h \in Hosts |-> GatewayOf(h)]' = [h \in Hosts |-> GatewayOf(h)]
  <2> SUFFICES ASSUME UNCHANGED vars
               PROVE  Hosts' = Hosts /\ [h \in Hosts |-> GatewayOf(h)]' = [h \in Hosts |-> GatewayOf(h)]
    OBVIOUS
  <2>1. cfg' = cfg /\ ip' = ip
    BY DEF vars, plan
  <2> QED BY <2>1 DEF Hosts, NodesOfKind, Nodes, GatewayOf, Facing, LeastNode, FirstLink, PortsOf,
                      OtherEnd, NodeOf, KindOf, Ports, Links
<1>2. CASE Next /\ UNCHANGED <<stage, routes, gateways>>
  <2>1. phase # "accepted"
    BY <1>2 DEF Next, CheckShape, ManualLink, CollectSegments, BridgeSegment, EnterDirect,
                DirectLink, EnterCheck, CheckDuplicates
  <2> QED BY <1>2, <2>1 DEF StageInv
<1>3. CASE ComputeStaticRoutes
  <2>1. phase = "accepted" /\ phase' = phase /\ stage' # "done"
    BY <1>3 DEF ComputeStaticRoutes, vars
  <2> QED BY <2>1 DEF StageInv
<1>4. CASE HostDefaultGateways
  <2>1. phase' = phase /\ phase = "accepted" /\ UNCHANGED vars /\ gateways' = [h \in Hosts |-> GatewayOf(h)]
    BY <1>4 DEF HostDefaultGateways, vars, StageInv
  <2> QED BY <1>1, <2>1 DEF StageInv
<1>5. CASE UNCHANGED planVars
  <2>1. UNCHANGED <<stage, gateways>> /\ UNCHANGED vars /\ phase' = phase
    BY <1>5 DEF planVars, vars
  <2> QED BY <1>1, <2>1 DEF StageInv
<1> QED BY <1>2, <1>3, <1>4, <1>5 DEF PlanNext

(* GatewaysLocal, for every configuration: a host is given a gateway       *)
(* exactly when a router is on one of its segments, and it is one of       *)
(* those, in a network of the host (README.md:11).                         *)
THEOREM GatewaysAreLocal == PlanSpec => []GatewaysLocal
<1>1. PlanInv /\ StageInv => GatewaysLocal
  <2> SUFFICES ASSUME PlanInv, StageInv, stage = "done", NoneGiven, NEW h \in Hosts
               PROVE  LET near == {x \in PortsOf(h) \X Addressed :
                                     KindOf(x[2]) = "router" /\ SameSegment(x[1], x[2])}
                      IN  /\ gateways[h] # 0 <=> near # {}
                          /\ gateways[h] # 0 => \E x \in near :
                               gateways[h] = ip[x[2]].addr /\ Network(ip[x[1]]) = Network(ip[x[2]])
    BY DEF GatewaysLocal, NoneGiven
  <2>1. gateways[h] = GatewayOf(h) /\ phase = "accepted"
    BY DEF StageInv
  <2> QED BY <2>1, FoundIsNear
<1>2. PlanSpec => []StageInv
  BY StageInvInit, StageInvNext, PTL DEF PlanSpec
<1> QED BY <1>1, <1>2, PlanSpecKeepsPlan, PlanInvAlways, PTL
-----------------------------------------------------------------------------
(* Recursion over the numbers up to N.                                     *)

(* What holds of 0 and of each number after one of which it holds.         *)
LEMMA Induction ==
  ASSUME NEW N \in Nat, NEW P, 0 \in P, \A k \in 1 .. N : k - 1 \in P => k \in P
  PROVE  \A k \in 0 .. N : k \in P
<1> DEFINE T == {k \in 0 .. N : k \notin P}
<1>1. SUFFICES ASSUME T # {} PROVE FALSE
  OBVIOUS
<1>2. PICK m \in T : \A k \in T : m <= k
  <2>1. T \in SUBSET Nat
    OBVIOUS
  <2> HIDE DEF T
  <2> QED BY <1>1, <2>1, Least
<1>3. m # 0 /\ m \in 0 .. N /\ m \notin P
  BY <1>2
<1>4. m \in 1 .. N /\ m - 1 \in 0 .. N /\ ~(m <= m - 1)
  BY <1>3
<1>5. m - 1 \in P
  BY <1>2, <1>4
<1> QED BY <1>3, <1>4, <1>5

(* f is the result of a in S and of N steps g.                             *)
StepsOn(S, N) == [(1 .. N) \X S -> S]
Unrolls(f, S, N, a, g) ==
  f \in [0 .. N -> S] /\ f[0] = a /\ \A k \in 1 .. N : f[k] = g[<<k, f[k - 1]>>]

(* A recursive definition has a function that satisfies it.                *)
LEMMA Iteration ==
  ASSUME NEW N \in Nat, NEW S, NEW a \in S, NEW g \in StepsOn(S, N)
  PROVE  \E f : Unrolls(f, S, N, a, g)
<1> DEFINE Upto(n, f) == f[0] = a /\ \A k \in 1 .. n : f[k] = g[<<k, f[k - 1]>>]
           P == {n \in 0 .. N : \E f \in [0 .. n -> S] : Upto(n, f)}
<1>g. \A k \in 1 .. N, x \in S : g[<<k, x>>] \in S
  BY DEF StepsOn
<1>1. 0 \in P
  <2> DEFINE f == [k \in 0 .. 0 |-> a]
  <2>1. f \in [0 .. 0 -> S] /\ f[0] = a
    OBVIOUS
  <2>2. 1 .. 0 = {} /\ 0 \in 0 .. N
    OBVIOUS
  <2> HIDE DEF f
  <2>3. Upto(0, f)
    BY <2>1, <2>2
  <2> HIDE DEF Upto
  <2> QED BY <2>1, <2>2, <2>3
<1>2. ASSUME NEW n \in 1 .. N, n - 1 \in P PROVE n \in P
  <2>1. PICK f \in [0 .. n - 1 -> S] : Upto(n - 1, f)
    BY <1>2
  <2> DEFINE h == [k \in 0 .. n |-> IF k = n THEN g[<<n, f[n - 1]>>] ELSE f[k]]
  <2>2. f[n - 1] \in S /\ n - 1 \in 0 .. n - 1
    OBVIOUS
  <2>3. h \in [0 .. n -> S]
    <3> SUFFICES ASSUME NEW k \in 0 .. n PROVE (IF k = n THEN g[<<n, f[n - 1]>>] ELSE f[k]) \in S
      OBVIOUS
    <3>1. k # n => k \in 0 .. n - 1
      OBVIOUS
    <3>2. g[<<n, f[n - 1]>>] \in S
      BY <1>g, <2>2
    <3> QED BY <3>1, <3>2
  <2>4. \A k \in 0 .. n - 1 : h[k] = f[k]
    OBVIOUS
  <2>5. h[n] = g[<<n, f[n - 1]>>]
    OBVIOUS
  <2> HIDE DEF h
  <2>6. ASSUME NEW k \in 1 .. n PROVE h[k] = g[<<k, h[k - 1]>>]
    <3>1. k - 1 \in 0 .. n - 1 /\ (k # n => k \in 0 .. n - 1 /\ k \in 1 .. n - 1)
      OBVIOUS
    <3>2. CASE k = n
      BY <2>2, <2>4, <2>5, <3>1, <3>2
    <3>3. CASE k # n
      BY <2>1, <2>4, <3>1, <3>3
    <3> QED BY <3>2, <3>3
  <2>7. h[0] = a
    BY <2>1, <2>2, <2>4
  <2>8. Upto(n, h)
    BY <2>6, <2>7
  <2> QED BY <2>3, <2>8
<1> HIDE DEF P
<1>3. \A k \in 0 .. N : k \in P
  BY <1>1, <1>2, Induction
<1>4. N \in P
  BY <1>3
<1>5. PICK f \in [0 .. N -> S] : Upto(N, f)
  BY <1>4 DEF P
<1> QED BY <1>5 DEF Unrolls

-----------------------------------------------------------------------------
(* The search of bfsNextHop.                                               *)

SearchStates == [queue : Seq(Routers), parent : [Routers -> Routers \cup {0}]]

LEMMA DiscoverType ==
  ASSUME NEW src, NEW r \in Routers, NEW n \in Routers, NEW s \in SearchStates
  PROVE  Discover(src, r, n, s) \in SearchStates
<1>1. s.queue \in Seq(Routers) /\ s.parent \in [Routers -> Routers \cup {0}]
  BY DEF SearchStates
<1>2. Append(s.queue, n) \in Seq(Routers) /\ [s.parent EXCEPT ![n] = r] \in [Routers -> Routers \cup {0}]
  BY <1>1
<1> QED BY <1>2 DEF Discover, SearchStates

LEMMA NeighbourIsRouter ==
  ASSUME IsConfig(cfg), NEW k \in Links, RouterLink(k), NEW r
  PROVE  Neighbour(k, r) \in Routers
<1>1. \A s \in {1, 2} : <<k, s>> \in Ports /\ KindOf(<<k, s>>) = "router"
  BY DEF RouterLink, Ports
<1>2. \A s \in {1, 2} : NodeOf(<<k, s>>) \in Routers
  BY <1>1, ConfigFacts DEF Routers, NodesOfKind, Nodes, KindOf
<1> QED BY <1>2 DEF Neighbour

(* What Visit does link by link.                                           *)
Scans(seen, src, dst, s) ==
  LET r == Head(s.queue)
  IN  /\ seen \in [0 .. Len(cfg.links) -> SearchStates]
      /\ seen[0] = [queue |-> Tail(s.queue), parent |-> s.parent]
      /\ \A k \in 1 .. Len(cfg.links) :
           seen[k] = IF ~(RouterLink(k) /\ Touches(k, r)) THEN seen[k - 1]
                     ELSE Discover(src, r, Neighbour(k, r), seen[k - 1])
      /\ Visit(src, dst, s) = seen[Len(cfg.links)]

LEMMA VisitScans ==
  ASSUME IsConfig(cfg), NEW src, NEW dst, NEW s \in SearchStates,
         s.queue # <<>>, Head(s.queue) # dst
  PROVE  \E seen : Scans(seen, src, dst, s)
<1> DEFINE r == Head(s.queue)
           N == Len(cfg.links)
           a == [queue |-> Tail(s.queue), parent |-> s.parent]
           Body(k, x) == IF ~(RouterLink(k) /\ Touches(k, r)) THEN x
                         ELSE Discover(src, r, Neighbour(k, r), x)
           g == [x \in (1 .. N) \X SearchStates |-> Body(x[1], x[2])]
           seen[k \in 0 .. N] ==
             IF k = 0 THEN [queue |-> Tail(s.queue), parent |-> s.parent]
             ELSE IF ~(RouterLink(k) /\ Touches(k, r)) THEN seen[k - 1]
             ELSE Discover(src, r, Neighbour(k, r), seen[k - 1])
<1>1. N \in Nat /\ Links = 1 .. N
  BY ConfigFacts
<1>2. s.queue \in Seq(Routers) /\ s.parent \in [Routers -> Routers \cup {0}] /\ r \in Routers
      /\ Tail(s.queue) \in Seq(Routers)
  BY DEF SearchStates
<1>3. a \in SearchStates
  BY <1>2 DEF SearchStates
<1>4. \A k \in 1 .. N, x \in SearchStates : Body(k, x) \in SearchStates
  BY <1>1, <1>2, DiscoverType, NeighbourIsRouter
<1>5. Visit(src, dst, s) = seen[N]
  BY DEF Visit
<1>6. \E f : f = [k \in 0 .. N |-> IF k = 0 THEN a ELSE Body(k, f[k - 1])]
  <2>0. g \in StepsOn(SearchStates, N)
    <3> HIDE DEF Body
    <3>1. \A x \in (1 .. N) \X SearchStates : Body(x[1], x[2]) \in SearchStates
      BY <1>4
    <3> QED BY <3>1 DEF StepsOn
  <2>1. \A k \in 1 .. N, x \in SearchStates : g[<<k, x>>] = Body(k, x)
    OBVIOUS
  <2> HIDE DEF a, Body, g, N, seen
  <2>2. PICK f : Unrolls(f, SearchStates, N, a, g)
    <3>2. N \in Nat
      BY <1>1
    <3> QED BY <1>3, <2>0, <3>2, Iteration
  <2>3. \A k \in 0 .. N : f[k] = IF k = 0 THEN a ELSE Body(k, f[k - 1])
    <3> SUFFICES ASSUME NEW k \in 0 .. N PROVE f[k] = IF k = 0 THEN a ELSE Body(k, f[k - 1])
      OBVIOUS
    <3>1. k # 0 => k \in 1 .. N /\ k - 1 \in 0 .. N
      BY <1>1
    <3> QED BY <2>1, <2>2, <3>1 DEF Unrolls
  <2> QED BY <2>2, <2>3 DEF Unrolls
<1>7. seen = [k \in 0 .. N |-> IF k = 0 THEN a ELSE Body(k, seen[k - 1])]
  BY <1>6 DEF seen
<1> HIDE DEF a, Body, seen
<1>8. seen[0] = a /\ \A k \in 1 .. N : seen[k] = Body(k, seen[k - 1])
  BY <1>1, <1>7
<1>9. \A k \in 0 .. N : seen[k] \in SearchStates
  <2> HIDE DEF N
  <2> DEFINE P == {k \in 0 .. N : seen[k] \in SearchStates}
  <2>1. 0 \in P
    BY <1>1, <1>3, <1>8
  <2>2. ASSUME NEW k \in 1 .. N, k - 1 \in P PROVE k \in P
    <3>0. k \in 0 .. N
      BY <1>1
    <3>1. seen[k - 1] \in SearchStates /\ seen[k] = Body(k, seen[k - 1]) /\ k \in 0 .. N
      BY <1>8, <2>2, <3>0
    <3>2. seen[k] \in SearchStates
      BY <1>4, <3>1
    <3> QED BY <3>1, <3>2
  <2> HIDE DEF P, N
  <2>3. \A k \in 0 .. N : k \in P
    BY <1>1, <2>1, <2>2, Induction
  <2> QED BY <2>3 DEF P
<1>10. seen \in [0 .. N -> SearchStates]
  BY <1>7, <1>9
<1> QED BY <1>5, <1>8, <1>10 DEF a, Body, Scans

LEMMA RoutersFinite ==
  ASSUME IsConfig(cfg)
  PROVE  IsFiniteSet(Routers) /\ Cardinality(Routers) \in Nat /\ Routers \subseteq Nat /\ 0 \notin Routers
<1>1. Len(cfg.kind) \in Nat /\ DOMAIN cfg.kind = 1 .. Len(cfg.kind)
  BY LenProperties DEF IsConfig
<1>2. Routers \subseteq 1 .. Len(cfg.kind) /\ IsFiniteSet(1 .. Len(cfg.kind))
  BY <1>1, FS_Interval DEF Routers, NodesOfKind, Nodes
<1>3. IsFiniteSet(Routers)
  BY <1>2, FS_Subset
<1>4. Routers \subseteq Nat /\ 0 \notin Routers
  BY <1>1, <1>2
<1> QED BY <1>3, <1>4, FS_CardinalityType

LEMMA VisitType ==
  ASSUME IsConfig(cfg), NEW src, NEW dst, NEW s \in SearchStates
  PROVE  Visit(src, dst, s) \in SearchStates
<1>1. CASE s.queue = <<>> \/ Head(s.queue) = dst
  BY <1>1 DEF Visit
<1>2. CASE s.queue # <<>> /\ Head(s.queue) # dst
  <2>1. PICK seen : Scans(seen, src, dst, s)
    BY <1>2, VisitScans
  <2>2. Len(cfg.links) \in 0 .. Len(cfg.links)
    BY ConfigFacts
  <2> QED BY <2>1, <2>2 DEF Scans
<1> QED BY <1>1, <1>2

(* What Search does visit by visit.                                        *)
Unvisited == [n \in Routers |-> 0]

Visits(after, src, dst) ==
  /\ after \in [0 .. Cardinality(Routers) -> SearchStates]
  /\ after[0] = [queue |-> <<src>>, parent |-> Unvisited]
  /\ \A i \in 1 .. Cardinality(Routers) : after[i] = Visit(src, dst, after[i - 1])
  /\ Search(src, dst) = after[Cardinality(Routers)].parent

LEMMA SearchRuns ==
  ASSUME IsConfig(cfg), NEW src \in Routers, NEW dst
  PROVE  \E after : Visits(after, src, dst)
<1> DEFINE N == Cardinality(Routers)
           a == [queue |-> <<src>>, parent |-> [n \in Routers |-> 0]]
           g == [x \in (1 .. N) \X SearchStates |-> Visit(src, dst, x[2])]
           after[i \in 0 .. N] ==
             IF i = 0 THEN [queue |-> <<src>>, parent |-> [n \in Routers |-> 0]]
             ELSE Visit(src, dst, after[i - 1])
<1>1. N \in Nat
  BY RoutersFinite
<1>2. a \in SearchStates
  BY DEF SearchStates
<1>3. \A x \in SearchStates : Visit(src, dst, x) \in SearchStates
  BY VisitType
<1>4. Search(src, dst) = after[N].parent
  BY DEF Search
<1>5. \E f : f = [i \in 0 .. N |-> IF i = 0 THEN a ELSE Visit(src, dst, f[i - 1])]
  <2>1. g \in StepsOn(SearchStates, N)
    <3>1. \A x \in (1 .. N) \X SearchStates : Visit(src, dst, x[2]) \in SearchStates
      BY <1>3
    <3> QED BY <3>1 DEF StepsOn
  <2>2. \A i \in 1 .. N, x \in SearchStates : g[<<i, x>>] = Visit(src, dst, x)
    OBVIOUS
  <2> HIDE DEF a, g, N, after
  <2>3. PICK f : Unrolls(f, SearchStates, N, a, g)
    BY <1>1, <1>2, <2>1, Iteration
  <2>4. \A i \in 0 .. N : f[i] = IF i = 0 THEN a ELSE Visit(src, dst, f[i - 1])
    <3> SUFFICES ASSUME NEW i \in 0 .. N PROVE f[i] = IF i = 0 THEN a ELSE Visit(src, dst, f[i - 1])
      OBVIOUS
    <3>1. i # 0 => i \in 1 .. N /\ i - 1 \in 0 .. N
      BY <1>1
    <3> QED BY <2>2, <2>3, <3>1 DEF Unrolls
  <2> QED BY <2>3, <2>4 DEF Unrolls
<1>6. after = [i \in 0 .. N |-> IF i = 0 THEN a ELSE Visit(src, dst, after[i - 1])]
  BY <1>5 DEF after
<1> HIDE DEF a, after
<1>7. after[0] = a /\ \A i \in 1 .. N : after[i] = Visit(src, dst, after[i - 1])
  BY <1>1, <1>6
<1>8. \A i \in 0 .. N : after[i] \in SearchStates
  <2> HIDE DEF N
  <2> DEFINE P == {i \in 0 .. N : after[i] \in SearchStates}
  <2>1. 0 \in P
    BY <1>1, <1>2, <1>7
  <2>2. ASSUME NEW i \in 1 .. N, i - 1 \in P PROVE i \in P
    <3>1. i \in 0 .. N /\ after[i - 1] \in SearchStates
      BY <1>1, <2>2
    <3>2. after[i] \in SearchStates
      BY <1>3, <1>7, <3>1
    <3> QED BY <3>1, <3>2
  <2> HIDE DEF P
  <2>3. \A i \in 0 .. N : i \in P
    BY <1>1, <2>1, <2>2, Induction
  <2> QED BY <2>3 DEF P
<1>9. after \in [0 .. N -> SearchStates]
  BY <1>6, <1>8
<1> QED BY <1>4, <1>7, <1>9 DEF a, Unvisited, Visits

(* What NextHop does parent by parent.                                     *)
Retraces(back, src, dst, parent) ==
  /\ back \in [0 .. Cardinality(Routers) -> Routers \cup {0}]
  /\ back[0] = dst
  /\ \A i \in 1 .. Cardinality(Routers) :
       back[i] = IF back[i - 1] = 0 \/ parent[back[i - 1]] = src THEN back[i - 1]
                 ELSE parent[back[i - 1]]
  /\ NextHop(src, dst) = back[Cardinality(Routers)]

LEMMA NextHopRuns ==
  ASSUME IsConfig(cfg), NEW src \in Routers, NEW dst \in Routers,
         NEW parent \in [Routers -> Routers \cup {0}], parent = Search(src, dst)
  PROVE  \E back : Retraces(back, src, dst, parent)
<1> DEFINE N == Cardinality(Routers)
           S == Routers \cup {0}
           Body(x) == IF x = 0 \/ parent[x] = src THEN x ELSE parent[x]
           g == [x \in (1 .. N) \X S |-> Body(x[2])]
           back[i \in 0 .. N] ==
             IF i = 0 THEN dst
             ELSE IF back[i - 1] = 0 \/ parent[back[i - 1]] = src THEN back[i - 1]
             ELSE parent[back[i - 1]]
<1>1. N \in Nat
  BY RoutersFinite
<1>2. dst \in S
  OBVIOUS
<1>3. \A x \in S : Body(x) \in S
  OBVIOUS
<1>4. NextHop(src, dst) = back[N]
  BY DEF NextHop
<1>5. \E f : f = [i \in 0 .. N |-> IF i = 0 THEN dst ELSE Body(f[i - 1])]
  <2>1. g \in StepsOn(S, N)
    <3> HIDE DEF Body, S
    <3>1. \A x \in (1 .. N) \X S : Body(x[2]) \in S
      BY <1>3
    <3> QED BY <3>1 DEF StepsOn
  <2>2. \A i \in 1 .. N, x \in S : g[<<i, x>>] = Body(x)
    OBVIOUS
  <2> HIDE DEF g, N, back, S, Body
  <2>3. PICK f : Unrolls(f, S, N, dst, g)
    BY <1>1, <1>2, <2>1, Iteration
  <2>4. \A i \in 0 .. N : f[i] = IF i = 0 THEN dst ELSE Body(f[i - 1])
    <3> SUFFICES ASSUME NEW i \in 0 .. N PROVE f[i] = IF i = 0 THEN dst ELSE Body(f[i - 1])
      OBVIOUS
    <3>1. i # 0 => i \in 1 .. N /\ i - 1 \in 0 .. N
      BY <1>1
    <3> QED BY <2>2, <2>3, <3>1 DEF Unrolls
  <2> QED BY <2>3, <2>4 DEF Unrolls
<1>6. back = [i \in 0 .. N |-> IF i = 0 THEN dst ELSE Body(back[i - 1])]
  BY <1>5 DEF back
<1> HIDE DEF back, Body
<1>7. back[0] = dst /\ \A i \in 1 .. N : back[i] = Body(back[i - 1])
  BY <1>1, <1>6
<1>8. \A i \in 0 .. N : back[i] \in S
  <2> HIDE DEF N, S
  <2> DEFINE P == {i \in 0 .. N : back[i] \in S}
  <2>1. 0 \in P
    BY <1>1, <1>2, <1>7
  <2>2. ASSUME NEW i \in 1 .. N, i - 1 \in P PROVE i \in P
    <3>1. i \in 0 .. N /\ back[i - 1] \in S
      BY <1>1, <2>2
    <3>2. back[i] \in S
      BY <1>3, <1>7, <3>1
    <3> QED BY <3>1, <3>2
  <2> HIDE DEF P
  <2>3. \A i \in 0 .. N : i \in P
    BY <1>1, <2>1, <2>2, Induction
  <2> QED BY <2>3 DEF P
<1>9. back \in [0 .. N -> S]
  BY <1>6, <1>8
<1> QED BY <1>4, <1>7, <1>9 DEF Body, Retraces

(* The routers reached so far, each with the length lev of its way back.   *)
(* Those in done have left the queue.  The way of those in the queue is    *)
(* as long as front or one longer, the shorter ones first.                 *)
Linked(r, n) == \E p \in LinkEnds : NodeOf(p) = r /\ NodeOf(OtherEnd(p)) = n

Reached(src, s) == {n \in Routers : n = src \/ s.parent[n] # 0}

TreeOK(src, s, lev, done) ==
  /\ s.parent[src] = 0 /\ lev[src] = 0
  /\ \A n \in Routers : s.parent[n] # 0 =>
       s.parent[n] \in done /\ Linked(s.parent[n], n) /\ lev[n] = lev[s.parent[n]] + 1

QueueOK(src, s, lev, done, front) ==
  /\ \A j \in 1 .. Len(s.queue) :
       /\ s.queue[j] \in Reached(src, s) \ done
       /\ front <= lev[s.queue[j]] /\ lev[s.queue[j]] <= front + 1
  /\ \A i, j \in 1 .. Len(s.queue) : i < j =>
       s.queue[i] # s.queue[j] /\ lev[s.queue[i]] <= lev[s.queue[j]]
  /\ \A n \in Reached(src, s) \ done : \E j \in 1 .. Len(s.queue) : s.queue[j] = n

(* The neighbours of those in done are reached, except by links of r       *)
(* behind the k-th.                                                        *)
ScannedOK(src, s, lev, done, r, k) == \A p \in LinkEnds :
  NodeOf(p) \in done /\ (NodeOf(p) = r => p[1] <= k) =>
    /\ NodeOf(OtherEnd(p)) \in Reached(src, s)
    /\ lev[NodeOf(OtherEnd(p))] <= lev[NodeOf(p)] + 1

BoundsOK(src, dst, s, lev, done, front, most) ==
  /\ src \in Routers /\ s \in SearchStates /\ lev \in [Routers -> Nat] /\ front \in Nat /\ most \in Nat
  /\ done \subseteq Reached(src, s) /\ dst \notin done
  /\ \A n \in done : lev[n] <= front
  /\ \A n \in Reached(src, s) : lev[n] <= most

Swept(src, dst, s, lev, done, front, most, r, k) ==
  /\ BoundsOK(src, dst, s, lev, done, front, most)
  /\ TreeOK(src, s, lev, done)
  /\ QueueOK(src, s, lev, done, front)
  /\ ScannedOK(src, s, lev, done, r, k)

(* The other end of a link is the neighbour that Visit takes.              *)
LEMMA NeighbourIsOther ==
  ASSUME IsConfig(cfg), NEW p \in LinkEnds
  PROVE  /\ Neighbour(p[1], NodeOf(p)) = NodeOf(OtherEnd(p))
         /\ p[1] \in Links /\ RouterLink(p[1]) /\ Touches(p[1], NodeOf(p))
         /\ NodeOf(p) \in Routers /\ NodeOf(OtherEnd(p)) \in Routers
<1>1. p \in Ports /\ RouterLink(p[1]) /\ p[1] \in Links
  BY PortParts DEF LinkEnds
<1>2. p[2] \in {1, 2} /\ p = <<p[1], p[2]>>
  BY <1>1, PortParts
<1>3. Touches(p[1], NodeOf(p))
  BY <1>2 DEF Touches
<1>4. \A s \in {1, 2} : <<p[1], s>> \in Ports /\ NodeOf(<<p[1], s>>) \in Routers
  <2>1. \A s \in {1, 2} : <<p[1], s>> \in Ports
    BY <1>1 DEF Ports
  <2> QED BY <1>1, <2>1, ConfigFacts DEF RouterLink, Routers, NodesOfKind, Nodes, KindOf
<1>5. CASE p[2] = 1
  <2>1. p = <<p[1], 1>> /\ OtherEnd(p) = <<p[1], 2>>
    BY <1>2, <1>5 DEF OtherEnd
  <2>2. Neighbour(p[1], NodeOf(p)) = NodeOf(<<p[1], 2>>)
    BY <2>1 DEF Neighbour
  <2> QED BY <1>1, <1>3, <1>4, <2>1, <2>2
<1>6. CASE p[2] = 2
  <2>1. p = <<p[1], 2>> /\ OtherEnd(p) = <<p[1], 1>>
    BY <1>2, <1>6 DEF OtherEnd
  <2>2. Neighbour(p[1], NodeOf(p)) = NodeOf(<<p[1], 1>>)
    BY <2>1 DEF Neighbour
  <2> QED BY <1>1, <1>3, <1>4, <2>1, <2>2
<1> QED BY <1>2, <1>5, <1>6

LEMMA NeighbourIsLinked ==
  ASSUME IsConfig(cfg), NEW k \in Links, RouterLink(k), NEW r, Touches(k, r)
  PROVE  Linked(r, Neighbour(k, r)) /\ Neighbour(k, r) \in Routers
<1>1. PICK s \in {1, 2} : NodeOf(<<k, s>>) = r
  BY DEF Touches
<1>2. <<k, s>> \in LinkEnds /\ <<k, s>>[1] = k
  BY DEF LinkEnds, Ports
<1> QED BY <1>1, <1>2, NeighbourIsOther DEF Linked

(* A router that was reached before is left as it is.                      *)
LEMMA KnownNeighbour ==
  ASSUME IsConfig(cfg), NEW src, NEW dst, NEW s, NEW lev, NEW done, NEW front, NEW most,
         NEW r \in done, NEW k \in Links, lev[r] = front,
         Swept(src, dst, s, lev, done, front, most, r, k - 1), RouterLink(k), Touches(k, r),
         Neighbour(k, r) \in Reached(src, s)
  PROVE  Swept(src, dst, s, lev, done, front, most, r, k)
<1> DEFINE n == Neighbour(k, r)
<1>1. lev[n] <= front + 1
  <2>1. n \in Routers /\ lev[n] \in Nat /\ front \in Nat
    BY DEF Swept, BoundsOK, Reached
  <2>2. CASE n \in done
    BY <2>1, <2>2 DEF Swept, BoundsOK
  <2>3. CASE n \notin done
    BY <2>3 DEF Swept, QueueOK
  <2> QED BY <2>2, <2>3
<1>2. ScannedOK(src, s, lev, done, r, k)
  <2> SUFFICES ASSUME NEW p \in LinkEnds, NodeOf(p) \in done, NodeOf(p) = r => p[1] <= k
               PROVE  /\ NodeOf(OtherEnd(p)) \in Reached(src, s)
                      /\ lev[NodeOf(OtherEnd(p))] <= lev[NodeOf(p)] + 1
    BY DEF ScannedOK
  <2>1. CASE NodeOf(p) = r /\ p[1] = k
    BY <1>1, <2>1, NeighbourIsOther
  <2>2. CASE ~(NodeOf(p) = r /\ p[1] = k)
    <3>1. NodeOf(p) = r => p[1] <= k - 1
      <4>1. p[1] \in Links /\ Links = 1 .. Len(cfg.links) /\ Len(cfg.links) \in Nat
        BY NeighbourIsOther, ConfigFacts
      <4>2. p[1] \in Nat /\ k \in Nat
        BY <4>1
      <4> QED BY <2>2, <4>2
    <3> QED BY <3>1 DEF Swept, ScannedOK
  <2> QED BY <2>1, <2>2
<1> QED BY <1>2 DEF Swept

(* A link that does not concern r says nothing of its neighbours.          *)
LEMMA OtherLink ==
  ASSUME IsConfig(cfg), NEW src, NEW dst, NEW s, NEW lev, NEW done, NEW front, NEW most,
         NEW r, NEW k \in Links,
         Swept(src, dst, s, lev, done, front, most, r, k - 1), ~(RouterLink(k) /\ Touches(k, r))
  PROVE  Swept(src, dst, s, lev, done, front, most, r, k)
<1>1. ASSUME NEW p \in LinkEnds, NodeOf(p) = r => p[1] <= k
      PROVE  NodeOf(p) = r => p[1] <= k - 1
  <2>1. p[1] \in Links /\ Links = 1 .. Len(cfg.links) /\ Len(cfg.links) \in Nat
    BY NeighbourIsOther, ConfigFacts
  <2>2. p[1] \in Nat /\ k \in Nat
    BY <2>1
  <2>3. NodeOf(p) = r => p[1] # k
    BY NeighbourIsOther
  <2> QED BY <1>1, <2>2, <2>3
<1>2. ScannedOK(src, s, lev, done, r, k)
  BY <1>1 DEF Swept, ScannedOK
<1> QED BY <1>2 DEF Swept

(* A new one is queued behind the others, one step further than r.         *)
LEMMA NewNeighbour ==
  ASSUME IsConfig(cfg), NEW src, NEW dst, NEW s, NEW lev, NEW done, NEW front, NEW most,
         NEW r \in done, NEW k \in Links, lev[r] = front, front + 1 <= most,
         Swept(src, dst, s, lev, done, front, most, r, k - 1), RouterLink(k), Touches(k, r),
         NEW n, n = Neighbour(k, r), n \notin Reached(src, s)
  PROVE  LET t == [queue |-> Append(s.queue, n), parent |-> [s.parent EXCEPT ![n] = r]]
         IN  Swept(src, dst, t, [lev EXCEPT ![n] = front + 1], done, front, most, r, k)
<1> DEFINE t == [queue |-> Append(s.queue, n), parent |-> [s.parent EXCEPT ![n] = r]]
           lev2 == [lev EXCEPT ![n] = front + 1]
<1>1. /\ src \in Routers /\ s.queue \in Seq(Routers) /\ s.parent \in [Routers -> Routers \cup {0}]
      /\ lev \in [Routers -> Nat] /\ front \in Nat /\ most \in Nat /\ done \subseteq Reached(src, s)
      /\ dst \notin done
  BY DEF Swept, BoundsOK, SearchStates
<1>2. n \in Routers /\ Linked(r, n) /\ n # src /\ s.parent[n] = 0
  BY NeighbourIsLinked DEF Reached
<1>3. r \in Routers /\ r # 0 /\ r # n
  <2>1. r \in Reached(src, s)
    BY <1>1
  <2> QED BY <2>1, RoutersFinite DEF Reached
<1>4. /\ t.queue = Append(s.queue, n) /\ t.queue \in Seq(Routers)
      /\ Len(s.queue) \in Nat /\ Len(t.queue) = Len(s.queue) + 1
      /\ \A j \in 1 .. Len(s.queue) : t.queue[j] = s.queue[j]
      /\ t.queue[Len(s.queue) + 1] = n
  BY <1>1, <1>2
<1>5. /\ t.parent \in [Routers -> Routers \cup {0}] /\ t.parent[n] = r
      /\ \A m \in Routers : m # n => t.parent[m] = s.parent[m]
  BY <1>1, <1>2, <1>3
<1>6. /\ lev2 \in [Routers -> Nat] /\ lev2[n] = front + 1
      /\ \A m \in Routers : m # n => lev2[m] = lev[m]
  BY <1>1, <1>2
<1>7. t \in SearchStates
  BY <1>4, <1>5 DEF SearchStates
<1> HIDE DEF t, lev2
<1>8. Reached(src, t) = Reached(src, s) \cup {n}
  BY <1>2, <1>3, <1>5 DEF Reached
<1>9. \A m \in Reached(src, s) : m \in Routers /\ m # n /\ lev2[m] = lev[m]
  BY <1>6 DEF Reached
<1>10. BoundsOK(src, dst, t, lev2, done, front, most)
  <2>1. \A m \in done : lev2[m] <= front
    BY <1>1, <1>9 DEF Swept, BoundsOK
  <2>2. \A m \in Reached(src, t) : lev2[m] <= most
    BY <1>6, <1>8, <1>9 DEF Swept, BoundsOK
  <2> QED BY <1>1, <1>6, <1>7, <1>8, <2>1, <2>2 DEF BoundsOK
<1>11. TreeOK(src, t, lev2, done)
  <2>1. t.parent[src] = 0 /\ lev2[src] = 0
    BY <1>1, <1>2, <1>5, <1>6 DEF Swept, TreeOK
  <2>2. ASSUME NEW m \in Routers, t.parent[m] # 0
        PROVE  t.parent[m] \in done /\ Linked(t.parent[m], m) /\ lev2[m] = lev2[t.parent[m]] + 1
    <3>1. CASE m = n
      BY <1>1, <1>2, <1>5, <1>6, <1>9, <3>1
    <3>2. CASE m # n
      <4>1. t.parent[m] = s.parent[m] /\ lev2[m] = lev[m]
        BY <1>5, <1>6, <3>2
      <4>2. s.parent[m] \in done /\ Linked(s.parent[m], m) /\ lev[m] = lev[s.parent[m]] + 1
        BY <2>2, <4>1 DEF Swept, TreeOK
      <4> QED BY <1>1, <1>9, <4>1, <4>2
    <3> QED BY <3>1, <3>2
  <2> QED BY <2>1, <2>2 DEF TreeOK
<1>12. QueueOK(src, t, lev2, done, front)
  <2>1. ASSUME NEW j \in 1 .. Len(t.queue)
        PROVE  \/ j \in 1 .. Len(s.queue) /\ t.queue[j] = s.queue[j] /\ lev2[t.queue[j]] = lev[s.queue[j]]
                  /\ s.queue[j] \in Reached(src, s) \ done
                  /\ front <= lev[s.queue[j]] /\ lev[s.queue[j]] <= front + 1
               \/ j = Len(s.queue) + 1 /\ t.queue[j] = n /\ lev2[t.queue[j]] = front + 1
    <3>1. j \in 1 .. Len(s.queue) \/ j = Len(s.queue) + 1
      BY <1>4
    <3>2. CASE j \in 1 .. Len(s.queue)
      BY <1>4, <1>9, <3>2 DEF Swept, QueueOK
    <3> QED BY <1>4, <1>6, <3>1, <3>2
  <2>2. ASSUME NEW j \in 1 .. Len(t.queue)
        PROVE  /\ t.queue[j] \in Reached(src, t) \ done
               /\ front <= lev2[t.queue[j]] /\ lev2[t.queue[j]] <= front + 1
    BY <1>1, <1>8, <2>1
  <2>3. ASSUME NEW i \in 1 .. Len(t.queue), NEW j \in 1 .. Len(t.queue), i < j
        PROVE  t.queue[i] # t.queue[j] /\ lev2[t.queue[i]] <= lev2[t.queue[j]]
    <3>1. i \in 1 .. Len(s.queue)
      BY <1>4, <2>3
    <3>2. /\ t.queue[i] = s.queue[i] /\ lev2[t.queue[i]] = lev[s.queue[i]]
          /\ s.queue[i] \in Reached(src, s) /\ lev[s.queue[i]] <= front + 1
      BY <1>4, <2>1, <3>1
    <3>3. CASE j \in 1 .. Len(s.queue)
      BY <1>4, <2>1, <2>3, <3>1, <3>2, <3>3 DEF Swept, QueueOK
    <3>4. CASE j = Len(s.queue) + 1
      BY <1>4, <1>6, <1>9, <3>2, <3>4
    <3> QED BY <2>1, <3>3, <3>4
  <2>4. ASSUME NEW m \in Reached(src, t) \ done PROVE \E j \in 1 .. Len(t.queue) : t.queue[j] = m
    <3>1. CASE m = n
      <4>1. Len(s.queue) + 1 \in 1 .. Len(t.queue)
        BY <1>4
      <4> QED BY <1>4, <3>1, <4>1
    <3>2. CASE m # n
      <4>1. PICK j \in 1 .. Len(s.queue) : s.queue[j] = m
        BY <1>8, <2>4, <3>2 DEF Swept, QueueOK
      <4>2. j \in 1 .. Len(t.queue)
        BY <1>4
      <4> QED BY <1>4, <4>1, <4>2
    <3> QED BY <3>1, <3>2
  <2> QED BY <2>2, <2>3, <2>4 DEF QueueOK
<1>13. ScannedOK(src, t, lev2, done, r, k)
  <2> SUFFICES ASSUME NEW p \in LinkEnds, NodeOf(p) \in done, NodeOf(p) = r => p[1] <= k
               PROVE  /\ NodeOf(OtherEnd(p)) \in Reached(src, t)
                      /\ lev2[NodeOf(OtherEnd(p))] <= lev2[NodeOf(p)] + 1
    BY DEF ScannedOK
  <2>0. lev2[NodeOf(p)] = lev[NodeOf(p)]
    BY <1>1, <1>9
  <2>1. CASE NodeOf(p) = r /\ p[1] = k
    <3>1. NodeOf(OtherEnd(p)) = n
      BY <2>1, NeighbourIsOther
    <3> QED BY <1>1, <1>6, <1>8, <2>0, <2>1, <3>1
  <2>2. CASE ~(NodeOf(p) = r /\ p[1] = k)
    <3>1. NodeOf(p) = r => p[1] <= k - 1
      <4>1. p[1] \in Links /\ Links = 1 .. Len(cfg.links) /\ Len(cfg.links) \in Nat
        BY NeighbourIsOther, ConfigFacts
      <4>2. p[1] \in Nat /\ k \in Nat
        BY <4>1
      <4> QED BY <2>2, <4>2
    <3>2. NodeOf(OtherEnd(p)) \in Reached(src, s) /\ lev[NodeOf(OtherEnd(p))] <= lev[NodeOf(p)] + 1
      BY <3>1 DEF Swept, ScannedOK
    <3> QED BY <1>8, <1>9, <2>0, <3>2
  <2> QED BY <2>1, <2>2
<1> QED BY <1>10, <1>11, <1>12, <1>13 DEF Swept, t, lev2

(* Taking the head off the queue.                                          *)
Popped(s) == [queue |-> Tail(s.queue), parent |-> s.parent]

LEMMA PopHead ==
  ASSUME IsConfig(cfg), NEW src, NEW dst, NEW s, NEW lev, NEW done, NEW front, NEW most,
         Swept(src, dst, s, lev, done, front, most, src, Len(cfg.links)),
         s.queue # <<>>, NEW h, h = Head(s.queue), h # dst
  PROVE  /\ h \in Reached(src, s) /\ h \notin done
         /\ lev[h] \in Nat /\ lev[h] + 1 <= most + 1
         /\ Swept(src, dst, Popped(s), lev, done \cup {h}, lev[h], most + 1, h, 0)
<1> DEFINE t == [queue |-> Tail(s.queue), parent |-> s.parent]
           N == Len(s.queue)
<1>1. /\ src \in Routers /\ s.queue \in Seq(Routers) /\ s.parent \in [Routers -> Routers \cup {0}]
      /\ lev \in [Routers -> Nat] /\ front \in Nat /\ most \in Nat /\ done \subseteq Reached(src, s)
      /\ dst \notin done
  BY DEF Swept, BoundsOK, SearchStates
<1>2. /\ N \in Nat /\ N >= 1 /\ h = s.queue[1]
      /\ t.queue = Tail(s.queue) /\ t.queue \in Seq(Routers) /\ Len(t.queue) = N - 1
      /\ \A j \in 1 .. N - 1 : t.queue[j] = s.queue[j + 1]
  BY <1>1
<1>3. t \in SearchStates /\ t.parent = s.parent
  BY <1>1, <1>2 DEF SearchStates
<1>4. \A j \in 1 .. N : /\ s.queue[j] \in Reached(src, s) \ done
                        /\ front <= lev[s.queue[j]] /\ lev[s.queue[j]] <= front + 1
  BY DEF Swept, QueueOK
<1>5. \A i, j \in 1 .. N : i < j => s.queue[i] # s.queue[j] /\ lev[s.queue[i]] <= lev[s.queue[j]]
  BY DEF Swept, QueueOK
<1>6. h \in Reached(src, s) /\ h \notin done /\ front <= lev[h] /\ lev[h] <= front + 1
  BY <1>2, <1>4
<1>7. h \in Routers /\ lev[h] \in Nat /\ lev[h] <= most
  BY <1>1, <1>6 DEF Reached, Swept, BoundsOK
<1> HIDE DEF t, N
<1>8. Reached(src, t) = Reached(src, s)
  BY <1>3 DEF Reached
<1>9. BoundsOK(src, dst, t, lev, done \cup {h}, lev[h], most + 1)
  <2>1. \A n \in done \cup {h} : lev[n] <= lev[h]
    <3> SUFFICES ASSUME NEW n \in done PROVE lev[n] <= lev[h]
      BY <1>7
    <3>1. lev[n] <= front /\ lev[n] \in Nat
      BY <1>1 DEF Swept, BoundsOK, Reached
    <3> QED BY <1>1, <1>6, <1>7, <3>1
  <2>2. \A n \in Reached(src, t) : lev[n] <= most + 1
    <3> SUFFICES ASSUME NEW n \in Reached(src, s) PROVE lev[n] <= most + 1
      BY <1>8
    <3>1. lev[n] <= most /\ lev[n] \in Nat
      BY <1>1 DEF Swept, BoundsOK, Reached
    <3> QED BY <1>1, <3>1
  <2>3. most + 1 \in Nat
    BY <1>1
  <2> QED BY <1>1, <1>3, <1>6, <1>7, <1>8, <2>1, <2>2, <2>3 DEF BoundsOK
<1>10. TreeOK(src, t, lev, done \cup {h})
  BY <1>3 DEF Swept, TreeOK
<1>11. QueueOK(src, t, lev, done \cup {h}, lev[h])
  <2>1. ASSUME NEW j \in 1 .. Len(t.queue)
        PROVE  /\ t.queue[j] = s.queue[j + 1] /\ j + 1 \in 1 .. N /\ 1 \in 1 .. N /\ 1 < j + 1
    BY <1>2
  <2>2. ASSUME NEW j \in 1 .. Len(t.queue)
        PROVE  /\ t.queue[j] \in Reached(src, t) \ (done \cup {h})
               /\ lev[h] <= lev[t.queue[j]] /\ lev[t.queue[j]] <= lev[h] + 1
    <3>1. /\ t.queue[j] \in Reached(src, s) \ done
          /\ lev[t.queue[j]] <= front + 1
      BY <1>4, <2>1
    <3>2. h # t.queue[j] /\ lev[h] <= lev[t.queue[j]]
      BY <1>2, <1>5, <2>1
    <3>3. lev[t.queue[j]] \in Nat
      BY <1>1, <3>1 DEF Reached
    <3> QED BY <1>1, <1>6, <1>7, <1>8, <3>1, <3>2, <3>3
  <2>3. ASSUME NEW i \in 1 .. Len(t.queue), NEW j \in 1 .. Len(t.queue), i < j
        PROVE  t.queue[i] # t.queue[j] /\ lev[t.queue[i]] <= lev[t.queue[j]]
    <3>1. i + 1 < j + 1
      BY <1>2, <2>3
    <3> QED BY <1>5, <2>1, <3>1
  <2>4. ASSUME NEW n \in Reached(src, t) \ (done \cup {h})
        PROVE  \E j \in 1 .. Len(t.queue) : t.queue[j] = n
    <3>1. PICK j \in 1 .. N : s.queue[j] = n
      BY <1>8 DEF Swept, QueueOK, N
    <3>2. j # 1
      BY <1>2, <3>1
    <3>3. j - 1 \in 1 .. Len(t.queue) /\ j - 1 + 1 = j
      BY <1>2, <3>2
    <3> QED BY <2>1, <3>1, <3>3
  <2> QED BY <2>2, <2>3, <2>4 DEF QueueOK
<1>12. ScannedOK(src, t, lev, done \cup {h}, h, 0)
  <2> SUFFICES ASSUME NEW p \in LinkEnds, NodeOf(p) \in done \cup {h}, NodeOf(p) = h => p[1] <= 0
               PROVE  /\ NodeOf(OtherEnd(p)) \in Reached(src, t)
                      /\ lev[NodeOf(OtherEnd(p))] <= lev[NodeOf(p)] + 1
    BY DEF ScannedOK
  <2>1. p[1] \in 1 .. Len(cfg.links) /\ Len(cfg.links) \in Nat
    BY NeighbourIsOther, ConfigFacts
  <2>2. NodeOf(p) \in done /\ p[1] <= Len(cfg.links)
    BY <2>1
  <2> QED BY <1>8, <2>2 DEF Swept, ScannedOK
<1>13. lev[h] + 1 <= most + 1
  BY <1>1, <1>7
<1> QED BY <1>6, <1>7, <1>9, <1>10, <1>11, <1>12, <1>13 DEF Swept, t, Popped

(* A visit reaches the neighbours of the head of the queue.                *)
LEMMA VisitSweeps ==
  ASSUME IsConfig(cfg), NEW src, NEW dst, NEW s, NEW lev, NEW done, NEW front, NEW most,
         Swept(src, dst, s, lev, done, front, most, src, Len(cfg.links)),
         s.queue # <<>>, Head(s.queue) # dst
  PROVE  \E lev2, front2, h :
           /\ h \in Routers /\ h \notin done
           /\ Swept(src, dst, Visit(src, dst, s), lev2, done \cup {h}, front2, most + 1, src, Len(cfg.links))
<1>h. PICK h : h = Head(s.queue)
  OBVIOUS
<1> DEFINE done2 == done \cup {h}
           front2 == lev[h]
           N == Len(cfg.links)
           Good(k, t, l) == Swept(src, dst, t, l, done2, front2, most + 1, h, k) /\ l[h] = front2
<1>1. s \in SearchStates /\ N \in Nat /\ Links = 1 .. N
  BY ConfigFacts DEF Swept, BoundsOK
<1>2. PICK seen : Scans(seen, src, dst, s)
  BY <1>1, VisitScans
<1>3. h \in Reached(src, s) /\ h \notin done /\ front2 \in Nat /\ front2 + 1 <= most + 1
      /\ Swept(src, dst, Popped(s), lev, done2, front2, most + 1, h, 0)
  <2>1. h # dst
    BY <1>h
  <2> QED BY ONLY IsConfig(cfg), Swept(src, dst, s, lev, done, front, most, src, Len(cfg.links)), s.queue # <<>>, <1>h, <2>1, PopHead
<1>4. /\ seen[0] = Popped(s)
      /\ \A k \in 1 .. N : seen[k] = IF ~(RouterLink(k) /\ Touches(k, h)) THEN seen[k - 1]
                                     ELSE Discover(src, h, Neighbour(k, h), seen[k - 1])
      /\ Visit(src, dst, s) = seen[N]
  BY <1>h, <1>2 DEF Scans, Popped
<1> DEFINE P == {k \in 0 .. N : \E l : Good(k, seen[k], l)}
<1>5. 0 \in P
  <2>1. 0 \in 0 .. N
    BY <1>1
  <2>2. Good(0, seen[0], lev)
    BY <1>3, <1>4
  <2> HIDE DEF Good, N
  <2> QED BY <2>1, <2>2
<1>6. ASSUME NEW k \in 1 .. N, k - 1 \in P PROVE k \in P
  <2>1. PICK l : Good(k - 1, seen[k - 1], l)
    BY <1>6
  <2>2. k \in Links /\ k \in 0 .. N
    BY <1>1
  <2>3. h \in done2 /\ l[h] = front2
        /\ Swept(src, dst, seen[k - 1], l, done2, front2, most + 1, h, k - 1)
    BY <2>1
  <2> HIDE DEF done2, front2, N
  <2>4. \E l2 : Good(k, seen[k], l2)
    <3>1. CASE ~(RouterLink(k) /\ Touches(k, h))
      <4>1. seen[k] = seen[k - 1]
        BY <1>4, <3>1
      <4>2. Swept(src, dst, seen[k - 1], l, done2, front2, most + 1, h, k)
        BY <2>2, <2>3, <3>1, OtherLink
      <4> QED BY <2>3, <4>1, <4>2
    <3>2. CASE RouterLink(k) /\ Touches(k, h)
      <4> DEFINE n == Neighbour(k, h)
      <4>1. seen[k] = Discover(src, h, n, seen[k - 1])
        BY <1>4, <3>2
      <4>2. n \in Routers
        BY <2>2, <3>2, NeighbourIsLinked
      <4> HIDE DEF n
      <4>3. CASE n \in Reached(src, seen[k - 1])
        <5>1. seen[k] = seen[k - 1]
          BY <4>1, <4>3 DEF Discover, Reached
        <5>2. Swept(src, dst, seen[k - 1], l, done2, front2, most + 1, h, k)
          BY <2>2, <2>3, <3>2, <4>3, KnownNeighbour DEF n
        <5> QED BY <2>3, <5>1, <5>2
      <4>4. CASE n \notin Reached(src, seen[k - 1])
        <5> DEFINE t == [queue |-> Append(seen[k - 1].queue, n), parent |-> [seen[k - 1].parent EXCEPT ![n] = h]]
                   l2 == [l EXCEPT ![n] = front2 + 1]
        <5>1. seen[k] = t
          BY <4>1, <4>2, <4>4 DEF Discover, Reached
        <5>2. Swept(src, dst, t, l2, done2, front2, most + 1, h, k)
          BY <1>3, <2>2, <2>3, <3>2, <4>4, NewNeighbour DEF n
        <5>3. l \in [Routers -> Nat] /\ h \in Reached(src, seen[k - 1])
          BY <2>3 DEF Swept, BoundsOK
        <5>4. l2[h] = front2
          BY <2>3, <4>4, <5>3 DEF Reached
        <5> HIDE DEF t, l2
        <5> QED BY <5>1, <5>2, <5>4
      <4> QED BY <4>3, <4>4
    <3> QED BY <3>1, <3>2
  <2> QED BY <2>2, <2>4
<1> HIDE DEF P
<1>7. N \in P
  <2>1. \A k \in 0 .. N : k \in P
    BY <1>1, <1>5, <1>6, Induction
  <2> QED BY <1>1, <2>1
<1>8. PICK l : Good(N, seen[N], l)
  BY <1>7 DEF P
<1>9. ScannedOK(src, seen[N], l, done2, src, N)
  <2>1. \A p \in LinkEnds : p[1] <= N
    <3> SUFFICES ASSUME NEW p \in LinkEnds PROVE p[1] <= N
      OBVIOUS
    <3>1. p[1] \in 1 .. N
      BY <1>1, NeighbourIsOther
    <3> QED BY <1>1, <3>1
  <2>2. ScannedOK(src, seen[N], l, done2, h, N)
    BY <1>8 DEF Swept
  <2> HIDE DEF done2, N
  <2> QED BY <2>1, <2>2 DEF ScannedOK
<1>10. Swept(src, dst, seen[N], l, done2, front2, most + 1, src, N)
  BY <1>8, <1>9 DEF Swept
<1>11. h \in Routers
  BY <1>3 DEF Reached
<1> HIDE DEF front2
<1> QED BY <1>3, <1>4, <1>10, <1>11


(* The search ends with the queue empty, or with dst at its head.          *)
Ended(src, dst, s, lev, done, front, most) ==
  /\ Swept(src, dst, s, lev, done, front, most, src, Len(cfg.links))
  /\ most = Cardinality(done) /\ (s.queue = <<>> \/ Head(s.queue) = dst)

Through(src, dst, s, i) == \E lev, done, front, most :
  /\ Swept(src, dst, s, lev, done, front, most, src, Len(cfg.links))
  /\ most = Cardinality(done) /\ (s.queue = <<>> \/ Head(s.queue) = dst \/ most = i)

LEMMA FirstSweep ==
  ASSUME IsConfig(cfg), NEW src \in Routers, NEW dst
  PROVE  Through(src, dst, [queue |-> <<src>>, parent |-> Unvisited], 0)
<1> DEFINE s == [queue |-> <<src>>, parent |-> Unvisited]
<1>0. PICK lev : lev = [n \in Routers |-> 0]
  OBVIOUS
<1>1. /\ s.queue \in Seq(Routers) /\ Len(s.queue) = 1 /\ s.queue[1] = src
      /\ s.parent \in [Routers -> Routers \cup {0}] /\ \A n \in Routers : s.parent[n] = 0
  BY DEF Unvisited
<1>2. s \in SearchStates
  BY <1>1 DEF SearchStates
<1>3. lev \in [Routers -> Nat] /\ \A n \in Routers : lev[n] = 0
  BY <1>0
<1> HIDE DEF s
<1>4. Reached(src, s) = {src}
  BY <1>1 DEF Reached
<1>5. BoundsOK(src, dst, s, lev, {}, 0, 0)
  BY <1>2, <1>3, <1>4 DEF BoundsOK
<1>6. TreeOK(src, s, lev, {})
  BY <1>1, <1>3 DEF TreeOK
<1>7. QueueOK(src, s, lev, {}, 0)
  <2>1. \A j \in 1 .. Len(s.queue) : j = 1 /\ s.queue[j] = src
    BY <1>1
  <2>2. 1 \in 1 .. Len(s.queue)
    BY <1>1
  <2> QED BY <1>1, <1>3, <1>4, <2>1, <2>2 DEF QueueOK
<1>8. ScannedOK(src, s, lev, {}, src, Len(cfg.links))
  BY DEF ScannedOK
<1>9. Swept(src, dst, s, lev, {}, 0, 0, src, Len(cfg.links)) /\ 0 = Cardinality({})
  BY <1>5, <1>6, <1>7, <1>8, FS_EmptySet DEF Swept
<1>10. Through(src, dst, s, 0)
  BY <1>9 DEF Through
<1> QED BY <1>10 DEF s

LEMMA NextSweep ==
  ASSUME IsConfig(cfg), NEW src, NEW dst, NEW s, NEW i \in Nat, Through(src, dst, s, i)
  PROVE  Through(src, dst, Visit(src, dst, s), i + 1)
<1>1. PICK lev, done, front, most :
        /\ Swept(src, dst, s, lev, done, front, most, src, Len(cfg.links))
        /\ most = Cardinality(done) /\ (s.queue = <<>> \/ Head(s.queue) = dst \/ most = i)
  BY DEF Through
<1>2. CASE s.queue = <<>> \/ Head(s.queue) = dst
  <2>1. Visit(src, dst, s) = s
    BY <1>2 DEF Visit
  <2> QED BY <1>1, <1>2, <2>1 DEF Through
<1>3. CASE ~(s.queue = <<>> \/ Head(s.queue) = dst)
  <2>1. PICK lev2, front2, h :
           /\ h \in Routers /\ h \notin done
           /\ Swept(src, dst, Visit(src, dst, s), lev2, done \cup {h}, front2, most + 1, src, Len(cfg.links))
    BY <1>1, <1>3, VisitSweeps
  <2>2. IsFiniteSet(done)
    <3>1. done \subseteq Routers
      BY <1>1 DEF Swept, BoundsOK, Reached
    <3> QED BY <3>1, RoutersFinite, FS_Subset
  <2>3. Cardinality(done \cup {h}) = most + 1 /\ most + 1 = i + 1
    BY <1>1, <1>3, <2>1, <2>2, FS_AddElement
  <2> QED BY <2>1, <2>3 DEF Through
<1> QED BY <1>2, <1>3

LEMMA SearchEnds ==
  ASSUME IsConfig(cfg), NEW src \in Routers, NEW dst \in Routers
  PROVE  \E s, lev, done, front, most :
           /\ Search(src, dst) = s.parent /\ Ended(src, dst, s, lev, done, front, most)
           /\ most <= Cardinality(Routers)
<1>1. PICK after : Visits(after, src, dst)
  BY SearchRuns
<1>2. PICK N : N = Cardinality(Routers)
  OBVIOUS
<1>3. N \in Nat
  BY <1>2, RoutersFinite
<1> DEFINE P == {i \in 0 .. N : Through(src, dst, after[i], i)}
<1>4. 0 \in P
  BY <1>1, <1>3, FirstSweep DEF Visits
<1>5. ASSUME NEW i \in 1 .. N, i - 1 \in P PROVE i \in P
  <2>1. i \in 0 .. N /\ i - 1 \in Nat /\ i - 1 + 1 = i
    BY <1>3
  <2>2. Through(src, dst, after[i - 1], i - 1) /\ after[i] = Visit(src, dst, after[i - 1])
    BY <1>1, <1>2, <1>5 DEF Visits
  <2>3. Through(src, dst, Visit(src, dst, after[i - 1]), i - 1 + 1)
    BY <2>1, <2>2, NextSweep
  <2> QED BY <2>1, <2>2, <2>3
<1> HIDE DEF P
<1>6. N \in P
  <2>1. \A i \in 0 .. N : i \in P
    BY <1>3, <1>4, <1>5, Induction
  <2> QED BY <1>3, <2>1
<1>7. Through(src, dst, after[N], N) /\ Search(src, dst) = after[N].parent
  BY <1>1, <1>2, <1>6 DEF P, Visits
<1>8. PICK s : s = after[N]
  OBVIOUS
<1>9. PICK lev, done, front, most :
        /\ Swept(src, dst, s, lev, done, front, most, src, Len(cfg.links))
        /\ most = Cardinality(done) /\ (s.queue = <<>> \/ Head(s.queue) = dst \/ most = N)
  BY <1>7, <1>8 DEF Through
<1>10. done \subseteq Routers /\ dst \notin done /\ most \in Nat
  BY <1>9 DEF Swept, BoundsOK, Reached
<1>11. most <= N /\ most # N
  <2>1. Cardinality(done) <= Cardinality(Routers) /\ (Cardinality(done) = Cardinality(Routers) => done = Routers)
    BY <1>10, RoutersFinite, FS_Subset
  <2> QED BY <1>2, <1>9, <1>10, <2>1
<1> QED BY <1>2, <1>7, <1>8, <1>9, <1>11 DEF Ended

(* A way of i links from r to o.                                           *)
Steps(f, r, o, i) ==
  /\ f \in [0 .. i -> Routers] /\ f[0] = r /\ f[i] = o
  /\ \A j \in 1 .. i : Linked(f[j - 1], f[j])

Path(r, o, i) == \E f : Steps(f, r, o, i)

LEMMA LongerPath ==
  ASSUME NEW p \in Routers, NEW r, NEW o, NEW i \in Nat, Linked(p, r), Path(r, o, i)
  PROVE  Path(p, o, i + 1)
<1>1. PICK f : Steps(f, r, o, i)
  BY DEF Path
<1>2. f \in [0 .. i -> Routers] /\ f[0] = r /\ f[i] = o /\ \A j \in 1 .. i : Linked(f[j - 1], f[j])
  BY <1>1 DEF Steps
<1>3. PICK g : g = [j \in 0 .. i + 1 |-> IF j = 0 THEN p ELSE f[j - 1]]
  OBVIOUS
<1>4. g[0] = p /\ \A j \in 1 .. i + 1 : g[j] = f[j - 1] /\ j - 1 \in 0 .. i
  BY <1>3
<1>5. g \in [0 .. i + 1 -> Routers]
  <2>1. \A j \in 0 .. i + 1 : (IF j = 0 THEN p ELSE f[j - 1]) \in Routers
    <3> SUFFICES ASSUME NEW j \in 0 .. i + 1 PROVE (IF j = 0 THEN p ELSE f[j - 1]) \in Routers
      OBVIOUS
    <3>1. j # 0 => j - 1 \in 0 .. i
      OBVIOUS
    <3> QED BY <1>2, <3>1
  <2> QED BY <1>3, <2>1
<1>6. g[i + 1] = o
  BY <1>2, <1>4
<1>7. ASSUME NEW j \in 1 .. i + 1 PROVE Linked(g[j - 1], g[j])
  <2>1. CASE j = 1
    BY <1>2, <1>4, <2>1
  <2>2. CASE j # 1
    <3>1. j - 1 \in 1 .. i + 1 /\ j - 1 \in 1 .. i
      BY <2>2
    <3>2. g[j - 1] = f[j - 1 - 1] /\ g[j] = f[j - 1]
      BY <1>4, <3>1
    <3> QED BY <1>2, <3>1, <3>2
  <2> QED BY <2>1, <2>2
<1>8. Steps(g, p, o, i + 1)
  BY <1>4, <1>5, <1>6, <1>7 DEF Steps
<1> QED BY <1>8 DEF Path

LEMMA NoPath ==
  ASSUME NEW r \in Routers PROVE Path(r, r, 0)
<1>1. PICK f : f = [j \in 0 .. 0 |-> r]
  OBVIOUS
<1>2. f \in [0 .. 0 -> Routers] /\ f[0] = r /\ 1 .. 0 = {}
  BY <1>1
<1>3. Steps(f, r, r, 0)
  BY <1>2 DEF Steps
<1> QED BY <1>3 DEF Path

(* A way out of a set that no link leaves does not exist.                  *)
Closed(S) == \A r \in S, n \in Routers : Linked(r, n) => n \in S

LEMMA PathStaysIn ==
  ASSUME NEW S, Closed(S), NEW r \in S, NEW o, NEW i \in Nat, Path(r, o, i)
  PROVE  o \in S
<1>1. PICK f : Steps(f, r, o, i)
  BY DEF Path
<1>2. f \in [0 .. i -> Routers] /\ f[0] = r /\ f[i] = o /\ \A j \in 1 .. i : Linked(f[j - 1], f[j])
  BY <1>1 DEF Steps
<1> DEFINE P == {j \in 0 .. i : f[j] \in S}
<1>3. 0 \in P
  BY <1>2
<1>4. ASSUME NEW j \in 1 .. i, j - 1 \in P PROVE j \in P
  <2>1. j \in 0 .. i /\ f[j] \in Routers /\ f[j - 1] \in S /\ Linked(f[j - 1], f[j])
    BY <1>2, <1>4
  <2> QED BY <2>1 DEF Closed
<1> HIDE DEF P
<1>5. i \in P
  <2>1. \A j \in 0 .. i : j \in P
    BY <1>3, <1>4, Induction
  <2> QED BY <2>1
<1> QED BY <1>2, <1>5 DEF P

(* What the search finds.                                                  *)
Cut(src, dst) == \E S \in SUBSET Routers : Closed(S) /\ src \in S /\ dst \notin S

Tree(src, parent, lev) ==
  /\ parent \in [Routers -> Routers \cup {0}] /\ lev \in [Routers -> Nat]
  /\ parent[src] = 0 /\ lev[src] = 0
  /\ \A n \in Routers : parent[n] # 0 =>
       /\ parent[n] \in Routers /\ (parent[n] = src \/ parent[parent[n]] # 0)
       /\ Linked(parent[n], n) /\ lev[n] = lev[parent[n]] + 1

LEMMA SearchFinds ==
  ASSUME IsConfig(cfg), NEW src \in Routers, NEW dst \in Routers, src # dst,
         NEW parent, parent = Search(src, dst)
  PROVE  /\ parent \in [Routers -> Routers \cup {0}]
         /\ \/ parent[dst] = 0 /\ Cut(src, dst)
            \/ \E lev : /\ parent[dst] # 0 /\ Tree(src, parent, lev) /\ lev[dst] <= Cardinality(Routers)
                        /\ \A i \in Nat : Path(src, dst, i) => lev[dst] <= i
<1>1. PICK s, lev, done, front, most :
           /\ Search(src, dst) = s.parent /\ Ended(src, dst, s, lev, done, front, most)
           /\ most <= Cardinality(Routers)
  BY SearchEnds
<1>2. /\ s.queue \in Seq(Routers) /\ parent = s.parent /\ parent \in [Routers -> Routers \cup {0}]
      /\ lev \in [Routers -> Nat] /\ front \in Nat /\ most \in Nat /\ done \subseteq Reached(src, s)
      /\ dst \notin done
      /\ \A n \in Reached(src, s) : lev[n] <= most
  BY <1>1 DEF Ended, Swept, BoundsOK, SearchStates
<1>3. QueueOK(src, s, lev, done, front) /\ TreeOK(src, s, lev, done)
      /\ ScannedOK(src, s, lev, done, src, Len(cfg.links))
  BY <1>1 DEF Ended, Swept
<1>4. ASSUME NEW r \in done, NEW n \in Routers, Linked(r, n)
      PROVE  n \in Reached(src, s) /\ lev[n] <= lev[r] + 1
  <2>1. PICK p \in LinkEnds : NodeOf(p) = r /\ NodeOf(OtherEnd(p)) = n
    BY <1>4 DEF Linked
  <2>2. p[1] <= Len(cfg.links)
    <3>1. p[1] \in 1 .. Len(cfg.links) /\ Len(cfg.links) \in Nat
      BY NeighbourIsOther, ConfigFacts
    <3> QED BY <3>1
  <2> QED BY <1>3, <2>1, <2>2 DEF ScannedOK
<1>5. CASE dst \notin Reached(src, s)
  <2>1. parent[dst] = 0
    BY <1>2, <1>5 DEF Reached
  <2>2. s.queue = <<>>
    <3> SUFFICES ASSUME s.queue # <<>> PROVE FALSE
      OBVIOUS
    <3>1. s.queue[1] = dst /\ 1 \in 1 .. Len(s.queue)
      BY <1>1, <1>2 DEF Ended
    <3> QED BY <1>3, <1>5, <3>1 DEF QueueOK
  <2>3. done = Reached(src, s)
    <3>1. 1 .. Len(s.queue) = {}
      BY <2>2
    <3> QED BY <1>2, <1>3, <3>1 DEF QueueOK
  <2>4. Closed(done) /\ src \in done /\ done \subseteq Routers
    BY <1>4, <2>3 DEF Closed, Reached
  <2> QED BY <1>2, <1>5, <2>1, <2>3, <2>4 DEF Cut
<1>6. CASE dst \in Reached(src, s)
  <2>1. s.queue # <<>>
    BY <1>2, <1>3, <1>6 DEF QueueOK
  <2>2. s.queue[1] = dst /\ Len(s.queue) \in Nat /\ 1 \in 1 .. Len(s.queue)
    BY <1>1, <1>2, <2>1 DEF Ended
  <2>3. parent[dst] # 0
    BY <1>2, <1>6 DEF Reached
  <2>4. Tree(src, parent, lev)
    <3>1. parent[src] = 0 /\ lev[src] = 0
      BY <1>2, <1>3 DEF TreeOK
    <3>2. ASSUME NEW n \in Routers, parent[n] # 0
          PROVE  /\ parent[n] \in Routers /\ (parent[n] = src \/ parent[parent[n]] # 0)
                 /\ Linked(parent[n], n) /\ lev[n] = lev[parent[n]] + 1
      <4>1. parent[n] \in done /\ Linked(parent[n], n) /\ lev[n] = lev[parent[n]] + 1
        BY <1>2, <1>3, <3>2 DEF TreeOK
      <4> QED BY <1>2, <4>1 DEF Reached
    <3> QED BY <1>2, <3>1, <3>2 DEF Tree
  <2>5. lev[dst] <= Cardinality(Routers)
    <3>1. lev[dst] <= most /\ lev[dst] \in Nat
      BY <1>2, <1>6
    <3> QED BY <1>1, <1>2, <3>1, RoutersFinite
  <2>6. ASSUME NEW i \in Nat, Path(src, dst, i) PROVE lev[dst] <= i
    <3> SUFFICES ASSUME ~(lev[dst] <= i) PROVE FALSE
      OBVIOUS
    <3>1. PICK f : Steps(f, src, dst, i)
      BY <2>6 DEF Path
    <3>2. f \in [0 .. i -> Routers] /\ f[0] = src /\ f[i] = dst /\ \A j \in 1 .. i : Linked(f[j - 1], f[j])
      BY <3>1 DEF Steps
    <3> DEFINE P == {j \in 0 .. i : f[j] \in Reached(src, s) /\ lev[f[j]] <= j}
    <3>3. 0 \in P
      BY <1>3, <3>2 DEF Reached, TreeOK
    <3>4. ASSUME NEW j \in 1 .. i, j - 1 \in P PROVE j \in P
      <4>1. /\ j \in 0 .. i /\ f[j] \in Routers /\ f[j - 1] \in Reached(src, s) /\ lev[f[j - 1]] <= j - 1
            /\ Linked(f[j - 1], f[j])
        BY <3>2, <3>4
      <4>2. f[j - 1] \in Routers /\ lev[f[j - 1]] \in Nat /\ lev[f[j]] \in Nat /\ lev[dst] \in Nat
        BY <1>2, <4>1 DEF Reached
      <4>3. f[j - 1] \in done
        <5> SUFFICES ASSUME f[j - 1] \notin done PROVE FALSE
          OBVIOUS
        <5>1. PICK m \in 1 .. Len(s.queue) : s.queue[m] = f[j - 1]
          BY <1>3, <4>1 DEF QueueOK
        <5>2. lev[dst] <= lev[f[j - 1]]
          <6>1. CASE m = 1
            BY <2>2, <4>2, <5>1, <6>1
          <6>2. CASE m # 1
            <7>1. 1 < m
              BY <6>2, <2>2
            <7> QED BY <1>3, <2>2, <5>1, <7>1 DEF QueueOK
          <6> QED BY <6>1, <6>2
        <5> QED BY <4>1, <4>2, <5>2
      <4>4. f[j] \in Reached(src, s) /\ lev[f[j]] <= lev[f[j - 1]] + 1
        BY <1>4, <4>1, <4>3
      <4> QED BY <4>1, <4>2, <4>4
    <3> HIDE DEF P
    <3>5. i \in P
      <4>1. \A j \in 0 .. i : j \in P
        BY <3>3, <3>4, Induction
      <4> QED BY <4>1
    <3> QED BY <3>2, <3>5 DEF P
  <2> QED BY <1>2, <2>3, <2>4, <2>5, <2>6
<1> QED BY <1>5, <1>6

(* The next hop of src is the first router of a shortest way to dst.       *)
NearTo(src, dst, lev, n) ==
  n \in Routers /\ Path(n, dst, lev[dst] - lev[n]) /\ 1 <= lev[n] /\ lev[n] <= lev[dst]

LEMMA StepBack ==
  ASSUME NEW src, NEW dst, NEW parent, NEW lev, Tree(src, parent, lev), 0 \notin Routers,
         NEW n, NearTo(src, dst, lev, n), parent[n] # 0, dst \in Routers, src \in Routers
  PROVE  \/ parent[n] = src /\ lev[n] = 1 /\ Linked(src, n)
         \/ /\ parent[n] # src /\ NearTo(src, dst, lev, parent[n])
            /\ parent[parent[n]] # 0 /\ lev[parent[n]] = lev[n] - 1
<1>1. /\ lev \in [Routers -> Nat] /\ lev[src] = 0
      /\ \A m \in Routers : parent[m] # 0 =>
       /\ parent[m] \in Routers /\ (parent[m] = src \/ parent[parent[m]] # 0)
       /\ Linked(parent[m], m) /\ lev[m] = lev[parent[m]] + 1
  BY DEF Tree
<1>2. n \in Routers /\ Path(n, dst, lev[dst] - lev[n]) /\ 1 <= lev[n] /\ lev[n] <= lev[dst]
  BY DEF NearTo
<1>3. PICK p \in Routers : p = parent[n]
  BY <1>1, <1>2
<1>4. Linked(p, n) /\ lev[n] = lev[p] + 1 /\ lev[p] \in Nat /\ lev[n] \in Nat /\ lev[dst] \in Nat
  BY <1>1, <1>2, <1>3
<1>5. CASE p = src
  BY <1>1, <1>3, <1>4, <1>5
<1>6. CASE p # src
  <2>1. parent[p] # 0 /\ parent[p] \in Routers
    BY <1>1, <1>2, <1>3, <1>6
  <2>2. lev[p] = lev[parent[p]] + 1 /\ lev[parent[p]] \in Nat
    BY <1>1, <2>1
  <2>3. lev[dst] - lev[n] \in Nat
    BY <1>2, <1>4
  <2>4. Path(p, dst, lev[dst] - lev[n] + 1)
    BY <1>2, <1>4, <2>3, LongerPath
  <2>5. lev[dst] - lev[n] + 1 = lev[dst] - lev[p] /\ lev[p] = lev[n] - 1
    BY <1>4
  <2>6. 1 <= lev[p] /\ lev[p] <= lev[dst]
    BY <1>2, <1>4, <2>2
  <2> QED BY <1>3, <1>6, <2>1, <2>4, <2>5, <2>6 DEF NearTo
<1> QED BY <1>5, <1>6

LEMMA NextHopLeads ==
  ASSUME IsConfig(cfg), NEW src \in Routers, NEW dst \in Routers, src # dst
  PROVE  \/ NextHop(src, dst) = 0 /\ Cut(src, dst)
         \/ \E d \in 1 .. Cardinality(Routers) :
              /\ NextHop(src, dst) \in Routers /\ Linked(src, NextHop(src, dst))
              /\ Path(NextHop(src, dst), dst, d - 1) /\ Path(src, dst, d)
              /\ \A i \in Nat : Path(src, dst, i) => d <= i
<1>1. PICK parent : parent = Search(src, dst)
  OBVIOUS
<1>2. parent \in [Routers -> Routers \cup {0}]
  BY <1>1, SearchFinds
<1>3. PICK back : Retraces(back, src, dst, parent)
  BY <1>1, <1>2, NextHopRuns
<1>4. PICK N : N = Cardinality(Routers)
  OBVIOUS
<1>5. N \in Nat /\ 0 \notin Routers /\ N # 0
  <2>1. IsFiniteSet(Routers) /\ Routers # {}
    BY RoutersFinite
  <2> QED BY <1>4, <2>1, RoutersFinite, FS_EmptySet
<1>6. /\ back[0] = dst /\ NextHop(src, dst) = back[N]
      /\ \A i \in 1 .. N : back[i] = IF back[i - 1] = 0 \/ parent[back[i - 1]] = src THEN back[i - 1]
                                     ELSE parent[back[i - 1]]
  BY <1>3, <1>4 DEF Retraces
<1>7. CASE parent[dst] = 0
  <2>1. Cut(src, dst)
    BY <1>1, <1>7, SearchFinds
  <2> DEFINE P == {i \in 0 .. N : i = 0 \/ back[i] = 0}
  <2>2. 0 \in P
    BY <1>5
  <2>3. ASSUME NEW i \in 1 .. N, i - 1 \in P PROVE i \in P
    <3>1. i \in 0 .. N /\ (back[i - 1] = 0 \/ back[i - 1] = dst)
      BY <1>5, <1>6, <2>3
    <3>2. parent[dst] # src
      BY <1>5, <1>7
    <3> QED BY <1>5, <1>6, <1>7, <3>1, <3>2
  <2> HIDE DEF P
  <2>4. N \in P
    <3>1. \A i \in 0 .. N : i \in P
      BY <1>5, <2>2, <2>3, Induction
    <3> QED BY <1>5, <3>1
  <2> QED BY <1>5, <1>6, <2>1, <2>4 DEF P
<1>8. CASE parent[dst] # 0
  <2>1. PICK lev : /\ Tree(src, parent, lev) /\ lev[dst] <= Cardinality(Routers)
                   /\ \A i \in Nat : Path(src, dst, i) => lev[dst] <= i
    BY <1>1, <1>8, SearchFinds
  <2>2. lev \in [Routers -> Nat] /\ lev[dst] \in Nat /\ lev[src] = 0
    BY <2>1 DEF Tree
  <2>3. lev[dst] >= 1
    <3>1. parent[dst] \in Routers /\ lev[dst] = lev[parent[dst]] + 1
      BY <1>8, <2>1 DEF Tree
    <3> QED BY <2>2, <3>1
  <2> DEFINE P == {i \in 0 .. N : /\ NearTo(src, dst, lev, back[i]) /\ parent[back[i]] # 0
                                  /\ lev[back[i]] = 1 \/ lev[back[i]] + i <= lev[dst]}
  <2>4. 0 \in P
    <3>1. Path(dst, dst, 0) /\ lev[dst] - lev[dst] = 0
      BY <2>2, NoPath
    <3>2. NearTo(src, dst, lev, dst)
      BY <2>2, <2>3, <3>1 DEF NearTo
    <3>3. 0 \in 0 .. N
      BY <1>5
    <3> QED BY <1>6, <1>8, <2>2, <3>2, <3>3
  <2>5. ASSUME NEW i \in 1 .. N, i - 1 \in P PROVE i \in P
    <3>1. PICK n : n = back[i - 1]
      OBVIOUS
    <3>2. /\ NearTo(src, dst, lev, n) /\ parent[n] # 0
          /\ lev[n] = 1 \/ lev[n] + (i - 1) <= lev[dst]
          /\ i \in 0 .. N
      BY <1>5, <2>5, <3>1
    <3>3. n \in Routers /\ n # 0 /\ lev[n] \in Nat
      BY <1>5, <2>2, <3>2 DEF NearTo
    <3>4. CASE parent[n] = src
      <4>1. lev[n] = 1
        BY <1>5, <2>1, <3>2, <3>4, StepBack
      <4> QED BY <1>6, <3>1, <3>2, <3>4, <4>1
    <3>5. CASE parent[n] # src
      <4>1. /\ NearTo(src, dst, lev, parent[n])
            /\ parent[parent[n]] # 0 /\ lev[parent[n]] = lev[n] - 1
        BY <1>5, <2>1, <3>2, <3>5, StepBack
      <4>2. back[i] = parent[n]
        BY <1>6, <3>1, <3>3, <3>5
      <4>3. parent[n] \in Routers /\ 1 <= lev[parent[n]]
        BY <4>1 DEF NearTo
      <4>4. lev[n] # 1 /\ lev[parent[n]] + i <= lev[dst]
        BY <2>2, <3>2, <3>3, <4>1, <4>3
      <4> QED BY <3>2, <4>1, <4>2, <4>4
    <3> QED BY <3>4, <3>5
  <2> HIDE DEF P
  <2>6. N \in P
    <3>1. \A i \in 0 .. N : i \in P
      BY <1>5, <2>4, <2>5, Induction
    <3> QED BY <1>5, <3>1
  <2>7. PICK n : n = NextHop(src, dst)
    OBVIOUS
  <2>8. NearTo(src, dst, lev, n) /\ parent[n] # 0 /\ (lev[n] = 1 \/ lev[n] + N <= lev[dst])
    BY <1>6, <2>6, <2>7 DEF P
  <2>9. n \in Routers /\ lev[n] \in Nat /\ lev[n] = 1 /\ Path(n, dst, lev[dst] - lev[n])
    BY <1>4, <1>5, <2>1, <2>2, <2>8 DEF NearTo
  <2>10. Linked(src, n)
    <3>1. CASE parent[n] = src
      BY <1>5, <2>1, <2>8, <3>1, StepBack
    <3>2. CASE parent[n] # src
      <4>1. NearTo(src, dst, lev, parent[n]) /\ lev[parent[n]] = lev[n] - 1
        BY <1>5, <2>1, <2>8, <3>2, StepBack
      <4> QED BY <2>9, <4>1 DEF NearTo
    <3> QED BY <3>1, <3>2
  <2>11. Path(src, dst, lev[dst])
    <3>1. lev[dst] - 1 \in Nat /\ lev[dst] - 1 + 1 = lev[dst]
      BY <2>2, <2>3
    <3>2. Path(src, dst, lev[dst] - 1 + 1)
      BY <2>9, <2>10, <3>1, LongerPath
    <3> QED BY <3>1, <3>2
  <2>12. lev[dst] \in 1 .. Cardinality(Routers)
    BY <1>4, <1>5, <2>1, <2>2, <2>3
  <2> QED BY <2>1, <2>7, <2>9, <2>10, <2>11, <2>12
<1> QED BY <1>7, <1>8

(* The links between routers can be used both ways.                        *)
LEMMA LinkedBothWays ==
  ASSUME IsConfig(cfg), NEW r, NEW n, Linked(r, n)
  PROVE  Linked(n, r) /\ r \in Routers /\ n \in Routers
<1>1. PICK p \in LinkEnds : NodeOf(p) = r /\ NodeOf(OtherEnd(p)) = n
  BY DEF Linked
<1>2. p \in Ports /\ p[1] \in Links /\ p[2] \in {1, 2} /\ p = <<p[1], p[2]>> /\ RouterLink(p[1])
  BY <1>1, PortParts DEF LinkEnds
<1>3. OtherEnd(p) \in Ports /\ OtherEnd(p)[1] = p[1] /\ OtherEnd(OtherEnd(p)) = p
  BY <1>2 DEF OtherEnd, Ports
<1>4. OtherEnd(p) \in LinkEnds
  BY <1>2, <1>3 DEF LinkEnds
<1> QED BY <1>1, <1>3, <1>4, NeighbourIsOther DEF Linked

-----------------------------------------------------------------------------
(* The static routes.                                                      *)
Stuck == \E r \in Routers : \E net \in Remote(r) : NextHop(r, Owner(net)) = 0
AllRoutes == UNION {{Route(r, net) : net \in Remote(r)} : r \in Routers}

LEMMA SameRoutes ==
  ASSUME UNCHANGED vars
  PROVE  /\ Hosts' = Hosts /\ Routers' = Routers /\ Subnets' = Subnets
         /\ (Stuck' <=> Stuck) /\ AllRoutes' = AllRoutes
<1>1. cfg' = cfg /\ ip' = ip
  BY DEF vars, plan
<1>2. Hosts' = Hosts /\ Routers' = Routers
  BY <1>1 DEF Hosts, Routers, NodesOfKind, Nodes
<1>3. \A r : RouterIfaces(r)' = RouterIfaces(r)
  BY <1>1 DEF RouterIfaces, LinkEnds, RouterLink, NetworksOf, PortsOf, Ports, Links, NodeOf, KindOf
<1>4. Subnets' = Subnets
  BY <1>2, <1>3 DEF Subnets
<1>5. \A r : Remote(r)' = Remote(r)
  BY <1>3, <1>4 DEF Remote
<1>6. \A net : Owner(net)' = Owner(net)
  BY <1>1 DEF Owner, RouterIfaces, NetworksOf, PortsOf, LinkEnds, RouterLink, Ports, Links, NodeOf, KindOf
<1>7. \A r, n : FirstLinkPort(r, n)' = FirstLinkPort(r, n)
  BY <1>1 DEF FirstLinkPort, PortsOf, Ports, Links, NodeOf, OtherEnd
<1>8. \A p : PeerIP(p)' = PeerIP(p)
  BY <1>1 DEF PeerIP, OnBridge, KindOf, NodeOf, OtherEnd
<1>9. \A src, dst, s : Visit(src, dst, s)' = Visit(src, dst, s)
  BY <1>1 DEF Visit, Discover, Neighbour, RouterLink, Touches, KindOf, NodeOf
<1>10. \A src, dst : Search(src, dst)' = Search(src, dst)
  BY <1>2, <1>9 DEF Search
<1>11. \A src, dst : NextHop(src, dst)' = NextHop(src, dst)
  BY <1>1 DEF NextHop, Search, Visit, Discover, Neighbour, RouterLink, Touches, KindOf, NodeOf,
              Routers, NodesOfKind, Nodes
<1>12. Stuck' <=> Stuck
  BY <1>2, <1>5, <1>6, <1>11 DEF Stuck
<1>13. AllRoutes' = AllRoutes
  BY <1>2, <1>5, <1>6, <1>7, <1>8, <1>11 DEF AllRoutes, Route
<1> QED BY <1>2, <1>4, <1>12, <1>13

(* The owner of a subnet is a router that has it.                          *)
LEMMA OwnerHasIt ==
  ASSUME IsConfig(cfg), NEW net \in Subnets
  PROVE  Owner(net) \in Routers /\ net \in RouterIfaces(Owner(net))
<1> DEFINE ends == {p \in LinkEnds : net \in RouterIfaces(NodeOf(p))}
           T == {p[1] : p \in ends}
<1>1. PICK r \in Routers : net \in RouterIfaces(r)
  BY DEF Subnets
<1>2. PICK e \in LinkEnds : NodeOf(e) = r
  BY <1>1 DEF RouterIfaces
<1>3. e \in ends
  BY <1>1, <1>2
<1>4. \A p \in ends : p \in Ports /\ p[1] \in Nat /\ p[2] \in Nat
  <2> SUFFICES ASSUME NEW p \in ends PROVE p \in Ports /\ p[1] \in Nat /\ p[2] \in Nat
    OBVIOUS
  <2>1. p \in Ports
    BY DEF LinkEnds
  <2> HIDE DEF ends
  <2>2. p[1] \in Nat
    BY <2>1, NumbersOfPorts
  <2>3. p[2] \in {1, 2}
    BY <2>1, PortParts
  <2> QED BY <2>1, <2>2, <2>3
<1>5. T \in SUBSET Nat /\ T # {}
  BY <1>3, <1>4
<1>6. PICK k \in T : \A j \in T : k <= j
  BY <1>5, Least
<1> DEFINE U == {p \in ends : p[1] = k}
           V == {p[2] : p \in U}
<1>7. V \in SUBSET Nat /\ V # {}
  BY <1>4, <1>6
<1>8. PICK s \in V : \A j \in V : s <= j
  BY <1>7, Least
<1>9. PICK p \in U : p[2] = s
  BY <1>8
<1>10. ASSUME NEW q \in ends PROVE p[1] < q[1] \/ (p[1] = q[1] /\ p[2] <= q[2])
  <2>1. p[1] = k /\ k <= q[1] /\ k \in Nat /\ q[1] \in Nat
    BY <1>4, <1>5, <1>6, <1>9
  <2>2. CASE q[1] = k
    <3>1. q \in U
      BY <2>2
    <3> QED BY <1>8, <1>9, <2>1, <2>2, <3>1
  <2> QED BY <2>1, <2>2
<1> DEFINE c == CHOOSE x \in ends : \A q \in ends : x[1] < q[1] \/ (x[1] = q[1] /\ x[2] <= q[2])
<1>11. c \in ends
  <2>1. p \in ends
    BY <1>9
  <2> HIDE DEF ends
  <2>2. \E x \in ends : \A q \in ends : x[1] < q[1] \/ (x[1] = q[1] /\ x[2] <= q[2])
    BY <1>10, <2>1
  <2> QED BY <2>2
<1>12. Owner(net) = NodeOf(c)
  BY DEF Owner
<1>13. c \in LinkEnds /\ net \in RouterIfaces(NodeOf(c))
  <2> HIDE DEF c
  <2> QED BY <1>11
<1>14. NodeOf(c) \in Routers
  <2> HIDE DEF c
  <2> QED BY <1>13, NeighbourIsOther
<1> HIDE DEF c
<1> QED BY <1>12, <1>13, <1>14

(* findNextHopIP finds an interface at the other end of a link.            *)
LEMMA FirstLinkPortIsOne ==
  ASSUME IsConfig(cfg), NEW r, NEW n, Linked(r, n)
  PROVE  /\ FirstLinkPort(r, n) \in LinkEnds /\ NodeOf(FirstLinkPort(r, n)) = r
         /\ NodeOf(OtherEnd(FirstLinkPort(r, n))) = n
<1> DEFINE between == {p \in PortsOf(r) : NodeOf(OtherEnd(p)) = n}
<1>1. between \in SUBSET Ports /\ between # {}
  BY DEF Linked, LinkEnds, PortsOf
<1>2. FirstLinkPort(r, n) = FirstLink(between)
  BY DEF FirstLinkPort, FirstLink
<1>3. FirstLinkPort(r, n) \in between
  <2> HIDE DEF between
  <2> QED BY <1>1, <1>2, FirstLinkIsOne
<1>4. PICK p : p = FirstLinkPort(r, n)
  OBVIOUS
<1>5. p \in Ports /\ NodeOf(p) = r /\ NodeOf(OtherEnd(p)) = n
  BY <1>3, <1>4 DEF PortsOf
<1>6. cfg.kind[r] = "router" /\ cfg.kind[n] = "router"
  BY LinkedBothWays DEF Routers, NodesOfKind
<1>7. RouterLink(p[1])
  <2>1. p = <<p[1], p[2]>> /\ \A s \in {1, 2} : s = p[2] \/ s = 3 - p[2]
    BY <1>5, PortParts
  <2>2. \A s \in {1, 2} : KindOf(<<p[1], s>>) = "router"
    BY <1>5, <1>6, <2>1 DEF KindOf, OtherEnd
  <2> QED BY <2>2 DEF RouterLink
<1> QED BY <1>4, <1>5, <1>7 DEF LinkEnds

(* A subnet that a router needs a route for is another router's.           *)
LEMMA RemoteOwner ==
  ASSUME IsConfig(cfg), NEW r \in Routers, NEW net \in Remote(r)
  PROVE  /\ net \in Subnets /\ Owner(net) \in Routers /\ Owner(net) # r
         /\ net \in RouterIfaces(Owner(net)) /\ net \notin RouterIfaces(r)
<1>1. net \in Subnets /\ net \notin RouterIfaces(r)
  BY DEF Remote
<1> QED BY <1>1, OwnerHasIt

(* The next hop of a route is an address at the other end of a link.       *)
LEMMA RouteIsDirect ==
  ASSUME TypeInv, NEW r \in Routers, NEW net \in Remote(r), NextHop(r, Owner(net)) # 0,
         NEW p, p = FirstLinkPort(r, NextHop(r, Owner(net)))
  PROVE  /\ p \in LinkEnds /\ p \in Ports /\ OtherEnd(p) \in Ports
         /\ NodeOf(p) = r /\ NodeOf(OtherEnd(p)) = NextHop(r, Owner(net))
         /\ Route(r, net) = [at |-> r, to |-> net, via |-> PeerIP(p).addr]
         /\ PeerIP(p).addr \in Nat
<1>1. IsConfig(cfg) /\ ip \in [Ports -> Cidrs]
  BY DEF TypeInv, TypeOK
<1>2. Linked(r, NextHop(r, Owner(net)))
  BY <1>1, RemoteOwner, NextHopLeads
<1>3. p \in LinkEnds /\ NodeOf(p) = r /\ NodeOf(OtherEnd(p)) = NextHop(r, Owner(net))
  BY <1>1, <1>2, FirstLinkPortIsOne
<1>4. p \in Ports /\ OtherEnd(p) \in Ports
  BY <1>3, PortParts DEF LinkEnds, OtherEnd
<1>5. PeerIP(p) \in Cidrs
  BY <1>1, <1>4, UnsetIsCidr DEF PeerIP
<1>6. PeerIP(p).addr \in Nat
  BY <1>5 DEF Cidrs
<1> QED BY <1>3, <1>4, <1>6 DEF Route

LEMMA RouteType ==
  ASSUME TypeInv, ~Stuck, NEW t \in AllRoutes
  PROVE  t.at \in Routers /\ t.to \in Subnets /\ t.via \in Nat
<1>0. PICK r \in Routers : \E x \in Remote(r) : t = Route(r, x)
  BY DEF AllRoutes
<1>1. PICK net \in Remote(r) : t = Route(r, net)
  BY <1>0
<1>2. NextHop(r, Owner(net)) # 0
  BY DEF Stuck
<1>3. PICK p : p = FirstLinkPort(r, NextHop(r, Owner(net)))
  OBVIOUS
<1>4. Route(r, net) = [at |-> r, to |-> net, via |-> PeerIP(p).addr] /\ PeerIP(p).addr \in Nat
  BY <1>2, <1>3, RouteIsDirect
<1>5. net \in Subnets
  BY DEF Remote
<1> QED BY <1>1, <1>4, <1>5

LEMMA GatewayType ==
  ASSUME TypeInv, NEW h \in Hosts
  PROVE  GatewayOf(h) \in Nat
<1> DEFINE bs == {b \in NodesOfKind("bridge") :
               Facing(b, "router") # {} /\ \E p \in Facing(b, "host") : NodeOf(p) = h}
           ps == {OtherEnd(p) : p \in {q \in PortsOf(h) : KindOf(OtherEnd(q)) = "router"
                                                            /\ ip[OtherEnd(q)] # Unset}}
<1>1. IsConfig(cfg) /\ ip \in [Ports -> Cidrs] /\ \A c \in Cidrs : c.addr \in Nat
  BY DEF TypeInv, TypeOK, Cidrs
<1>2. CASE bs # {}
  <2>1. PICK b : b = CHOOSE x \in bs : \A c \in bs : x <= c
    OBVIOUS
  <2>2. b \in bs
    <3>1. bs \in SUBSET NodesOfKind("bridge")
      OBVIOUS
    <3> HIDE DEF bs
    <3> QED BY <1>1, <1>2, <2>1, <3>1, LeastBridge
  <2>3. Facing(b, "router") # {} /\ Facing(b, "router") \subseteq Ports
    BY <2>2 DEF Facing
  <2>4. LeastNode(Facing(b, "router")) \in Ports
    BY <1>1, <2>3, LeastNodeIsOne
  <2>5. GatewayOf(h) = ip[LeastNode(Facing(b, "router"))].addr
    BY <1>2, <2>1 DEF GatewayOf
  <2> HIDE DEF bs, ps
  <2> QED BY <1>1, <2>4, <2>5
<1>3. CASE bs = {} /\ ps # {}
  <2>1. ps \subseteq Ports
    BY PortParts DEF PortsOf, OtherEnd
  <2>2. GatewayOf(h) = ip[FirstLink(ps)].addr
    BY <1>3 DEF GatewayOf
  <2> HIDE DEF bs, ps
  <2>3. FirstLink(ps) \in Ports
    BY <1>1, <1>3, <2>1, FirstLinkIsOne
  <2> QED BY <1>1, <2>2, <2>3
<1>4. CASE bs = {} /\ ps = {}
  BY <1>4 DEF GatewayOf
<1> QED BY <1>2, <1>3, <1>4

(* What has been computed at each stage.                                   *)
RouteInv ==
  /\ stage \in {"routes", "gateways", "done", "failed"}
  /\ stage \in {"routes", "failed"} => routes = {}
  /\ stage \in {"gateways", "done"} => routes = IF cfg.auto_static THEN AllRoutes ELSE {}
  /\ stage # "routes" /\ cfg.auto_static => (stage = "failed" <=> Stuck)
  /\ gateways \in [Hosts -> Nat]

LEMMA RouteInvInit == PlanInit => RouteInv
BY DEF PlanInit, RouteInv

LEMMA RouteInvNext == TypeInv /\ StageInv /\ RouteInv /\ [PlanNext]_planVars => RouteInv'
<1> SUFFICES ASSUME TypeInv, StageInv, RouteInv, [PlanNext]_planVars PROVE RouteInv'
  OBVIOUS
<1>0. PICK a, st : a = AllRoutes /\ (st <=> Stuck)
  OBVIOUS
<1>1. CASE Next /\ UNCHANGED <<stage, routes, gateways>>
  <2>1. phase # "accepted"
    BY <1>1 DEF Next, CheckShape, ManualLink, CollectSegments, BridgeSegment, EnterDirect,
                DirectLink, EnterCheck, CheckDuplicates
  <2>2. cfg' = cfg
    BY <1>1 DEF Next, CheckShape, ManualLink, CollectSegments, BridgeSegment, EnterDirect,
                DirectLink, EnterCheck, CheckDuplicates, Reject
  <2>3. Hosts' = Hosts
    BY <2>2 DEF Hosts, NodesOfKind, Nodes
  <2>4. stage = "routes"
    BY <2>1 DEF StageInv
  <2> QED BY <1>1, <2>3, <2>4 DEF RouteInv
<1>2. ASSUME UNCHANGED vars
      PROVE  AllRoutes' = a /\ (Stuck' <=> st) /\ Hosts' = Hosts /\ cfg' = cfg
  <2>1. cfg' = cfg
    BY <1>2 DEF vars
  <2> QED BY <1>0, <1>2, <2>1, SameRoutes
<1>3. CASE ComputeStaticRoutes
  <2>1. UNCHANGED vars /\ gateways' = gateways /\ stage = "routes"
    BY <1>3 DEF ComputeStaticRoutes
  <2>2. \/ ~cfg.auto_static /\ stage' = "gateways" /\ routes' = routes
        \/ cfg.auto_static /\ st /\ stage' = "failed" /\ routes' = routes
        \/ cfg.auto_static /\ ~st /\ stage' = "gateways" /\ routes' = a
    BY <1>0, <1>3 DEF ComputeStaticRoutes, Stuck, AllRoutes
  <2> QED BY <1>2, <2>1, <2>2 DEF RouteInv
<1>4. CASE HostDefaultGateways
  <2>1. UNCHANGED vars /\ routes' = routes /\ stage = "gateways" /\ stage' = "done"
    BY <1>4 DEF HostDefaultGateways
  <2>2. gateways' \in [Hosts -> Nat]
    <3>1. \A h \in Hosts : GatewayOf(h) \in Nat
      BY GatewayType
    <3> QED BY <1>4, <3>1 DEF HostDefaultGateways
  <2> QED BY <1>0, <1>2, <2>1, <2>2 DEF RouteInv
<1>5. CASE UNCHANGED planVars
  <2>1. UNCHANGED <<stage, routes, gateways>> /\ UNCHANGED vars
    BY <1>5 DEF planVars
  <2> QED BY <1>0, <1>2, <2>1 DEF RouteInv
<1> QED BY <1>1, <1>3, <1>4, <1>5 DEF PlanNext

DeployInv == PlanInv /\ StageInv /\ RouteInv

LEMMA DeployInvAlways == PlanSpec => []DeployInv
<1>1. PlanInit => StageInv /\ RouteInv
  BY StageInvInit, RouteInvInit
<1>2. PlanInv /\ (StageInv /\ RouteInv) /\ [PlanNext]_planVars => (StageInv /\ RouteInv)'
  BY StageInvNext, RouteInvNext DEF PlanInv, SubnetInv
<1> QED BY <1>1, <1>2, PlanSpecKeepsPlan, PlanInvAlways, PTL DEF PlanSpec, DeployInv

(* PlanTypeOK, for every configuration: a route is on a router, to a       *)
(* subnet of the graph, via the number of an address, and gateways are     *)
(* those of hosts.                                                         *)
THEOREM PlanTypeCorrect == PlanSpec => []PlanTypeOK
<1>1. DeployInv => PlanTypeOK
  <2> SUFFICES ASSUME DeployInv PROVE PlanTypeOK
    OBVIOUS
  <2>1. TypeInv /\ TypeOK /\ StageInv /\ RouteInv
    BY DEF DeployInv, PlanInv, SubnetInv, TypeInv
  <2>2. ASSUME NEW t \in routes PROVE t.at \in Routers /\ t.to \in Subnets /\ t.via \in Nat
    <3>1. t \in AllRoutes /\ ~Stuck
      BY <2>1, <2>2 DEF RouteInv
    <3> QED BY <2>1, <3>1, RouteType
  <2> QED BY <2>1, <2>2 DEF PlanTypeOK, RouteInv
<1> QED BY <1>1, DeployInvAlways, PTL

(* An address is in a network of at least one address.                     *)
SpanInv == \A p \in Ports : ip[p] # Unset => ip[p].span > 0

LEMMA SpanInvAlways == Spec => []SpanInv
<1>1. Init => SpanInv
  BY DEF Init, SpanInv
<1>2. SpanInv /\ [Next]_vars => SpanInv'
  <2> SUFFICES ASSUME SpanInv, [Next]_vars PROVE SpanInv'
    OBVIOUS
  <2>1. cfg' = cfg /\ Ports' = Ports
    <3>1. cfg' = cfg
      BY DEF Next, CheckShape, ManualLink, CollectSegments, BridgeSegment, EnterDirect,
             DirectLink, EnterCheck, CheckDuplicates, Reject, vars
    <3> QED BY <3>1 DEF Ports, Links
  <2>2. CASE ip' = ip
    BY <2>1, <2>2 DEF SpanInv
  <2>3. CASE ManualLink /\ ip' # ip
    <3>1. Configure(li) /\ Agree(li)
      BY <2>3 DEF ManualLink, Reject, plan
    <3>2. \A p \in Ports : p[1] = li /\ p[2] \in L3Ends(li) => cfg.ipv4[li][p[2]].span > 0
      BY <3>1 DEF Agree
    <3> QED BY <2>1, <3>1, <3>2 DEF Configure, SpanInv
  <2>4. CASE BridgeSegment /\ ip' # ip
    <3>1. PICK b : ip' = [p \in Ports |-> IF p \in LanPorts(b) THEN Host(NextSubnet("lan"), Rank(b, p)) ELSE ip[p]]
      BY <2>4 DEF BridgeSegment, Reject, plan
    <3>2. \A n : Host(NextSubnet("lan"), n).span > 0
      BY BlockType DEF Host, NextSubnet
    <3> QED BY <2>1, <3>1, <3>2 DEF SpanInv
  <2>5. CASE DirectLink /\ ip' # ip
    <3>1. ip' = [p \in Ports |-> IF p[1] = li THEN Host(NextSubnet(PoolOf(li)), HostNumber(li, p[2])) ELSE ip[p]]
      BY <2>5 DEF DirectLink, Reject, plan
    <3>2. \A n : Host(NextSubnet(PoolOf(li)), n).span > 0
      <4>1. PoolOf(li) \in {"p2p", "lan"}
        BY DEF PoolOf
      <4> QED BY <4>1, BlockType DEF Host, NextSubnet
    <3> QED BY <2>1, <3>1, <3>2 DEF SpanInv
  <2> QED BY <2>2, <2>3, <2>4, <2>5 DEF Next, CheckShape, CollectSegments, EnterDirect,
             EnterCheck, CheckDuplicates, Reject, vars, plan
<1> QED BY <1>1, <1>2, PTL DEF Spec

(* What holds of the ends of router links in an accepted plan.             *)
LEMMA AcceptedLinkEnds ==
  ASSUME PlanInv, phase = "accepted", NEW p \in LinkEnds
  PROVE  /\ p \in Addressed /\ OtherEnd(p) \in LinkEnds /\ OtherEnd(OtherEnd(p)) = p
         /\ PeerIP(p) = ip[OtherEnd(p)] /\ RouterIfaces(NodeOf(p)) = NetworksOf(NodeOf(p))
         /\ Network(ip[p]) \in NetworksOf(NodeOf(p))
<1>1. IsConfig(cfg) /\ \A q \in Ports : KindOf(q) = "router" => ip[q] # Unset
  BY PlanInvUsable DEF AddressesUsable, PlanInv, SubnetInv, TypeInv, TypeOK
<1>2. p \in Ports /\ RouterLink(p[1]) /\ p[2] \in {1, 2} /\ p = <<p[1], p[2]>>
  BY PortParts DEF LinkEnds
<1>3. OtherEnd(p) \in Ports /\ OtherEnd(p)[1] = p[1] /\ OtherEnd(OtherEnd(p)) = p
  BY <1>2, PortParts DEF OtherEnd
<1>4. OtherEnd(p) \in LinkEnds
  BY <1>2, <1>3 DEF LinkEnds
<1>5. ASSUME NEW q \in LinkEnds PROVE ip[q] # Unset /\ q \in Ports
  <2>1. q \in Ports /\ RouterLink(q[1]) /\ q[2] \in {1, 2} /\ q = <<q[1], q[2]>>
    BY PortParts DEF LinkEnds
  <2>2. KindOf(q) = "router"
    BY <2>1 DEF RouterLink
  <2> QED BY <1>1, <2>1, <2>2
<1>6. ~OnBridge(p[1])
  BY <1>2 DEF OnBridge, RouterLink
<1>7. ip[p] # Unset /\ ip[OtherEnd(p)] # Unset
  BY <1>4, <1>5
<1>8. PeerIP(p) = ip[OtherEnd(p)]
  BY <1>6, <1>7 DEF PeerIP
<1>9. Network(ip[p]) \in NetworksOf(NodeOf(p))
  BY <1>2, <1>7 DEF NetworksOf, PortsOf
<1> QED BY <1>2, <1>3, <1>4, <1>7, <1>8, <1>9 DEF Addressed, RouterIfaces

(* The next router is the one that the search of the router found.         *)
LEMMA NextRouterIsNextHop ==
  ASSUME DeployInv, stage = "done", cfg.auto_static, WellAddressed,
         NEW r \in Routers, NEW net \in Subnets, net \notin NetworksOf(r)
  PROVE  NextRouter(r, net) = NextHop(r, Owner(net)) /\ NextHop(r, Owner(net)) # 0 /\ net \in Remote(r)
<1>1. PlanInv /\ phase = "accepted" /\ routes = AllRoutes /\ ~Stuck /\ TypeInv /\ IsConfig(cfg)
  BY DEF DeployInv, StageInv, RouteInv, PlanInv, SubnetInv, TypeInv, TypeOK
<1>2. net \in Remote(r)
  BY DEF Remote, RouterIfaces
<1>3. NextHop(r, Owner(net)) # 0
  BY <1>1, <1>2 DEF Stuck
<1>4. PICK p : p = FirstLinkPort(r, NextHop(r, Owner(net)))
  OBVIOUS
<1>5. /\ p \in LinkEnds /\ p \in Ports /\ OtherEnd(p) \in Ports
      /\ NodeOf(p) = r /\ NodeOf(OtherEnd(p)) = NextHop(r, Owner(net))
      /\ Route(r, net) = [at |-> r, to |-> net, via |-> PeerIP(p).addr]
  BY <1>1, <1>2, <1>3, <1>4, RouteIsDirect
<1>6. PICK e : e = OtherEnd(p)
  OBVIOUS
<1>7. e \in Addressed /\ OtherEnd(e) = p /\ PeerIP(p) = ip[e]
  BY <1>1, <1>5, <1>6, AcceptedLinkEnds
<1> DEFINE hops == {q \in Addressed : \E t \in routes :
                 t.at = r /\ t.to = net /\ t.via = ip[q].addr /\ NodeOf(OtherEnd(q)) = r}
<1>8. e \in hops
  <2>1. Route(r, net) \in routes
    BY <1>1, <1>2 DEF AllRoutes
  <2> QED BY <1>5, <1>7, <2>1
<1>9. ASSUME NEW q \in hops PROVE q = e
  <2>1. PICK t \in AllRoutes : t.at = r /\ t.to = net /\ t.via = ip[q].addr
    BY <1>1
  <2>2. t = Route(r, net)
    <3>1. PICK x : \E y : t = Route(x, y)
      BY DEF AllRoutes
    <3>2. PICK y : t = Route(x, y)
      BY <3>1
    <3>3. x = r /\ y = net
      BY <2>1, <3>2 DEF Route
    <3> QED BY <3>2, <3>3
  <2>3. ip[q].addr = ip[e].addr /\ q \in Addressed
    BY <1>5, <1>7, <2>1, <2>2
  <2> QED BY <1>7, <2>3 DEF WellAddressed
<1>10. hops = {e}
  <2> HIDE DEF hops
  <2> QED BY <1>8, <1>9
<1>11. (CHOOSE q \in hops : TRUE) = e
  BY <1>10
<1>12. NextRouter(r, net) = NodeOf(CHOOSE q \in hops : TRUE)
  BY <1>8 DEF NextRouter
<1> HIDE DEF hops
<1> QED BY <1>2, <1>3, <1>5, <1>6, <1>11, <1>12

(* What RoutesLead says of one walk.                                       *)
Walks(walk, r, net) ==
  /\ walk \in [0 .. Cardinality(Routers) -> Routers] /\ walk[0] = r
  /\ \A i \in 1 .. Cardinality(Routers) :
       walk[i] = IF net \in NetworksOf(walk[i - 1]) THEN walk[i - 1] ELSE NextRouter(walk[i - 1], net)

Arrives(r, net) ==
  LET walk[i \in 0 .. Cardinality(Routers)] ==
        IF i = 0 THEN r
        ELSE IF net \in NetworksOf(walk[i - 1]) THEN walk[i - 1]
        ELSE NextRouter(walk[i - 1], net)
  IN  net \in NetworksOf(walk[Cardinality(Routers)])

LEMMA WalkRuns ==
  ASSUME IsConfig(cfg), NEW r \in Routers, NEW net,
         \A x \in Routers : net \notin NetworksOf(x) => NextRouter(x, net) \in Routers
  PROVE  \E walk : Walks(walk, r, net) /\ (Arrives(r, net) <=> net \in NetworksOf(walk[Cardinality(Routers)]))
<1> DEFINE N == Cardinality(Routers)
           Body(x) == IF net \in NetworksOf(x) THEN x ELSE NextRouter(x, net)
           g == [x \in (1 .. N) \X Routers |-> Body(x[2])]
           walk[i \in 0 .. N] ==
             IF i = 0 THEN r
             ELSE IF net \in NetworksOf(walk[i - 1]) THEN walk[i - 1]
             ELSE NextRouter(walk[i - 1], net)
<1>1. N \in Nat
  BY RoutersFinite
<1>2. \A x \in Routers : Body(x) \in Routers
  OBVIOUS
<1>3. Arrives(r, net) <=> net \in NetworksOf(walk[N])
  BY DEF Arrives
<1>4. \E f : f = [i \in 0 .. N |-> IF i = 0 THEN r ELSE Body(f[i - 1])]
  <2>1. g \in StepsOn(Routers, N)
    <3> HIDE DEF Body
    <3>1. \A x \in (1 .. N) \X Routers : Body(x[2]) \in Routers
      BY <1>2
    <3> QED BY <3>1 DEF StepsOn
  <2>2. \A i \in 1 .. N, x \in Routers : g[<<i, x>>] = Body(x)
    OBVIOUS
  <2> HIDE DEF g, N, walk, Body
  <2>3. PICK f : Unrolls(f, Routers, N, r, g)
    BY <1>1, <2>1, Iteration
  <2>4. \A i \in 0 .. N : f[i] = IF i = 0 THEN r ELSE Body(f[i - 1])
    <3> SUFFICES ASSUME NEW i \in 0 .. N PROVE f[i] = IF i = 0 THEN r ELSE Body(f[i - 1])
      OBVIOUS
    <3>1. i # 0 => i \in 1 .. N /\ i - 1 \in 0 .. N
      BY <1>1
    <3> QED BY <2>2, <2>3, <3>1 DEF Unrolls
  <2> QED BY <2>3, <2>4 DEF Unrolls
<1>5. walk = [i \in 0 .. N |-> IF i = 0 THEN r ELSE Body(walk[i - 1])]
  BY <1>4 DEF walk
<1> HIDE DEF walk, Body
<1>6. walk[0] = r /\ \A i \in 1 .. N : walk[i] = Body(walk[i - 1])
  BY <1>1, <1>5
<1>7. \A i \in 0 .. N : walk[i] \in Routers
  <2> HIDE DEF N
  <2> DEFINE P == {i \in 0 .. N : walk[i] \in Routers}
  <2>1. 0 \in P
    BY <1>1, <1>6
  <2>2. ASSUME NEW i \in 1 .. N, i - 1 \in P PROVE i \in P
    <3>1. i \in 0 .. N /\ walk[i - 1] \in Routers
      BY <1>1, <2>2
    <3>2. walk[i] \in Routers
      BY <1>2, <1>6, <3>1
    <3> QED BY <3>1, <3>2
  <2> HIDE DEF P
  <2>3. \A i \in 0 .. N : i \in P
    BY <1>1, <2>1, <2>2, Induction
  <2> QED BY <2>3 DEF P
<1>8. walk \in [0 .. N -> Routers]
  BY <1>5, <1>7
<1>9. Walks(walk, r, net)
  BY <1>6, <1>8 DEF Body, Walks
<1> QED BY <1>3, <1>9

(* A walk ends where the subnet is: each step of it is one on a shortest   *)
(* way to the owner of the subnet.                                         *)
LEMMA WalkArrives ==
  ASSUME DeployInv, stage = "done", cfg.auto_static, WellAddressed, NEW r \in Routers, NEW net \in Subnets
  PROVE  Arrives(r, net)
<1>1. IsConfig(cfg)
  BY DEF DeployInv, PlanInv, SubnetInv, TypeInv, TypeOK
<1>2. PICK o : o = Owner(net)
  OBVIOUS
<1>3. o \in Routers /\ net \in NetworksOf(o)
  BY <1>1, <1>2, OwnerHasIt DEF RouterIfaces
<1>4. PICK N : N = Cardinality(Routers)
  OBVIOUS
<1>5. N \in Nat
  BY <1>1, <1>4, RoutersFinite
<1>6. ASSUME NEW x \in Routers, net \notin NetworksOf(x)
      PROVE  /\ NextRouter(x, net) \in Routers
             /\ \E d \in 1 .. N : /\ Path(NextRouter(x, net), o, d - 1) /\ Path(x, o, d)
                                  /\ \A i \in Nat : Path(x, o, i) => d <= i
  <2>1. NextRouter(x, net) = NextHop(x, o) /\ NextHop(x, o) # 0
    BY <1>2, <1>6, NextRouterIsNextHop
  <2>2. x # o
    BY <1>3, <1>6
  <2> QED BY <1>1, <1>3, <1>4, <2>1, <2>2, NextHopLeads
<1>7. PICK walk : Walks(walk, r, net) /\ (Arrives(r, net) <=> net \in NetworksOf(walk[Cardinality(Routers)]))
  BY <1>1, <1>6, WalkRuns
<1>8. /\ walk \in [0 .. N -> Routers] /\ walk[0] = r
      /\ \A i \in 1 .. N :
           walk[i] = IF net \in NetworksOf(walk[i - 1]) THEN walk[i - 1] ELSE NextRouter(walk[i - 1], net)
  BY <1>4, <1>7 DEF Walks
<1> DEFINE P == {i \in 0 .. N : \/ net \in NetworksOf(walk[i])
                                \/ \E j \in 0 .. N - i : Path(walk[i], o, j)}
<1>9. 0 \in P
  <2>1. 0 \in 0 .. N /\ 1 .. N \subseteq 0 .. N - 0
    BY <1>5
  <2>2. net \in NetworksOf(r) \/ \E d \in 1 .. N : Path(r, o, d)
    BY <1>6
  <2> QED BY <1>8, <2>1, <2>2
<1>10. ASSUME NEW i \in 1 .. N, i - 1 \in P PROVE i \in P
  <2>1. PICK x : x = walk[i - 1]
    OBVIOUS
  <2>2. i \in 0 .. N /\ i - 1 \in 0 .. N
    BY <1>5
  <2>3. x \in Routers
    BY <1>8, <2>1, <2>2
  <2>4. CASE net \in NetworksOf(x)
    <3>1. walk[i] = x
      BY <1>8, <2>1, <2>4
    <3> QED BY <2>2, <2>4, <3>1
  <2>5. CASE net \notin NetworksOf(x)
    <3>1. walk[i] = NextRouter(x, net)
      BY <1>8, <2>1, <2>5
    <3>2. PICK j \in 0 .. N - (i - 1) : Path(x, o, j)
      BY <1>10, <2>1, <2>5
    <3>3. PICK d \in 1 .. N : /\ Path(NextRouter(x, net), o, d - 1)
                              /\ \A m \in Nat : Path(x, o, m) => d <= m
      BY <1>6, <2>3, <2>5
    <3>4. d <= j /\ j \in Nat
      BY <1>5, <3>2, <3>3
    <3>5. d - 1 \in 0 .. N - i
      BY <1>5, <3>2, <3>4
    <3> QED BY <2>2, <3>1, <3>3, <3>5
  <2> QED BY <2>4, <2>5
<1> HIDE DEF P
<1>11. N \in P
  <2>1. \A i \in 0 .. N : i \in P
    BY <1>5, <1>9, <1>10, Induction
  <2> QED BY <1>5, <2>1
<1>12. net \in NetworksOf(walk[N])
  <2>1. N - N = 0 /\ 0 .. 0 = {0}
    BY <1>5
  <2>2. net \in NetworksOf(walk[N]) \/ Path(walk[N], o, 0)
    BY <1>11, <2>1 DEF P
  <2>3. Path(walk[N], o, 0) => walk[N] = o
    BY DEF Path, Steps
  <2> QED BY <1>3, <2>2, <2>3
<1> QED BY <1>4, <1>7, <1>12

(* RoutesLead, for every configuration: following the static routes, each  *)
(* of them computed by a search of the router that it is on, brings a      *)
(* packet from any router to one that has the subnet.                      *)
THEOREM StaticRoutesLead == PlanSpec => []RoutesLead
<1>1. DeployInv => RoutesLead
  BY WalkArrives DEF RoutesLead, Arrives
<1> QED BY <1>1, DeployInvAlways, PTL

(* A router that has a network of a link between routers is at one of its  *)
(* ends.                                                                   *)
LEMMA OnlyTheEnds ==
  ASSUME PlanInv, SpanInv, phase = "accepted", WellAddressed, NEW e \in LinkEnds,
         NEW r \in Routers, Network(ip[e]) \in NetworksOf(r)
  PROVE  r = NodeOf(e) \/ r = NodeOf(OtherEnd(e))
<1>1. PICK q \in PortsOf(r) : ip[q] # Unset /\ Network(ip[q]) = Network(ip[e])
  BY DEF NetworksOf
<1>2. /\ q \in Ports /\ NodeOf(q) = r /\ q \in Addressed /\ q[2] \in {1, 2} /\ q = <<q[1], q[2]>>
      /\ KindOf(q) = "router"
  BY <1>1, PortParts DEF PortsOf, Addressed, Routers, NodesOfKind, KindOf
<1>3. /\ e \in Ports /\ e \in Addressed /\ e[2] \in {1, 2} /\ e = <<e[1], e[2]>>
      /\ RouterLink(e[1]) /\ ip \in [Ports -> Cidrs]
  BY AcceptedLinkEnds, PortParts DEF LinkEnds, PlanInv, SubnetInv, TypeInv, TypeOK
<1>4. Network(ip[e]).span \in Nat /\ Network(ip[e]).span > 0 /\ Network(ip[e]).addr \in Nat
  <2>1. ip[e] \in Cidrs /\ ip[e].span > 0
    BY <1>3 DEF SpanInv, Addressed
  <2> QED BY <2>1, NetworkType DEF Network, Cidrs
<1>5. ~Apart(Network(ip[q]), Network(ip[e]))
  BY <1>1, <1>4 DEF Apart
<1>6. SameSegment(q, e)
  BY <1>2, <1>3, <1>5 DEF WellAddressed
<1>7. CASE q[1] = e[1]
  BY <1>2, <1>3, <1>7 DEF OtherEnd
<1>8. CASE OnBridge(q[1]) /\ NodeOf(OtherEnd(q)) = NodeOf(OtherEnd(e))
  <2>1. cfg.kind[NodeOf(OtherEnd(q))] = "bridge"
    <3>1. cfg.kind[Across(q)] = "bridge"
      <4>1. IsConfig(cfg)
        BY DEF PlanInv, SubnetInv, TypeInv, TypeOK
      <4> QED BY <1>2, <1>8, <4>1, BridgeAcross
    <3> QED BY <3>1 DEF Across, OtherEnd
  <2>2. cfg.kind[NodeOf(OtherEnd(e))] = "router"
    BY <1>3 DEF RouterLink, OtherEnd, KindOf
  <2> QED BY <1>8, <2>1, <2>2
<1> QED BY <1>6, <1>7, <1>8 DEF SameSegment

(* A set that router links do not leave is closed, and so are the others.  *)
LEMMA SplitIsClosed ==
  ASSUME IsConfig(cfg), NEW S \in SUBSET Routers,
         \A k \in Links : RouterLink(k) => (NodeOf(<<k, 1>>) \in S <=> NodeOf(<<k, 2>>) \in S)
  PROVE  Closed(S) /\ Closed(Routers \ S)
<1>1. ASSUME NEW r, NEW n, Linked(r, n) PROVE r \in S <=> n \in S
  <2>1. PICK p \in LinkEnds : NodeOf(p) = r /\ NodeOf(OtherEnd(p)) = n
    BY <1>1 DEF Linked
  <2>2. p[1] \in Links /\ p[2] \in {1, 2} /\ p = <<p[1], p[2]>> /\ RouterLink(p[1])
    BY PortParts DEF LinkEnds
  <2>3. CASE p[2] = 1
    <3>1. p = <<p[1], 1>> /\ OtherEnd(p) = <<p[1], 2>>
      BY <2>2, <2>3 DEF OtherEnd
    <3> QED BY <2>1, <2>2, <3>1
  <2>4. CASE p[2] = 2
    <3>1. p = <<p[1], 2>> /\ OtherEnd(p) = <<p[1], 1>>
      BY <2>2, <2>4 DEF OtherEnd
    <3> QED BY <2>1, <2>2, <3>1
  <2> QED BY <2>2, <2>3, <2>4
<1> QED BY <1>1 DEF Closed

LEMMA StuckMeansSplit ==
  ASSUME IsConfig(cfg), Stuck
  PROVE  LinkEnds # {} /\ Split
<1>0. PICK r \in Routers : \E net \in Remote(r) : NextHop(r, Owner(net)) = 0
  BY DEF Stuck
<1>1. PICK net \in Remote(r) : NextHop(r, Owner(net)) = 0
  BY <1>0
<1>2. Owner(net) \in Routers /\ Owner(net) # r /\ net \in RouterIfaces(Owner(net))
  BY RemoteOwner
<1>3. LinkEnds # {}
  BY <1>2 DEF RouterIfaces
<1>4. Cut(r, Owner(net))
  BY <1>1, <1>2, NextHopLeads, RoutersFinite
<1>5. PICK S \in SUBSET Routers : Closed(S) /\ r \in S /\ Owner(net) \notin S
  BY <1>4 DEF Cut
<1>6. ASSUME NEW k \in Links, RouterLink(k) PROVE NodeOf(<<k, 1>>) \in S <=> NodeOf(<<k, 2>>) \in S
  <2>1. <<k, 1>> \in LinkEnds /\ OtherEnd(<<k, 1>>) = <<k, 2>>
    BY <1>6 DEF LinkEnds, Ports, OtherEnd
  <2>2. Linked(NodeOf(<<k, 1>>), NodeOf(<<k, 2>>))
    BY <2>1 DEF Linked
  <2>3. /\ Linked(NodeOf(<<k, 2>>), NodeOf(<<k, 1>>))
        /\ NodeOf(<<k, 1>>) \in Routers /\ NodeOf(<<k, 2>>) \in Routers
    BY <2>2, LinkedBothWays
  <2> QED BY <1>5, <2>2, <2>3 DEF Closed
<1> QED BY <1>2, <1>3, <1>5, <1>6 DEF Split

LEMMA SplitMeansStuck ==
  ASSUME PlanInv, SpanInv, phase = "accepted", WellAddressed, LinkEnds # {}, Split
  PROVE  Stuck
<1>1. IsConfig(cfg)
  BY DEF PlanInv, SubnetInv, TypeInv, TypeOK
<1>2. PICK S \in SUBSET Routers :
        /\ S # {} /\ S # Routers
        /\ \A k \in Links : RouterLink(k) => (NodeOf(<<k, 1>>) \in S <=> NodeOf(<<k, 2>>) \in S)
  BY DEF Split
<1>3. Closed(S) /\ Closed(Routers \ S)
  BY <1>1, <1>2, SplitIsClosed
<1>4. PICK e \in LinkEnds : TRUE
  OBVIOUS
<1>5. PICK net : net = Network(ip[e])
  OBVIOUS
<1>6. /\ NodeOf(e) \in Routers /\ net \in RouterIfaces(NodeOf(e)) /\ net \in Subnets
      /\ Linked(NodeOf(e), NodeOf(OtherEnd(e))) /\ NodeOf(OtherEnd(e)) \in Routers
  BY <1>1, <1>5, AcceptedLinkEnds, NeighbourIsOther DEF Subnets, Linked
<1>7. NodeOf(e) \in S <=> NodeOf(OtherEnd(e)) \in S
  BY <1>3, <1>6 DEF Closed
<1>8. ASSUME NEW x \in Routers, net \in RouterIfaces(x) PROVE x \in S <=> NodeOf(e) \in S
  <2>1. x = NodeOf(e) \/ x = NodeOf(OtherEnd(e))
    BY <1>5, <1>8, OnlyTheEnds DEF RouterIfaces
  <2> QED BY <1>7, <2>1
<1>9. PICK o : o = Owner(net)
  OBVIOUS
<1>10. o \in Routers /\ (o \in S <=> NodeOf(e) \in S)
  BY <1>1, <1>6, <1>8, <1>9, OwnerHasIt
<1>11. PICK r \in Routers : ~(r \in S <=> o \in S)
  BY <1>2
<1>12. net \in Remote(r) /\ r # o
  BY <1>6, <1>8, <1>10, <1>11 DEF Remote
<1>13. ASSUME NEW d \in Nat, Path(r, o, d) PROVE FALSE
  <2>1. CASE r \in S
    BY <1>3, <1>11, <1>13, <2>1, PathStaysIn
  <2>2. CASE r \notin S
    <3>1. r \in Routers \ S
      BY <2>2
    <3> QED BY <1>3, <1>11, <1>13, <3>1, PathStaysIn
  <2> QED BY <2>1, <2>2
<1>14. NextHop(r, o) = 0
  <2>1. Cardinality(Routers) \in Nat
    BY <1>1, RoutersFinite
  <2> QED BY <1>1, <1>10, <1>12, <1>13, <2>1, NextHopLeads
<1> QED BY <1>9, <1>12, <1>14 DEF Stuck

(* FailsOnlyWhenSplit, for every configuration: the deploy gives up the    *)
(* static routes exactly when the links between routers leave some of the  *)
(* routers without a way to the others.                                    *)
THEOREM FailureMeansSplit == PlanSpec => []FailsOnlyWhenSplit
<1>1. DeployInv /\ SpanInv => FailsOnlyWhenSplit
  <2> SUFFICES ASSUME DeployInv, SpanInv, stage # "routes", cfg.auto_static, WellAddressed
               PROVE  stage = "failed" <=> LinkEnds # {} /\ Split
    BY DEF FailsOnlyWhenSplit
  <2>1. PlanInv /\ phase = "accepted" /\ (stage = "failed" <=> Stuck) /\ IsConfig(cfg)
    BY DEF DeployInv, StageInv, RouteInv, PlanInv, SubnetInv, TypeInv, TypeOK
  <2> QED BY <2>1, StuckMeansSplit, SplitMeansStuck
<1> QED BY <1>1, DeployInvAlways, SpanInvAlways, PlanSpecKeepsPlan, PTL

(* Without addresses of the configuration, the condition of the two        *)
(* theorems above is met: the allocators give each interface an address    *)
(* of its own, and each segment a network of its own.                      *)
THEOREM AutomaticPlansAreWellAddressed == PlanSpec => [](NoneGiven => WellAddressed)
<1>1. PlanInv => (NoneGiven => WellAddressed)
  <2> SUFFICES ASSUME PlanInv, NoneGiven, NEW p \in Addressed, NEW q \in Addressed
               PROVE  /\ p # q => ip[p].addr # ip[q].addr
                      /\ Apart(Network(ip[p]), Network(ip[q])) \/ SameSegment(p, q)
    BY DEF WellAddressed
  <2>1. /\ p \in Ports /\ q \in Ports /\ ip[p] # Unset /\ ip[q] # Unset
        /\ Automatic(p[1]) /\ Automatic(q[1])
    BY PortParts DEF Addressed, NoneGiven
  <2>2. p # q => ip[p].addr # ip[q].addr
    BY <2>1, PlacedDiffer
  <2>3. Network(ip[p]) = subnet[p[1]] /\ Network(ip[q]) = subnet[q[1]]
    BY <2>1, NetworkIsSubnet
  <2>4. CASE Apart(subnet[p[1]], subnet[q[1]])
    BY <2>2, <2>3, <2>4
  <2>5. CASE ~Apart(subnet[p[1]], subnet[q[1]])
    <3>1. p[1] = q[1] \/ (OnBridge(p[1]) /\ Across(p) = Across(q))
      BY <2>1, <2>5, SameSubnet
    <3> QED BY <2>2, <3>1 DEF SameSegment, Across, OtherEnd
  <2> QED BY <2>4, <2>5
<1> QED BY <1>1, PlanSpecKeepsPlan, PlanInvAlways, PTL
=============================================================================
