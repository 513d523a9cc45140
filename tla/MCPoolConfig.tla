---------------------------- MODULE MCPoolConfig ----------------------------
(***************************************************************************)
(* An instance of PoolConfig for TLC. The schema allows the ASNs 2 .. 4,   *)
(* an int32 is one of -7 .. 6, a byte is 0 or 1.                           *)
(***************************************************************************)
EXTENDS PoolConfig

CONSTANTS c1, c2

Net(b, ones) == [net |-> b, sub |-> 0, ones |-> ones, v4 |-> TRUE]
FirstNet == Net(0, 8)

Empty == [asnMin |-> Unset, asnMax |-> Unset, vtepPoolCIDR |-> Unset,
          vtepPrefixLen |-> Unset, vni |-> TRUE]

ASNs(lo, hi) == [Empty EXCEPT !.asnMin = lo, !.asnMax = hi]
Vteps(pool, len) == [Empty EXCEPT !.vtepPoolCIDR = pool, !.vtepPrefixLen = len]

(* A pool of one, ranges from zero, beyond the schema and at the end of    *)
(* int32, bounds in disorder; another pool, a length that the allocator    *)
(* does not support, an IPv6 pool.                                         *)
ConfigMapChoices ==
  {NoConfigMap, ASNs(2, 2), ASNs(0, 4), ASNs(4, 6), ASNs(6, 6), ASNs(5, Unset),
   Vteps(Net(1, 8), Unset), Vteps(Unset, 24),
   Vteps([Net(0, 8) EXCEPT !.v4 = FALSE], Unset)}

(* Fewer, for more edits: an agent may have to exit and can run again.     *)
EditChoices ==
  {NoConfigMap, ASNs(2, 2), ASNs(6, 6), ASNs(5, Unset), Vteps(Net(1, 8), Unset),
   Vteps(Unset, 24)}

(* The second cluster's user asks for values.                              *)
SecondVtep == [c \in Clusters |-> IF c = c2 THEN Net(0, 16) ELSE Unset]
SecondASN == [c \in Clusters |-> IF c = c2 THEN 3 ELSE 0]
=============================================================================
