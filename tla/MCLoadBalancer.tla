--------------------------- MODULE MCLoadBalancer ---------------------------
(***************************************************************************)
(* Small instances of LoadBalancer for TLC.  Destinations name two of the  *)
(* machines and an address that is no machine; a third machine is reached  *)
(* only by destinations that name no address, which go to any of the three.*)
(***************************************************************************)
EXTENDS LoadBalancer

CONSTANTS m1, m2, m3, other

MCAddrs == {m1, m2, other}

ThreeMachines == {m1, m2, m3}

TwoMachines == {m1, m2}
=============================================================================
