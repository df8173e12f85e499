---------------------------- MODULE MCEqualizer -----------------------------
(***************************************************************************)
(* Instances of Equalizer for TLC: two clusters of different size, whose   *)
(* pods ask for nothing or for nine tenths, and overrides from 1 percent   *)
(* (which makes the ratio exceed the target) to none.                      *)
(***************************************************************************)
EXTENDS Equalizer, TLC

CONSTANTS east, west

Each(n) == [res \in Resource |-> n]

MCSupply == (east :> Each(1000)) @@ (west :> Each(100))

MCLoads == (east :> {Each(0), Each(900)}) @@ (west :> {Each(45)})

SpecOf(override) ==
  [budget |-> 80, override |-> Each(override), mode |-> "enforce"]

MCSpecs == (east :> {SpecOf(1)}) @@ (west :> {SpecOf(NULL)})

MCConfigs == {[target |-> Each(80), clusters |-> Cluster]}

MCOthers ==
  {[utilization |-> <<u, 2>>, allocatable |-> a] :
     u \in {0, 161, 180}, a \in {0, 300}}

MCTargets == {1, 80}
=============================================================================
