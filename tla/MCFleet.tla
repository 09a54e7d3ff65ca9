------------------------------ MODULE MCFleet ------------------------------
(* Fleet on a small instance: a server of two sequences and two threads;      *)
(* three devices, the last one in a peer group of its own, five layers, two   *)
(* GPUs and two lease holders.                                                *)
EXTENDS Fleet

ThreeDevices == 0 .. 2
Groups == [d \in ThreeDevices |-> d \div 2]

\* Items of a placed sequence and of one nobody places: staying, crossing, from
\* or to a device nobody has, and of a layer nobody has.
Nobody == 3
SomeItems == [seq : {0, -1}, layer : {0}, source : {0}, target : ThreeDevices \cup {Nobody}]
             \cup [seq : {0}, layer : {0, LayerCount}, source : {Nobody}, target : {Nobody}]

\* Two shards of two pages from the other device make seven CUDA calls.
TwoSources == [1 .. 1 -> Gpus] \cup [1 .. 2 -> Gpus]
SomeShards == [device : Gpus, sources : TwoSources, wellFormed : {TRUE}]
              \cup [device : Gpus, sources : [1 .. 1 -> Gpus], wellFormed : {FALSE}]
AnyCall == 0 .. 7
=============================================================================
