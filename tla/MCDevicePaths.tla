---------------------------- MODULE MCDevicePaths ----------------------------
(* DevicePaths on small instances.  The data paths: streams of 1 and 19        *)
(* symbols in words of 6 bits, layouts of three pages on a position range that *)
(* wraps at 6, adaptive pages of three values, quantised pages of two tokens   *)
(* and three channels, three symbols with codes of one and two bits.  The      *)
(* engines: two tokens to a page, two bytes to a scalar, strides that fit and  *)
(* near misses, prompts longer than a page and enough tokens for a page after  *)
(* them; layers are interchangeable.                                           *)
EXTENDS DevicePaths, TLC

SomeMultiples == {-3, 0, 2}

SomeConfigs ==
  [policy : {"fixed_int4"}, min_bits : {2}, max_bits : {16}, block_size : {2}, max_page_error : {0}]
    \cup [policy : {"hybrid"}, min_bits : {2, 4}, max_bits : {8, 16}, block_size : {2}, max_page_error : {20, 600}]

SomeValues == {-4, -2, 3}
Codes == [x \in 0 .. 2 |-> CASE x = 0 -> <<0>> [] x = 1 -> <<1, 0>> [] OTHER -> <<1, 1>>]
Frequencies == [x \in 0 .. 2 |-> IF x = 0 THEN 2 ELSE 1]

LayerSymmetry == Permutations(Layers)
=============================================================================
