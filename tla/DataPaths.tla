------------------------------- MODULE DataPaths -------------------------------
(* Kernels and the stream codecs.  The codecs stand apart from the other data  *)
(* paths because their decoders are recursive.                                 *)
EXTENDS Kernels

CONSTANTS WordBits, Widths, Tokens, Dim, Values, BlockSizes, CodeBook, Freq, L, Radix, MaxSymbols

VARIABLES input, coded

Codec == INSTANCE Codecs WITH W <- WordBits

codecVars == <<input, coded>>

CodecIdle == input = <<>> /\ coded = <<>>

DataPathsInit ==
  \/ KernelsInit /\ CodecIdle
  \/ part = "codecs" /\ Codec!CodecInit /\ TextIdle /\ LayoutIdle /\ AdaptiveIdle

DataPathsNext ==
  \/ KernelsNext /\ UNCHANGED codecVars
  \/ part = "codecs" /\ Codec!CodecNext /\ UNCHANGED kernelsVars

DataPathsSpec == DataPathsInit /\ [][DataPathsNext]_<<kernelsVars, codecVars>>

-----------------------------------------------------------------------------

\* What was quantised or encoded is read back, wherever a kernel starts.
DecodersExact == part = "codecs" => Codec!DecodersExact
=============================================================================
