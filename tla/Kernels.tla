------------------------------- MODULE Kernels -------------------------------
(* The data paths that keep no shared state: the text index, the layouts of    *)
(* paged attention and the adaptive pages.  The code has them know nothing of  *)
(* each other, so a behaviour is of one of them, its part.                     *)
EXTENDS TextIndex

CONSTANTS PagedHeads, GroupSize, TokenMax, Capacity, MaxViews, MaxScore,
          Unit, Grain, Count, Multiples, Configs, MaxOps

VARIABLES part,
          views, viewTail,
          config, counters, page, source, ops

Layout == INSTANCE KvPages WITH KvHeads <- PagedHeads, MaxPages <- MaxViews, pages <- views, active <- viewTail
Adaptive == INSTANCE AdaptiveCompression

\* The sizes of a layout are counts.
ASSUME LayoutConstants == PagedHeads \in Nat /\ TokenMax \in Nat /\ Capacity \in Nat

\* cf_adaptive_create and cf_adaptive_analyze refuse empty blocks and pages; the
\* values encoded are in the range that raw pages do not clamp, and in units that
\* a step of each codec divides (7 * 127).
ASSUME AdaptiveConstants ==
  /\ Count \in Nat \ {0} /\ \A c \in Configs : c.block_size \in Nat \ {0}
  /\ Unit \in Nat \ {0} /\ Unit % 889 = 0 /\ Grain \in Nat /\ Grain % 889 = 0
  /\ Multiples \subseteq Int /\ \A m \in Multiples : -(32767 * Unit) <= m * Grain /\ m * Grain <= 32767 * Unit

pagesVars    == <<views, viewTail>>
adaptiveVars == <<config, counters, page, source, ops>>

TextIdle     == s = <<>> /\ builder = "host" /\ phase = "none" /\ k = 0 /\ rank = <<>> /\ index = <<>> /\ job = <<>>
LayoutIdle   == views = <<>> /\ viewTail = <<>>
AdaptiveIdle == config = <<>> /\ counters = <<>> /\ page = <<>> /\ source = <<>> /\ ops = 0

KernelsInit ==
  \/ part = "text"     /\ TextInit              /\ LayoutIdle /\ AdaptiveIdle
  \/ part = "layout"   /\ Layout!PagesInit      /\ TextIdle /\ AdaptiveIdle
  \/ part = "adaptive" /\ Adaptive!AdaptiveInit /\ TextIdle /\ LayoutIdle

KernelsNext ==
  /\ UNCHANGED part
  /\ \/ part = "text"     /\ TextNext              /\ UNCHANGED <<pagesVars, adaptiveVars>>
     \/ part = "layout"   /\ Layout!PagesNext      /\ UNCHANGED <<textVars, adaptiveVars>>
     \/ part = "adaptive" /\ Adaptive!AdaptiveNext /\ UNCHANGED <<textVars, pagesVars>>

kernelsVars == <<part, textVars, pagesVars, adaptiveVars>>
KernelsSpec == KernelsInit /\ [][KernelsNext]_kernelsVars

-----------------------------------------------------------------------------

\* A layout that validates holds each position of a head once.
LayoutsDisjoint == part = "layout" => Layout!LayoutsDisjoint

\* A launch attends to the stored positions of its window, each once.
AttentionExact == part = "layout" => Layout!AttentionExact

\* Adaptive pages decode to within half a step, whatever their codecs.
PageFaithful == part = "adaptive" => Adaptive!PageFaithful
=============================================================================
