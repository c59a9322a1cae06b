--------------------------- MODULE MCShmEventLoop ---------------------------
(* ShmEventLoop for TLC: the channels are interchangeable.  The arithmetic *)
(* of its phased loops is checked at the start.                            *)
EXTENDS ShmEventLoop, PhasedLoop, TLC

Symmetry == Permutations(Channels)
=============================================================================
