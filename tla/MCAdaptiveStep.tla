--------------------------- MODULE MCAdaptiveStep ---------------------------
(* AdaptiveStep over the sample grids of the runs. *)
EXTENDS AdaptiveStep

\* Samples apart, close together, twice the same, and just before the end.
MCGrids == {<<0, 7>>, <<0, 3, 7>>, <<0, 1, 2, 7>>, <<0, 4, 4, 7>>, <<0, 2, 5, 6, 7>>, <<0, 6, 7, 7>>}
=============================================================================
