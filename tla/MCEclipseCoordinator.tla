------------------------ MODULE MCEclipseCoordinator ------------------------
(* Skies and sample grids for the instance of EclipseCoordinator that TLC checks. *)
EXTENDS EclipseCoordinator

CONSTANT MaxCrossings

\* Up to MaxCrossings passages of the boundary, anywhere on an arc that starts in sunlight.
FewCrossings ==
  {sky0 \in [0..Span -> BOOLEAN] :
     ~sky0[0] /\ Cardinality({c \in 0..Span - 1 : sky0[c] # sky0[c + 1]}) <= MaxCrossings}

\* A sample at every tick, one before t0 and one after tf; a sparse request.
SomeGrids == {[i \in 1..Span + 3 |-> i - 2], <<2, 3, Span - 1>>}
=============================================================================
