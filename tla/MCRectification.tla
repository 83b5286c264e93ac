---------------------------- MODULE MCRectification ----------------------------
(* Sample grids for the instance of Rectification that TLC checks. *)
EXTENDS Rectification

\* A sample at every tick and around the arc; sparse ones, with and without t0 and a last
\* sample past tf; none at all.
SomeGrids ==
  {<<-1, 0, 1, 2, 3, 4, 5, 6, 7, 8>>, <<2, 5>>, <<0, 3, 7>>, <<0, 3, 8>>, <<>>}
=============================================================================
