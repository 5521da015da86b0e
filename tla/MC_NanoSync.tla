---------------------------- MODULE MC_NanoSync -----------------------------
(***************************************************************************)
(* One console tab and one relay worker, two resources.                    *)
(***************************************************************************)
EXTENDS NanoSync, TLC

\* No safety property tells the resources apart.
Symmetry == Permutations(Key)

\* Nothing is kept apart.
Overlaps == {}

\* No debounced save is pending, but a notification may be handled while a request
\* is served.
RefreshOverlaps == {"timer"}

\* Only a debounced save overlaps a request.
TimerOverlaps == {"refresh"}
=============================================================================
