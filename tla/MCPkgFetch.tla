----------------------------- MODULE MCPkgFetch -----------------------------
(* Three commands and two archives for TLC.  Two of the commands fetch the   *)
(* same archive, so that they can leave a file that is too long; the third   *)
(* wants both, and finds what the others left.                               *)
EXTENDS PkgFetch, TLC

CONSTANTS p1, p2, p3, big, small

MCTogether == {{p1, p2}, {p3}}
MCSize == (big :> 2) @@ (small :> 1)
MCJobs == (p1 :> <<big>>) @@ (p2 :> <<big>>) @@ (p3 :> <<small, big>>)
=============================================================================
