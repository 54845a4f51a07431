----------------------------- MODULE MCPkgLock -----------------------------
(* Constants for TLC's runs of PkgLock.                                     *)
EXTENDS PkgLock

CONSTANTS p1, p2, p3, p4

\* Any two commands, of p1 and p2, or three readers and writers without p2.
TwoOrThree ==
    {w \in [Proc -> Commands] :
        \/ {w[p3], w[p4]} = {"none"} /\ "none" \notin {w[p1], w[p2]}
        \/ w[p2] = "none" /\ {w[p1], w[p3], w[p4]} \subseteq {"read", "write"}}

Writers == [Proc -> {"write"}]
JobsAndCheck == [Proc -> {"jobs", "check"}]
=============================================================================
