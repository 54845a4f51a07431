------------------------------- MODULE DbLock -------------------------------
(***************************************************************************)
(* What the package database promises the commands that lock it (pkg.h.in, *)
(* pkgdb_lock_t): any number of readers beside at most one process that    *)
(* announced writes, or one process alone.                                 *)
(***************************************************************************)
CONSTANT Proc
VARIABLE held       \* the locks each process holds

Init == held = [p \in Proc |-> {}]

\* No process but p holds a lock of the set S.
NobodyElse(p, S) == \A q \in Proc \ {p} : held[q] \cap S = {}

Anything == {"READONLY", "ADVISORY", "EXCLUSIVE"}

Read(p) ==
    /\ NobodyElse(p, {"EXCLUSIVE"})
    /\ held' = [held EXCEPT ![p] = {"READONLY"}]

Announce(p) ==
    /\ NobodyElse(p, {"ADVISORY", "EXCLUSIVE"})
    /\ held' = [held EXCEPT ![p] = {"ADVISORY"}]

Own(p) ==
    /\ NobodyElse(p, Anything)
    /\ \E S \in {{"EXCLUSIVE"}, {"ADVISORY", "EXCLUSIVE"}} :
        held' = [held EXCEPT ![p] = S]

\* Part of what p holds is released, or p leaves.
GiveUp(p) ==
    \E S \in SUBSET held[p] : held' = [held EXCEPT ![p] = S]

Next == \E p \in Proc : Read(p) \/ Announce(p) \/ Own(p) \/ GiveUp(p)

Spec == Init /\ [][Next]_held
=============================================================================
