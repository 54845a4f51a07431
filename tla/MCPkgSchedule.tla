--------------------------- MODULE MCPkgSchedule ---------------------------
(* Transactions for TLC's runs of PkgSchedule.                              *)
EXTENDS PkgSchedule

Pairs(S) == {e \in S \X S : e[1] # e[2]}

\* Without a circular dependency: every subset has a member that depends on
\* none of it.
Acyclic(deps) == ~DependencyCycle(deps)

\* Two packages: every transaction there is.
TwoRequests ==
    LET Two == {1, 2}
    IN  UNION {[kind : [D -> Kinds], newDeps : SUBSET Pairs(Two),
                oldDeps : SUBSET Pairs(Two), conflicts : SUBSET Pairs(Two)] :
               D \in SUBSET Two \ {{}}}

Dags == {deps \in SUBSET Pairs(Uid) : Acyclic(deps)}

\* Conflicts are registered on both sides.
Symmetric(C) == {c \in SUBSET C : \A e \in c : <<e[2], e[1]>> \in c}

\* Three packages, of which the first two are upgraded, without circular
\* dependencies.  Their uids only break ties of the order, so of two requests
\* that exchange them one is enough: the new 2 does not depend on the new 1.
UpgradeRequests ==
    [kind : {k \in [Uid -> Kinds] : k[1] = "upgrade" /\ k[2] = "upgrade"},
     newDeps : {d \in Dags : <<2, 1>> \notin d}, oldDeps : Dags, conflicts : Symmetric(Pairs(Uid))]

\* Which of the dependencies have alternatives does not matter to the scheduler.
AllRequests ==
    {[kind |-> r.kind, newDeps |-> r.newDeps, oldDeps |-> r.oldDeps, conflicts |-> r.conflicts,
      newNeeds |-> {}, oldNeeds |-> {}] : r \in TwoRequests \cup UpgradeRequests}
=============================================================================
