---------------------------- MODULE MCPkgExecute ----------------------------
(* Transactions for TLC's runs of PkgExecute: those of a solver.            *)
EXTENDS PkgExecute

Pairs(S) == {e \in S \X S : e[1] # e[2]}
Symmetric(C) == {c \in SUBSET C : \A e \in c : <<e[2], e[1]>> \in c}

\* Two packages: every solved transaction.
SolvedTwo ==
    UNION {[kind : [D -> Kinds], newDeps : SUBSET Pairs({1, 2}), oldDeps : SUBSET Pairs({1, 2}),
            conflicts : SUBSET Pairs({1, 2}), vital : {{}, {1}}, matchAll : BOOLEAN] :
           D \in SUBSET {1, 2} \ {{}}}

\* Three packages in a chain of dependencies, one way or the other, or with a
\* fan, and any conflicts; pkg itself is the last.
Shapes == {{}, {<<1, 2>>}, {<<1, 2>>, <<2, 3>>}, {<<3, 2>>, <<2, 1>>},
           {<<1, 3>>, <<2, 3>>}, {<<3, 1>>, <<3, 2>>}}

SolvedThree ==
    [kind : [Uid -> Kinds], newDeps : Shapes, oldDeps : Shapes,
     conflicts : Symmetric(Pairs(Uid)), vital : {{}, {1}}, matchAll : BOOLEAN]

\* What is not deleted may as well not be vital, and of pkg itself only the
\* deletion asks for the patterns.
Deleted(r) == {u \in DOMAIN r.kind : r.kind[u] = "delete"}

\* All dependencies are without an alternative, or none is.
WithNeeds(r, newNeeds, oldNeeds) ==
    [kind |-> r.kind, newDeps |-> r.newDeps, oldDeps |-> r.oldDeps, conflicts |-> r.conflicts,
     vital |-> r.vital, matchAll |-> r.matchAll, newNeeds |-> newNeeds, oldNeeds |-> oldNeeds]
AllNeeded(r)  == WithNeeds(r, r.newDeps, r.oldDeps)
NoneNeeded(r) == WithNeeds(r, {}, {})

Relevant(S) ==
    {r \in S : r.vital \subseteq Deleted(r) /\ (Self \cap Deleted(r) = {} => r.matchAll)}

SolvedRequests ==
    {r \in {AllNeeded(r) : r \in Relevant(SolvedTwo) \cup Relevant(SolvedThree)} : Solved(r)}
    \cup {NoneNeeded(r) : r \in Relevant(SolvedTwo)}
=============================================================================
