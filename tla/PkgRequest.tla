----------------------------- MODULE PkgRequest -----------------------------
(***************************************************************************)
(* What is handed over from the solver (PkgSolve) to the scheduler and the  *)
(* executor (PkgSchedule, PkgExecute): a transaction, j->jobs with the      *)
(* packages its jobs are about, what is taken for granted of one, and what  *)
(* the execution makes of the database.                                     *)
(***************************************************************************)
CONSTANT Uid        \* the packages

Kinds    == {"install", "delete", "upgrade"}
Versions == {"none", "old", "new"}

\* A transaction: what is to be done with which package, and what the packages
\* say of one another.  <<x, y>> in newDeps: the first choice of a dependency of
\* the new x is y; in oldDeps: of the installed x.  In newNeeds and oldNeeds are those
\* without an alternative.  In conflicts: y is a conflict of the installed x.
IsRequest(r) ==
    /\ DOMAIN r.kind \subseteq Uid
    /\ r.kind \in [DOMAIN r.kind -> Kinds]
    /\ r.newDeps \cup r.oldDeps \cup r.conflicts \subseteq Uid \X Uid
    /\ r.newNeeds \subseteq r.newDeps
    /\ r.oldNeeds \subseteq r.oldDeps

\* What the solver takes care of.  No new package needs one that is to be deleted,
\* and no installed one needs one that is to be installed only now.
Solved(r) ==
    /\ \A e \in r.newNeeds : e[2] \in DOMAIN r.kind => r.kind[e[2]] # "delete"
    /\ \A e \in r.oldNeeds :
        {e[1], e[2]} \subseteq DOMAIN r.kind /\ r.kind[e[1]] # "install"
            => r.kind[e[2]] # "install"

\* Which version of each package of the transaction is registered.
IsOutcome(r, inst) ==
    /\ inst \in [DOMAIN r.kind -> Versions]
    /\ \A u \in DOMAIN r.kind :
        /\ inst[u] = "old" => r.kind[u] # "install"
        /\ inst[u] = "new" => r.kind[u] # "delete"

\* A new version has every package it needs in its new version, an old one every
\* package in some version, if they are of the transaction.
NeedsKept(r, inst, exempt) ==
    \A x \in DOMAIN inst :
        /\ inst[x] = "new" =>
            \A y \in DOMAIN inst : <<x, y>> \in r.newNeeds /\ x # y => inst[y] = "new"
        /\ inst[x] = "old" /\ x \notin exempt =>
            \A y \in DOMAIN inst : <<x, y>> \in r.oldNeeds => inst[y] # "none"

\* An installed package and a new one that conflicts with it are not both there.
ConflictsApart(r, inst, exempt) ==
    \A x, y \in DOMAIN inst :
        <<x, y>> \in r.conflicts /\ x # y /\ inst[x] = "old" => x \in exempt \/ inst[y] # "new"

\* Every job has been done.
Performed(r, inst, exempt) ==
    \A u \in DOMAIN inst :
        IF r.kind[u] = "delete" THEN inst[u] = "none" \/ u \in exempt ELSE inst[u] = "new"
=============================================================================
