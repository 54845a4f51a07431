--------------------------- MODULE PkgTransaction ---------------------------
(***************************************************************************)
(* The transaction that PkgSolve offers, as PkgRequest has it, and what is  *)
(* installed while and after PkgExecute has executed it.  The executor      *)
(* knows of the packages of a transaction only; this is about all of which  *)
(* the solver knew, and in the end about whatever is installed.             *)
(***************************************************************************)
EXTENDS PkgSolve

INSTANCE PkgRequest

JobOf(u) == CHOOSE j \in jobs : j.uid = u

\* j->jobs, for the scheduler and the executor.
Kind == [u \in {j.uid : j \in jobs} |-> JobOf(u).type]

NewDeps == {d \in world.deps : d[1] \in result /\ ~Installed(d[1])}
OldDeps == {d \in world.deps : Installed(d[1])}

\* pkg_jobs_schedule_direct_depends looks at first choices only.
FirstChoices(D) == {<<d[1].uid, d[2]>> : d \in D}
Needs(D)        == FirstChoices({d \in D : d[3] = {}})

\* pkg_conflicts of the installed packages, with those that were registered.
OldConflicts ==
    {e \in Uid \X Uid : \E p \in world.pkgs : Installed(p) /\ p.uid = e[1] /\ Knows(p, e[2])}

\* The jobs with the packages they are about.
Transaction ==
    [kind      |-> Kind,
     newDeps   |-> FirstChoices(NewDeps),
     oldDeps   |-> FirstChoices(OldDeps),
     newNeeds  |-> Needs(NewDeps),
     oldNeeds  |-> Needs(OldDeps),
     conflicts |-> OldConflicts]

\* The packages that are registered if those of the transaction are as inst says.
Registered(inst) ==
    {p \in world.pkgs :
        IF p.uid \in DOMAIN inst
        THEN IF Installed(p) THEN inst[p.uid] = "old" ELSE inst[p.uid] = "new" /\ p \in result
        ELSE Installed(p)}

\* Between the halves of a split upgrade the package is not there, and the
\* scheduler looks for what needs it among the packages of the transaction only.
InSplitGap(inst, u) == u \in DOMAIN inst /\ Kind[u] = "upgrade" /\ inst[u] = "none"

----------------------------------------------------------------------------
\* What is offered is a transaction of the kind that scheduler and executor take
\* for granted, if what was installed before is sound.
OffersSolved ==
    InstalledIsSound /\ Offered => IsRequest(Transaction) /\ Solved(Transaction)

\* However far the execution of what is offered comes, as long as it keeps the
\* needs within the transaction (DependenciesPresent), every registered package that
\* the solver knew, of the transaction or not, has every package it needs and that
\* can be had, but for packages of no job that need one whose upgrade is split.  pkg
\* itself is exempt.
NeedsRegistered ==
    InstalledIsSound /\ Offered =>
        \A self \in SUBSET Uid, inst \in [DOMAIN Kind -> Versions] :
            IsOutcome(Transaction, inst) /\ NeedsKept(Transaction, inst, self) =>
                \A d \in world.deps :
                    d[1] \in Pkgs \cap Registered(inst) /\ d[1].uid \notin self
                        /\ d[3] = {} /\ Chain(d[2]) # {}
                    => \/ Chain(d[2]) \cap Registered(inst) # {}
                       \/ d[1].uid \notin DOMAIN inst /\ InSplitGap(inst, d[2])

\* Nor are packages ever registered together that the solver knew to conflict, as
\* long as the execution keeps the conflicts of the transaction (NoConflictRegistered).
ConflictsRegistered ==
    InstalledIsSound /\ Offered =>
        \A self \in SUBSET Uid, inst \in [DOMAIN Kind -> Versions] :
            IsOutcome(Transaction, inst) /\ ConflictsApart(Transaction, inst, self) =>
                \A p, q \in Pkgs \cap Registered(inst) : \A c \in conflicts[p] :
                    {p.uid, q.uid} \cap self = {} => ~Excludes(c, p, q)

\* If it completes (CompletedIsSolved), what is installed is what the solver found,
\* and what was installed of the chains it did not know.
ResultRegistered ==
    Offered =>
        \A self \in SUBSET Uid, inst \in [DOMAIN Kind -> Versions] :
            IsOutcome(Transaction, inst) /\ Performed(Transaction, inst, self) =>
                \A p \in world.pkgs :
                    p.uid \notin self => (p \in Registered(inst) <=> p \in After)
=============================================================================
