---------------------------- MODULE PkgSchedule ----------------------------
(***************************************************************************)
(* The order in which pkg executes a solved transaction                    *)
(* (libpkg/pkg_jobs_schedule.c).                                           *)
(*                                                                         *)
(* Jobs are the nodes of a graph whose edges say "must be executed before".*)
(* The scheduler searches the graph for a cycle, splits an upgrade of the  *)
(* cycle into its removal and its installation, starts again until there   *)
(* is no cycle left, and sorts what it has topologically.                  *)
(*                                                                         *)
(* j->jobs is a set here: its order, which comes from the solver's tables, *)
(* only decides which node a search looks at next, and any is allowed.     *)
(***************************************************************************)
EXTENDS Integers, Sequences, FiniteSets, PkgRequest

CONSTANTS
    Requests,   \* the solved transactions to be scheduled
    NoJob       \* the null pointer

Types == Kinds \cup {"upgrade_install", "upgrade_remove"}
Job   == [uid : Uid, type : Types]

\* The packages are numbered in strcmp order of their uid.
ASSUME PkgScheduleAssumption ==
    /\ Uid \subseteq Nat
    /\ IsFiniteSet(Uid)
    /\ \A r \in Requests : IsRequest(r)
    /\ NoJob \notin Job

VARIABLES
    req,        \* the transaction, fixed from the start
    jobs,       \* j->jobs
    phase,      \* "search", "walk", "sort", "done" or "failed"
    mark,       \* node->mark: "none", "path" or "done"
    prev,       \* node->path_prev
    path,       \* the tip of the path searched, then the node walked back to
    cycle,      \* the node at which the path closed into a cycle
    out,        \* the type of the edge that leaves path on the cycle
    available,  \* the sort's jobs without an incoming edge
    sorted      \* the sort's result

vars == <<req, jobs, phase, mark, prev, path, cycle, out, available, sorted>>

----------------------------------------------------------------------------
\* Faulty variant of HasOld: the removing half of a split upgrade is overlooked.
HasOldButSplit(n) == n.type \in {"delete", "upgrade"}

\* pkg_solved_extract_pkg: which packages a job has.
HasNew(n) == n.type \in {"install", "upgrade", "upgrade_install"}
HasOld(n) == n.type \in {"delete", "upgrade", "upgrade_remove"}

\* pkg_jobs_schedule_graph_edge.  Two jobs of one package are the two halves of
\* a split upgrade, the only jobs that have an xlink.
Edge(a, b) ==
    IF a.uid = b.uid
    THEN IF a.type = "upgrade_remove" /\ b.type = "upgrade_install"
         THEN "split_upgrade" ELSE "none"
    ELSE IF HasNew(a) /\ HasNew(b) /\ <<b.uid, a.uid>> \in req.newDeps
    THEN "new_dep_new"
    ELSE IF HasOld(a) /\ HasNew(b) /\ <<a.uid, b.uid>> \in req.conflicts
    THEN "old_conflict_new"
    ELSE IF /\ HasOld(a) /\ HasOld(b)
            /\ <<a.uid, b.uid>> \in req.oldDeps
            /\ ~(HasNew(a) /\ HasNew(b) /\ <<a.uid, b.uid>> \in req.newDeps)
    THEN "old_dep_old"
    ELSE "none"

Before(a, b) == Edge(a, b) # "none"

\* Faulty variant of HasIncoming: the two halves of an upgrade are not ordered.
HasIncomingButSplit(S, n) == \E m \in S : Edge(m, n) \notin {"none", "split_upgrade"}

\* pkg_jobs_schedule_has_incoming_edge.
HasIncoming(S, n) == \E m \in S : Before(m, n)

\* pkg_jobs_schedule_priority and pkg_jobs_schedule_cmp_available: a goes first.
Priority(n) ==
    CASE n.type = "upgrade_install" -> 1
      [] n.type = "upgrade_remove"  -> -1
      [] OTHER                      -> 0

Preferred(a, b) ==
    \/ Priority(a) > Priority(b)
    \/ Priority(a) = Priority(b) /\ a.uid < b.uid

Placed == {sorted[i] : i \in DOMAIN sorted}
Unavailable == jobs \ (available \cup Placed)

----------------------------------------------------------------------------
Init ==
    /\ req \in Requests
    /\ jobs = {[uid |-> u, type |-> req.kind[u]] : u \in DOMAIN req.kind}
    /\ phase = "search"
    /\ mark = [n \in jobs |-> "none"]
    /\ prev = [n \in jobs |-> NoJob]
    /\ path = NoJob
    /\ cycle = NoJob
    /\ out = "none"
    /\ available = {}
    /\ sorted = <<>>

\* find_cycle called on node n: from the loop in pkg_jobs_schedule when no path
\* is open, else from the node at the tip, along an edge.
Visit(n) ==
    /\ phase = "search"
    /\ mark[n] = "none"
    /\ path # NoJob => Before(path, n)
    /\ mark' = [mark EXCEPT ![n] = "path"]
    /\ prev' = [prev EXCEPT ![n] = path]
    /\ path' = n
    /\ UNCHANGED <<req, jobs, phase, cycle, out, available, sorted>>

\* Faulty variant of FindCycle: the path is not closed into a ring.
FindCycleOpen(n) ==
    /\ phase = "search"
    /\ path # NoJob
    /\ mark[n] = "path"
    /\ Before(path, n)
    /\ phase' = "walk"
    /\ cycle' = n
    /\ out' = Edge(path, n)
    /\ UNCHANGED <<req, jobs, mark, prev, path, available, sorted>>

\* The tip has an edge back into the path: find_cycle returns all the way, and
\* the path is closed into a ring.
FindCycle(n) ==
    /\ phase = "search"
    /\ path # NoJob
    /\ mark[n] = "path"
    /\ Before(path, n)
    /\ phase' = "walk"
    /\ cycle' = n
    /\ prev' = [prev EXCEPT ![n] = path]
    /\ out' = Edge(path, n)
    /\ UNCHANGED <<req, jobs, mark, path, available, sorted>>

\* Faulty variant of Leave: a node popped from the path is not marked done.
LeaveUnmarked ==
    /\ phase = "search"
    /\ path # NoJob
    /\ \A n \in jobs : Before(path, n) => mark[n] # "path"
    /\ mark' = [mark EXCEPT ![path] = "none"]
    /\ path' = prev[path]
    /\ prev' = [prev EXCEPT ![path] = NoJob]
    /\ UNCHANGED <<req, jobs, phase, cycle, out, available, sorted>>

\* All the tip's successors are done, and so is the tip.
Leave ==
    /\ phase = "search"
    /\ path # NoJob
    /\ \A n \in jobs : Before(path, n) => mark[n] = "done"
    /\ mark' = [mark EXCEPT ![path] = "done"]
    /\ path' = prev[path]
    /\ prev' = [prev EXCEPT ![path] = NoJob]
    /\ UNCHANGED <<req, jobs, phase, cycle, out, available, sorted>>

\* Faulty variant of Splittable: conflicts do not lead into an upgrade.
SplittableByDependencies ==
    /\ path.type = "upgrade"
    /\ out \in {"old_dep_old", "old_conflict_new"}
    /\ Edge(prev[path], path) = "new_dep_new"

\* Splitting the upgrade walked to would break the cycle: the cycle enters it
\* at its new package and leaves it from its old one.
Splittable ==
    /\ path.type = "upgrade"
    /\ out \in {"old_dep_old", "old_conflict_new"}
    /\ Edge(prev[path], path) \in {"new_dep_new", "old_conflict_new"}

WalkBack ==
    /\ phase = "walk"
    /\ ~Splittable
    /\ path # cycle
    /\ out' = Edge(prev[path], path)
    /\ path' = prev[path]
    /\ UNCHANGED <<req, jobs, phase, mark, prev, cycle, available, sorted>>

\* The walk came round to where the cycle closed: EPKG_FATAL.
Fail ==
    /\ phase = "walk"
    /\ ~Splittable
    /\ path = cycle
    /\ phase' = "failed"
    /\ UNCHANGED <<req, jobs, mark, prev, path, cycle, out, available, sorted>>

\* Faulty variant of Split: the marks of the search before are kept.
SplitKeepingMarks ==
    /\ phase = "walk"
    /\ Splittable
    /\ jobs' = (jobs \ {path}) \cup
               {[path EXCEPT !.type = t] : t \in {"upgrade_install", "upgrade_remove"}}
    /\ phase' = "search"
    /\ path' = NoJob
    /\ cycle' = NoJob
    /\ out' = "none"
    /\ UNCHANGED <<req, mark, prev, available, sorted>>

\* The upgrade becomes two jobs, and the search starts again from nothing.
Split ==
    /\ phase = "walk"
    /\ Splittable
    /\ jobs' = (jobs \ {path}) \cup
               {[path EXCEPT !.type = t] : t \in {"upgrade_install", "upgrade_remove"}}
    /\ phase' = "search"
    /\ mark' = [n \in jobs' |-> "none"]
    /\ prev' = [n \in jobs' |-> NoJob]
    /\ path' = NoJob
    /\ cycle' = NoJob
    /\ out' = "none"
    /\ UNCHANGED <<req, available, sorted>>

\* Faulty variant of StartSort: one search, from one node, is taken for all.
StartSortEarly ==
    /\ phase = "search"
    /\ path = NoJob
    /\ \E n \in jobs : mark[n] # "none"
    /\ phase' = "sort"
    /\ available' = {n \in jobs : ~HasIncoming(jobs, n)}
    /\ UNCHANGED <<req, jobs, mark, prev, path, cycle, out, sorted>>

\* Every node is done and none closed a cycle: sort, first taking the jobs
\* nothing has to precede.
StartSort ==
    /\ phase = "search"
    /\ path = NoJob
    /\ \A n \in jobs : mark[n] # "none"
    /\ phase' = "sort"
    /\ available' = {n \in jobs : ~HasIncoming(jobs, n)}
    /\ UNCHANGED <<req, jobs, mark, prev, path, cycle, out, sorted>>

\* One round of Kahn's algorithm: the preferred available job n is next, and
\* pkg_jobs_schedule_update_available looks at the jobs it has an edge to.
Place(n) ==
    /\ phase = "sort"
    /\ n \in available
    /\ \A m \in available \ {n} : Preferred(n, m)
    /\ sorted' = Append(sorted, n)
    /\ LET rest == (available \ {n}) \cup Unavailable
       IN  available' = (available \ {n}) \cup
                        {m \in Unavailable : Before(n, m) /\ ~HasIncoming(rest, m)}
    /\ UNCHANGED <<req, jobs, phase, mark, prev, path, cycle, out>>

Finish ==
    /\ phase = "sort"
    /\ available = {}
    /\ phase' = "done"
    /\ UNCHANGED <<req, jobs, mark, prev, path, cycle, out, available, sorted>>

Next ==
    \/ \E n \in jobs : Visit(n) \/ FindCycle(n) \/ Place(n)
    \/ Leave
    \/ WalkBack
    \/ Fail
    \/ Split
    \/ StartSort
    \/ Finish

Spec == Init /\ [][Next]_vars

\* One thread runs the scheduler to its end.
FairSpec == Spec /\ WF_vars(Next)

----------------------------------------------------------------------------
\* Type invariant.
TypeOK ==
    /\ IsRequest(req)
    /\ jobs \subseteq Job
    /\ phase \in {"search", "walk", "sort", "done", "failed"}
    /\ mark \in [jobs -> {"none", "path", "done"}]
    /\ prev \in [jobs -> jobs \cup {NoJob}]
    /\ path \in jobs \cup {NoJob}
    /\ cycle \in jobs \cup {NoJob}
    /\ out \in {"none", "new_dep_new", "old_dep_old", "old_conflict_new", "split_upgrade"}
    /\ available \subseteq jobs
    /\ sorted \in Seq(jobs)

\* No job is executed before one that must come before it, at any moment of the
\* sort: the result is a topological order of the graph of the final jobs.
OrderRespectsEdges ==
    \A i, j \in DOMAIN sorted : i < j => ~Before(sorted[j], sorted[i])

\* "The unavailable set will only be non-empty at this point if there is a cycle
\* in the graph and all cycles must be eliminated": the assertion that ends the
\* sort holds, so no job of the transaction is lost, and none is doubled.
SortIsComplete ==
    phase = "done" => Unavailable = {} /\ Len(sorted) = Cardinality(jobs)

\* The assertions on the path: a node is pushed once, the walk back from the tip
\* never runs off the path before it has come round, and follows edges only.
PathIsAssertSound ==
    /\ \A n \in jobs : mark[n] = "none" => prev[n] = NoJob
    /\ phase = "walk" =>
        /\ path # NoJob /\ prev[path] # NoJob /\ prev[path] # path
        /\ Before(prev[path], path)
        /\ path.type = "upgrade" => out # "split_upgrade"

\* A set of packages each of which depends on one of the set.
DependencyCycle(deps) ==
    \E S \in SUBSET Uid : S # {} /\ \A x \in S : \E y \in S : <<x, y>> \in deps

\* "failed to break job scheduling cycle" is reported only when the dependencies
\* of the new packages, or those of the installed ones, are circular themselves:
\* conflicts, upgrades and deletions can always be ordered by splitting.
FailsOnlyOnCircularDependencies ==
    phase = "failed" => DependencyCycle(req.newDeps) \/ DependencyCycle(req.oldDeps)

\* Splitting comes to an end: every transaction is scheduled or refused.
Terminates == <>(phase \in {"done", "failed"})
=============================================================================
