------------------------------ MODULE PkgSolve ------------------------------
(***************************************************************************)
(* From a request to a transaction: the clauses handed to the SAT solver   *)
(* and the reading of its answer (libpkg/pkg_solve.c), the search for      *)
(* paths that two packages own (libpkg/pkg_jobs_conflicts.c), and the      *)
(* loops of pkg_jobs_solve and pkg_jobs_apply (libpkg/pkg_jobs.c) that     *)
(* solve again when it finds some, with the fetching of packages between.  *)
(*                                                                         *)
(* picosat is external: it gives any assignment that satisfies the clauses *)
(* and the assumptions.  The phases pkg sets, which make it prefer one     *)
(* assignment, are left out, so what holds here holds for all of them.     *)
(***************************************************************************)
EXTENDS Integers, Sequences, FiniteSets

CONSTANTS
    Uid,        \* the upgrade chains, numbered in the order of the hash tables
    Ver,        \* the versions of a chain, in its order; 0 is the installed one
    Path,       \* what packages own, in strcmp order
    Feature,    \* shared libraries and provides
    Worlds,     \* the universes and requests considered
    MaxPlans,   \* the attempts after which the user is asked: 10
    AnyPkg      \* the digest of a conflict that has none

Pkg == [uid : Uid, v : Ver]

Installed(p) == p.v = 0

\* What there is (packages, what they depend on with the alternatives, require,
\* provide, own and conflict with) and a request.  start: the chains of the universe
\* that is closed for the request; joins: <<u, x>> if chain x is added with the
\* installed package of u.  A chain is added as a whole, unless that package is
\* locked, and missing are those that have a dependency that cannot be had.  What an
\* installed package with alternatives depends on first is there from the start, as
\* pkgdb_load_deps takes all of them from the installed packages.
IsWorld(w) ==
    /\ w.job \in {"install", "delete"}
    /\ w.pkgs \subseteq Pkg
    /\ w.deps \subseteq w.pkgs \X Uid \X SUBSET Uid
    /\ w.requires \subseteq w.pkgs \X Feature
    /\ w.provides \subseteq w.pkgs \X Feature
    /\ w.files \subseteq w.pkgs \X Path
    /\ w.known \subseteq {p \in w.pkgs : Installed(p)} \X Uid
    /\ w.vital \subseteq w.pkgs
    /\ w.cached \subseteq w.pkgs
    /\ w.request \subseteq w.pkgs
    /\ w.start \subseteq Uid
    /\ w.joins \subseteq Uid \X Uid
    /\ w.locked \cup w.missing \subseteq {p \in w.pkgs : Installed(p)}
    /\ \A p \in w.locked : p.uid \notin w.start /\ \A e \in w.joins : e[2] # p.uid
    /\ \A p \in w.request : p.uid \in w.start /\ Installed(p) = (w.job = "delete")
    /\ \A p, q \in w.request : p.uid = q.uid => p = q
    /\ \A d \in w.deps :
        Installed(d[1]) /\ d[3] # {} => d[2] \in w.start /\ \E q \in w.pkgs : q.uid = d[2]
    /\ \A e, g \in w.files : Installed(e[1]) /\ Installed(g[1]) /\ e[2] = g[2] => e = g

ASSUME PkgSolveAssumption ==
    /\ Uid \subseteq Nat /\ IsFiniteSet(Uid)
    /\ Ver \subseteq Nat
    /\ Path \subseteq Nat
    /\ MaxPlans \in Nat \ {0}
    /\ AnyPkg \notin Pkg
    /\ \A w \in Worlds : IsWorld(w)

VARIABLES
    world,      \* what there is and the request, fixed from the start
    universe,   \* the chains of j->universe
    problem,    \* those the solver's problem was made of
    conflicts,  \* pkg->conflicts
    phase,      \* what is being done
    top,        \* of a requested variable: is it assumed to be installed?
    iter,       \* 0 in the first iteration of pkg_solve_sat_problem, then 1
    attempt,    \* the number of failures
    result,     \* the variables with PKG_VAR_INSTALL
    unread,     \* the chains not yet turned into jobs
    jobs,       \* j->jobs
    loaded,     \* the packages whose files can be had
    needFetch,  \* j->need_fetch
    applying,   \* pkg_jobs_apply: "no", "first" or "again" (has_conflicts)
    todo,       \* the paths of packages still to be checked for conflicts
    scan,       \* what the check of the first of them is doing
    level,      \* how often its key was changed because of a collision
    pairs,      \* the pairs of two chains still to be compared
    found,      \* did one of these pairs have to be registered?
    registered, \* j->conflicts_registered > 0
    slots       \* j->conflict_items: of a path, the item of each key tried

solveVars == <<top, iter, attempt, result>>
checkVars == <<todo, scan, level, pairs, found, registered, slots>>
jobVars   == <<unread, jobs, loaded, needFetch, applying>>
worldVars == <<world, universe, problem>>
vars == <<worldVars, conflicts, phase, solveVars, jobVars, checkVars>>

\* The variables of the problem, and those of a chain or several.
Pkgs          == {p \in world.pkgs : p.uid \in problem}
Chain(u)      == {p \in Pkgs : p.uid = u}
Candidates(U) == {p \in Pkgs : p.uid \in U}
Providers(f)  == {p \in Pkgs : <<p, f>> \in world.provides}

\* The packages of a chain of the universe.
Items(u)      == {p \in world.pkgs : p.uid = u}
Files(p)      == {f \in Path : <<p, f>> \in world.files}

\* pkg_get_conflict.
Knows(p, u) == \E c \in conflicts[p] : c.uid = u

----------------------------------------------------------------------------
(* The rules, as predicates on the set S of packages there will be.        *)

\* pkg_solve_add_depend_rule: (!A | B1 | B2 | ...), unless there is no B.
DependRule(S) ==
    \A d \in world.deps :
        d[1] \in S /\ Candidates({d[2]} \cup d[3]) # {}
            => Candidates({d[2]} \cup d[3]) \cap S # {}

\* pkg_solve_add_require_rule and pkg_solve_handle_provide: likewise.
RequireRule(S) ==
    \A r \in world.requires :
        r[1] \in S /\ Providers(r[2]) # {} => Providers(r[2]) \cap S # {}

\* Faulty variant of Excludes: the conflict is with every version.
ExcludesChain(c, p, q) == q.uid = c.uid

\* pkg_solve_add_conflict_rule: does conflict c of package p rule out q?
Excludes(c, p, q) ==
    /\ q.uid = c.uid
    /\ c.type = "remote_local" => Installed(p) # Installed(q)
    /\ c.type = "remote_remote" => ~Installed(p) /\ ~Installed(q)
    /\ c.digest \in {AnyPkg, q}

\* (!A | !Bx)
ConflictRule(S) ==
    \A p, q \in S : \A c \in conflicts[p] : ~Excludes(c, p, q)

\* pkg_solve_add_vital_rule: ( L | R ) with the last R of the chain, or ( L ).
VitalRule(S) ==
    \A p \in world.vital : \A l \in Chain(p.uid) :
        Installed(l) =>
            \/ l \in S
            \/ \E r \in Chain(p.uid) \cap S :
                ~Installed(r) /\ \A q \in Chain(p.uid) : q.v <= r.v

\* pkg_solve_add_chain_rule: (!Ax | !Ay)
ChainRule(S) == \A p, q \in S : p.uid = q.uid => p = q

\* The assignments that satisfy the clauses.
Models ==
    {S \in SUBSET Pkgs :
        DependRule(S) /\ RequireRule(S) /\ ConflictRule(S) /\ VitalRule(S) /\ ChainRule(S)}

\* Those that satisfy the assumptions as well.  pkg_solve_add_request_rule: every
\* request is assumed, as pkg_jobs_universe_process_upgrade_chains has left it one
\* candidate.
Answers == {S \in Models : \A p \in world.request : (p \in S) = top[p]}

\* The chains an assignment would leave without the package that is installed.
Removed(S) ==
    {u \in Uid : Chain(u) \cap S = {} /\ \E p \in Chain(u) : Installed(p)}

----------------------------------------------------------------------------
(* The transitions between solving, checking and applying.                 *)

\* pkg_solve_jobs_to_sat makes a new problem of the universe.
Solve ==
    /\ phase' = "sat"
    /\ problem' = universe
    /\ top' = [p \in world.request |-> world.job = "install"]
    /\ iter' = 0
    /\ attempt' = 0
    /\ result' = {}
    /\ jobs' = {}

\* pkg_jobs_check_conflicts begins: every path of every version, unless it is
\* installed or not to be had, of every chain something is installed from.
Check(L) ==
    /\ phase' = "check"
    /\ todo' = {e \in world.files :
                    /\ ~Installed(e[1]) /\ e[1] \in L
                    /\ \E j \in jobs : j.uid = e[1].uid /\ j.type # "delete"}
    /\ scan' = "table"
    /\ level' = 1
    /\ pairs' = {}
    /\ found' = FALSE
    /\ registered' = FALSE
    /\ UNCHANGED slots

Init ==
    /\ world \in Worlds
    /\ universe = world.start
    /\ problem = world.start
    /\ conflicts = [p \in world.pkgs |->
            {[uid |-> k[2], digest |-> AnyPkg, type |-> "all"] : k \in {k \in world.known : k[1] = p}}]
    /\ phase = "sat"
    /\ top = [p \in world.request |-> world.job = "install"]
    /\ iter = 0
    /\ attempt = 0
    /\ result = {}
    /\ unread = {}
    /\ jobs = {}
    /\ loaded = {p \in world.pkgs : Installed(p)} \cup world.cached
    /\ needFetch = FALSE
    /\ applying = "no"
    /\ todo = {}
    /\ scan = "table"
    /\ level = 1
    /\ pairs = {}
    /\ found = FALSE
    /\ registered = FALSE
    /\ slots = [f \in Path |-> <<>>]

----------------------------------------------------------------------------
(* pkg_solve_sat_problem                                                   *)

\* A first answer that removes installed packages is not taken: their chains
\* are marked as failed, which negates the requests for them.
Reconsider ==
    /\ phase = "sat"
    /\ iter = 0
    /\ world.job = "install"
    /\ \E S \in Answers :
        /\ Removed(S) # {}
        /\ top' = [p \in world.request |-> (p \in S) # (p.uid \in Removed(S))]
    /\ iter' = 1
    /\ UNCHANGED <<worldVars, conflicts, phase, attempt, result, jobVars, checkVars>>

\* The answer is taken.
Decide ==
    /\ phase = "sat"
    /\ \E S \in Answers :
        /\ iter = 0 /\ world.job = "install" => Removed(S) = {}
        /\ result' = S
    /\ phase' = "read"
    /\ unread' = {p.uid : p \in Pkgs}
    /\ UNCHANGED <<worldVars, conflicts, top, iter, attempt, jobs, loaded, needFetch,
                   applying, checkVars>>

Negate(p) == top' = [top EXCEPT ![p] = ~@]

\* Faulty variant of TryAnotherPlan: the attempts are not limited.
TryAnotherPlanForever ==
    /\ phase = "sat"
    /\ Answers = {}
    /\ \E p \in world.request : Negate(p)
    /\ attempt' = attempt + 1
    /\ iter' = 1
    /\ UNCHANGED <<worldVars, conflicts, phase, result, jobVars, checkVars>>

\* No answer: a request is negated, the last that picosat_failed_assumptions lists.
\* picosat lists more than it needs, so that it can be any.
TryAnotherPlan ==
    /\ phase = "sat"
    /\ attempt + 1 < MaxPlans
    /\ Answers = {}
    /\ \E p \in world.request : Negate(p)
    /\ attempt' = attempt + 1
    /\ iter' = 1
    /\ UNCHANGED <<worldVars, conflicts, phase, result, jobVars, checkVars>>

\* From the tenth failure on the user is asked whether to negate it, and
\* whatever the answer the solver is called again.
AskToRemove ==
    /\ phase = "sat"
    /\ attempt + 1 >= MaxPlans
    /\ Answers = {}
    /\ \E p \in world.request : Negate(p) \/ UNCHANGED top
    /\ attempt' = MaxPlans
    /\ iter' = 1
    /\ UNCHANGED <<worldVars, conflicts, phase, result, jobVars, checkVars>>

\* No answer even without assumptions: picosat may list none, and the element
\* before the first of the list is read.
RunOff ==
    /\ phase = "sat"
    /\ Models = {}
    /\ phase' = "undefined"
    /\ UNCHANGED <<worldVars, conflicts, solveVars, jobVars, checkVars>>

----------------------------------------------------------------------------
(* pkg_solve_sat_to_jobs, pkg_solve_insert_res_job                          *)

\* Faulty variant of CanKeep: dependencies are not looked at.
CanKeepUnlessConflicting(p) ==
    \A c \in conflicts[p] : Chain(c.uid) \cap result = {}

\* Faulty variant of CanKeep: conflicts are not looked at.
CanKeepIfDependenciesMet(p) ==
    \A d \in world.deps :
        d[1] = p /\ Chain(d[2]) # {} => Chain(d[2]) \cap result # {}

\* pkg_solve_can_keep, which looks at primary dependencies and at conflicts with
\* any version.
CanKeep(p) ==
    /\ \A d \in world.deps :
        d[1] = p /\ Chain(d[2]) # {} => Chain(d[2]) \cap result # {}
    /\ \A c \in conflicts[p] : Chain(c.uid) \cap result = {}

\* The chain at hand: the first of those left.
Reading(u) == phase = "read" /\ u \in unread /\ \A x \in unread : u <= x

New(u)  == {p \in Chain(u) \cap result : ~Installed(p)}
Gone(u) == {p \in Chain(u) \ result : Installed(p)}

\* Something is installed, or upgraded.
ReadInstall(u) ==
    /\ Reading(u)
    /\ Cardinality(New(u)) = 1
    /\ jobs' = jobs \cup {[uid |-> u, type |-> IF Gone(u) = {} THEN "install" ELSE "upgrade"]}
    /\ unread' = unread \ {u}
    /\ UNCHANGED <<worldVars, conflicts, phase, solveVars, loaded, needFetch, applying, checkVars>>

\* What is installed would only be removed: it is kept after all if it can be.
ReadDelete(u) ==
    /\ Reading(u)
    /\ New(u) = {}
    /\ \E p \in Gone(u) :
        IF world.job = "install" /\ CanKeep(p)
        THEN result' = result \cup {p} /\ UNCHANGED jobs
        ELSE jobs' = jobs \cup {[uid |-> u, type |-> "delete"]} /\ UNCHANGED result
    /\ unread' = unread \ {u}
    /\ UNCHANGED <<worldVars, conflicts, phase, top, iter, attempt, loaded, needFetch,
                   applying, checkVars>>

ReadUnchanged(u) ==
    /\ Reading(u)
    /\ New(u) = {}
    /\ Gone(u) = {}
    /\ unread' = unread \ {u}
    /\ UNCHANGED <<worldVars, conflicts, phase, solveVars, jobs, loaded, needFetch, applying,
                   checkVars>>

\* The end of pkg_jobs_run_solver.  If a package is not at hand everything has to
\* be fetched before conflicts are looked for, unless pkg_jobs_solve was called
\* from one of the loops because some were registered.
EndRead ==
    /\ phase = "read"
    /\ unread = {}
    /\ needFetch' = (needFetch \/ \E p \in result : ~Installed(p) /\ p \notin loaded)
    /\ IF needFetch' /\ ~registered
       THEN phase' = "confirm" /\ UNCHANGED checkVars
       ELSE Check(loaded)
    /\ UNCHANGED <<worldVars, conflicts, solveVars, unread, jobs, loaded, applying>>

----------------------------------------------------------------------------
(* pkg_conflicts_append_chain: each path of each package, in order.        *)

Precedes(e, g) ==
    \/ e[1].uid < g[1].uid
    \/ e[1].uid = g[1].uid /\ e[1].v < g[1].v
    \/ e[1] = g[1] /\ e[2] < g[2]

\* The path f of package p is being checked.
Checking(p, f) ==
    /\ phase = "check"
    /\ <<p, f>> \in todo
    /\ \A e \in todo \ {<<p, f>>} : Precedes(<<p, f>>, e)

checkFrame == <<world, problem, conflicts, phase, solveVars, jobVars, registered>>

\* pkg_conflicts_check_all_paths: the path is new, or was met in this package, or
\* in another version of it, whose place is taken.
Enter(p, f) ==
    /\ Checking(p, f)
    /\ scan = "table"
    /\ IF level > Len(slots[f])
       THEN slots' = [slots EXCEPT ![f] = Append(@, p)]
       ELSE /\ slots[f][level].uid = p.uid
            /\ slots' = [slots EXCEPT ![f][level] = p]
    /\ scan' = "owner"
    /\ UNCHANGED <<checkFrame, universe, todo, level, pairs, found>>

\* Or in a package of another chain: a conflict, unless p has one with that chain.
\* Then, "collision found", the key is changed.
Collide(p, f) ==
    /\ Checking(p, f)
    /\ scan = "table"
    /\ level <= Len(slots[f])
    /\ slots[f][level].uid # p.uid
    /\ Knows(p, slots[f][level].uid)
    /\ level' = level + 1
    /\ UNCHANGED <<checkFrame, universe, todo, scan, pairs, found, slots>>

\* pkg_conflicts_register_chain begins.
MeetPath(p, f) ==
    /\ Checking(p, f)
    /\ scan = "table"
    /\ level <= Len(slots[f])
    /\ slots[f][level].uid # p.uid
    /\ ~Knows(p, slots[f][level].uid)
    /\ pairs' = Items(p.uid) \X Items(slots[f][level].uid)
    /\ found' = FALSE
    /\ scan' = "chains"
    /\ UNCHANGED <<checkFrame, universe, todo, level, slots>>

\* It ends: the key is changed if it had nothing to register.
Met(p, f) ==
    /\ Checking(p, f)
    /\ scan = "chains"
    /\ pairs = {}
    /\ IF found THEN scan' = "owner" /\ UNCHANGED level
                ELSE scan' = "table" /\ level' = level + 1
    /\ UNCHANGED <<checkFrame, universe, todo, pairs, found, slots>>

\* pkg_conflicts_need_conflict.
NeedConflict(p, q) ==
    /\ {p, q} \subseteq loaded
    /\ ~(Knows(p, q.uid) /\ Knows(q, p.uid))
    /\ Files(p) \cap Files(q) # {}

ConflictType(p, q) ==
    IF Installed(p) \/ Installed(q) THEN "remote_local" ELSE "remote_remote"

\* Faulty variant of With: a second conflict of any chain is dropped.
WithOnlyOne(C, p, q) ==
    IF C # {} THEN C
    ELSE {[uid |-> q.uid, digest |-> q, type |-> ConflictType(p, q)]}

\* pkg_conflicts_register_one: a second conflict with one chain is dropped.
With(C, p, q) ==
    IF Knows(p, q.uid) THEN C
    ELSE C \cup {[uid |-> q.uid, digest |-> q, type |-> ConflictType(p, q)]}

\* The next pair of the two chains, by the first and then the second.
Comparing(p, q) ==
    /\ phase = "check"
    /\ <<p, q>> \in pairs
    /\ \A e \in pairs : e[1].v > p.v \/ (e[1] = p /\ e[2].v >= q.v)

\* Two installed packages have no conflict.
Compare(p, q) ==
    /\ Comparing(p, q)
    /\ pairs' = pairs \ {<<p, q>>}
    /\ IF ~(Installed(p) /\ Installed(q)) /\ NeedConflict(p, q)
       THEN /\ conflicts' = [conflicts EXCEPT ![p] = With(@, p, q), ![q] = With(@, q, p)]
            /\ found' = TRUE
            /\ registered' = TRUE
       ELSE UNCHANGED <<conflicts, found, registered>>
    /\ UNCHANGED <<worldVars, phase, solveVars, jobVars, todo, scan, level, slots>>

\* pkg_conflicts_check_local_path: the owner of the path in the database, unless
\* the installed version of p has the path too.
Owners(p, f) ==
    {o \in world.pkgs :
        /\ Installed(o) /\ <<o, f>> \in world.files
        /\ ~Knows(o, p.uid)
        /\ \A l \in Items(p.uid) : Installed(l) => <<l, f>> \notin world.files}

\* Faulty variant: an owner is looked into again each time.
RefusedEachTime(o) == o \in world.locked \cup world.missing

\* pkg_jobs_universe_process_item fails: the owner is locked, or is added now and
\* lacks a dependency.  When it is looked up again it is seen and taken as processed.
Refused(o) == o \in world.locked \/ (o \in world.missing /\ o.uid \notin universe)

\* What it adds, though it may fail.
AddOwner(o) ==
    universe' =
        IF o \in world.locked \/ o.uid \in universe THEN universe
        ELSE universe \cup {o.uid} \cup {u \in Uid : <<o.uid, u>> \in world.joins}

\* The check of a path ends.
PathDone(p, f) ==
    /\ todo' = todo \ {<<p, f>>}
    /\ scan' = "table"
    /\ level' = 1
    /\ UNCHANGED <<checkFrame, pairs, found, slots>>

MeetOwner(p, f) ==
    /\ Checking(p, f)
    /\ scan = "owner"
    /\ \E o \in Owners(p, f) :
        /\ ~Refused(o)
        /\ AddOwner(o)
        /\ pairs' = Items(p.uid) \X Items(o.uid)
    /\ scan' = "owners"
    /\ UNCHANGED <<checkFrame, todo, level, found, slots>>

\* An owner that cannot be added is skipped, and nothing is registered.
SkipOwner(p, f) ==
    /\ Checking(p, f)
    /\ scan = "owner"
    /\ \E o \in Owners(p, f) : Refused(o) /\ AddOwner(o)
    /\ PathDone(p, f)

NextPath(p, f) ==
    /\ Checking(p, f)
    /\ \/ scan = "owner" /\ Owners(p, f) = {}
       \/ scan = "owners" /\ pairs = {}
    /\ PathDone(p, f)
    /\ UNCHANGED universe

----------------------------------------------------------------------------
(* The loops of pkg_jobs_solve and pkg_jobs_apply.                         *)

\* EPKG_CONFLICT: the jobs are dropped and the solver is called again.
SolveAgain ==
    /\ phase = "check"
    /\ todo = {}
    /\ registered
    /\ Solve
    /\ applying' = IF applying = "no" THEN "no" ELSE "again"
    /\ UNCHANGED <<world, universe, conflicts, unread, loaded, needFetch, checkVars>>

\* No conflicts.  pkg_jobs_solve is done, pkg_jobs_apply executes the jobs, unless
\* they are not those that were confirmed.
NoConflicts ==
    /\ phase = "check"
    /\ todo = {}
    /\ ~registered
    /\ phase' = IF applying = "first" THEN "execute" ELSE "confirm"
    /\ applying' = IF applying = "again" THEN "no" ELSE applying
    /\ UNCHANGED <<worldVars, conflicts, solveVars, unread, jobs, loaded, needFetch, checkVars>>

\* The user says no, or there is nothing to do, or fetching fails.
Stop ==
    /\ phase = "confirm"
    /\ phase' = "stopped"
    /\ UNCHANGED <<worldVars, conflicts, solveVars, jobVars, checkVars>>

\* pkg_jobs_apply, with pkg_jobs_fetch if something was not at hand.
Apply ==
    /\ phase = "confirm"
    /\ jobs # {}
    /\ IF needFetch
       THEN /\ loaded' = loaded \cup result
            /\ applying' = "first"
            /\ Check(loaded')
       ELSE /\ phase' = "execute"
            /\ UNCHANGED <<loaded, applying, checkVars>>
    /\ UNCHANGED <<worldVars, conflicts, solveVars, unread, jobs, needFetch>>

SolveStep == Reconsider \/ Decide \/ TryAnotherPlan \/ AskToRemove \/ RunOff

ReadStep ==
    \/ \E u \in Uid : ReadInstall(u) \/ ReadDelete(u) \/ ReadUnchanged(u)
    \/ EndRead

CheckPath(p, f) ==
    \/ Enter(p, f) \/ Collide(p, f) \/ MeetPath(p, f) \/ Met(p, f)
    \/ MeetOwner(p, f) \/ SkipOwner(p, f) \/ NextPath(p, f)

CheckStep ==
    \/ \E p \in world.pkgs, f \in Path : CheckPath(p, f)
    \/ \E p, q \in world.pkgs : Compare(p, q)
    \/ SolveAgain
    \/ NoConflicts

Next == SolveStep \/ ReadStep \/ CheckStep \/ Stop \/ Apply

Spec == Init /\ [][Next]_vars

\* One process does it all, and the user answers.
FairSpec == Spec /\ WF_vars(Next)

----------------------------------------------------------------------------
Conflict == [uid : Uid, digest : Pkg \cup {AnyPkg},
             type : {"all", "remote_local", "remote_remote"}]

\* Type invariant.
SolveTypeOK ==
    /\ IsWorld(world)
    /\ world.start \subseteq problem /\ problem \subseteq universe /\ universe \subseteq Uid
    /\ conflicts \in [world.pkgs -> SUBSET Conflict]
    /\ phase \in {"sat", "read", "check", "confirm", "execute", "stopped", "undefined"}
    /\ top \in [world.request -> BOOLEAN]
    /\ iter \in {0, 1}
    /\ attempt \in 0..MaxPlans
    /\ result \subseteq Pkgs
    /\ unread \subseteq Uid
    /\ jobs \subseteq [uid : Uid, type : {"install", "upgrade", "delete"}]
    /\ loaded \subseteq world.pkgs
    /\ needFetch \in BOOLEAN
    /\ applying \in {"no", "first", "again"}
    /\ todo \subseteq world.files
    /\ scan \in {"table", "chains", "owner", "owners"}
    /\ level \in Nat \ {0}
    /\ pairs \subseteq world.pkgs \X world.pkgs
    /\ found \in BOOLEAN
    /\ registered \in BOOLEAN
    /\ slots \in [Path -> Seq(world.pkgs)]

\* An outcome that the user is shown, or that is executed.
Offered == phase \in {"confirm", "execute"}

\* What is installed after the transaction still has every dependency that can
\* be had: keeping a package the solver gave up ("can safely be kept: All its
\* dependencies are still satisfied") never leaves it, or another, without one.
DependenciesMet == Offered => DependRule(result)

\* What was installed before has its dependencies, requirements and no conflicts.
InstalledIsSound ==
    LET S == {p \in Pkgs : Installed(p)}
    IN  /\ DependRule(S) /\ RequireRule(S)
        /\ \A k \in world.known : [uid |-> k[2], v |-> 0] \notin world.pkgs

\* Nor are two packages there together that were found to conflict, in whatever
\* round, and however the one that was given up came back.
FoundConflictsExcluded == InstalledIsSound /\ Offered => ConflictRule(result)

\* What is there after the transaction: the answer, and what is installed that the
\* solver did not know of.
After == result \cup {p \in world.pkgs : Installed(p) /\ p.uid \notin problem}

\* The paths two packages will share though no conflict of their chains is known.
Overlooked ==
    {e \in result \X After \X Path :
        /\ e[1].uid # e[2].uid
        /\ e[3] \in Files(e[1]) \cap Files(e[2])
        /\ \A r \in Items(e[1].uid) : ~Knows(r, e[2].uid)
        /\ \A s \in Items(e[2].uid) : ~Knows(s, e[1].uid)}

\* When a transaction is executed the search has overlooked no path that it shares,
\* whatever is cached and fetched when and whoever owns it, but for two cases: the
\* owner is locked, or it lacks a dependency, was not in the universe before, and
\* this is the one path at which it was added to it (pkg_conflicts_check_chain_conflict).
SharingIsRegistered ==
    phase = "execute" =>
        \A e \in Overlooked :
            /\ e[2].uid \notin problem
            /\ \/ e[2] \in world.locked
               \/ e[2] \in world.missing /\ \A g \in Overlooked : g[2] = e[2] => g = e

\* picosat_failed_assumptions never returns an empty list, of which the code would
\* read the element before the first, if the installed packages are sound: they
\* satisfy all clauses, however many conflicts have been registered.
FailureHasCulprit == InstalledIsSound => phase # "undefined"

\* The rounds of finding conflicts and solving again come to an end, unless the
\* solver fails so often that the user is asked.
RoundsEnd ==
    <>(phase \in {"execute", "stopped", "undefined"} \/ attempt = MaxPlans)

\* "Record the existence of a file conflict between a pair of packages."
\* (pkg_jobs_conflicts.c): so that no transaction is executed that gives two
\* packages the same path.
NoPathIsShared ==
    phase = "execute" =>
        \A p \in result, q \in After : p # q => Files(p) \cap Files(q) = {}

\* "Require rule: ( !A | P1 | P2 | P3 ... ) must be true" (pkg_solve.c): no
\* package is kept or installed without what it requires, if that can be had.
RequirementsMet == Offered => RequireRule(result)
=============================================================================
