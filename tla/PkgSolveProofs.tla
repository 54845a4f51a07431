--------------------------- MODULE PkgSolveProofs ---------------------------
(***************************************************************************)
(* SolveTypeOK and FailureHasCulprit for every set of universes and        *)
(* requests, and every number of attempts.                                 *)
(*                                                                         *)
(* Why there is a culprit: the installed packages satisfy all clauses, as  *)
(* the conflicts registered in whatever round never set two of them        *)
(* against each other.                                                     *)
(***************************************************************************)
EXTENDS PkgSolve, TLAPS

InstalledPkgs == {p \in Pkgs : Installed(p)}

\* What the proof needs to know of the types.
SolveBasic ==
    /\ world \in Worlds
    /\ conflicts \in [world.pkgs -> SUBSET Conflict]

\* No installed package is known to conflict with a chain something is installed of.
KnownIsSound == \A k \in world.known : [uid |-> k[2], v |-> 0] \notin world.pkgs

\* The strengthening: no conflict is between two installed packages, of which the
\* universe may hold more in the next round.
InstalledAgree ==
    KnownIsSound =>
        \A p, q \in world.pkgs : Installed(p) /\ Installed(q) =>
            \A c \in conflicts[p] : ~Excludes(c, p, q)

SolveInv == SolveBasic /\ InstalledAgree /\ FailureHasCulprit

\* A registered conflict of two packages that are not both installed rules out no
\* pair of installed ones (pkg_conflicts_register_one and pkg_solve_add_conflict_rule).
LEMMA RegisteredSparesInstalled ==
    ASSUME NEW p, NEW q, NEW C,
           ~(Installed(p) /\ Installed(q)),
           NEW r, Installed(p), Installed(r),
           NEW c \in With(C, p, q), c \notin C
    PROVE  ~Excludes(c, p, r)
<1>1. c = [uid |-> q.uid, digest |-> q, type |-> ConflictType(p, q)]
  BY DEF With
<1>2. c.type = "remote_local"
  BY <1>1 DEF ConflictType
<1> QED BY <1>2 DEF Excludes

\* If the installed packages agree, to leave everything as it is satisfies the
\* clauses, so that there is a model.
LEMMA InstalledIsModel ==
    ASSUME SolveBasic, InstalledAgree, InstalledIsSound
    PROVE  InstalledPkgs \in Models
<1>1. \A p \in world.pkgs : p \in Pkg
  BY PkgSolveAssumption DEF SolveBasic, IsWorld
<1>2. DependRule(InstalledPkgs) /\ RequireRule(InstalledPkgs)
  BY DEF InstalledIsSound, InstalledPkgs
<1>3. ConflictRule(InstalledPkgs)
  BY DEF InstalledAgree, InstalledIsSound, KnownIsSound, ConflictRule, InstalledPkgs, Pkgs
<1>4. VitalRule(InstalledPkgs)
  BY DEF VitalRule, Chain, InstalledPkgs
<1>5. ChainRule(InstalledPkgs)
  BY <1>1 DEF ChainRule, InstalledPkgs, Pkgs, Installed, Pkg
<1> QED BY <1>2, <1>3, <1>4, <1>5 DEF Models, InstalledPkgs

LEMMA SolveInvInit == Init => SolveInv
<1> SUFFICES ASSUME Init PROVE SolveInv
  OBVIOUS
<1>1. world \in Worlds /\ IsWorld(world)
  BY PkgSolveAssumption DEF Init
<1>2. conflicts \in [world.pkgs -> SUBSET Conflict]
  BY <1>1 DEF Init, IsWorld, Conflict
<1>3. InstalledAgree
  <2> SUFFICES ASSUME KnownIsSound, NEW p \in world.pkgs, NEW q \in world.pkgs,
                      Installed(p), Installed(q), NEW c \in conflicts[p], Excludes(c, p, q)
               PROVE  FALSE
    BY DEF InstalledAgree
  <2>1. PICK k \in world.known : c = [uid |-> k[2], digest |-> AnyPkg, type |-> "all"]
    BY DEF Init
  <2>2. q.uid = k[2]
    BY <2>1 DEF Excludes
  <2>3. q = [uid |-> k[2], v |-> 0]
    BY <1>1, <2>2 DEF Installed, IsWorld, Pkg
  <2> QED BY <2>3 DEF KnownIsSound
<1> QED BY <1>1, <1>2, <1>3 DEF SolveInv, SolveBasic, FailureHasCulprit, Init

\* Whether what was installed is sound depends on the problem alone.
LEMMA SameSoundness ==
    ASSUME UNCHANGED <<world, problem>>
    PROVE  InstalledIsSound' <=> InstalledIsSound
  BY DEF InstalledIsSound, DependRule, RequireRule, Candidates, Providers, Pkgs, Installed

\* Comparing is what registers conflicts.
LEMMA CompareKeepsAgreement ==
    ASSUME SolveInv, NEW p \in world.pkgs, NEW q \in world.pkgs, Compare(p, q)
    PROVE  SolveInv'
<1> USE DEF SolveInv
<1>1. world' = world /\ problem' = problem /\ phase' = phase
  BY DEF Compare, worldVars
<1>2. InstalledIsSound' <=> InstalledIsSound
  BY <1>1, SameSoundness
<1>3. FailureHasCulprit'
  BY <1>1, <1>2 DEF FailureHasCulprit
<1>4. CASE UNCHANGED conflicts
  BY <1>1, <1>3, <1>4 DEF SolveBasic, InstalledAgree, KnownIsSound, Excludes, Installed
<1>5. CASE /\ ~(Installed(p) /\ Installed(q))
           /\ conflicts' = [conflicts EXCEPT ![p] = With(@, p, q), ![q] = With(@, q, p)]
  <2>1. world \in Worlds /\ p \in Pkg /\ q \in Pkg
    BY PkgSolveAssumption DEF SolveBasic, IsWorld
  <2>2. \A C \in SUBSET Conflict : With(C, p, q) \in SUBSET Conflict
                                  /\ With(C, q, p) \in SUBSET Conflict
    BY <2>1 DEF With, ConflictType, Conflict, Pkg
  <2>3. conflicts' \in [world.pkgs -> SUBSET Conflict]
    BY <1>5, <2>2 DEF SolveBasic
  <2>4. SolveBasic'
    BY <1>1, <2>3 DEF SolveBasic
  <2>5. InstalledAgree'
    <3> SUFFICES ASSUME KnownIsSound, NEW r \in world.pkgs, NEW s \in world.pkgs,
                        Installed(r) /\ Installed(s), NEW c \in conflicts'[r]
                 PROVE  ~Excludes(c, r, s)
      BY <1>1 DEF InstalledAgree, KnownIsSound, Installed, Excludes
    <3>1. r \in world.pkgs /\ Installed(r) /\ Installed(s)
      OBVIOUS
    <3>2. CASE c \in conflicts[r]
      BY <3>2 DEF InstalledAgree
    <3>3. CASE c \notin conflicts[r]
      <4>1. \/ r = p /\ p # q /\ c \in With(conflicts[p], p, q)
            \/ r = q /\ p # q /\ c \in With(conflicts[q], q, p)
            \/ p = q /\ r = p
        BY <1>5, <3>1, <3>3 DEF SolveBasic
      <4>2. p # q \/ ~Installed(r)
        BY <1>5, <4>1
      <4> QED BY <1>5, <3>1, <3>3, <4>1, <4>2, RegisteredSparesInstalled
    <3> QED BY <3>2, <3>3
  <2> QED BY <2>4, <2>5, <1>3
<1> QED BY <1>4, <1>5 DEF Compare

\* All other steps leave the universe and the conflicts as they are.
LEMMA SolveInvNext == SolveInv /\ [Next]_vars => SolveInv'
<1> SUFFICES ASSUME SolveInv, [Next]_vars PROVE SolveInv'
  OBVIOUS
<1> USE DEF SolveInv
<1>1. ASSUME UNCHANGED <<world, conflicts>>,
             phase' # "undefined" \/ UNCHANGED <<phase, problem>>
      PROVE  SolveInv'
  <2>1. UNCHANGED problem => (InstalledIsSound' <=> InstalledIsSound)
    BY <1>1, SameSoundness
  <2>2. SolveBasic' /\ FailureHasCulprit'
    BY <1>1, <2>1 DEF SolveBasic, FailureHasCulprit
  <2>3. InstalledAgree'
    BY <1>1 DEF InstalledAgree, KnownIsSound, Excludes, Installed
  <2> QED BY <2>2, <2>3
<1>2. CASE Reconsider \/ Decide \/ TryAnotherPlan \/ AskToRemove
  BY <1>1, <1>2 DEF Reconsider, Decide, TryAnotherPlan, AskToRemove, worldVars
<1>3. CASE RunOff
  <2>1. ~InstalledIsSound
    BY <1>3, InstalledIsModel DEF RunOff
  <2>2. UNCHANGED <<world, problem, conflicts>>
    BY <1>3 DEF RunOff, worldVars
  <2>3. InstalledIsSound' <=> InstalledIsSound
    BY <2>2, SameSoundness
  <2> QED
    BY <2>1, <2>2, <2>3
       DEF SolveBasic, InstalledAgree, KnownIsSound, Excludes, Installed, FailureHasCulprit
<1>4. CASE ReadStep
  BY <1>1, <1>4 DEF ReadStep, ReadInstall, ReadDelete, ReadUnchanged, EndRead, Check, Reading,
                    worldVars
<1>5. ASSUME NEW p \in world.pkgs, NEW f \in Path, CheckPath(p, f) PROVE SolveInv'
  BY <1>1, <1>5 DEF CheckPath, Enter, Collide, MeetPath, Met, MeetOwner, SkipOwner, NextPath, PathDone,
                    checkFrame, worldVars
<1>6. ASSUME NEW p \in world.pkgs, NEW q \in world.pkgs, Compare(p, q) PROVE SolveInv'
  BY <1>6, CompareKeepsAgreement
<1>7. CASE SolveAgain \/ NoConflicts \/ Stop
  BY <1>1, <1>7 DEF SolveAgain, Solve, NoConflicts, Stop, worldVars
<1>8. CASE Apply
  BY <1>1, <1>8 DEF Apply, Check, worldVars
<1>9. CASE UNCHANGED vars
  BY <1>1, <1>9 DEF vars, worldVars
<1> QED
  BY <1>2, <1>3, <1>4, <1>5, <1>6, <1>7, <1>8, <1>9 DEF Next, SolveStep, CheckStep

\* When no assignment satisfies the assumptions some assumption is to blame, so
\* that the list of which pkg_solve_sat_problem takes the last is not empty.
THEOREM SolveFailureHasCulprit == Spec => []FailureHasCulprit
<1>1. SolveInv => FailureHasCulprit
  BY DEF SolveInv
<1> QED BY SolveInvInit, SolveInvNext, <1>1, PTL DEF Spec

----------------------------------------------------------------------------
(* The type invariant.                                                     *)

LEMMA SolveTypeInit == Init => SolveTypeOK
<1> SUFFICES ASSUME Init PROVE SolveTypeOK
  OBVIOUS
<1>1. IsWorld(world)
  BY PkgSolveAssumption DEF Init
<1>2. conflicts \in [world.pkgs -> SUBSET Conflict]
  BY <1>1 DEF Init, IsWorld, Conflict
<1>3. top \in [world.request -> BOOLEAN]
  BY Zenon DEF Init
<1>4. loaded \subseteq world.pkgs
  BY <1>1 DEF Init, IsWorld
<1>5. slots \in [Path -> Seq(world.pkgs)]
  BY DEF Init
<1>6. /\ phase = "sat" /\ iter = 0 /\ attempt = 0 /\ result = {} /\ unread = {} /\ jobs = {}
      /\ needFetch = FALSE /\ applying = "no" /\ todo = {} /\ scan = "table" /\ level = 1
      /\ pairs = {} /\ found = FALSE /\ registered = FALSE
  BY Zenon DEF Init
<1>7. attempt \in 0..MaxPlans /\ level \in Nat \ {0}
  BY <1>6, PkgSolveAssumption
<1>8. /\ result \subseteq Pkgs /\ unread \subseteq Uid /\ todo \subseteq world.files
      /\ jobs \subseteq [uid : Uid, type : {"install", "upgrade", "delete"}]
      /\ pairs \subseteq world.pkgs \X world.pkgs
  BY <1>6
<1>9. /\ phase \in {"sat", "read", "check", "confirm", "execute", "stopped", "undefined"}
      /\ iter \in {0, 1} /\ needFetch \in BOOLEAN /\ applying \in {"no", "first", "again"}
      /\ scan \in {"table", "chains", "owner", "owners"}
      /\ found \in BOOLEAN /\ registered \in BOOLEAN
  BY <1>6
<1>10. world.start \subseteq problem /\ problem \subseteq universe /\ universe \subseteq Uid
  BY <1>1 DEF Init, IsWorld
<1> QED BY <1>1, <1>2, <1>3, <1>4, <1>5, <1>7, <1>8, <1>9, <1>10, Zenon DEF SolveTypeOK

\* A new problem is well typed.
LEMMA SolveTypeSolve ==
    ASSUME Solve, world' = world
    PROVE  /\ phase' = "sat" /\ iter' = 0 /\ attempt' \in 0..MaxPlans
           /\ result' \subseteq Pkgs' /\ jobs' = {} /\ problem' = universe
           /\ top' \in [world'.request -> BOOLEAN]
<1>1. top' \in [world.request -> BOOLEAN]
  BY Zenon DEF Solve
<1> QED BY <1>1, PkgSolveAssumption DEF Solve

\* The beginning of a check is well typed.
LEMMA SolveTypeCheck ==
    ASSUME SolveTypeOK, NEW L, Check(L),
           UNCHANGED <<worldVars, conflicts, top, iter, attempt, result, unread, jobs>>,
           loaded' \subseteq world.pkgs, needFetch' \in BOOLEAN,
           applying' \in {"no", "first", "again"}
    PROVE  SolveTypeOK'
<1>1. /\ phase' = "check" /\ scan' = "table" /\ level' = 1 /\ slots' = slots
      /\ pairs' = {} /\ found' = FALSE /\ registered' = FALSE
  BY DEF Check
<1>2. /\ phase' \in {"sat", "read", "check", "confirm", "execute", "stopped", "undefined"}
      /\ scan' \in {"table", "chains", "owner", "owners"}
  BY <1>1, Zenon
<1>3. found' \in BOOLEAN /\ registered' \in BOOLEAN
  BY <1>1, Zenon
<1>4. level' \in Nat \ {0}
  BY <1>1
<1>5. todo' \subseteq world'.files
  BY Zenon DEF Check, worldVars
<1>6. pairs' \subseteq world'.pkgs \X world'.pkgs
  BY <1>1
<1>7. /\ IsWorld(world') /\ conflicts' \in [world'.pkgs -> SUBSET Conflict]
      /\ top' \in [world'.request -> BOOLEAN] /\ loaded' \subseteq world'.pkgs
      /\ iter' \in {0, 1} /\ attempt' \in 0..MaxPlans /\ result' \subseteq Pkgs'
      /\ unread' \subseteq Uid
      /\ jobs' \subseteq [uid : Uid, type : {"install", "upgrade", "delete"}]
      /\ slots' \in [Path -> Seq(world'.pkgs)]
  BY <1>1 DEF SolveTypeOK, worldVars, Pkgs
<1>8. IsWorld(world)'
  BY Zenon DEF SolveTypeOK, IsWorld, Installed, worldVars
<1>9. (world.start \subseteq problem /\ problem \subseteq universe /\ universe \subseteq Uid)'
  BY DEF SolveTypeOK, worldVars
<1> QED BY <1>2, <1>3, <1>4, <1>5, <1>6, <1>7, <1>8, <1>9, Zenon DEF SolveTypeOK

LEMMA SolveTypeSat == SolveTypeOK /\ SolveStep => SolveTypeOK'
<1> SUFFICES ASSUME SolveTypeOK, SolveStep PROVE SolveTypeOK'
  OBVIOUS
<1> USE DEF SolveTypeOK, Pkgs, worldVars, solveVars, jobVars, checkVars
<1>1. CASE Reconsider
  <2>1. top' \in [world.request -> BOOLEAN]
    BY <1>1, Zenon DEF Reconsider
  <2> QED BY <1>1, <2>1 DEF Reconsider
<1>2. CASE Decide
  <2>1. result' \subseteq Pkgs
    BY <1>2 DEF Decide, Answers, Models
  <2>2. unread' \subseteq Uid
    BY <1>2 DEF Decide, IsWorld, Pkg
  <2> QED BY <1>2, <2>1, <2>2 DEF Decide
<1>3. \A p \in world.request : Negate(p) => top' \in [world.request -> BOOLEAN]
  BY Zenon DEF Negate
<1>4. CASE TryAnotherPlan
  <2>1. attempt' \in 0..MaxPlans
    BY <1>4, PkgSolveAssumption DEF TryAnotherPlan
  <2>2. top' \in [world.request -> BOOLEAN]
    BY <1>3, <1>4 DEF TryAnotherPlan
  <2> QED BY <1>4, <2>1, <2>2 DEF TryAnotherPlan
<1>5. CASE AskToRemove
  <2>1. top' \in [world.request -> BOOLEAN]
    BY <1>3, <1>5 DEF AskToRemove
  <2> QED BY <1>5, <2>1, PkgSolveAssumption DEF AskToRemove
<1>6. CASE RunOff
  BY <1>6 DEF RunOff
<1> QED BY <1>1, <1>2, <1>4, <1>5, <1>6 DEF SolveStep

LEMMA SolveTypeRead == SolveTypeOK /\ ReadStep => SolveTypeOK'
<1> SUFFICES ASSUME SolveTypeOK, ReadStep PROVE SolveTypeOK'
  OBVIOUS
<1> USE DEF SolveTypeOK, Pkgs, worldVars, solveVars, jobVars, checkVars
<1>1. ASSUME NEW u \in Uid, ReadInstall(u) PROVE SolveTypeOK'
  <2>1. jobs' \subseteq [uid : Uid, type : {"install", "upgrade", "delete"}]
    BY <1>1 DEF ReadInstall
  <2> QED BY <1>1, <2>1 DEF ReadInstall
<1>2. ASSUME NEW u \in Uid, ReadDelete(u) PROVE SolveTypeOK'
  <2>1. /\ jobs' \subseteq [uid : Uid, type : {"install", "upgrade", "delete"}]
        /\ result' \subseteq Pkgs
    BY <1>2 DEF ReadDelete, Gone, Chain
  <2> QED BY <1>2, <2>1 DEF ReadDelete
<1>3. ASSUME NEW u \in Uid, ReadUnchanged(u) PROVE SolveTypeOK'
  BY <1>3 DEF ReadUnchanged
<1>4. CASE EndRead
  <2>1. UNCHANGED <<worldVars, conflicts, top, iter, attempt, result, unread, jobs, loaded,
                    applying>>
    BY <1>4 DEF EndRead
  <2>2. needFetch' \in BOOLEAN
    BY <1>4, Zenon DEF EndRead
  <2>3. CASE phase' = "confirm" /\ UNCHANGED checkVars
    BY <2>1, <2>2, <2>3
  <2>4. CASE Check(loaded)
    <3> HIDE DEF SolveTypeOK
    <3>1. loaded' \subseteq world.pkgs /\ applying' \in {"no", "first", "again"}
      BY <2>1 DEF SolveTypeOK
    <3> QED BY <2>1, <2>2, <2>4, <3>1, SolveTypeCheck
  <2> QED BY <1>4, <2>3, <2>4 DEF EndRead
<1> QED BY <1>1, <1>2, <1>3, <1>4 DEF ReadStep

LEMMA SolveTypePath ==
    ASSUME SolveTypeOK, NEW p \in world.pkgs, NEW f \in Path, CheckPath(p, f)
    PROVE  SolveTypeOK'
<1> USE DEF SolveTypeOK, Pkgs, worldVars, solveVars, jobVars, checkVars, checkFrame
<1>1. CASE Enter(p, f)
  <2>1. slots' \in [Path -> Seq(world.pkgs)]
    <3>1. CASE level > Len(slots[f])
      <4>1. Append(slots[f], p) \in Seq(world.pkgs)
        OBVIOUS
      <4>2. slots' = [slots EXCEPT ![f] = Append(slots[f], p)]
        BY <1>1, <3>1 DEF Enter
      <4> HIDE DEF SolveTypeOK
      <4>3. slots \in [Path -> Seq(world.pkgs)]
        BY DEF SolveTypeOK
      <4> QED BY <4>1, <4>2, <4>3
    <3>2. CASE ~(level > Len(slots[f]))
      <4>1. level \in 1..Len(slots[f])
        BY <3>2
      <4>2. [slots[f] EXCEPT ![level] = p] \in Seq(world.pkgs)
        <5>1. slots[f] \in Seq(world.pkgs)
          OBVIOUS
        <5> HIDE DEF SolveTypeOK
        <5> QED BY <4>1, <5>1
      <4> QED BY <1>1, <3>2, <4>2 DEF Enter
    <3> QED BY <3>1, <3>2
  <2> QED BY <1>1, <2>1 DEF Enter
<1>2. CASE Collide(p, f)
  BY <1>2 DEF Collide
<1>3. CASE MeetPath(p, f)
  BY <1>3 DEF MeetPath, Items
<1>4. CASE Met(p, f)
  BY <1>4 DEF Met
<1>5. ASSUME NEW o \in world.pkgs, AddOwner(o) PROVE universe \subseteq universe' /\ universe' \subseteq Uid
  BY <1>5 DEF AddOwner, IsWorld, Pkg
<1>6. CASE MeetOwner(p, f)
  <2>1. universe \subseteq universe' /\ universe' \subseteq Uid
    BY <1>5, <1>6 DEF MeetOwner, Owners
  <2> QED BY <1>6, <2>1 DEF MeetOwner, Items
<1>7. CASE SkipOwner(p, f)
  <2>1. universe \subseteq universe' /\ universe' \subseteq Uid
    BY <1>5, <1>7 DEF SkipOwner, Owners
  <2> QED BY <1>7, <2>1 DEF SkipOwner, PathDone
<1>8. CASE NextPath(p, f)
  BY <1>8 DEF NextPath, PathDone
<1> QED BY <1>1, <1>2, <1>3, <1>4, <1>6, <1>7, <1>8 DEF CheckPath

LEMMA SolveTypeCompare ==
    ASSUME SolveTypeOK, NEW p \in world.pkgs, NEW q \in world.pkgs, Compare(p, q)
    PROVE  SolveTypeOK'
<1> USE DEF SolveTypeOK, solveVars, jobVars
<1>1. p \in Pkg /\ q \in Pkg
  BY DEF IsWorld
<1>2. \A C \in SUBSET Conflict : With(C, p, q) \in SUBSET Conflict
                                /\ With(C, q, p) \in SUBSET Conflict
  BY <1>1 DEF With, ConflictType, Conflict, Pkg
<1>3. conflicts' \in [world.pkgs -> SUBSET Conflict]
  BY <1>2 DEF Compare
<1>4. /\ UNCHANGED <<worldVars, phase, solveVars, jobVars, todo, scan, level, slots>>
      /\ pairs' \subseteq pairs /\ found' \in BOOLEAN /\ registered' \in BOOLEAN
  BY DEF Compare
<1> QED BY <1>3, <1>4 DEF worldVars, Pkgs

LEMMA SolveTypeNext == SolveTypeOK /\ [Next]_vars => SolveTypeOK'
<1> SUFFICES ASSUME SolveTypeOK, [Next]_vars PROVE SolveTypeOK'
  OBVIOUS
<1>1. CASE SolveAgain
  <2>1. world' = world /\ Solve
    BY <1>1 DEF SolveAgain
  <2> QED BY <1>1, <2>1, SolveTypeSolve DEF SolveTypeOK, SolveAgain, checkVars
<1>2. CASE NoConflicts \/ Stop
  BY <1>2 DEF SolveTypeOK, Pkgs, NoConflicts, Stop, worldVars, solveVars, jobVars, checkVars
<1>3. CASE Apply
  <2>1. world' = world
    BY <1>3 DEF Apply, worldVars
  <2>2. CASE needFetch
    <3>1. loaded' \subseteq world.pkgs /\ applying' = "first" /\ Check(loaded')
      BY <1>3, <2>2 DEF Apply, SolveTypeOK, Pkgs
    <3>2. UNCHANGED <<worldVars, conflicts, top, iter, attempt, result, unread, jobs, needFetch>>
      BY <1>3 DEF Apply, solveVars
    <3>3. needFetch' \in BOOLEAN /\ applying' \in {"no", "first", "again"}
      BY <3>1, <3>2 DEF SolveTypeOK
    <3> QED BY <2>1, <3>1, <3>2, <3>3, SolveTypeCheck
  <2>3. CASE ~needFetch
    BY <1>3, <2>3 DEF SolveTypeOK, Pkgs, Apply, worldVars, solveVars, checkVars
  <2> QED BY <2>2, <2>3
<1>4. CASE UNCHANGED vars
  BY <1>4 DEF SolveTypeOK, Pkgs, vars, worldVars, solveVars, jobVars, checkVars
<1> QED
  BY <1>1, <1>2, <1>3, <1>4, SolveTypeSat, SolveTypeRead, SolveTypePath, SolveTypeCompare
  DEF Next, CheckStep

\* The type invariant of solving, for every set of universes and requests.
THEOREM SolveTypeCorrect == Spec => []SolveTypeOK
  BY SolveTypeInit, SolveTypeNext, PTL DEF Spec

----------------------------------------------------------------------------
(* What is offered: an answer of the solver, and the packages kept beside   *)
(* it by pkg_solve_insert_res_job.                                          *)

Decided == phase \in {"read", "check", "confirm", "execute", "stopped"}

DependInv == Decided => DependRule(result)

\* Keeping an installed package whose primary dependencies stay meets its rule,
\* and breaks that of nobody.
LEMMA KeepMeetsDependencies ==
    ASSUME SolveTypeOK, DependRule(result), NEW p \in world.pkgs, Installed(p), CanKeep(p)
    PROVE  DependRule(result \cup {p})
<1> SUFFICES ASSUME NEW d \in world.deps, d[1] \in result \cup {p},
                    Candidates({d[2]} \cup d[3]) # {}
             PROVE  Candidates({d[2]} \cup d[3]) \cap (result \cup {p}) # {}
  BY DEF DependRule
<1>1. CASE d[1] \in result
  BY <1>1 DEF DependRule
<1>2. CASE d[1] = p
  <2>1. Chain(d[2]) # {} => Chain(d[2]) \cap result # {}
    BY <1>2 DEF CanKeep
  <2>2. Chain(d[2]) # {}
    <3>1. CASE d[3] = {}
      BY <3>1 DEF Candidates, Chain
    <3>2. CASE d[3] # {}
      BY <1>2, <3>2 DEF SolveTypeOK, IsWorld, Chain, Pkgs
    <3> QED BY <3>1, <3>2
  <2>3. Chain(d[2]) \subseteq Candidates({d[2]} \cup d[3])
    BY DEF Chain, Candidates
  <2> QED BY <2>1, <2>2, <2>3
<1> QED BY <1>1, <1>2

\* Every step that neither takes an answer nor keeps a package leaves the decision
\* as it is, or gives it up.
LEMMA DecisionKept ==
    ASSUME [Next]_vars, ~Decide, \A u \in Uid : ~ReadDelete(u)
    PROVE  /\ world' = world
           /\ Decided' => Decided /\ result' = result /\ problem' = problem
<1>1. CASE SolveStep
  BY <1>1 DEF SolveStep, Reconsider, TryAnotherPlan, AskToRemove, RunOff, Decided,
              worldVars, solveVars
<1>2. CASE ReadStep
  BY <1>2 DEF ReadStep, ReadInstall, ReadUnchanged, EndRead, Reading, Decided, worldVars, solveVars
<1>3. ASSUME NEW p \in world.pkgs, NEW f \in Path, CheckPath(p, f)
      PROVE  /\ world' = world
             /\ Decided' => Decided /\ result' = result /\ problem' = problem
  BY <1>3 DEF CheckPath, Enter, Collide, MeetPath, Met, MeetOwner, SkipOwner, NextPath, PathDone,
                    checkFrame, worldVars,
              Decided, worldVars, solveVars
<1>4. ASSUME NEW p \in world.pkgs, NEW q \in world.pkgs, Compare(p, q)
      PROVE  /\ world' = world
             /\ Decided' => Decided /\ result' = result /\ problem' = problem
  BY <1>4 DEF Compare, Decided, worldVars, solveVars
<1>5. CASE SolveAgain
  BY <1>5 DEF SolveAgain, Solve, Decided
<1>6. CASE NoConflicts \/ Stop \/ Apply
  BY <1>6 DEF NoConflicts, Stop, Apply, Decided, worldVars, solveVars
<1>7. CASE UNCHANGED vars
  BY <1>7 DEF vars, Decided, worldVars, solveVars
<1> QED BY <1>1, <1>2, <1>3, <1>4, <1>5, <1>6, <1>7 DEF Next, CheckStep

\* An answer, and what it leaves to keep.
LEMMA DependNext == SolveTypeOK /\ DependInv /\ [Next]_vars => DependInv'
<1> SUFFICES ASSUME SolveTypeOK, DependInv, [Next]_vars PROVE DependInv'
  OBVIOUS
<1>1. CASE Decide
  <2>1. PICK S \in Answers : result' = S
    BY <1>1 DEF Decide
  <2>2. DependRule(S) /\ world' = world /\ problem' = problem
    BY <1>1 DEF Decide, Answers, Models, worldVars
  <2> QED BY <2>1, <2>2 DEF DependInv, DependRule, Candidates, Pkgs
<1>2. ASSUME NEW u \in Uid, ReadDelete(u) PROVE DependInv'
  <2>1. PICK p \in Gone(u) : \/ CanKeep(p) /\ result' = result \cup {p}
                             \/ UNCHANGED result
    BY <1>2 DEF ReadDelete
  <2>2. /\ p \in world.pkgs /\ Installed(p) /\ UNCHANGED <<world, problem>>
        /\ DependRule(result)
    BY <1>2 DEF ReadDelete, Reading, Gone, Chain, Pkgs, DependInv, Decided, worldVars
  <2>3. DependRule(result')
    BY <2>1, <2>2, KeepMeetsDependencies
  <2> QED BY <2>2, <2>3 DEF DependInv, DependRule, Candidates, Pkgs
<1>3. CASE ~Decide /\ \A u \in Uid : ~ReadDelete(u)
  <2>1. /\ world' = world
        /\ Decided' => Decided /\ result' = result /\ problem' = problem
    BY <1>3, DecisionKept
  <2> QED BY <2>1 DEF DependInv, DependRule, Candidates, Pkgs
<1> QED BY <1>1, <1>2, <1>3

\* What the user is shown, or is executed, leaves nobody without a dependency that
\* can be had, although pkg_solve_can_keep brings back packages the solver gave up
\* and looks at primary dependencies only.
THEOREM SolveMeetsDependencies == Spec => []DependenciesMet
<1>1. Init => DependInv
  BY DEF Init, DependInv, Decided
<1>2. DependInv => DependenciesMet
  BY DEF DependInv, Decided, DependenciesMet, Offered
<1> QED BY <1>1, <1>2, DependNext, SolveTypeCorrect, PTL DEF Spec

----------------------------------------------------------------------------
(* Conflicts: those that were known are between packages that are not both  *)
(* installed, and those that were found are known to both sides.            *)

\* A conflict that was found is registered with its counterpart as well, or was
\* dropped there for one with the same chain.
Mutual ==
    \A p \in world.pkgs : \A c \in conflicts[p] :
        \/ Installed(p) /\ <<p, c.uid>> \in world.known /\ c.digest = AnyPkg
        \/ /\ c.digest \in world.pkgs /\ c.digest.uid = c.uid /\ c.uid # p.uid
           /\ Knows(c.digest, p.uid)

\* Only packages of two chains are compared.
PairsApart == \A e \in pairs : e[1].uid # e[2].uid

\* Between an answer and the next conflict found, what there will be agrees.
Agreed == phase \in {"read", "confirm", "execute", "stopped"} \/ (phase = "check" /\ ~registered)

ConflictInv == InstalledIsSound /\ Agreed => ConflictRule(result)

\* Keeping an installed package breaks no conflict rule, though pkg_solve_can_keep
\* looks at the conflicts of that package only, and the rules at both sides.
LEMMA KeepAgrees ==
    ASSUME SolveTypeOK, Mutual, InstalledIsSound, ConflictRule(result),
           NEW p \in world.pkgs, Installed(p), CanKeep(p)
    PROVE  ConflictRule(result \cup {p})
<1>1. /\ world.pkgs \subseteq Pkg /\ result \subseteq Pkgs /\ Pkgs \subseteq world.pkgs
      /\ AnyPkg \notin world.pkgs /\ p = [uid |-> p.uid, v |-> 0]
  BY PkgSolveAssumption DEF SolveTypeOK, IsWorld, Pkg, Pkgs, Installed
<1>2. \A k \in world.known : [uid |-> k[2], v |-> 0] # p
  BY DEF InstalledIsSound
<1>3. \A c \in conflicts[p] : Chain(c.uid) \cap result = {}
  BY DEF CanKeep
<1> SUFFICES ASSUME NEW a \in result \cup {p}, NEW b \in result \cup {p},
                    NEW c \in conflicts[a], Excludes(c, a, b)
             PROVE  FALSE
  BY DEF ConflictRule
<1>4. b.uid = c.uid /\ c.digest \in {AnyPkg, b} /\ a \in world.pkgs /\ b \in world.pkgs
  BY <1>1 DEF Excludes
<1>5. CASE a \in result /\ b \in result
  BY <1>5 DEF ConflictRule
<1>6. CASE a = p /\ b \in result
  BY <1>1, <1>3, <1>4, <1>6 DEF Chain
<1>7. CASE b = p
  <2>1. <<a, c.uid>> \notin world.known
    BY <1>1, <1>2, <1>4, <1>7
  <2>2. /\ c.digest \in world.pkgs /\ c.uid # a.uid
        /\ Knows(c.digest, a.uid)
    BY <1>4, <2>1 DEF Mutual
  <2>3. c.digest = p /\ a # p
    BY <1>1, <1>4, <1>7, <2>2
  <2>4. a \in result /\ a \in Chain(a.uid)
    BY <1>1, <2>3 DEF Chain
  <2> QED BY <1>3, <2>2, <2>3, <2>4 DEF Knows
<1> QED BY <1>5, <1>6, <1>7

\* Registering keeps conflicts mutual (pkg_conflicts_register_one, called for both).
LEMMA CompareMutual ==
    ASSUME SolveTypeOK, Mutual, PairsApart,
           NEW p \in world.pkgs, NEW q \in world.pkgs, Compare(p, q)
    PROVE  Mutual' /\ PairsApart'
<1>1. world' = world /\ pairs' \subseteq pairs /\ p.uid # q.uid
  BY DEF Compare, Comparing, PairsApart, worldVars
<1>2. CASE UNCHANGED conflicts
  BY <1>1, <1>2 DEF Mutual, PairsApart, Knows, Installed
<1>3. CASE conflicts' = [conflicts EXCEPT ![p] = With(@, p, q), ![q] = With(@, q, p)]
  <2>1. /\ conflicts'[p] = With(conflicts[p], p, q) /\ conflicts'[q] = With(conflicts[q], q, p)
        /\ \A r \in world.pkgs : r \notin {p, q} => conflicts'[r] = conflicts[r]
    BY <1>1, <1>3 DEF SolveTypeOK
  <2>2. \A r \in world.pkgs : conflicts[r] \subseteq conflicts'[r]
    BY <2>1 DEF With
  <2>3. \A r \in world.pkgs : \A u : Knows(r, u) => \E c \in conflicts'[r] : c.uid = u
    BY <2>2 DEF Knows
  <2>4. /\ \E c \in conflicts'[p] : c.uid = q.uid
        /\ \E c \in conflicts'[q] : c.uid = p.uid
    <3>1. ASSUME NEW C, NEW a, NEW b, ~Knows(a, b.uid)
          PROVE  \E c \in With(C, a, b) : c.uid = b.uid
      <4> DEFINE d == [uid |-> b.uid, digest |-> b, type |-> ConflictType(a, b)]
      <4>1. d \in With(C, a, b)
        BY <3>1 DEF With
      <4>2. d.uid = b.uid
        OBVIOUS
      <4> QED BY <4>1, <4>2
    <3> QED BY <2>1, <2>3, <3>1
  <2> SUFFICES ASSUME NEW r \in world.pkgs, NEW c \in conflicts'[r]
               PROVE  \/ Installed(r) /\ <<r, c.uid>> \in world.known /\ c.digest = AnyPkg
                      \/ /\ c.digest \in world.pkgs /\ c.digest.uid = c.uid /\ c.uid # r.uid
                         /\ \E d \in conflicts'[c.digest] : d.uid = r.uid
    BY <1>1 DEF Mutual, PairsApart, Knows, Installed
  <2>5. CASE c \in conflicts[r]
    BY <2>3, <2>5 DEF Mutual
  <2>6. CASE c \notin conflicts[r]
    <3>1. \/ r = p /\ c.uid = q.uid /\ c.digest = q
          \/ r = q /\ c.uid = p.uid /\ c.digest = p
      BY <2>1, <2>6 DEF With
    <3> QED BY <1>1, <2>4, <3>1
  <2> QED BY <2>5, <2>6
<1> QED BY <1>2, <1>3 DEF Compare

\* Every other step leaves the conflicts, and compares packages of two chains.
LEMMA MutualNext ==
    ASSUME SolveTypeOK, Mutual, PairsApart, [Next]_vars
    PROVE  Mutual' /\ PairsApart'
<1> USE DEF worldVars
<1>1. ASSUME UNCHANGED <<world, conflicts>>, pairs' \subseteq pairs PROVE Mutual' /\ PairsApart'
  BY <1>1 DEF Mutual, PairsApart, Knows, Installed
<1>2. \A L : Check(L) => pairs' = {}
  BY DEF Check
<1>3. CASE SolveStep
  BY <1>1, <1>3 DEF SolveStep, Reconsider, Decide, TryAnotherPlan, AskToRemove, RunOff, checkVars
<1>4. CASE ReadStep
  BY <1>1, <1>2, <1>4 DEF ReadStep, ReadInstall, ReadDelete, ReadUnchanged, EndRead, checkVars
<1>5. ASSUME NEW p \in world.pkgs, NEW f \in Path, CheckPath(p, f) PROVE Mutual' /\ PairsApart'
  <2>1. CASE Enter(p, f) \/ Collide(p, f) \/ Met(p, f) \/ SkipOwner(p, f) \/ NextPath(p, f)
    BY <1>1, <2>1 DEF Enter, Collide, Met, SkipOwner, NextPath, PathDone, checkFrame
  <2>2. ASSUME NEW u, u # p.uid, pairs' = Items(p.uid) \X Items(u), UNCHANGED <<world, conflicts>>
        PROVE  Mutual' /\ PairsApart'
    <3>1. PairsApart'
      BY <2>2 DEF PairsApart, Items
    <3> QED BY <2>2, <3>1 DEF Mutual, Knows, Installed
  <2>3. CASE MeetPath(p, f)
    BY <2>2, <2>3 DEF MeetPath, checkFrame
  <2>4. CASE MeetOwner(p, f)
    <3>1. PICK o \in Owners(p, f) : pairs' = Items(p.uid) \X Items(o.uid)
      BY <2>4 DEF MeetOwner
    <3>2. o.uid # p.uid
      BY DEF Owners, Items
    <3> QED BY <2>2, <2>4, <3>1, <3>2 DEF MeetOwner, checkFrame
  <2> QED BY <1>5, <2>1, <2>3, <2>4 DEF CheckPath
<1>6. ASSUME NEW p \in world.pkgs, NEW q \in world.pkgs, Compare(p, q) PROVE Mutual' /\ PairsApart'
  BY <1>6, CompareMutual
<1>7. CASE SolveAgain \/ NoConflicts \/ Stop
  BY <1>1, <1>7 DEF SolveAgain, NoConflicts, Stop, checkVars
<1>8. CASE Apply
  BY <1>1, <1>2, <1>8 DEF Apply, checkVars
<1>9. CASE UNCHANGED vars
  BY <1>1, <1>9 DEF vars, checkVars
<1> QED BY <1>3, <1>4, <1>5, <1>6, <1>7, <1>8, <1>9 DEF Next, CheckStep

\* Every other step than those that take an answer or keep a package leaves the
\* agreement: a conflict found ends it, until the solver has answered again.
LEMMA AgreementKept ==
    ASSUME [Next]_vars, ~Decide, \A u \in Uid : ~ReadDelete(u), Agreed'
    PROVE  Agreed /\ UNCHANGED <<result, world, problem, conflicts>>
<1> USE DEF worldVars
<1>1. CASE SolveStep
  BY <1>1 DEF SolveStep, Reconsider, TryAnotherPlan, AskToRemove, RunOff, Agreed, solveVars,
              checkVars
<1>2. CASE ReadStep
  BY <1>2 DEF ReadStep, ReadInstall, ReadUnchanged, EndRead, Reading, Agreed, solveVars, checkVars
<1>3. ASSUME NEW p \in world.pkgs, NEW f \in Path, CheckPath(p, f)
      PROVE  Agreed /\ UNCHANGED <<result, world, problem, conflicts>>
  BY <1>3 DEF CheckPath, Enter, Collide, MeetPath, Met, MeetOwner, SkipOwner, NextPath, PathDone,
                    checkFrame, worldVars,
              Agreed, solveVars
<1>4. ASSUME NEW p \in world.pkgs, NEW q \in world.pkgs, Compare(p, q)
      PROVE  Agreed /\ UNCHANGED <<result, world, problem, conflicts>>
  BY <1>4 DEF Compare, Comparing, Agreed, solveVars
<1>5. CASE SolveAgain
  BY <1>5 DEF SolveAgain, Solve, Agreed
<1>6. CASE NoConflicts \/ Stop \/ Apply
  BY <1>6 DEF NoConflicts, Stop, Apply, Agreed, solveVars, checkVars, Check
<1>7. CASE UNCHANGED vars
  BY <1>7 DEF vars, Agreed, solveVars, checkVars
<1> QED BY <1>1, <1>2, <1>3, <1>4, <1>5, <1>6, <1>7 DEF Next, CheckStep

LEMMA ConflictNext ==
    ASSUME SolveTypeOK, Mutual, ConflictInv, [Next]_vars
    PROVE  ConflictInv'
<1>1. ASSUME UNCHANGED <<world, problem>> PROVE InstalledIsSound' <=> InstalledIsSound
  BY <1>1, SameSoundness
<1>2. CASE Decide
  <2>1. PICK S \in Answers : result' = S
    BY <1>2 DEF Decide
  <2>2. ConflictRule(S) /\ UNCHANGED <<world, conflicts>>
    BY <1>2 DEF Decide, Answers, Models, worldVars
  <2> QED BY <2>1, <2>2 DEF ConflictInv, ConflictRule, Excludes, Installed
<1>3. ASSUME NEW u \in Uid, ReadDelete(u) PROVE ConflictInv'
  <2>1. PICK p \in Gone(u) : \/ CanKeep(p) /\ result' = result \cup {p}
                             \/ UNCHANGED result
    BY <1>3 DEF ReadDelete
  <2>2. /\ p \in world.pkgs /\ Installed(p) /\ UNCHANGED <<world, problem, conflicts>>
        /\ Agreed
    BY <1>3 DEF ReadDelete, Reading, Gone, Chain, Pkgs, Agreed, worldVars
  <2>3. InstalledIsSound => ConflictRule(result')
    BY <2>1, <2>2, KeepAgrees DEF ConflictInv
  <2> QED BY <1>1, <2>2, <2>3 DEF ConflictInv, ConflictRule, Excludes, Installed
<1>4. CASE ~Decide /\ (\A u \in Uid : ~ReadDelete(u)) /\ Agreed'
  <2>1. Agreed /\ UNCHANGED <<result, world, problem, conflicts>>
    BY <1>4, AgreementKept
  <2> QED BY <1>1, <2>1 DEF ConflictInv, ConflictRule, Excludes, Installed
<1>5. CASE ~Agreed'
  BY <1>5 DEF ConflictInv
<1> QED BY <1>2, <1>3, <1>4, <1>5

LEMMA ConflictInvariance == Spec => [](Mutual /\ PairsApart /\ ConflictInv)
<1>1. Init => Mutual /\ PairsApart /\ ConflictInv
  <2> SUFFICES ASSUME Init PROVE Mutual /\ PairsApart /\ ConflictInv
    OBVIOUS
  <2>1. ASSUME NEW p \in world.pkgs, NEW c \in conflicts[p]
        PROVE  Installed(p) /\ <<p, c.uid>> \in world.known /\ c.digest = AnyPkg
    <3>1. IsWorld(world)
      BY PkgSolveAssumption DEF Init
    <3>2. PICK k \in world.known : k[1] = p /\ c = [uid |-> k[2], digest |-> AnyPkg, type |-> "all"]
      BY <2>1 DEF Init
    <3>3. k = <<p, c.uid>> /\ Installed(p) /\ c.digest = AnyPkg
      BY <3>1, <3>2 DEF IsWorld
    <3> QED BY <3>3
  <2>2. Mutual
    BY <2>1 DEF Mutual
  <2> QED BY <2>2 DEF Init, PairsApart, ConflictInv, Agreed
<1>2. SolveTypeOK /\ Mutual /\ PairsApart /\ ConflictInv /\ [Next]_vars
        => Mutual' /\ PairsApart' /\ ConflictInv'
  BY MutualNext, ConflictNext
<1> QED BY <1>1, <1>2, SolveTypeCorrect, PTL DEF Spec

\* In what the user is shown, or is executed, no two packages are together that
\* were known or found to conflict, in whatever round it was and whichever of the
\* two was kept after the solver had given it up.
THEOREM SolveExcludesConflicts == Spec => []FoundConflictsExcluded
<1>1. ConflictInv => FoundConflictsExcluded
  BY DEF ConflictInv, Agreed, FoundConflictsExcluded, Offered
<1> QED BY <1>1, ConflictInvariance, PTL

----------------------------------------------------------------------------
(* The search for shared paths.  What it promises of a path it has checked   *)
(* is stated by the items of j->conflict_items: the package took a place    *)
(* behind items of chains it was compared with, or knows a conflict with.   *)
(* Two chains that have a place for the same path then met, as one of the   *)
(* places comes first, and items change only to other versions of a chain.  *)

\* A pair of packages the search has nothing to register for.
Settled(a, b) == (Installed(a) /\ Installed(b)) \/ ~NeedConflict(a, b)

\* Two chains the search is done with, or that have a conflict already.
Cleared(u, x) ==
    \/ \E r \in Items(u) : Knows(r, x)
    \/ \E s \in Items(x) : Knows(s, u)
    \/ \A a \in Items(u), b \in Items(x) : Settled(a, b)

\* Package p has a place among the items of path f.
Entered(p, f) ==
    \E k \in 1..Len(slots[f]) :
        /\ slots[f][k].uid = p.uid
        /\ \A j \in 1..(k - 1) : Cleared(p.uid, slots[f][j].uid)

\* An owner of path f that it is not done with, though it is not locked.
Open(p, f, o) ==
    /\ Installed(o) /\ <<o, f>> \in world.files /\ o.uid # p.uid /\ o \notin world.locked
    /\ ~Cleared(p.uid, o.uid)

\* What holds of paths that have been checked: an owner was left out only when it was
\* added to the universe, too late for the problem.
Searched(D) ==
    /\ \A e \in D : Entered(e[1], e[2])
    /\ \A e \in D, o \in world.pkgs : Open(e[1], e[2], o) =>
        /\ o \in world.missing /\ o.uid \in universe \ problem
        /\ \A g \in D : Open(g[1], g[2], o) => g = e

\* The paths a check begins with, of the packages at hand.
ToCheck ==
    {e \in world.files :
        /\ ~Installed(e[1]) /\ e[1] \in loaded
        /\ \E j \in jobs : j.uid = e[1].uid /\ j.type # "delete"}

\* How far the check of a path is.
Passed(p, f) ==
    \A j \in 1..(level - 1) :
        j <= Len(slots[f]) /\ slots[f][j].uid # p.uid /\ Cleared(p.uid, slots[f][j].uid)

Compared(u, x) == \A a \in Items(u), b \in Items(x) : <<a, b>> \in pairs \/ Settled(a, b)

Progress(p, f) ==
    /\ scan \in {"table", "chains"} => Passed(p, f)
    /\ scan = "chains" =>
        /\ level <= Len(slots[f]) /\ slots[f][level].uid # p.uid
        /\ Compared(p.uid, slots[f][level].uid)
    /\ scan \in {"owner", "owners"} => Entered(p, f)
    /\ scan = "owners" =>
        \E o \in world.pkgs :
            Installed(o) /\ <<o, f>> \in world.files /\ Compared(p.uid, o.uid)

\* What a check knows as long as it has found nothing.
CheckInv ==
    phase = "check" /\ ~registered =>
        /\ Searched(ToCheck \ todo)
        /\ \A p \in world.pkgs, f \in Path : Checking(p, f) => Progress(p, f)

\* One path is checked at a time.
LEMMA OnePathChecked ==
    ASSUME IsWorld(world), NEW p \in world.pkgs, NEW f \in Path, Checking(p, f),
           NEW q \in world.pkgs, NEW g \in Path, Checking(q, g)
    PROVE  p = q /\ f = g
<1>1. /\ p \in Pkg /\ q \in Pkg /\ f \in Nat /\ g \in Nat
      /\ p.uid \in Nat /\ q.uid \in Nat /\ p.v \in Nat /\ q.v \in Nat
  BY PkgSolveAssumption DEF IsWorld, Pkg
<1> SUFFICES ASSUME <<p, f>> # <<q, g>> PROVE FALSE
  OBVIOUS
<1>2. Precedes(<<p, f>>, <<q, g>>) /\ Precedes(<<q, g>>, <<p, f>>)
  BY DEF Checking
<1>3. p = q /\ f < g /\ g < f
  BY <1>1, <1>2 DEF Precedes, Pkg
<1> QED BY <1>1, <1>3

\* What is settled depends on the conflicts and on what is at hand only.
LEMMA SameCleared ==
    ASSUME UNCHANGED <<world, conflicts, loaded>>
    PROVE  /\ \A a, b : Settled(a, b)' <=> Settled(a, b)
           /\ \A u, x : Cleared(u, x)' <=> Cleared(u, x)
<1>1. \A a, b : Settled(a, b)' <=> Settled(a, b)
  BY DEF Settled, NeedConflict, Knows, Files, Installed
<1>2. \A u, x : Cleared(u, x)' <=> Cleared(u, x)
  BY <1>1 DEF Cleared, Items, Knows
<1> QED BY <1>1, <1>2

SlotsGrow ==
    \A f \in Path : \A k \in 1..Len(slots[f]) :
        k \in 1..Len(slots'[f]) /\ slots'[f][k].uid = slots[f][k].uid

\* A place once taken stays with its chain.
LEMMA EnteredKept ==
    ASSUME SolveTypeOK, UNCHANGED <<world, conflicts, loaded>>, SlotsGrow,
           NEW p, NEW f \in Path, Entered(p, f)
    PROVE  Entered(p, f)'
<1>1. \A u, x : Cleared(u, x)' <=> Cleared(u, x)
  BY SameCleared
<1>2. Entered(p, f)'
  <2>1. PICK k \in 1..Len(slots[f]) :
          /\ slots[f][k].uid = p.uid
          /\ \A j \in 1..(k - 1) : Cleared(p.uid, slots[f][j].uid)
    BY DEF Entered
  <2>2. k \in 1..Len(slots'[f]) /\ slots'[f][k].uid = p.uid
    BY <2>1 DEF SlotsGrow
  <2>3. Len(slots[f]) \in Nat
    BY DEF SolveTypeOK
  <2>4. \A j \in 1..(k - 1) : slots'[f][j].uid = slots[f][j].uid
    BY <2>1, <2>3 DEF SlotsGrow
  <2>5. \A j \in 1..(k - 1) : Cleared(p.uid, slots[f][j].uid)'
    BY <1>1, <2>1, <2>4
  <2> QED BY <2>2, <2>5 DEF Entered
<1> QED BY <1>2

\* So does what was searched stay so, when the universe grows.
LEMMA SearchedKept ==
    ASSUME SolveTypeOK, UNCHANGED <<world, conflicts, loaded, problem>>, SlotsGrow,
           universe \subseteq universe', NEW D, D \subseteq world.files, Searched(D)
    PROVE  Searched(D)'
<1>1. \A u, x : Cleared(u, x)' <=> Cleared(u, x)
  BY SameCleared
<1>2. \A p, f, o : Open(p, f, o)' <=> Open(p, f, o)
  BY <1>1 DEF Open, Installed
<1>3. ASSUME NEW e \in D PROVE Entered(e[1], e[2])'
  <2>1. e[2] \in Path /\ Entered(e[1], e[2])
    BY <1>3 DEF SolveTypeOK, IsWorld, Searched
  <2> QED BY <2>1, EnteredKept
<1> QED BY <1>2, <1>3 DEF Searched

\* A step of the check of one path, that leaves it the path being checked.
LEMMA StillChecking ==
    ASSUME SolveTypeOK, CheckInv, phase = "check", ~registered, SlotsGrow,
           UNCHANGED <<world, problem, conflicts, loaded, jobs, phase, registered, todo>>,
           universe \subseteq universe', NEW p \in world.pkgs, NEW f \in Path, Checking(p, f),
           Progress(p, f)'
    PROVE  CheckInv'
<1>1. ToCheck' = ToCheck /\ ToCheck \subseteq world.files
  BY DEF ToCheck, Installed
<1>2. Searched(ToCheck \ todo)'
  <2>1. Searched(ToCheck \ todo)
    BY DEF CheckInv
  <2>2. \A D \in SUBSET world.files : Searched(D) => Searched(D)'
    BY SearchedKept
  <2> QED BY <1>1, <2>1, <2>2
<1>3. ASSUME NEW q \in world.pkgs, NEW g \in Path, Checking(q, g)' PROVE Progress(q, g)'
  <2>1. Checking(q, g)
    BY <1>3 DEF Checking
  <2>2. q = p /\ g = f
    BY <1>3, <2>1, OnePathChecked DEF SolveTypeOK
  <2> QED BY <2>2
<1> QED BY <1>1, <1>2, <1>3 DEF CheckInv

\* The steps at the table of paths.
LEMMA TableProgress ==
    ASSUME SolveTypeOK, CheckInv, found => registered, ~registered,
           NEW p \in world.pkgs, NEW f \in Path,
           Enter(p, f) \/ Collide(p, f) \/ MeetPath(p, f) \/ Met(p, f)
    PROVE  CheckInv'
<1>1. /\ Checking(p, f) /\ phase = "check"
      /\ UNCHANGED <<world, problem, conflicts, loaded, jobs, phase, registered, todo, universe>>
  BY DEF Enter, Collide, MeetPath, Met, Checking, checkFrame, jobVars
<1>2. Progress(p, f)
  BY <1>1 DEF CheckInv
<1>3. /\ \A a, b : Settled(a, b)' <=> Settled(a, b)
      /\ \A u, x : Cleared(u, x)' <=> Cleared(u, x)
  BY <1>1, SameCleared
<1>4. /\ level \in Nat \ {0} /\ slots \in [Path -> Seq(world.pkgs)]
      /\ slots[f] \in Seq(world.pkgs) /\ Len(slots[f]) \in Nat
  BY DEF SolveTypeOK
<1>5. ASSUME slots' = slots PROVE SlotsGrow
  BY <1>4, <1>5 DEF SlotsGrow
<1>6. ASSUME Enter(p, f) PROVE CheckInv'
  <2>1. Passed(p, f) /\ scan' = "owner"
    BY <1>2, <1>6 DEF Progress, Enter
  <2>2. /\ SlotsGrow
        /\ \E k \in 1..Len(slots'[f]) :
              /\ slots'[f][k].uid = p.uid
              /\ \A j \in 1..(k - 1) : j \in 1..(level - 1) /\ slots'[f][j].uid = slots[f][j].uid
    <3>1. CASE level > Len(slots[f])
      <4>1. slots' = [slots EXCEPT ![f] = Append(slots[f], p)]
        BY <1>6, <3>1 DEF Enter
      <4>2. slots'[f] = Append(slots[f], p) /\ \A g \in Path \ {f} : slots'[g] = slots[g]
        BY <1>4, <4>1
      <4>3. /\ Len(slots'[f]) = Len(slots[f]) + 1 /\ slots'[f][Len(slots[f]) + 1] = p
            /\ \A k \in 1..Len(slots[f]) : slots'[f][k] = slots[f][k]
        BY <1>4, <4>2
      <4>4. SlotsGrow
        <5>1. \A g \in Path : Len(slots[g]) \in Nat
          BY <1>4
        <5>2. \A k \in 1..Len(slots[f]) : k \in 1..Len(slots'[f])
          BY <1>4, <4>3
        <5> QED BY <4>2, <4>3, <5>1, <5>2 DEF SlotsGrow
      <4>5. Len(slots[f]) + 1 \in 1..Len(slots'[f])
        BY <1>4, <4>3
      <4>6. \A j \in 1..((Len(slots[f]) + 1) - 1) :
               j \in 1..(level - 1) /\ slots'[f][j].uid = slots[f][j].uid
        BY <1>4, <3>1, <4>3
      <4> QED BY <4>3, <4>4, <4>5, <4>6
    <3>2. CASE ~(level > Len(slots[f]))
      <4>1. slots[f][level].uid = p.uid /\ slots' = [slots EXCEPT ![f][level] = p]
            /\ level \in 1..Len(slots[f])
        BY <1>4, <1>6, <3>2 DEF Enter
      <4>2. /\ slots'[f] = [slots[f] EXCEPT ![level] = p]
            /\ \A g \in Path \ {f} : slots'[g] = slots[g]
        BY <1>4, <4>1
      <4>3. /\ Len(slots'[f]) = Len(slots[f]) /\ slots'[f][level] = p
            /\ \A k \in 1..Len(slots[f]) : k # level => slots'[f][k] = slots[f][k]
        BY <1>4, <4>1, <4>2
      <4>4. SlotsGrow
        BY <4>1, <4>2, <4>3 DEF SlotsGrow
      <4>5. level \in 1..Len(slots'[f]) /\ slots'[f][level].uid = p.uid
            /\ \A j \in 1..(level - 1) : j \in 1..(level - 1) /\ slots'[f][j].uid = slots[f][j].uid
        BY <1>4, <4>1, <4>3
      <4> QED BY <4>4, <4>5
    <3> QED BY <3>1, <3>2
  <2>3. Entered(p, f)'
    BY <1>3, <2>1, <2>2 DEF Entered, Passed
  <2>4. Progress(p, f)'
    BY <2>1, <2>3 DEF Progress
  <2> QED BY <1>1, <2>2, <2>4, StillChecking
<1>7. ASSUME Collide(p, f) \/ (Met(p, f) /\ scan' = "table") PROVE CheckInv'
  <2>1. /\ slots' = slots /\ scan' = "table" /\ level' = level + 1
        /\ level <= Len(slots[f]) /\ slots[f][level].uid # p.uid /\ Passed(p, f)
    BY <1>2, <1>7 DEF Collide, Met, Progress
  <2>2. Cleared(p.uid, slots[f][level].uid)
    <3>1. CASE Collide(p, f)
      BY <3>1 DEF Collide, Cleared, Items
    <3>2. CASE Met(p, f)
      BY <1>2, <3>2 DEF Met, Progress, Compared, Cleared
    <3> QED BY <1>7, <3>1, <3>2
  <2>3. \A j \in 1..(level' - 1) : j \in 1..(level - 1) \/ j = level
    BY <1>4, <2>1
  <2>4. Passed(p, f)'
    BY <1>3, <2>1, <2>2, <2>3 DEF Passed
  <2>5. Progress(p, f)'
    BY <2>1, <2>4 DEF Progress
  <2> QED BY <1>1, <1>5, <2>1, <2>5, StillChecking
<1>8. ASSUME Met(p, f) PROVE scan' = "table"
  BY <1>8 DEF Met
<1>9. ASSUME MeetPath(p, f) PROVE CheckInv'
  <2>1. /\ slots' = slots /\ scan' = "chains" /\ level' = level
        /\ level <= Len(slots[f]) /\ slots[f][level].uid # p.uid /\ Passed(p, f)
        /\ pairs' = Items(p.uid) \X Items(slots[f][level].uid)
    BY <1>2, <1>9 DEF MeetPath, Progress
  <2>2. Passed(p, f)' /\ Compared(p.uid, slots[f][level].uid)'
    BY <1>1, <1>3, <2>1 DEF Passed, Compared, Items
  <2>3. Progress(p, f)'
    BY <2>1, <2>2 DEF Progress
  <2> QED BY <1>1, <1>5, <2>1, <2>3, StillChecking
<1> QED BY <1>6, <1>7, <1>8, <1>9

\* A path that is left behind has been checked, if the owners left out are of the
\* kind described.
LEMMA PathLeft ==
    ASSUME SolveTypeOK, CheckInv, ~registered, phase = "check",
           NEW p \in world.pkgs, NEW f \in Path, PathDone(p, f), Entered(p, f),
           universe \subseteq universe',
           \A o \in world.pkgs : Open(p, f, o) =>
               /\ o \in world.missing /\ o.uid \in universe' \ problem
               /\ \A e \in ToCheck \ todo : ~Open(e[1], e[2], o)
    PROVE  CheckInv'
<1>1. /\ UNCHANGED <<world, problem, conflicts, loaded, jobs, phase, registered, slots>>
      /\ todo' = todo \ {<<p, f>>} /\ scan' = "table" /\ level' = 1
  BY DEF PathDone, checkFrame, jobVars
<1>2. SlotsGrow
  BY <1>1 DEF SlotsGrow, SolveTypeOK
<1>3. ToCheck' = ToCheck /\ ToCheck \subseteq world.files
  BY <1>1 DEF ToCheck, Installed
<1>4. \A e \in ToCheck' \ todo' :
         /\ e \in ToCheck \ todo \/ (e[1] = p /\ e[2] = f)
         /\ e[1] = p /\ e[2] = f => e = <<p, f>>
  BY <1>1, <1>3 DEF SolveTypeOK, IsWorld
<1>5. \A u, x : Cleared(u, x)' <=> Cleared(u, x)
  BY <1>1, SameCleared
<1>6. \A q, g, o : Open(q, g, o)' <=> Open(q, g, o)
  BY <1>1, <1>5 DEF Open, Installed
<1>7. Searched(ToCheck \ todo)
  BY DEF CheckInv
<1>8. ASSUME NEW e \in ToCheck' \ todo' PROVE Entered(e[1], e[2])'
  <2>1. e[2] \in Path
    BY <1>3, <1>8 DEF SolveTypeOK, IsWorld
  <2>2. e \in ToCheck \ todo => Entered(e[1], e[2])
    BY <1>7 DEF Searched
  <2>3. Entered(e[1], e[2])
    BY <1>4, <1>8, <2>2
  <2> QED BY <1>1, <1>2, <2>1, <2>3, EnteredKept
<1>9. ASSUME NEW e \in ToCheck' \ todo', NEW o \in world.pkgs, Open(e[1], e[2], o)
      PROVE  /\ o \in world.missing /\ o.uid \in universe' \ problem
             /\ \A g \in ToCheck' \ todo' : Open(g[1], g[2], o) => g = e
  BY <1>4, <1>7, <1>9 DEF Searched
<1>10. Searched(ToCheck \ todo)'
  BY <1>1, <1>6, <1>8, <1>9 DEF Searched
<1>11. ASSUME NEW q \in world.pkgs', NEW g \in Path PROVE Progress(q, g)'
  <2>1. \A j \in 1..(level' - 1) : FALSE
    BY <1>1
  <2> QED BY <1>1, <2>1 DEF Progress, Passed
<1> QED BY <1>10, <1>11 DEF CheckInv

\* The steps at the database.
LEMMA OwnerProgress ==
    ASSUME SolveTypeOK, CheckInv, ~registered,
           NEW p \in world.pkgs, NEW f \in Path,
           MeetOwner(p, f) \/ SkipOwner(p, f) \/ NextPath(p, f)
    PROVE  CheckInv'
<1>1. Checking(p, f) /\ phase = "check"
  BY DEF MeetOwner, SkipOwner, NextPath, Checking
<1>2. Progress(p, f)
  BY <1>1 DEF CheckInv
<1>3. universe \subseteq universe'
  BY DEF MeetOwner, SkipOwner, NextPath, AddOwner
<1>4. \A o, q \in world.pkgs :
         Installed(o) /\ Installed(q) /\ <<o, f>> \in world.files /\ <<q, f>> \in world.files
           => o = q
  BY DEF SolveTypeOK, IsWorld
<1>5. ASSUME MeetOwner(p, f) PROVE CheckInv'
  <2>1. PICK o \in Owners(p, f) : pairs' = Items(p.uid) \X Items(o.uid)
    BY <1>5 DEF MeetOwner
  <2>2. /\ scan = "owner" /\ scan' = "owners" /\ level' = level /\ todo' = todo
        /\ o \in world.pkgs /\ Installed(o) /\ <<o, f>> \in world.files
        /\ UNCHANGED <<world, problem, conflicts, loaded, jobs, phase, registered, slots>>
    BY <1>5 DEF MeetOwner, checkFrame, jobVars, Owners
  <2>3. Compared(p.uid, o.uid)'
    BY <2>1, <2>2 DEF Compared, Items
  <2>4. SlotsGrow
    BY <2>2 DEF SlotsGrow, SolveTypeOK
  <2>5. Entered(p, f)'
    BY <1>2, <2>2, <2>4, EnteredKept DEF Progress
  <2>6. Progress(p, f)'
    BY <2>2, <2>3, <2>5 DEF Progress, Installed
  <2> QED BY <1>1, <1>3, <2>2, <2>4, <2>6, StillChecking
<1>6. ASSUME SkipOwner(p, f) PROVE CheckInv'
  <2>1. PICK o \in Owners(p, f) : Refused(o) /\ AddOwner(o)
    BY <1>6 DEF SkipOwner
  <2>2. /\ scan = "owner" /\ o \in world.pkgs /\ Installed(o) /\ <<o, f>> \in world.files
    BY <1>6, <2>1 DEF SkipOwner, Owners
  <2>3. ASSUME NEW q \in world.pkgs, Open(p, f, q)
        PROVE  /\ q \in world.missing /\ q.uid \in universe' \ problem
               /\ \A e \in ToCheck \ todo : ~Open(e[1], e[2], q)
    <3>1. q = o /\ q \notin world.locked
      BY <1>4, <2>2, <2>3 DEF Open
    <3>2. q \in world.missing /\ q.uid \notin universe
      BY <2>1, <3>1 DEF Refused
    <3>3. q.uid \in universe' /\ q.uid \notin problem
      BY <2>1, <3>1, <3>2 DEF AddOwner, SolveTypeOK
    <3>4. \A e \in ToCheck \ todo : ~Open(e[1], e[2], q)
      BY <1>1, <3>2 DEF CheckInv, Searched
    <3> QED BY <3>2, <3>3, <3>4
  <2>4. PathDone(p, f) /\ Entered(p, f)
    BY <1>2, <1>6, <2>2 DEF SkipOwner, Progress
  <2> QED BY <1>1, <1>3, <2>3, <2>4, PathLeft
<1>7. ASSUME NextPath(p, f) PROVE CheckInv'
  <2>1. /\ PathDone(p, f)
        /\ \/ scan = "owner" /\ Owners(p, f) = {}
           \/ scan = "owners" /\ pairs = {}
    BY <1>7 DEF NextPath
  <2>2. Entered(p, f)
    BY <1>2, <2>1 DEF Progress
  <2>3. ASSUME NEW o \in world.pkgs, Installed(o), <<o, f>> \in world.files, o.uid # p.uid
        PROVE  Cleared(p.uid, o.uid)
    <3>1. CASE scan = "owner" /\ Owners(p, f) = {}
      <4>1. Knows(o, p.uid) \/ \E l \in Items(p.uid) : Installed(l) /\ <<l, f>> \in world.files
        BY <2>3, <3>1 DEF Owners
      <4>2. ~\E l \in Items(p.uid) : Installed(l) /\ <<l, f>> \in world.files
        BY <1>4, <2>3 DEF Items
      <4> QED BY <4>1, <4>2 DEF Cleared, Items
    <3>2. CASE scan = "owners" /\ pairs = {}
      <4>1. PICK q \in world.pkgs :
               Installed(q) /\ <<q, f>> \in world.files /\ Compared(p.uid, q.uid)
        BY <1>2, <3>2 DEF Progress
      <4>2. q = o
        BY <1>4, <2>3, <4>1
      <4> QED BY <3>2, <4>1, <4>2 DEF Compared, Cleared
    <3> QED BY <2>1, <3>1, <3>2
  <2>4. \A o \in world.pkgs : ~Open(p, f, o)
    BY <2>3 DEF Open
  <2> QED BY <1>1, <1>3, <2>1, <2>2, <2>4, PathLeft
<1> QED BY <1>5, <1>6, <1>7

\* Comparing two packages without registering anything settles them.
LEMMA CompareProgress ==
    ASSUME SolveTypeOK, CheckInv, NEW a \in world.pkgs, NEW b \in world.pkgs,
           Compare(a, b), ~registered'
    PROVE  CheckInv'
<1>1. /\ phase = "check" /\ ~registered /\ Settled(a, b) /\ pairs' = pairs \ {<<a, b>>}
      /\ UNCHANGED <<world, universe, problem, conflicts, loaded, jobs, phase, registered, slots,
                      todo, scan, level>>
  BY DEF Compare, Comparing, Settled, worldVars, jobVars, solveVars
<1>2. /\ \A r, s : Settled(r, s)' <=> Settled(r, s)
      /\ \A u, x : Cleared(u, x)' <=> Cleared(u, x)
  BY <1>1, SameCleared
<1>3. \A u, x : Compared(u, x) => Compared(u, x)'
  BY <1>1, <1>2 DEF Compared, Items
<1>4. SlotsGrow
  BY <1>1 DEF SlotsGrow, SolveTypeOK
<1>5. ToCheck' = ToCheck /\ ToCheck \subseteq world.files
  BY <1>1 DEF ToCheck, Installed
<1>6. Searched(ToCheck \ todo)'
  <2>1. Searched(ToCheck \ todo)
    BY <1>1 DEF CheckInv
  <2>2. \A D \in SUBSET world.files : Searched(D) => Searched(D)'
    BY <1>1, <1>4, SearchedKept
  <2> QED BY <1>1, <1>5, <2>1, <2>2
<1>7. ASSUME NEW p \in world.pkgs, NEW f \in Path, Checking(p, f)' PROVE Progress(p, f)'
  <2>1. Checking(p, f)
    BY <1>1, <1>7 DEF Checking
  <2>2. Progress(p, f)
    BY <1>1, <1>7, <2>1 DEF CheckInv
  <2>3. Passed(p, f) => Passed(p, f)'
    BY <1>1, <1>2 DEF Passed
  <2>4. Entered(p, f) => Entered(p, f)'
    BY <1>1, <1>4, EnteredKept
  <2> QED BY <1>1, <1>3, <2>2, <2>3, <2>4 DEF Progress, Installed
<1> QED BY <1>1, <1>5, <1>6, <1>7 DEF CheckInv

\* A check begins with everything still to be checked.
LEMMA CheckBegins ==
    ASSUME Check(loaded'), world' = world, jobs' = jobs
    PROVE  CheckInv'
<1>1. ToCheck' = todo'
  BY DEF Check, ToCheck, Installed
<1>2. scan' = "table" /\ level' = 1
  BY DEF Check
<1>3. \A j \in 1..(level' - 1) : FALSE
  BY <1>2
<1> QED BY <1>1, <1>2, <1>3 DEF CheckInv, Searched, Progress, Passed

FoundInv == found => registered

\* The search keeps what it knows, whatever the other steps do.
LEMMA CheckNext ==
    ASSUME SolveTypeOK, CheckInv, FoundInv, [Next]_vars
    PROVE  CheckInv' /\ FoundInv'
<1>1. CASE SolveStep
  BY <1>1 DEF SolveStep, Reconsider, Decide, TryAnotherPlan, AskToRemove, RunOff, checkVars,
              CheckInv, FoundInv
<1>2. CASE ReadStep
  <2>1. CASE EndRead /\ Check(loaded)
    <3>1. world' = world /\ jobs' = jobs /\ loaded' = loaded
      BY <2>1 DEF EndRead, worldVars
    <3>2. Check(loaded')
      BY <2>1, <3>1
    <3> QED BY <2>1, <3>1, <3>2, CheckBegins DEF Check, FoundInv
  <2> QED BY <1>2, <2>1 DEF ReadStep, ReadInstall, ReadDelete, ReadUnchanged, EndRead,
             Reading, checkVars, CheckInv, FoundInv
<1>3. ASSUME NEW p \in world.pkgs, NEW f \in Path, CheckPath(p, f)
      PROVE  CheckInv' /\ FoundInv'
  <2>1. registered' = registered /\ (found' => found)
    BY <1>3 DEF CheckPath, Enter, Collide, MeetPath, Met, MeetOwner, SkipOwner, NextPath, PathDone,
                    checkFrame, worldVars
  <2>2. CASE registered
    BY <2>1, <2>2 DEF CheckInv, FoundInv
  <2>3. CASE ~registered
    BY <1>3, <2>1, <2>3, TableProgress, OwnerProgress DEF CheckPath, FoundInv
  <2> QED BY <2>2, <2>3
<1>4. ASSUME NEW p \in world.pkgs, NEW q \in world.pkgs, Compare(p, q)
      PROVE  CheckInv' /\ FoundInv'
  <2>1. FoundInv'
    BY <1>4 DEF Compare, FoundInv
  <2>2. CASE ~registered'
    BY <1>4, <2>1, <2>2, CompareProgress
  <2> QED BY <2>1, <2>2 DEF CheckInv
<1>5. CASE SolveAgain \/ NoConflicts \/ Stop
  BY <1>5 DEF SolveAgain, Solve, NoConflicts, Stop, checkVars, CheckInv, FoundInv
<1>6. CASE Apply
  <2>1. CASE needFetch
    <3>1. Check(loaded') /\ world' = world /\ jobs' = jobs
      BY <1>6, <2>1 DEF Apply, worldVars
    <3> QED BY <3>1, CheckBegins DEF Check, FoundInv
  <2>2. CASE ~needFetch
    BY <1>6, <2>2 DEF Apply, checkVars, CheckInv, FoundInv
  <2> QED BY <2>1, <2>2
<1>7. CASE UNCHANGED vars
  <2>1. UNCHANGED <<world, universe, problem, conflicts, loaded, jobs, phase, registered, slots,
                    todo, scan, level, pairs, found>>
    BY <1>7 DEF vars, worldVars, jobVars, checkVars
  <2>2. /\ \A u, x : Cleared(u, x)' <=> Cleared(u, x)
        /\ \A u, x : Compared(u, x)' <=> Compared(u, x)
    BY <2>1, SameCleared DEF Compared, Items
  <2>3. \A p, f : /\ Entered(p, f)' <=> Entered(p, f)
                  /\ \A o : Open(p, f, o)' <=> Open(p, f, o)
                  /\ Passed(p, f)' <=> Passed(p, f)
    BY <2>1, <2>2 DEF Entered, Open, Passed, Installed
  <2>4. \A p, f : Progress(p, f)' <=> Progress(p, f)
    BY <2>1, <2>2, <2>3 DEF Progress, Installed
  <2>5. \A D : Searched(D)' <=> Searched(D)
    BY <2>1, <2>3 DEF Searched
  <2>6. ToCheck' = ToCheck /\ (\A p, f : Checking(p, f)' <=> Checking(p, f))
    BY <2>1 DEF ToCheck, Checking, Installed
  <2> QED BY <2>1, <2>4, <2>5, <2>6 DEF CheckInv, FoundInv
<1> QED BY <1>1, <1>2, <1>3, <1>4, <1>5, <1>6, <1>7 DEF Next, CheckStep

----------------------------------------------------------------------------
(* What is executed has been checked: every new package has a job, is at    *)
(* hand, and all its paths were checked after the last conflict was found.  *)

HasJob(p) == \E j \in jobs : j.uid = p.uid /\ j.type # "delete"

JobsInv ==
    phase \in {"read", "check", "confirm", "execute"} =>
        \A p \in result :
            ~Installed(p) /\ (phase = "read" => p.uid \notin unread) => HasJob(p)

AllChecked == Searched(ToCheck)

CoverInv ==
    /\ \A p \in world.pkgs : Installed(p) => p \in loaded
    /\ applying = "first" => phase \in {"check", "execute"}
    /\ phase = "check" /\ (applying = "first" \/ ~needFetch) => result \subseteq loaded
    /\ phase = "execute" \/ (phase = "confirm" /\ ~needFetch) =>
        result \subseteq loaded /\ AllChecked

SharingInv == FoundInv /\ CheckInv /\ JobsInv /\ CoverInv

\* The jobs are those of the answer as far as it has been read.
LEMMA JobsNext ==
    ASSUME SolveTypeOK, JobsInv, [Next]_vars
    PROVE  JobsInv'
<1>1. ASSUME UNCHANGED <<result, jobs, unread>>,
             phase' \in {"read", "check", "confirm", "execute"} =>
                 \/ phase' = phase
                 \/ phase = "read" /\ unread = {}
                 \/ phase \in {"check", "confirm", "execute"} /\ phase' # "read"
      PROVE  JobsInv'
  BY <1>1 DEF JobsInv, HasJob, Installed
<1>2. CASE Decide
  <2>1. /\ phase' = "read" /\ unread' = {p.uid : p \in Pkgs} /\ result' \subseteq Pkgs
    BY <1>2 DEF Decide, Answers, Models
  <2> QED BY <2>1 DEF JobsInv
<1>3. CASE Reconsider \/ TryAnotherPlan \/ AskToRemove \/ RunOff
  BY <1>3 DEF Reconsider, TryAnotherPlan, AskToRemove, RunOff, JobsInv
<1>4. ASSUME NEW u \in Uid, ReadInstall(u) PROVE JobsInv'
  <2>1. /\ phase = "read" /\ phase' = "read" /\ result' = result /\ unread' = unread \ {u}
        /\ jobs \subseteq jobs'
        /\ \E j \in jobs' : j.uid = u /\ j.type # "delete"
    <3> DEFINE j == [uid |-> u, type |-> IF Gone(u) = {} THEN "install" ELSE "upgrade"]
    <3>1. j \in jobs' /\ j.uid = u /\ j.type # "delete"
      BY <1>4 DEF ReadInstall
    <3> QED BY <1>4, <3>1 DEF ReadInstall, Reading, solveVars
  <2>2. ASSUME NEW p \in result, ~Installed(p), p.uid \notin unread' PROVE HasJob(p)'
    <3>1. CASE p.uid = u
      BY <2>1, <3>1 DEF HasJob
    <3>2. CASE p.uid # u
      BY <2>1, <2>2, <3>2 DEF JobsInv, HasJob
    <3> QED BY <3>1, <3>2
  <2> QED BY <2>1, <2>2 DEF JobsInv, Installed
<1>5. ASSUME NEW u \in Uid, ReadDelete(u) \/ ReadUnchanged(u) PROVE JobsInv'
  <2>1. /\ phase = "read" /\ phase' = "read" /\ unread' = unread \ {u}
        /\ jobs \subseteq jobs' /\ New(u) = {}
        /\ \A p \in result' : p \in result \/ Installed(p)
    BY <1>5 DEF ReadDelete, ReadUnchanged, Reading, Gone, solveVars
  <2>2. ASSUME NEW p \in result', ~Installed(p), p.uid \notin unread' PROVE HasJob(p)'
    <3>1. p \in result /\ p \in Pkgs
      BY <2>1, <2>2 DEF SolveTypeOK
    <3>2. p.uid # u
      BY <2>1, <2>2, <3>1 DEF New, Chain
    <3> QED BY <2>1, <2>2, <3>1, <3>2 DEF JobsInv, HasJob
  <2> QED BY <2>1, <2>2 DEF JobsInv, Installed
<1>6. CASE EndRead
  BY <1>1, <1>6 DEF EndRead, Check, solveVars
<1>7. ASSUME NEW p \in world.pkgs, NEW f \in Path, CheckPath(p, f) PROVE JobsInv'
  BY <1>1, <1>7 DEF CheckPath, Enter, Collide, MeetPath, Met, MeetOwner, SkipOwner, NextPath, PathDone,
                    checkFrame, worldVars,
                    solveVars, jobVars
<1>8. ASSUME NEW p \in world.pkgs, NEW q \in world.pkgs, Compare(p, q) PROVE JobsInv'
  BY <1>1, <1>8 DEF Compare, solveVars, jobVars
<1>9. CASE SolveAgain
  BY <1>9 DEF SolveAgain, Solve, JobsInv
<1>10. CASE NoConflicts \/ Stop \/ Apply
  BY <1>1, <1>10 DEF NoConflicts, Stop, Apply, Check, solveVars, jobVars
<1>11. CASE UNCHANGED vars
  BY <1>1, <1>11 DEF vars, solveVars, jobVars
<1> QED
  BY <1>2, <1>3, <1>4, <1>5, <1>6, <1>7, <1>8, <1>9, <1>10, <1>11
     DEF Next, SolveStep, ReadStep, CheckStep

\* What was checked stays checked until something else is at hand.
LEMMA AllCheckedKept ==
    ASSUME UNCHANGED <<world, universe, problem, conflicts, loaded, jobs, slots>>
    PROVE  AllChecked' <=> AllChecked
<1>1. ToCheck' = ToCheck
  BY DEF ToCheck, Installed
<1>2. \A u, x : Cleared(u, x)' <=> Cleared(u, x)
  BY SameCleared
<1>3. \A D : Searched(D)' <=> Searched(D)
  BY <1>2 DEF Searched, Entered, Open, Installed
<1> QED BY <1>1, <1>3 DEF AllChecked

\* A package that is fetched is checked before it is executed, and one that was not
\* at hand when its transaction was confirmed is fetched.
LEMMA CoverNext ==
    ASSUME SolveTypeOK, CheckInv, CoverInv, [Next]_vars
    PROVE  CoverInv'
<1> USE DEF worldVars
<1>1. CASE SolveStep
  BY <1>1 DEF SolveStep, Reconsider, Decide, TryAnotherPlan, AskToRemove, RunOff, jobVars,
              CoverInv, Installed
<1>2. CASE ReadStep
  <2>1. CASE EndRead
    <3>1. /\ phase = "read" /\ phase' \in {"confirm", "check"}
          /\ UNCHANGED <<world, result, loaded, applying>>
          /\ phase' = "confirm" => needFetch'
          /\ ~needFetch' => \A p \in result : Installed(p) \/ p \in loaded
      BY <2>1 DEF EndRead, Check, solveVars
    <3> QED BY <3>1 DEF CoverInv, SolveTypeOK, Pkgs, Installed
  <2>2. ASSUME NEW u \in Uid, ReadInstall(u) \/ ReadDelete(u) \/ ReadUnchanged(u)
        PROVE  CoverInv'
    BY <2>2 DEF ReadInstall, ReadDelete, ReadUnchanged, Reading, CoverInv, Installed
  <2> QED BY <1>2, <2>1, <2>2 DEF ReadStep
<1>3. ASSUME NEW p \in world.pkgs, NEW f \in Path, CheckPath(p, f) PROVE CoverInv'
  BY <1>3 DEF CheckPath, Enter, Collide, MeetPath, Met, MeetOwner, SkipOwner, NextPath, PathDone,
              Checking, checkFrame, worldVars, solveVars, jobVars, CoverInv, Installed
<1>4. ASSUME NEW p \in world.pkgs, NEW q \in world.pkgs, Compare(p, q) PROVE CoverInv'
  BY <1>4 DEF Compare, Comparing, solveVars, jobVars, CoverInv, Installed
<1>5. CASE SolveAgain
  BY <1>5 DEF SolveAgain, Solve, CoverInv, Installed
<1>6. CASE NoConflicts
  <2>1. /\ phase = "check" /\ todo = {} /\ ~registered
        /\ phase' = IF applying = "first" THEN "execute" ELSE "confirm"
        /\ UNCHANGED <<worldVars, conflicts, result, jobs, loaded, needFetch, slots>>
        /\ applying' = "first" => applying = "first"
    BY <1>6 DEF NoConflicts, solveVars, checkVars
  <2>2. AllChecked
    BY <2>1 DEF CheckInv, AllChecked
  <2>3. AllChecked'
    BY <2>1, <2>2, AllCheckedKept
  <2> QED BY <2>1, <2>3 DEF CoverInv, Installed
<1>7. CASE Stop
  BY <1>7 DEF Stop, solveVars, jobVars, CoverInv, Installed
<1>8. CASE Apply
  <2>1. phase = "confirm" /\ UNCHANGED <<worldVars, conflicts, result, jobs, needFetch>>
    BY <1>8 DEF Apply, solveVars
  <2>2. CASE needFetch
    <3>1. loaded' = loaded \cup result /\ phase' = "check" /\ applying' = "first"
      BY <1>8, <2>2 DEF Apply, Check
    <3> QED BY <2>1, <3>1 DEF CoverInv, Installed
  <2>3. CASE ~needFetch
    <3>1. /\ phase' = "execute" /\ UNCHANGED <<loaded, applying, slots>>
      BY <1>8, <2>3 DEF Apply, checkVars
    <3>2. result \subseteq loaded /\ AllChecked
      BY <2>1, <2>3 DEF CoverInv
    <3>3. AllChecked'
      BY <2>1, <3>1, <3>2, AllCheckedKept
    <3> QED BY <2>1, <3>1, <3>2, <3>3 DEF CoverInv, Installed
  <2> QED BY <2>2, <2>3
<1>9. CASE UNCHANGED vars
  <2>1. UNCHANGED <<worldVars, conflicts, phase, result, jobs, loaded, needFetch, applying, slots>>
    BY <1>9 DEF vars, solveVars, jobVars, checkVars
  <2>2. AllChecked' <=> AllChecked
    BY <2>1, AllCheckedKept
  <2> QED BY <2>1, <2>2 DEF CoverInv, Installed
<1> QED BY <1>1, <1>2, <1>3, <1>4, <1>5, <1>6, <1>7, <1>8, <1>9 DEF Next, CheckStep

\* Of two packages at hand that own a path and are not both installed, the search
\* is done with their chains only if a conflict between these is registered.
LEMMA ClearedSharing ==
    ASSUME NEW p \in world.pkgs, NEW q \in world.pkgs, {p, q} \subseteq loaded,
           ~(Installed(p) /\ Installed(q)), Files(p) \cap Files(q) # {},
           Cleared(p.uid, q.uid)
    PROVE  (\E r \in Items(p.uid) : Knows(r, q.uid)) \/ (\E s \in Items(q.uid) : Knows(s, p.uid))
<1>1. p \in Items(p.uid) /\ q \in Items(q.uid)
  BY DEF Items
<1>2. CASE \A a \in Items(p.uid), b \in Items(q.uid) : Settled(a, b)
  <2>1. Settled(p, q)
    BY <1>1, <1>2
  <2>2. Knows(p, q.uid)
    BY <2>1 DEF Settled, NeedConflict
  <2> QED BY <1>1, <2>2
<1> QED BY <1>2 DEF Cleared

\* The chains of two new packages met, if a path they own was checked in both.
LEMMA EnteredMeet ==
    ASSUME SolveTypeOK, NEW p \in world.pkgs, NEW q \in world.pkgs, p.uid # q.uid,
           NEW f \in Path, Entered(p, f), Entered(q, f)
    PROVE  Cleared(p.uid, q.uid) \/ Cleared(q.uid, p.uid)
<1>1. PICK k \in 1..Len(slots[f]) :
        slots[f][k].uid = p.uid /\ \A j \in 1..(k - 1) : Cleared(p.uid, slots[f][j].uid)
  BY DEF Entered
<1>2. PICK m \in 1..Len(slots[f]) :
        slots[f][m].uid = q.uid /\ \A j \in 1..(m - 1) : Cleared(q.uid, slots[f][j].uid)
  BY DEF Entered
<1>3. Len(slots[f]) \in Nat /\ k \in Nat \ {0} /\ m \in Nat \ {0}
  BY DEF SolveTypeOK
<1>4. CASE k < m
  <2>1. k \in 1..(m - 1)
    BY <1>3, <1>4
  <2> QED BY <1>1, <1>2, <2>1
<1>5. CASE m < k
  <2>1. m \in 1..(k - 1)
    BY <1>3, <1>5
  <2> QED BY <1>1, <1>2, <2>1
<1>6. k # m
  BY <1>1, <1>2
<1> QED BY <1>3, <1>4, <1>5, <1>6

\* What is locked is in no universe.
LockedInv == \A o \in world.locked : o.uid \notin universe

LEMMA LockedNext ==
    ASSUME SolveTypeOK, LockedInv, [Next]_vars
    PROVE  LockedInv'
<1> USE DEF worldVars
<1>1. ASSUME UNCHANGED <<world, universe>> PROVE LockedInv'
  BY <1>1 DEF LockedInv
<1>2. CASE SolveStep \/ ReadStep
  BY <1>1, <1>2 DEF SolveStep, Reconsider, Decide, TryAnotherPlan, AskToRemove, RunOff,
                    ReadStep, ReadInstall, ReadDelete, ReadUnchanged, EndRead
<1>3. ASSUME NEW p \in world.pkgs, NEW f \in Path, CheckPath(p, f) PROVE LockedInv'
  <2>1. CASE Enter(p, f) \/ Collide(p, f) \/ MeetPath(p, f) \/ Met(p, f) \/ NextPath(p, f)
    BY <1>1, <2>1 DEF Enter, Collide, MeetPath, Met, NextPath, PathDone, checkFrame
  <2>2. CASE MeetOwner(p, f) \/ SkipOwner(p, f)
    <3>1. PICK o \in Owners(p, f) : AddOwner(o)
      BY <2>2 DEF MeetOwner, SkipOwner
    <3>2. world' = world /\ o \in world.pkgs /\ Installed(o)
      BY <2>2 DEF MeetOwner, SkipOwner, PathDone, checkFrame, Owners
    <3>3. ASSUME NEW l \in world.locked, l.uid \in universe' PROVE FALSE
      <4>1. /\ l \in world.pkgs /\ Installed(l) /\ l \in Pkg /\ o \in Pkg
            /\ \A e \in world.joins : e[2] # l.uid
        BY <3>2 DEF SolveTypeOK, IsWorld
      <4>2. o \notin world.locked /\ (l.uid = o.uid \/ <<o.uid, l.uid>> \in world.joins)
        BY <3>1, <3>3 DEF AddOwner, LockedInv
      <4>3. l.uid = o.uid
        BY <4>1, <4>2
      <4>4. l = o
        BY <3>2, <4>1, <4>3 DEF Pkg, Installed
      <4> QED BY <4>2, <4>4
    <3> QED BY <3>2, <3>3 DEF LockedInv
  <2> QED BY <1>3, <2>1, <2>2 DEF CheckPath
<1>4. ASSUME NEW p \in world.pkgs, NEW q \in world.pkgs, Compare(p, q) PROVE LockedInv'
  BY <1>1, <1>4 DEF Compare
<1>5. CASE SolveAgain \/ NoConflicts \/ Stop \/ Apply \/ UNCHANGED vars
  BY <1>1, <1>5 DEF SolveAgain, NoConflicts, Stop, Apply, vars
<1> QED BY <1>2, <1>3, <1>4, <1>5 DEF Next, CheckStep

\* What is executed was searched but for the owners that could not be added.
LEMMA OverlookedOwners ==
    ASSUME SolveTypeOK, SharingInv, LockedInv, phase = "execute",
           NEW p, NEW q, NEW f, <<p, q, f>> \in Overlooked
    PROVE  /\ q.uid \notin problem
           /\ q \in world.locked \/ (<<p, f>> \in ToCheck /\ Open(p, f, q))
<1>1. /\ p \in result /\ q \in After /\ f \in Path /\ p.uid # q.uid
      /\ f \in Files(p) \cap Files(q)
      /\ \A r \in Items(p.uid) : ~Knows(r, q.uid)
      /\ \A s \in Items(q.uid) : ~Knows(s, p.uid)
  BY DEF Overlooked
<1>2. /\ p \in world.pkgs /\ q \in world.pkgs /\ {p, q} \subseteq loaded /\ AllChecked
      /\ <<p, f>> \in world.files /\ <<q, f>> \in world.files
      /\ p.uid \in problem
      /\ q \in result => q.uid \in problem
      /\ q \notin result => Installed(q) /\ q.uid \notin problem
  BY <1>1 DEF SharingInv, CoverInv, SolveTypeOK, Files, After, Pkgs
<1>3. ~(Installed(p) /\ Installed(q))
  BY <1>1, <1>2 DEF SolveTypeOK, IsWorld
<1>4. ~Cleared(p.uid, q.uid) /\ ~Cleared(q.uid, p.uid)
  <2>1. Cleared(p.uid, q.uid) <=> Cleared(q.uid, p.uid)
    BY DEF Cleared, Settled, NeedConflict
  <2> QED BY <1>1, <1>2, <1>3, <2>1, ClearedSharing
<1>5. ASSUME NEW r \in result, ~Installed(r), r \in {p, q}
      PROVE  <<r, f>> \in ToCheck /\ Entered(r, f)
  <2>1. HasJob(r)
    BY <1>5 DEF SharingInv, JobsInv
  <2>2. <<r, f>> \in ToCheck
    BY <1>2, <1>5, <2>1 DEF ToCheck, HasJob
  <2>3. Entered(<<r, f>>[1], <<r, f>>[2])
    BY <1>2, <2>2, Zenon DEF AllChecked, Searched
  <2> QED BY <2>2, <2>3
\* An installed package that the solver knew of was compared.
<1>6. ASSUME NEW r \in result, NEW o \in world.pkgs, {r, o} = {p, q}, ~Installed(r), Installed(o)
      PROVE  o.uid \notin problem /\ (o \in world.locked \/ Open(r, f, o))
  <2>1. <<r, f>> \in ToCheck
    BY <1>5, <1>6
  <2>2. o \in world.locked \/ Open(r, f, o)
    BY <1>1, <1>2, <1>4, <1>6 DEF Open
  <2>3. CASE o \in world.locked
    BY <2>3 DEF LockedInv, SolveTypeOK
  <2>4. CASE Open(r, f, o)
    <3>1. Open(<<r, f>>[1], <<r, f>>[2], o)
      BY <2>4
    <3>2. o.uid \in universe \ problem
      BY <1>2, <2>1, <3>1 DEF AllChecked, Searched
    <3> QED BY <2>4, <3>2
  <2> QED BY <2>2, <2>3, <2>4
<1>7. CASE Installed(p)
  BY <1>1, <1>2, <1>3, <1>6, <1>7
<1>8. CASE ~Installed(p) /\ ~Installed(q)
  BY <1>1, <1>2, <1>4, <1>5, <1>8, EnteredMeet
<1>9. CASE ~Installed(p) /\ Installed(q)
  BY <1>1, <1>2, <1>5, <1>6, <1>9
<1> QED BY <1>7, <1>8, <1>9

\* Two packages share a path in what is executed only if the search knows of a
\* conflict between their chains, or one is installed and was unknown to the solver,
\* because it is locked, or lacks a dependency and was added at this very path: though
\* items of the table of paths are replaced, keys change on collisions, items outlive
\* a round of solving, and some packages are fetched after the first check and only
\* then looked at.
THEOREM SolveFindsSharing == Spec => []SharingIsRegistered
<1>1. Init => SharingInv /\ LockedInv
  <2> SUFFICES ASSUME Init PROVE SharingInv /\ LockedInv
    OBVIOUS
  <2>1. phase = "sat" /\ applying = "no" /\ found = FALSE
        /\ \A p \in world.pkgs : Installed(p) => p \in loaded
    BY DEF Init
  <2>2. LockedInv
    BY PkgSolveAssumption DEF Init, LockedInv, IsWorld
  <2> QED BY <2>1, <2>2 DEF SharingInv, FoundInv, CheckInv, JobsInv, CoverInv
<1>2. SolveTypeOK /\ SharingInv /\ LockedInv /\ [Next]_vars => SharingInv' /\ LockedInv'
  BY CheckNext, JobsNext, CoverNext, LockedNext DEF SharingInv
<1>3. SolveTypeOK /\ SharingInv /\ LockedInv => SharingIsRegistered
  <2> SUFFICES ASSUME SolveTypeOK, SharingInv, LockedInv, phase = "execute",
                      NEW e \in Overlooked
               PROVE  /\ e[2].uid \notin problem
                      /\ \/ e[2] \in world.locked
                         \/ /\ e[2] \in world.missing
                            /\ \A g \in Overlooked : g[2] = e[2] => g = e
    BY DEF SharingIsRegistered
  <2>1. \A g \in Overlooked : g = <<g[1], g[2], g[3]>>
    BY DEF Overlooked
  <2>2. \A g \in Overlooked :
          /\ g[2].uid \notin problem
          /\ \/ g[2] \in world.locked
             \/ <<g[1], g[3]>> \in ToCheck /\ Open(g[1], g[3], g[2])
    BY <2>1, OverlookedOwners
  <2>3. CASE e[2] \notin world.locked
    <3>1. ASSUME NEW g \in Overlooked, g[2] = e[2]
          PROVE  /\ <<g[1], g[3]>> \in ToCheck
                 /\ Open(<<g[1], g[3]>>[1], <<g[1], g[3]>>[2], e[2])
      BY <2>2, <2>3, <3>1
    <3>2. e[2] \in world.pkgs /\ Searched(ToCheck)
      BY DEF Overlooked, After, SolveTypeOK, Pkgs, SharingInv, CoverInv, AllChecked
    <3>3. e[2] \in world.missing
      BY <3>1, <3>2 DEF Searched
    <3>4. ASSUME NEW g \in Overlooked, g[2] = e[2] PROVE g = e
      <4>1. <<g[1], g[3]>> = <<e[1], e[3]>>
        BY <3>1, <3>2, <3>4 DEF Searched
      <4> QED BY <2>1, <3>4, <4>1
    <3> QED BY <2>2, <3>3, <3>4
  <2> QED BY <2>2, <2>3
<1> QED BY <1>1, <1>2, <1>3, SolveTypeCorrect, PTL DEF Spec
=============================================================================
