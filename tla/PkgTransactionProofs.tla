------------------------ MODULE PkgTransactionProofs ------------------------
(***************************************************************************)
(* Proofs that join solver and executor: what PkgSolve offers is what        *)
(* PkgExecute takes for granted, and what PkgExecute keeps of a transaction *)
(* is kept of all packages the solver knew of.                               *)
(***************************************************************************)
EXTENDS PkgTransaction, PkgSolveProofs, FiniteSetTheorems

\* What is to be done with a chain, from the answer as it is kept.
TypeOf(u) ==
    IF New(u) = {} THEN "delete"
    ELSE IF \E p \in Chain(u) : Installed(p) THEN "upgrade" ELSE "install"

\* The jobs are the difference of what is installed and the answer, as far as it
\* has been read, and say of each chain which it is.
JobsMatch ==
    /\ ChainRule(result)
    /\ \A j \in jobs :
        /\ j.uid \notin unread
        /\ j.type = TypeOf(j.uid)
        /\ New(j.uid) # {} \/ Gone(j.uid) # {}
    /\ \A u \in Uid \ unread : New(u) # {} \/ Gone(u) # {} => \E j \in jobs : j.uid = u

MatchInv ==
    /\ phase = "sat" => jobs = {}
    /\ Decided => JobsMatch
    /\ Decided /\ phase # "read" => unread = {}

\* A package is installed in one version at most.
LEMMA OneInstalled ==
    ASSUME SolveTypeOK, NEW p \in world.pkgs, NEW q \in world.pkgs, p.uid = q.uid,
           Installed(p), Installed(q)
    PROVE  p = q
<1>1. p \in Pkg /\ q \in Pkg
  BY DEF SolveTypeOK, IsWorld
<1> QED BY <1>1 DEF Pkg, Installed

\* The first job of a chain that has something new.
LEMMA MatchInstall ==
    ASSUME SolveTypeOK, JobsMatch, NEW u \in Uid, ReadInstall(u)
    PROVE  JobsMatch'
<1> DEFINE t == IF Gone(u) = {} THEN "install" ELSE "upgrade"
<1>1. /\ UNCHANGED <<world, problem, result>> /\ u \in unread /\ unread' = unread \ {u}
      /\ jobs' = jobs \cup {[uid |-> u, type |-> t]}
  BY DEF ReadInstall, Reading, solveVars, worldVars
<1>2. New(u) # {}
  <2> SUFFICES ASSUME New(u) = {} PROVE FALSE
    OBVIOUS
  <2>1. Cardinality({}) = 0
    BY FS_EmptySet
  <2> QED BY <2>1 DEF ReadInstall
<1>3. t = TypeOf(u)
  <2>1. PICK q \in Chain(u) \cap result : ~Installed(q)
    BY <1>2 DEF New
  <2>2. ASSUME NEW p \in Chain(u), Installed(p) PROVE p \in Gone(u)
    BY <2>1, <2>2 DEF JobsMatch, ChainRule, Gone, Chain
  <2>3. \A p \in Gone(u) : p \in Chain(u) /\ Installed(p)
    BY DEF Gone
  <2> QED BY <1>2, <2>2, <2>3 DEF TypeOf
<1>4. \A v : New(v)' = New(v) /\ Gone(v)' = Gone(v) /\ TypeOf(v)' = TypeOf(v)
  BY <1>1 DEF New, Gone, TypeOf, Chain, Pkgs, Installed
<1>5. \A j \in jobs' : j \in jobs \/ (j.uid = u /\ j.type = t)
  BY <1>1
<1>6. [uid |-> u, type |-> t] \in jobs' /\ [uid |-> u, type |-> t].uid = u /\ jobs \subseteq jobs'
  BY <1>1
<1> HIDE DEF t
<1>7. ASSUME NEW j \in jobs'
      PROVE  /\ j.uid \notin unread'
             /\ j.type = TypeOf(j.uid)'
             /\ (New(j.uid) # {} \/ Gone(j.uid) # {})'
  BY <1>1, <1>2, <1>3, <1>4, <1>5, <1>7 DEF JobsMatch
<1>8. ASSUME NEW v \in Uid \ unread', (New(v) # {} \/ Gone(v) # {})'
      PROVE  \E j \in jobs' : j.uid = v
  BY <1>1, <1>4, <1>6, <1>8 DEF JobsMatch
<1>9. ChainRule(result)'
  BY <1>1 DEF JobsMatch, ChainRule
<1> QED BY <1>7, <1>8, <1>9 DEF JobsMatch

\* A chain of which only the installed package is left to be kept or deleted.
LEMMA MatchDelete ==
    ASSUME SolveTypeOK, JobsMatch, NEW u \in Uid, ReadDelete(u)
    PROVE  JobsMatch'
<1>1. PICK p \in Gone(u) :
        \/ UNCHANGED jobs /\ result' = result \cup {p}
        \/ jobs' = jobs \cup {[uid |-> u, type |-> "delete"]} /\ UNCHANGED result
  BY DEF ReadDelete
<1>2. /\ UNCHANGED <<world, problem>> /\ u \in unread /\ unread' = unread \ {u} /\ New(u) = {}
      /\ p \in world.pkgs /\ p.uid = u /\ Installed(p) /\ p \notin result
      /\ result \subseteq world.pkgs
  BY DEF ReadDelete, Reading, Gone, Chain, Pkgs, SolveTypeOK, worldVars
<1>3. \A q \in result : q.uid # u
  BY <1>2, OneInstalled DEF New, Chain, SolveTypeOK
<1>4. CASE UNCHANGED jobs /\ result' = result \cup {p}
  <2>1. ASSUME NEW v, v # u
        PROVE  New(v)' = New(v) /\ Gone(v)' = Gone(v) /\ TypeOf(v)' = TypeOf(v)
    <3>1. Chain(v)' = Chain(v) /\ p \notin Chain(v)
      BY <1>2, <2>1 DEF Chain, Pkgs
    <3>2. New(v)' = New(v) /\ Gone(v)' = Gone(v)
      BY <1>4, <3>1 DEF New, Gone, Installed
    <3> QED BY <3>1, <3>2 DEF TypeOf, Installed
  <2>2. New(u)' = {} /\ Gone(u)' = {}
    <3>1. Chain(u)' = Chain(u) /\ Chain(u) \subseteq world.pkgs /\ \A q \in Chain(u) : q.uid = u
      BY <1>2 DEF Chain, Pkgs
    <3>2. \A q \in Chain(u) : Installed(q) => q = p
      BY <1>2, <3>1, OneInstalled
    <3> QED BY <1>2, <1>4, <3>1, <3>2 DEF New, Gone, Installed
  <2>3. ChainRule(result)'
    BY <1>2, <1>3, <1>4 DEF JobsMatch, ChainRule
  <2>4. ASSUME NEW j \in jobs'
        PROVE  /\ j.uid \notin unread'
               /\ j.type = TypeOf(j.uid)'
               /\ (New(j.uid) # {} \/ Gone(j.uid) # {})'
    <3>1. j \in jobs /\ j.uid # u
      BY <1>2, <1>4, <2>4 DEF JobsMatch
    <3> QED BY <1>2, <2>1, <3>1 DEF JobsMatch
  <2>5. ASSUME NEW v \in Uid \ unread', (New(v) # {} \/ Gone(v) # {})'
        PROVE  \E j \in jobs' : j.uid = v
    <3>1. v # u
      BY <2>2, <2>5
    <3> QED BY <1>2, <1>4, <2>1, <2>5, <3>1 DEF JobsMatch
  <2> QED BY <2>3, <2>4, <2>5 DEF JobsMatch
<1>5. CASE jobs' = jobs \cup {[uid |-> u, type |-> "delete"]} /\ UNCHANGED result
  <2>1. \A v : New(v)' = New(v) /\ Gone(v)' = Gone(v) /\ TypeOf(v)' = TypeOf(v)
    BY <1>2, <1>5 DEF New, Gone, TypeOf, Chain, Pkgs, Installed
  <2>2. "delete" = TypeOf(u)
    BY <1>2 DEF TypeOf
  <2>3. \A j \in jobs' : j \in jobs \/ (j.uid = u /\ j.type = "delete")
    BY <1>5
  <2>4. [uid |-> u, type |-> "delete"] \in jobs' /\ [uid |-> u, type |-> "delete"].uid = u
        /\ jobs \subseteq jobs'
    BY <1>5
  <2>5. ASSUME NEW j \in jobs'
        PROVE  /\ j.uid \notin unread'
               /\ j.type = TypeOf(j.uid)'
               /\ (New(j.uid) # {} \/ Gone(j.uid) # {})'
    BY <1>1, <1>2, <2>1, <2>2, <2>3, <2>5 DEF JobsMatch
  <2>6. ASSUME NEW v \in Uid \ unread', (New(v) # {} \/ Gone(v) # {})'
        PROVE  \E j \in jobs' : j.uid = v
    BY <1>2, <2>1, <2>4, <2>6 DEF JobsMatch
  <2>7. ChainRule(result)'
    BY <1>5 DEF JobsMatch, ChainRule
  <2> QED BY <2>5, <2>6, <2>7 DEF JobsMatch
<1> QED BY <1>1, <1>4, <1>5

\* Nothing else changes the jobs or what they are read from, while they stand.
LEMMA MatchKept ==
    ASSUME UNCHANGED <<world, problem, result, jobs, unread>>, JobsMatch
    PROVE  JobsMatch'
<1>1. \A v : New(v)' = New(v) /\ Gone(v)' = Gone(v) /\ TypeOf(v)' = TypeOf(v)
  BY DEF New, Gone, TypeOf, Chain, Pkgs, Installed
<1>2. ChainRule(result)'
  BY DEF JobsMatch, ChainRule
<1> QED BY <1>1, <1>2 DEF JobsMatch

LEMMA MatchNext == SolveTypeOK /\ MatchInv /\ [Next]_vars => MatchInv'
<1> SUFFICES ASSUME SolveTypeOK, MatchInv, [Next]_vars PROVE MatchInv'
  OBVIOUS
<1>1. ASSUME UNCHANGED <<world, problem, result, jobs, unread>>,
             phase' = phase \/ phase' = "undefined" \/
                 (Decided /\ phase' \in {"check", "confirm", "execute", "stopped"} /\
                     (phase # "read" \/ unread = {}))
      PROVE  MatchInv'
  <2>1. CASE Decided /\ phase' # "undefined"
    <3>1. Decided' /\ phase' # "sat" /\ JobsMatch
      BY <1>1, <2>1 DEF Decided, MatchInv
    <3>2. JobsMatch'
      BY <1>1, <3>1, MatchKept
    <3> QED BY <1>1, <2>1, <3>1, <3>2 DEF MatchInv
  <2>2. CASE ~Decided /\ phase' # "undefined"
    BY <1>1, <2>2 DEF MatchInv, Decided
  <2>3. CASE phase' = "undefined"
    BY <2>3 DEF MatchInv, Decided
  <2> QED BY <2>1, <2>2, <2>3
<1>2. CASE Decide
  <2>1. PICK S \in Answers : result' = S
    BY <1>2 DEF Decide
  <2>2. /\ ChainRule(S) /\ S \subseteq Pkgs /\ UNCHANGED <<world, problem>>
        /\ phase' = "read" /\ jobs' = {} /\ unread' = {p.uid : p \in Pkgs}
    BY <1>2 DEF Decide, Answers, Models, MatchInv, worldVars
  <2>3. ASSUME NEW v, v \notin unread' PROVE (New(v) = {} /\ Gone(v) = {})'
    BY <2>2, <2>3 DEF New, Gone, Chain, Pkgs
  <2>4. ChainRule(result)'
    BY <2>1, <2>2 DEF ChainRule
  <2>5. JobsMatch'
    BY <2>2, <2>3, <2>4 DEF JobsMatch
  <2> QED BY <2>2, <2>5 DEF MatchInv
<1>3. CASE Reconsider \/ TryAnotherPlan \/ AskToRemove \/ RunOff
  BY <1>3 DEF Reconsider, TryAnotherPlan, AskToRemove, RunOff, jobVars, MatchInv, Decided
<1>4. ASSUME NEW u \in Uid, ReadInstall(u) PROVE MatchInv'
  <2>1. phase = "read" /\ phase' = "read" /\ JobsMatch
    BY <1>4 DEF ReadInstall, Reading, MatchInv, Decided
  <2> QED BY <1>4, <2>1, MatchInstall DEF MatchInv
<1>5. ASSUME NEW u \in Uid, ReadDelete(u) PROVE MatchInv'
  <2>1. phase = "read" /\ phase' = "read" /\ JobsMatch
    BY <1>5 DEF ReadDelete, Reading, MatchInv, Decided
  <2> QED BY <1>5, <2>1, MatchDelete DEF MatchInv
<1>6. ASSUME NEW u \in Uid, ReadUnchanged(u) PROVE MatchInv'
  <2>1. /\ phase = "read" /\ phase' = "read" /\ JobsMatch /\ New(u) = {} /\ Gone(u) = {}
        /\ UNCHANGED <<world, problem, result, jobs>> /\ unread' = unread \ {u}
    BY <1>6 DEF ReadUnchanged, Reading, MatchInv, Decided, solveVars, worldVars
  <2>2. \A v : New(v)' = New(v) /\ Gone(v)' = Gone(v) /\ TypeOf(v)' = TypeOf(v)
    BY <2>1 DEF New, Gone, TypeOf, Chain, Pkgs, Installed
  <2>3. ChainRule(result)'
    BY <2>1 DEF JobsMatch, ChainRule
  <2>4. JobsMatch'
    BY <2>1, <2>2, <2>3 DEF JobsMatch
  <2> QED BY <2>1, <2>4 DEF MatchInv
<1>7. CASE EndRead
  BY <1>1, <1>7 DEF EndRead, Check, solveVars, worldVars, Decided
<1>8. ASSUME NEW p \in world.pkgs, NEW f \in Path, CheckPath(p, f) PROVE MatchInv'
  BY <1>1, <1>8 DEF CheckPath, Enter, Collide, MeetPath, Met, MeetOwner, SkipOwner, NextPath,
                    PathDone, checkFrame, solveVars, jobVars
<1>9. ASSUME NEW p \in world.pkgs, NEW q \in world.pkgs, Compare(p, q) PROVE MatchInv'
  BY <1>1, <1>9 DEF Compare, solveVars, jobVars, worldVars
<1>10. CASE SolveAgain
  BY <1>10 DEF SolveAgain, Solve, MatchInv, Decided
<1>11. CASE NoConflicts \/ Stop \/ Apply
  BY <1>1, <1>11 DEF NoConflicts, Stop, Apply, Check, solveVars, jobVars, worldVars, Decided
<1>12. CASE UNCHANGED vars
  BY <1>1, <1>12 DEF vars, solveVars, jobVars, worldVars
<1> QED
  BY <1>2, <1>3, <1>4, <1>5, <1>6, <1>7, <1>8, <1>9, <1>10, <1>11, <1>12
     DEF Next, SolveStep, ReadStep, CheckStep

\* What is known of everything that is offered.
OfferInv == SolveTypeOK /\ MatchInv /\ DependInv

LEMMA OfferInvariance == Spec => []OfferInv
<1>1. Init => MatchInv
  BY DEF Init, MatchInv, Decided
<1>2. Init => DependInv
  BY DEF Init, DependInv, Decided
<1>3. OfferInv /\ [Next]_vars => OfferInv'
  BY SolveTypeNext, MatchNext, DependNext DEF OfferInv
<1> QED BY <1>1, <1>2, <1>3, SolveTypeInit, PTL DEF Spec, OfferInv

----------------------------------------------------------------------------
(* What is offered as a transaction.                                       *)

\* The kind of a chain of the transaction is that of its job.
LEMMA KindFacts ==
    ASSUME OfferInv, Offered
    PROVE  /\ DOMAIN Kind = {j.uid : j \in jobs}
           /\ \A u \in DOMAIN Kind :
                /\ u \in Uid
                /\ Kind[u] = TypeOf(u)
                /\ New(u) # {} \/ Gone(u) # {}
           /\ \A u \in Uid \ DOMAIN Kind : New(u) = {} /\ Gone(u) = {}
           /\ ChainRule(result) /\ DependRule(result)
           /\ result \subseteq Pkgs /\ DOMAIN Kind \subseteq problem
<1>1. JobsMatch /\ unread = {} /\ DependRule(result) /\ SolveTypeOK
  BY DEF OfferInv, MatchInv, DependInv, Offered, Decided
<1>2. DOMAIN Kind = {j.uid : j \in jobs}
  BY DEF Kind
<1>3. ASSUME NEW u \in DOMAIN Kind
      PROVE  u \in Uid /\ Kind[u] = TypeOf(u) /\ (New(u) # {} \/ Gone(u) # {})
  <2>1. PICK j \in jobs : j.uid = u
    BY <1>2
  <2>2. JobOf(u) \in jobs /\ JobOf(u).uid = u
    BY <2>1 DEF JobOf
  <2>3. Kind[u] = JobOf(u).type
    BY <1>2 DEF Kind
  <2> QED BY <1>1, <2>2, <2>3 DEF JobsMatch, SolveTypeOK
<1>4. ASSUME NEW u \in Uid \ DOMAIN Kind PROVE New(u) = {} /\ Gone(u) = {}
  BY <1>1, <1>2 DEF JobsMatch
<1>5. DOMAIN Kind \subseteq problem
  BY <1>3 DEF New, Gone, Chain, Pkgs
<1> QED BY <1>1, <1>2, <1>3, <1>4, <1>5 DEF JobsMatch, SolveTypeOK

\* A chain is in the answer by its new package if it has one, and by the installed
\* one only if it is of no job.
LEMMA KindOfChain ==
    ASSUME OfferInv, Offered, NEW u \in DOMAIN Kind
    PROVE  /\ Kind[u] = "delete" => Chain(u) \cap result = {}
           /\ Kind[u] = "install" <=> \A p \in Chain(u) : ~Installed(p)
           /\ \A p \in Chain(u) \cap result : ~Installed(p) /\ Kind[u] # "delete"
           /\ Kind[u] # "delete" => \E p \in Chain(u) \cap result : ~Installed(p)
           /\ Kind[u] \in Kinds
<1>1. /\ Kind[u] = TypeOf(u) /\ (New(u) # {} \/ Gone(u) # {})
      /\ ChainRule(result) /\ result \subseteq world.pkgs /\ SolveTypeOK
  BY KindFacts DEF OfferInv, Pkgs
<1>2. Chain(u) \subseteq world.pkgs /\ \A p \in Chain(u) : p.uid = u
  BY DEF Chain, Pkgs
<1>3. ASSUME NEW p \in Chain(u) \cap result, Installed(p) PROVE FALSE
  <2>1. CASE New(u) # {}
    BY <1>1, <1>2, <1>3, <2>1 DEF New, ChainRule
  <2>2. CASE Gone(u) # {}
    BY <1>1, <1>2, <1>3, <2>2, OneInstalled DEF Gone
  <2> QED BY <1>1, <2>1, <2>2
<1>4. New(u) = Chain(u) \cap result
  BY <1>3 DEF New
<1>5. New(u) = {} => \E p \in Chain(u) : Installed(p)
  BY <1>1 DEF Gone
<1> QED BY <1>1, <1>3, <1>4, <1>5 DEF TypeOf, Kinds

\* The parts of a dependency.
LEMMA DependencyParts ==
    ASSUME SolveTypeOK, NEW d \in world.deps
    PROVE  d[1] \in world.pkgs /\ d[1].uid \in Uid /\ d[2] \in Uid
<1>1. /\ world.deps \subseteq world.pkgs \X Uid \X SUBSET Uid
      /\ world.pkgs \subseteq [uid : Uid, v : Ver]
  BY DEF SolveTypeOK, IsWorld, Pkg
<1>2. d \in world.pkgs \X Uid \X SUBSET Uid
  BY <1>1
<1>3. d[1] \in world.pkgs /\ d[2] \in Uid
  BY <1>2
<1> QED BY <1>1, <1>3

\* A rule of a dependency that is a need, for any set of packages.
LEMMA NeedRule ==
    ASSUME NEW S, DependRule(S), NEW d \in world.deps, d[1] \in S, d[3] = {}, Chain(d[2]) # {}
    PROVE  Chain(d[2]) \cap S # {}
<1>1. Candidates({d[2]} \cup d[3]) = Chain(d[2])
  BY DEF Candidates, Chain
<1> QED BY <1>1 DEF DependRule

LEMMA RequestInOfferInv == OfferInv /\ Offered => IsRequest(Transaction)
<1> SUFFICES ASSUME OfferInv, Offered PROVE IsRequest(Transaction)
  OBVIOUS
<1> DEFINE r == Transaction
<1>1. /\ r.kind = Kind /\ r.conflicts = OldConflicts
      /\ r.newDeps = FirstChoices(NewDeps) /\ r.oldDeps = FirstChoices(OldDeps)
      /\ r.newNeeds = Needs(NewDeps) /\ r.oldNeeds = Needs(OldDeps)
  BY DEF Transaction
<1> HIDE DEF r
<1>2. DOMAIN Kind \subseteq Uid /\ Kind \in [DOMAIN Kind -> Kinds]
  <2>1. \A u \in DOMAIN Kind : u \in Uid /\ Kind[u] \in Kinds
    BY KindFacts, KindOfChain
  <2>2. Kind = [u \in DOMAIN Kind |-> Kind[u]]
    BY DEF Kind
  <2> QED BY <2>1, <2>2
<1>3. FirstChoices(NewDeps) \cup FirstChoices(OldDeps) \subseteq Uid \X Uid
  BY DependencyParts DEF FirstChoices, NewDeps, OldDeps, OfferInv
<1>4. OldConflicts \subseteq Uid \X Uid
  BY DEF OldConflicts
<1>5. Needs(NewDeps) \subseteq FirstChoices(NewDeps) /\ Needs(OldDeps) \subseteq FirstChoices(OldDeps)
  BY DEF Needs, FirstChoices
<1> QED BY <1>1, <1>2, <1>3, <1>4, <1>5 DEF IsRequest, r

LEMMA SolvedInOfferInv == OfferInv /\ Offered /\ InstalledIsSound => Solved(Transaction)
<1> SUFFICES ASSUME OfferInv, Offered, InstalledIsSound PROVE Solved(Transaction)
  OBVIOUS
<1> DEFINE r == Transaction
           L == {p \in Pkgs : Installed(p)}
<1>1. r.kind = Kind /\ r.newNeeds = Needs(NewDeps) /\ r.oldNeeds = Needs(OldDeps)
  BY DEF Transaction
<1> HIDE DEF r
<1>2. ASSUME NEW e \in Needs(NewDeps), e[2] \in DOMAIN Kind PROVE Kind[e[2]] # "delete"
  <2>1. PICK d \in NewDeps : d[3] = {} /\ e = <<d[1].uid, d[2]>>
    BY <1>2 DEF Needs, FirstChoices
  <2>2. d \in world.deps /\ d[1] \in result /\ e[2] = d[2] /\ DependRule(result)
    BY <2>1, KindFacts DEF NewDeps
  <2>3. ASSUME Kind[d[2]] = "delete" PROVE FALSE
    <3>1. Chain(d[2]) # {}
      BY <1>2, <2>2, KindFacts DEF New, Gone
    <3>2. Chain(d[2]) \cap result # {}
      BY <2>1, <2>2, <3>1, NeedRule
    <3> QED BY <1>2, <2>2, <2>3, <3>2, KindOfChain
  <2> QED BY <2>2, <2>3
<1>3. ASSUME NEW e \in Needs(OldDeps), {e[1], e[2]} \subseteq DOMAIN Kind, Kind[e[1]] # "install"
      PROVE  Kind[e[2]] # "install"
  <2>1. PICK d \in OldDeps : d[3] = {} /\ e = <<d[1].uid, d[2]>>
    BY <1>3 DEF Needs, FirstChoices
  <2>2. d \in world.deps /\ Installed(d[1]) /\ e[2] = d[2] /\ e[1] = d[1].uid /\ DependRule(L)
    BY <2>1, DependencyParts DEF OldDeps, InstalledIsSound
  <2>3. Chain(d[2]) # {} /\ e[1] \in problem
    BY <1>3, <2>2, KindFacts DEF New, Gone
  <2>4. d[1] \in L
    BY <2>2, <2>3, DependencyParts DEF OfferInv, Pkgs
  <2>5. Chain(d[2]) \cap L # {}
    BY <2>1, <2>2, <2>3, <2>4, NeedRule
  <2> QED BY <1>3, <2>2, <2>5, KindOfChain
<1> QED BY <1>1, <1>2, <1>3 DEF Solved, r

----------------------------------------------------------------------------
(* What becomes of it.                                                     *)

\* A chain that is of no job keeps what is installed of it.
LEMMA ChainOfNoJob ==
    ASSUME OfferInv, Offered, NEW inst, DOMAIN inst = DOMAIN Kind,
           NEW p \in Pkgs, p.uid \notin DOMAIN Kind
    PROVE  (p \in Registered(inst) <=> Installed(p)) /\ (p \in result <=> Installed(p))
<1>1. p.uid \in Uid /\ p \in Chain(p.uid) /\ p \in world.pkgs
  BY DEF OfferInv, SolveTypeOK, IsWorld, Pkg, Pkgs, Chain
<1>2. New(p.uid) = {} /\ Gone(p.uid) = {}
  BY <1>1, KindFacts
<1>3. p \in result <=> Installed(p)
  BY <1>1, <1>2 DEF New, Gone
<1> QED BY <1>1, <1>3 DEF Registered

\* A chain of the transaction of which no package is registered.
LEMMA NothingRegistered ==
    ASSUME OfferInv, Offered, NEW inst \in [DOMAIN Kind -> Versions],
           IsOutcome(Transaction, inst), NEW u \in DOMAIN Kind,
           Chain(u) \cap Registered(inst) = {}
    PROVE  inst[u] = "none"
<1>1. /\ inst[u] \in Versions
      /\ inst[u] = "old" => Kind[u] # "install"
      /\ inst[u] = "new" => Kind[u] # "delete"
  BY DEF IsOutcome, Transaction
<1>2. inst[u] # "old"
  <2> SUFFICES ASSUME inst[u] = "old" PROVE FALSE
    OBVIOUS
  <2>1. PICK p \in Chain(u) : Installed(p)
    BY <1>1, KindOfChain
  <2> QED BY <2>1 DEF Registered, Chain, Pkgs
<1>3. inst[u] # "new"
  <2> SUFFICES ASSUME inst[u] = "new" PROVE FALSE
    OBVIOUS
  <2>1. PICK p \in Chain(u) \cap result : ~Installed(p)
    BY <1>1, KindOfChain
  <2> QED BY <2>1 DEF Registered, Chain, Pkgs
<1> QED BY <1>1, <1>2, <1>3 DEF Versions

LEMMA NeedsInOfferInv == OfferInv => NeedsRegistered
<1> SUFFICES ASSUME OfferInv, InstalledIsSound, Offered,
                    NEW self \in SUBSET Uid, NEW inst \in [DOMAIN Kind -> Versions],
                    IsOutcome(Transaction, inst), NeedsKept(Transaction, inst, self),
                    NEW d \in world.deps,
                    d[1] \in Pkgs, d[1] \in Registered(inst), d[1].uid \notin self, d[3] = {}, Chain(d[2]) # {},
                    Chain(d[2]) \cap Registered(inst) = {}
             PROVE  d[1].uid \notin DOMAIN inst /\ InSplitGap(inst, d[2])
  BY DEF NeedsRegistered
<1> DEFINE L == {p \in Pkgs : Installed(p)}
           x == d[1].uid
<1>1. /\ d[1] \in world.pkgs /\ x \in Uid /\ d[2] \in Uid /\ DOMAIN inst = DOMAIN Kind
      /\ DependRule(L) /\ DependRule(result)
      /\ \A q \in Chain(d[2]) : q \in Pkgs /\ q \in world.pkgs /\ q.uid = d[2]
  BY DependencyParts, KindFacts DEF OfferInv, InstalledIsSound, Chain, Pkgs
<1>2. Installed(d[1]) => \E q \in Chain(d[2]) : Installed(q)
  <2>1. Installed(d[1]) => Chain(d[2]) \cap L # {}
    BY <1>1, NeedRule
  <2> QED BY <2>1
<1>3. d[1] \in result => Chain(d[2]) \cap result # {}
  BY <1>1, NeedRule
<1>4. d[2] \in DOMAIN Kind
  <2> SUFFICES ASSUME d[2] \notin DOMAIN Kind PROVE FALSE
    OBVIOUS
  <2>1. \A q \in Chain(d[2]) : ~Installed(q) /\ q \notin result
    BY <1>1, ChainOfNoJob
  <2> QED BY <1>1, <1>2, <1>3, <2>1 DEF Registered
<1>5. inst[d[2]] = "none"
  BY <1>4, NothingRegistered
<1>6. x \notin DOMAIN Kind
  <2> SUFFICES ASSUME x \in DOMAIN Kind PROVE FALSE
    OBVIOUS
  <2>1. CASE Installed(d[1])
    <3>1. inst[x] = "old"
      BY <1>1, <2>1 DEF Registered
    <3>2. <<x, d[2]>> \in Needs(OldDeps)
      BY <2>1 DEF Needs, FirstChoices, OldDeps
    <3> QED BY <1>1, <1>4, <1>5, <3>1, <3>2 DEF NeedsKept, Transaction
  <2>2. CASE ~Installed(d[1])
    <3>1. inst[x] = "new" /\ d[1] \in result
      BY <1>1, <2>2 DEF Registered
    <3>2. <<x, d[2]>> \in Needs(NewDeps)
      BY <2>2, <3>1 DEF Needs, FirstChoices, NewDeps
    <3> QED BY <1>1, <1>4, <1>5, <3>1, <3>2 DEF NeedsKept, Transaction
  <2> QED BY <2>1, <2>2
<1>7. Installed(d[1]) /\ d[1] \in result
  BY <1>1, <1>6, ChainOfNoJob
<1>8. Kind[d[2]] = "upgrade"
  <2>1. Kind[d[2]] # "delete"
    BY <1>3, <1>4, <1>7, KindOfChain
  <2>2. Kind[d[2]] # "install"
    BY <1>2, <1>4, <1>7, KindOfChain
  <2> QED BY <1>4, <2>1, <2>2, KindOfChain DEF Kinds
<1> QED BY <1>1, <1>4, <1>5, <1>6, <1>8 DEF InSplitGap

LEMMA ResultInOfferInv == OfferInv => ResultRegistered
<1> SUFFICES ASSUME OfferInv, Offered,
                    NEW self \in SUBSET Uid, NEW inst \in [DOMAIN Kind -> Versions],
                    Performed(Transaction, inst, self), NEW p \in world.pkgs, p.uid \notin self
             PROVE  p \in Registered(inst) <=> p \in After
  BY DEF ResultRegistered
<1>1. DOMAIN inst = DOMAIN Kind /\ (p.uid \in problem => p \in Chain(p.uid) /\ p \in Pkgs)
  BY DEF Chain, Pkgs
<1>2. CASE p.uid \notin problem
  <2>1. p \notin result /\ p.uid \notin DOMAIN Kind
    BY <1>2, KindFacts DEF Pkgs
  <2> QED BY <1>1, <1>2, <2>1 DEF Registered, After
<1>3. p.uid \in problem => (p \in After <=> p \in result)
  BY DEF After
<1>4. CASE p.uid \in problem \ DOMAIN Kind
  BY <1>1, <1>3, <1>4, ChainOfNoJob
<1>5. CASE p.uid \in DOMAIN Kind
  <2>1. IF Kind[p.uid] = "delete" THEN inst[p.uid] = "none" ELSE inst[p.uid] = "new"
    BY <1>1, <1>5 DEF Performed, Transaction
  <2>2. p.uid \in problem
    BY <1>5, KindFacts
  <2>3. p \in result => ~Installed(p) /\ Kind[p.uid] # "delete"
    BY <1>1, <1>5, <2>2, KindOfChain
  <2> QED BY <1>1, <1>3, <1>5, <2>1, <2>2, <2>3 DEF Registered
<1> QED BY <1>2, <1>4, <1>5

\* Packages that are registered together during the execution were together before
\* it, or are in the answer, or one is to give way to the other: then the conflict is
\* known to the installed one and orders the jobs.
LEMMA ConflictsInOfferInv ==
    OfferInv /\ SolveInv /\ Mutual /\ ConflictInv => ConflictsRegistered
<1> SUFFICES ASSUME OfferInv, SolveInv, Mutual, ConflictInv, InstalledIsSound, Offered,
                    NEW self \in SUBSET Uid, NEW inst \in [DOMAIN Kind -> Versions],
                    ConflictsApart(Transaction, inst, self),
                    NEW p \in Pkgs \cap Registered(inst), NEW q \in Pkgs \cap Registered(inst),
                    NEW c \in conflicts[p], {p.uid, q.uid} \cap self = {},
                    Excludes(c, p, q)
             PROVE  FALSE
  BY DEF ConflictsRegistered
<1>1. /\ p \in Pkgs /\ q \in Pkgs /\ p \in world.pkgs /\ q \in world.pkgs /\ p \in Pkg /\ q \in Pkg
      /\ p.uid \in Uid /\ q.uid \in Uid /\ DOMAIN inst = DOMAIN Kind /\ world.pkgs \subseteq Pkg
  BY DEF Registered, OfferInv, SolveTypeOK, IsWorld, Pkg
<1>2. q.uid = c.uid /\ c.digest \in {AnyPkg, q}
  BY DEF Excludes
<1>3. ConflictRule(result)
  BY DEF ConflictInv, Agreed, Offered
\* The installed one of the two knows the other's chain and has to give way.
<1>4. ASSUME NEW a \in {p, q}, NEW b \in {p, q}, Installed(a), ~Installed(b), Knows(a, b.uid)
      PROVE  a \in result
  <2> SUFFICES ASSUME a \notin result PROVE FALSE
    OBVIOUS
  <2>1. a.uid \in DOMAIN Kind /\ b.uid \in DOMAIN Kind
    BY <1>1, <1>4, ChainOfNoJob
  <2>2. inst[a.uid] = "old" /\ inst[b.uid] = "new"
    BY <1>1, <1>4, <2>1 DEF Registered
  <2>3. <<a.uid, b.uid>> \in OldConflicts
    BY <1>1, <1>4 DEF OldConflicts
  <2> QED BY <1>1, <2>1, <2>2, <2>3 DEF ConflictsApart, Transaction
<1>5. \A b \in {p, q} : ~Installed(b) => b \in result
  BY <1>1, ChainOfNoJob DEF Registered
<1>6. CASE Installed(p) /\ Installed(q)
  BY <1>1, <1>6 DEF SolveInv, InstalledAgree, InstalledIsSound, KnownIsSound
<1>7. CASE Installed(p) /\ ~Installed(q)
  <2>1. Knows(p, q.uid)
    BY <1>2 DEF Knows
  <2> QED BY <1>3, <1>4, <1>5, <1>7, <2>1 DEF ConflictRule
<1>8. CASE ~Installed(p) /\ Installed(q)
  <2>1. c.digest \in world.pkgs /\ Knows(c.digest, p.uid)
    BY <1>1, <1>8 DEF Mutual
  <2>2. c.digest = q
    BY <1>1, <1>2, <2>1, PkgSolveAssumption
  <2> QED BY <1>3, <1>4, <1>5, <1>8, <2>1, <2>2 DEF ConflictRule
<1>9. CASE ~Installed(p) /\ ~Installed(q)
  BY <1>3, <1>5, <1>9 DEF ConflictRule
<1> QED BY <1>6, <1>7, <1>8, <1>9

\* For every set of universes and requests, and every answer of the SAT solver:
\* what is offered or executed is such that no new package needs one of the jobs to
\* delete, and no installed one a package that is only to be installed.  So what
\* PkgExecute assumes of a transaction (SolvedAssumption) the solver provides.
THEOREM SolverOffersSolved == Spec => []OffersSolved
<1>1. OfferInv => OffersSolved
  BY RequestInOfferInv, SolvedInOfferInv DEF OffersSolved
<1> QED BY <1>1, OfferInvariance, PTL

\* At no moment of the execution of what is offered does a registered package that
\* the solver knew, of the transaction or not, lack one it needs, but for those of no job that need a
\* package whose upgrade is split (pkg_jobs_schedule).
THEOREM ExecutionKeepsNeeds == Spec => []NeedsRegistered
  BY NeedsInOfferInv, OfferInvariance, PTL

\* At no moment of the execution of what is offered are packages registered together
\* that the solver had and that were known, or found by the search for shared paths,
\* to conflict.
THEOREM ExecutionKeepsConflictsApart == Spec => []ConflictsRegistered
<1>1. Spec => []SolveInv
  BY SolveInvInit, SolveInvNext, PTL DEF Spec
<1> QED BY <1>1, ConflictsInOfferInv, OfferInvariance, ConflictInvariance, PTL

\* If an execution of what is offered completes, exactly the packages of the
\* solver's answer are installed, those included that pkg_solve_can_keep kept, beside
\* the installed ones of chains that were not in the universe.
THEOREM ExecutionReachesResult == Spec => []ResultRegistered
  BY ResultInOfferInv, OfferInvariance, PTL
=============================================================================
