------------------------- MODULE PkgScheduleProofs --------------------------
(***************************************************************************)
(* The scheduler's result, for every set of transactions: a topological     *)
(* order of all the jobs, or a refusal that is due to circular              *)
(* dependencies.                                                            *)
(*                                                                         *)
(* Three layers.  JobsInv is what splitting does to the jobs.  SearchInv is *)
(* the depth-first search: the path is numbered from its root, the nodes    *)
(* that are done are ranked so that every edge leads to a lower rank, and a *)
(* walk goes round a ring.  SortInv is Kahn's algorithm on what the search  *)
(* has found to be without a cycle.                                         *)
(***************************************************************************)
EXTENDS PkgSchedule, FunctionTheorems, FiniteSetTheorems, WellFoundedInduction, TLAPS

Halves == {"upgrade_install", "upgrade_remove"}

\* The job of a package that was not split.
Whole(u) == [uid |-> u, type |-> req.kind[u]]

\* Every package of the transaction has its job, or the two halves of it.
JobsInv ==
    /\ req \in Requests
    /\ jobs \subseteq Job
    /\ \A n \in jobs :
           /\ n.uid \in DOMAIN req.kind
           /\ \/ n = Whole(n.uid)
              \/ /\ req.kind[n.uid] = "upgrade" /\ n.type \in Halves
                 /\ Whole(n.uid) \notin jobs
    /\ \A u \in DOMAIN req.kind :
           \/ Whole(u) \in jobs
           \/ /\ req.kind[u] = "upgrade"
              /\ \A t \in Halves : [uid |-> u, type |-> t] \in jobs

Labels == {"none", "new_dep_new", "old_dep_old", "old_conflict_new", "split_upgrade"}

\* The variables, and which of them a phase has not touched yet.
TypeInv ==
    /\ TypeOK
    /\ phase \in {"search", "walk", "failed"} => available = {} /\ sorted = <<>>
    /\ phase = "walk" => path \in jobs /\ cycle \in jobs /\ prev[path] \in jobs

OnPath == {n \in jobs : mark[n] = "path"}

\* The path of the search: h numbers its nodes from the root to the tip.
Chain(h) ==
    /\ path = NoJob => OnPath = {}
    /\ path # NoJob => path \in OnPath
    /\ \A m, n \in OnPath : h[m] = h[n] => m = n
    /\ \A n \in OnPath :
           /\ h[n] <= h[path]
           /\ prev[n] = NoJob => h[n] = 0
           /\ prev[n] # NoJob => prev[n] \in OnPath /\ Before(prev[n], n) /\ h[prev[n]] + 1 = h[n]
           /\ n # path => \E m \in OnPath : prev[m] = n

\* The cycle goes into n at its new package and leaves it for m at its old one.
Splits(n, m) ==
    /\ n.type = "upgrade"
    /\ Edge(n, m) \in {"old_dep_old", "old_conflict_new"}
    /\ Edge(prev[n], n) \in {"new_dep_new", "old_conflict_new"}

\* The ring the path was closed into: R is its nodes, numbered by h from the one
\* where it closed to the tip of the path; nothing walked past can be split.
Ring(R, h, tip) ==
    /\ {tip, path, cycle} \subseteq R /\ tip # cycle
    /\ \A m, n \in R : h[m] = h[n] => m = n
    /\ \A n \in R : h[cycle] <= h[n] /\ h[n] <= h[tip]
    /\ prev[cycle] = tip
    /\ \A n \in R :
           /\ prev[n] \in R /\ Before(prev[n], n)
           /\ n # cycle => h[prev[n]] + 1 = h[n]
           /\ \E m \in R : prev[m] = n
    /\ \E m \in R : prev[m] = path /\ out = Edge(path, m)
    /\ \A m \in R : h[prev[m]] > h[path] => ~Splits(prev[m], m)

\* What is done was left after all that it has an edge to: d is the order in
\* which nodes were left, and k how many were.
Ranked(d, k) ==
    \A a \in jobs : mark[a] = "done" =>
        /\ d[a] < k
        /\ \A b \in jobs : Before(a, b) => mark[b] = "done" /\ d[b] < d[a]

SearchInv ==
    /\ \A n \in jobs : mark[n] # "path" => prev[n] = NoJob
    /\ phase = "search" => \E h \in [jobs -> Nat] : Chain(h)
    /\ phase = "walk" => \E R \in SUBSET jobs, h \in [jobs -> Nat], tip \in jobs : Ring(R, h, tip)
    /\ \E d \in [jobs -> Nat], k \in Nat : Ranked(d, k)
    /\ phase \in {"sort", "done"} => \A n \in jobs : mark[n] = "done"
    /\ FailsOnlyOnCircularDependencies

\* What is placed and what is available: everything before it is placed; what is
\* not has something before it that is not placed either.
SortInv ==
    /\ \A i, j \in DOMAIN sorted : sorted[i] = sorted[j] => i = j
    /\ available \cap Placed = {}
    /\ OrderRespectsEdges
    /\ \A n \in available \cup Placed, m \in jobs : Before(m, n) => m \in Placed
    /\ phase \in {"sort", "done"} =>
           \A n \in Unavailable : HasIncoming(jobs \ Placed, n)
    /\ phase = "done" => available = {}

IInv == JobsInv /\ TypeInv /\ SearchInv /\ SortInv

----------------------------------------------------------------------------
\* The jobs and the transaction.

LEMMA JobFields ==
    /\ \A n \in Job : n.uid \in Uid /\ n.type \in Types /\ n # NoJob
    /\ \A m, n \in Job : m.uid = n.uid /\ m.type = n.type => m = n
    /\ \A u \in Uid, t \in Types :
           /\ [uid |-> u, type |-> t] \in Job
           /\ [uid |-> u, type |-> t].uid = u
           /\ [uid |-> u, type |-> t].type = t
BY PkgScheduleAssumption DEF Job

\* Splitting replaces the type and nothing else.
LEMMA HalfOf ==
    ASSUME NEW n \in Job, NEW t \in Types
    PROVE  [n EXCEPT !.type = t] = [uid |-> n.uid, type |-> t]
BY DEF Job

LEMMA JobsInit == Init => JobsInv
<1> SUFFICES ASSUME Init PROVE JobsInv
  OBVIOUS
<1>1. req \in Requests /\ IsRequest(req)
  BY PkgScheduleAssumption DEF Init
<1>2. \A u \in DOMAIN req.kind : u \in Uid /\ req.kind[u] \in Kinds
  BY <1>1 DEF IsRequest
<1>3. \A u \in DOMAIN req.kind : Whole(u) \in Job /\ Whole(u).uid = u
  BY <1>2, JobFields DEF Whole, Types
<1>4. jobs = {Whole(u) : u \in DOMAIN req.kind}
  BY DEF Init, Whole
<1> QED
  BY <1>1, <1>3, <1>4 DEF JobsInv

\* A split keeps the package and takes its job apart.
LEMMA JobsSplit ==
    ASSUME JobsInv, path \in jobs, Split
    PROVE  JobsInv'
<1>1. path \in Job /\ path.type = "upgrade" /\ UNCHANGED req
  BY DEF JobsInv, Split, Splittable
<1>2. path = Whole(path.uid) /\ path.uid \in DOMAIN req.kind /\ path.uid \in Uid
  BY <1>1, JobFields DEF JobsInv, Halves
<1>3. req.kind[path.uid] = "upgrade"
  BY <1>1, <1>2 DEF Whole
<1> DEFINE half(t) == [uid |-> path.uid, type |-> t]
<1>4. jobs' = (jobs \ {path}) \cup {half("upgrade_install"), half("upgrade_remove")}
  <2>1. {"upgrade_install", "upgrade_remove"} \subseteq Types /\ path \in Job
    BY <1>1 DEF Types
  <2>2. \A t \in Types : [path EXCEPT !.type = t] = half(t)
    BY <2>1, HalfOf
  <2> QED BY <2>1, <2>2 DEF Split
<1>5. \A t \in Halves : half(t) \in Job /\ half(t).uid = path.uid /\ half(t).type = t
  BY <1>2, JobFields DEF Halves, Types
<1> HIDE DEF half
<1>6. \A u \in DOMAIN req.kind : Whole(u)' = Whole(u)
  BY <1>1 DEF Whole
<1>7. \A t \in Halves : half(t) # path
  BY <1>1, <1>5 DEF Halves
<1>8. path \notin jobs'
  BY <1>4, <1>7 DEF Halves
<1>9. \A n \in jobs \ {path} : n.uid # path.uid
  BY <1>2, JobFields DEF JobsInv
<1>10. ASSUME NEW n \in jobs'
       PROVE  /\ n \in Job /\ n.uid \in DOMAIN req.kind
              /\ \/ n = Whole(n.uid)
                 \/ /\ req.kind[n.uid] = "upgrade" /\ n.type \in Halves
                    /\ Whole(n.uid) \notin jobs'
  <2>1. CASE n \in jobs \ {path}
    <3>1. Whole(n.uid) \notin jobs => Whole(n.uid) \notin jobs'
      <4>1. Whole(n.uid).uid = n.uid
        BY DEF Whole
      <4> QED BY <2>1, <4>1, <1>4, <1>5, <1>9 DEF Halves
    <3> QED BY <2>1, <3>1 DEF JobsInv
  <2>2. CASE n \in {half("upgrade_install"), half("upgrade_remove")}
    <3>1. PICK t \in Halves : n = half(t)
      BY <2>2 DEF Halves
    <3> QED BY <3>1, <1>2, <1>3, <1>5, <1>8
  <2> QED BY <1>4, <2>1, <2>2
<1>11. ASSUME NEW u \in DOMAIN req.kind
       PROVE  \/ Whole(u) \in jobs'
              \/ /\ req.kind[u] = "upgrade"
                 /\ \A t \in Halves : [uid |-> u, type |-> t] \in jobs'
  <2>1. CASE u = path.uid
    <3>1. \A t \in Halves : [uid |-> u, type |-> t] \in jobs'
      BY <2>1, <1>4 DEF half, Halves
    <3> QED BY <2>1, <3>1, <1>3
  <2>2. CASE u # path.uid
    <3>1. \A x : x # path /\ x \in jobs => x \in jobs'
      BY <1>4
    <3>2. Whole(u) # path
      BY <2>2 DEF Whole
    <3>3. \A t \in Halves : [uid |-> u, type |-> t] # path
      BY <2>2
    <3> QED BY <3>1, <3>2, <3>3 DEF JobsInv
  <2> QED BY <2>1, <2>2
<1> QED
  BY <1>1, <1>6, <1>10, <1>11 DEF JobsInv

\* Every other step leaves the jobs alone.
LEMMA JobsKept ==
    ASSUME JobsInv, UNCHANGED <<req, jobs>>
    PROVE  JobsInv'
BY DEF JobsInv, Whole

----------------------------------------------------------------------------
\* Edges.

\* What the label of an edge says of its ends.
LEMMA EdgeFacts ==
    ASSUME NEW a, NEW b
    PROVE  /\ Edge(a, b) \in Labels
           /\ Before(a, b) <=> Edge(a, b) # "none"
           /\ Edge(a, b) = "new_dep_new" =>
                  HasNew(a) /\ HasNew(b) /\ <<b.uid, a.uid>> \in req.newDeps
           /\ Edge(a, b) = "old_conflict_new" => HasOld(a) /\ HasNew(b)
           /\ Edge(a, b) = "old_dep_old" =>
                  HasOld(a) /\ HasOld(b) /\ <<a.uid, b.uid>> \in req.oldDeps
           /\ Edge(a, b) = "split_upgrade" =>
                  a.type = "upgrade_remove" /\ b.type = "upgrade_install"
           /\ ~Before(a, a)
           /\ HasNew(a) /\ HasOld(a) => a.type = "upgrade"
BY DEF Edge, Before, Labels, HasNew, HasOld

\* They are the same as long as the transaction is.
LEMMA EdgesKept ==
    ASSUME UNCHANGED req
    PROVE  \A a, b : Edge(a, b)' = Edge(a, b) /\ Before(a, b)' = Before(a, b)
BY DEF Edge, Before, HasNew, HasOld

LEMMA PathEdgesKept ==
    ASSUME UNCHANGED req
    PROVE  \A m : /\ Before(prev[m], m)' = Before(prev'[m], m)
                  /\ Edge(prev[m], m)' = Edge(prev'[m], m)
                  /\ Edge(path, m)' = Edge(path', m)
BY DEF Edge, Before, HasNew, HasOld

\* A set of natural numbers that is not empty has a least element.
LEMMA LeastOf ==
    ASSUME NEW S \in SUBSET Nat, S # {}
    PROVE  \E n \in S : \A m \in S : n <= m
<1> DEFINE upto(n) == 0..n
           I == {upto(n) : n \in S}
<1>1. I \subseteq FiniteSubsetsOf(Nat)
  <2>1. \A n \in Nat : IsFiniteSet(0..n) /\ 0..n \subseteq Nat
    BY FS_Interval
  <2> QED BY <2>1 DEF FiniteSubsetsOf
<1>2. PICK x \in I : \A y \in I : <<y, x>> \notin StrictSubsetOrdering(Nat)
  <2>1. I # {}
    OBVIOUS
  <2>2. IsWellFoundedOn(StrictSubsetOrdering(Nat), FiniteSubsetsOf(Nat))
    BY FS_StrictSubsetOrderingWellFounded
  <2> HIDE DEF I
  <2> QED BY <1>1, <2>1, <2>2, WFMin
<1>3. PICK n \in S : x = 0..n
  OBVIOUS
<1>4. ASSUME NEW m \in S, m < n
      PROVE  FALSE
  <2>1. 0..m \subseteq 0..n /\ 0..m # 0..n
    <3>1. n \in 0..n /\ n \notin 0..m
      BY <1>4
    <3> QED BY <1>4, <3>1
  <2>2. 0..m \in I
    OBVIOUS
  <2>3. <<0..m, 0..n>> \in StrictSubsetOrdering(Nat)
    BY <2>1 DEF StrictSubsetOrdering
  <2> QED BY <1>2, <1>3, <2>2, <2>3
<1> QED BY <1>4

----------------------------------------------------------------------------
\* Before the sort.

Presort == phase \in {"search", "walk", "failed"}

\* Nothing is sorted yet, and so nothing is in the wrong order.
LEMMA NothingSorted ==
    ASSUME sorted = <<>>, available = {}, Presort
    PROVE  SortInv
BY DEF SortInv, Placed, OrderRespectsEdges, Presort

LEMMA TypeInit == Init => TypeInv
<1> SUFFICES ASSUME Init PROVE TypeInv
  OBVIOUS
<1>1. JobsInv
  BY JobsInit
<1>2. IsRequest(req)
  BY PkgScheduleAssumption DEF Init
<1>3. sorted \in Seq(jobs)
  BY DEF Init
<1> QED BY <1>1, <1>2, <1>3 DEF Init, TypeInv, TypeOK, JobsInv

LEMMA InitStep == Init => IInv
<1> SUFFICES ASSUME Init PROVE IInv
  OBVIOUS
<1>1. JobsInv /\ TypeInv
  BY JobsInit, TypeInit
<1>2. SearchInv
  <2> DEFINE zero == [n \in jobs |-> 0]
  <2>1. zero \in [jobs -> Nat] /\ Chain(zero)
    BY DEF Init, Chain, OnPath
  <2>2. Ranked(zero, 0)
    BY DEF Init, Ranked
  <2>3. \A n \in jobs : prev[n] = NoJob
    BY DEF Init
  <2> HIDE DEF zero
  <2> QED BY <2>1, <2>2, <2>3 DEF Init, SearchInv, FailsOnlyOnCircularDependencies
<1>3. SortInv
  BY NothingSorted DEF Init, Presort
<1> QED BY <1>1, <1>2, <1>3 DEF IInv

\* What is done stays ranked while the marks of what is done stay.
LEMMA RankedKept ==
    ASSUME NEW d, NEW k, Ranked(d, k), UNCHANGED <<req, jobs>>,
           \A n \in jobs : mark'[n] = "done" <=> mark[n] = "done"
    PROVE  Ranked(d, k)'
BY EdgesKept DEF Ranked

\* A node is pushed on the path: it is the new tip.
LEMMA VisitStep ==
    ASSUME IInv, NEW n \in jobs, Visit(n)
    PROVE  IInv'
<1> USE DEF IInv
<1>1. JobsInv'
  BY JobsKept DEF Visit
<1>2. TypeInv'
  BY DEF Visit, TypeInv, TypeOK
<1>3. SearchInv'
  <2>1. PICK h \in [jobs -> Nat] : Chain(h)
    BY DEF SearchInv, Visit
  <2>2. path # NoJob => path \in OnPath /\ path # n
    BY <2>1 DEF Chain, OnPath, Visit
  <2>21. PICK top \in Nat : top = IF path = NoJob THEN 0 ELSE h[path] + 1
    BY <2>2 DEF OnPath
  <2>3. PICK g \in [jobs -> Nat] : g = [h EXCEPT ![n] = top]
    BY <2>21
  <2>4. OnPath' = OnPath \cup {n} /\ n \notin OnPath
    BY DEF OnPath, Visit, TypeInv, TypeOK
  <2>5. \A m \in OnPath : g[m] = h[m] /\ g[m] < top /\ m \in jobs /\ h[m] \in Nat
    BY <2>1, <2>2, <2>21, <2>3, <2>4 DEF Chain, OnPath
  <2>6. g[n] = top
    BY <2>3
  <2>7. \A m \in OnPath : prev'[m] = prev[m]
    BY <2>4 DEF Visit, TypeInv, TypeOK, OnPath
  <2>8. prev'[n] = path /\ path' = n /\ n # NoJob
    BY JobFields DEF Visit, TypeInv, TypeOK
  <2>9. path # NoJob => Before(path, n) /\ g[path] + 1 = top
    BY <2>2, <2>21, <2>5 DEF Visit
  <2>10. \A a, b : Before(a, b)' = Before(a, b)
    BY EdgesKept DEF Visit
  <2>11. Chain(g)'
    <3>1. \A l, m \in OnPath' : g[l] = g[m] => l = m
      BY <2>1, <2>3, <2>4, <2>5, <2>6 DEF Chain
    <3>2. ASSUME NEW m \in OnPath'
          PROVE  /\ g[m] <= g[n]
                 /\ prev'[m] = NoJob => g[m] = 0
                 /\ prev'[m] # NoJob =>
                        prev'[m] \in OnPath' /\ Before(prev'[m], m) /\ g[prev'[m]] + 1 = g[m]
                 /\ m # n => \E l \in OnPath' : prev'[l] = m
      <4>1. CASE m = n
        BY <4>1, <2>2, <2>21, <2>3, <2>4, <2>6, <2>8, <2>9
      <4>2. CASE m \in OnPath
        <5>1. g[m] <= g[n]
          BY <4>2, <2>3, <2>5, <2>6
        <5>2. prev[m] = NoJob => g[m] = 0
          BY <4>2, <2>1, <2>5 DEF Chain
        <5>3. prev[m] # NoJob =>
                prev[m] \in OnPath /\ Before(prev[m], m) /\ g[prev[m]] + 1 = g[m]
          BY <4>2, <2>1, <2>5 DEF Chain
        <5>4. m = path => prev'[n] = m
          BY <2>8
        <5>5. m # path => \E l \in OnPath : prev[l] = m
          BY <4>2, <2>1 DEF Chain
        <5> QED BY <4>2, <5>1, <5>2, <5>3, <5>4, <5>5, <2>4, <2>7
      <4> QED BY <4>1, <4>2, <2>4
    <3>3. path' = n /\ n # NoJob /\ n \in OnPath'
      BY <2>4, <2>8
    <3>4. \A m \in OnPath' : prev'[m] # NoJob => Before(prev[m], m)'
      BY <3>2, PathEdgesKept DEF Visit
    <3> QED BY <3>1, <3>2, <3>3, <3>4 DEF Chain
  <2>12. \E d \in [jobs' -> Nat], k \in Nat : Ranked(d, k)'
    <3>1. \A m \in jobs : mark'[m] = "done" <=> mark[m] = "done"
      BY DEF Visit, TypeInv, TypeOK
    <3>2. jobs' = jobs
      BY DEF Visit
    <3> QED BY <3>1, <3>2, RankedKept DEF Visit, SearchInv
  <2>13. \A m \in jobs' : mark'[m] # "path" => prev'[m] = NoJob
    BY DEF Visit, TypeInv, TypeOK, SearchInv
  <2>14. jobs' = jobs /\ phase' = "search"
    BY DEF Visit
  <2> QED
    BY <2>3, <2>11, <2>12, <2>13, <2>14 DEF SearchInv, FailsOnlyOnCircularDependencies
<1>4. SortInv'
  BY NothingSorted DEF Visit, TypeInv, SortInv, Presort, Placed, OrderRespectsEdges
<1> QED BY <1>1, <1>2, <1>3, <1>4
\* The tip has an edge to a node of the path: from there on the path is a ring.
LEMMA FindCycleStep ==
    ASSUME IInv, NEW n \in jobs, FindCycle(n)
    PROVE  IInv'
<1> USE DEF IInv
<1>1. JobsInv'
  BY JobsKept DEF FindCycle
<1>2. PICK h \in [jobs -> Nat] : Chain(h)
  BY DEF SearchInv, FindCycle
<1>3. /\ path \in OnPath /\ n \in OnPath /\ path \in jobs /\ path # n
      /\ h[n] < h[path] /\ h[n] \in Nat /\ h[path] \in Nat
  <2>1. path \in OnPath /\ n \in OnPath /\ path # n
    <3>1. path \in OnPath /\ n \in OnPath
      BY <1>2 DEF FindCycle, Chain, OnPath
    <3>2. Before(path, n)
      BY DEF FindCycle
    <3> QED BY <3>1, <3>2, EdgeFacts
  <2> QED BY <2>1, <1>2 DEF Chain, OnPath
<1>4. PICK R \in SUBSET jobs : R = {m \in OnPath : h[m] >= h[n]}
  BY DEF OnPath
<1>5. PICK tip \in jobs : tip = path
  BY <1>3
<1>6. \A m \in OnPath : prev'[m] = IF m = n THEN tip ELSE prev[m]
  BY <1>5 DEF FindCycle, TypeInv, TypeOK, OnPath
<1>7. \A a, b : Edge(a, b)' = Edge(a, b) /\ Before(a, b)' = Before(a, b)
  BY EdgesKept DEF FindCycle
<1>8. /\ \A m \in R : m \in OnPath /\ h[m] \in Nat /\ h[n] <= h[m] /\ h[m] <= h[tip]
      /\ n \in R /\ tip \in R
  BY <1>2, <1>3, <1>4, <1>5 DEF Chain, OnPath
<1>9. ASSUME NEW m \in R, m # n
      PROVE  /\ prev'[m] = prev[m] /\ prev[m] \in R
             /\ Before(prev[m], m) /\ h[prev[m]] + 1 = h[m]
  <2>1. h[m] # h[n] /\ h[m] # 0
    BY <1>2, <1>3, <1>8, <1>9 DEF Chain
  <2>2. prev[m] \in OnPath /\ Before(prev[m], m) /\ h[prev[m]] + 1 = h[m]
    BY <1>2, <1>8, <2>1 DEF Chain
  <2>3. h[prev[m]] >= h[n]
    BY <1>3, <1>8, <2>1, <2>2 DEF OnPath
  <2> QED BY <1>4, <1>6, <1>8, <1>9, <2>2, <2>3
<1>10. prev'[n] = tip /\ Before(tip, n)
  BY <1>3, <1>5, <1>6 DEF FindCycle
<1>11. ASSUME NEW m \in R
       PROVE  \E l \in R : prev'[l] = m
  <2>1. CASE m = tip
    BY <2>1, <1>8, <1>10
  <2>2. CASE m # tip
    <3>1. PICK l \in OnPath : prev[l] = m
      BY <2>2, <1>2, <1>5, <1>8 DEF Chain
    <3>2. m # NoJob
      BY JobFields DEF JobsInv
    <3>3. h[m] + 1 = h[l] /\ h[l] \in Nat
      BY <1>2, <3>1, <3>2 DEF Chain, OnPath
    <3>4. l \in R /\ l # n
      BY <1>3, <1>4, <1>8, <3>1, <3>3
    <3> QED BY <1>9, <3>1, <3>4
  <2> QED BY <2>1, <2>2
<1>12. Ring(R, h, tip)'
  <2>1. {tip, path, n} \subseteq R /\ tip # n
    BY <1>3, <1>5, <1>8
  <2>2. \A l, m \in R : h[l] = h[m] => l = m
    BY <1>2, <1>8 DEF Chain
  <2>3. \A m \in R :
          /\ prev'[m] \in R /\ Before(prev[m], m)'
          /\ m # n => h[prev'[m]] + 1 = h[m]
          /\ \E l \in R : prev'[l] = m
    BY <1>7, <1>8, <1>9, <1>10, <1>11
  <2>4. \E m \in R : prev'[m] = path /\ out' = Edge(path, m)'
    BY <1>5, <1>7, <1>8, <1>10 DEF FindCycle
  <2>5. \A m \in R : ~(h[prev'[m]] > h[path])
    BY <1>5, <1>8, <2>3
  <2>6. path' = path /\ cycle' = n
    BY DEF FindCycle
  <2> QED BY <1>8, <1>10, <2>1, <2>2, <2>3, <2>4, <2>5, <2>6 DEF Ring
<1>13. TypeInv'
  <2>1. Edge(path, n) \in Labels
    BY EdgeFacts
  <2>2. prev'[path] \in jobs
    BY <1>3, <1>5, <1>8, <1>9
  <2> QED BY <1>3, <2>1, <2>2 DEF FindCycle, TypeInv, TypeOK, Labels
<1>14. SearchInv'
  <2>1. \E d \in [jobs' -> Nat], k \in Nat : Ranked(d, k)'
    BY RankedKept DEF FindCycle, SearchInv
  <2>2. \A m \in jobs' : mark'[m] # "path" => prev'[m] = NoJob
    BY DEF FindCycle, TypeInv, TypeOK, SearchInv
  <2>3. jobs' = jobs /\ phase' = "walk"
    BY DEF FindCycle
  <2> QED BY <1>12, <2>1, <2>2, <2>3 DEF SearchInv, FailsOnlyOnCircularDependencies
<1>15. SortInv'
  BY NothingSorted DEF FindCycle, TypeInv, SortInv, Presort, Placed, OrderRespectsEdges
<1> QED BY <1>1, <1>13, <1>14, <1>15

\* The tip is left after all it has an edge to: it ranks above what was left
\* before, and its predecessor is the tip.
LEMMA LeaveStep ==
    ASSUME IInv, Leave
    PROVE  IInv'
<1> USE DEF IInv
<1>1. JobsInv'
  BY JobsKept DEF Leave
<1>2. PICK h \in [jobs -> Nat] : Chain(h)
  BY DEF SearchInv, Leave
<1>3. path \in OnPath /\ path \in jobs /\ path # NoJob
  BY <1>2 DEF Leave, Chain, OnPath
<1>4. TypeInv'
  BY <1>3 DEF Leave, TypeInv, TypeOK
<1>5. /\ OnPath' = OnPath \ {path}
      /\ \A m \in jobs : prev'[m] = IF m = path THEN NoJob ELSE prev[m]
      /\ \A m \in jobs : mark'[m] = IF m = path THEN "done" ELSE mark[m]
  BY <1>3 DEF Leave, OnPath, TypeInv, TypeOK
<1>6. \A a, b : Before(a, b)' = Before(a, b)
  BY EdgesKept DEF Leave
<1>7. \A m \in OnPath : m \in jobs /\ h[m] \in Nat /\ (m # path => h[m] < h[path])
  BY <1>2, <1>3 DEF Chain, OnPath
<1>8. Chain(h)'
  <2>1. path' = prev[path]
    BY DEF Leave
  <2>2. ASSUME path' = NoJob
        PROVE  OnPath' = {}
    <3>1. h[path] = 0
      BY <1>2, <1>3, <2>1, <2>2 DEF Chain
    <3>2. \A m \in OnPath : m = path
      BY <1>7, <3>1
    <3> QED BY <1>5, <3>2
  <2>3. path' # NoJob => path' \in OnPath' /\ h[path'] + 1 = h[path]
    <3>1. path' # NoJob => path' \in OnPath /\ h[path'] + 1 = h[path]
      BY <1>2, <1>3, <2>1 DEF Chain
    <3> QED BY <1>5, <1>7, <3>1
  <2>4. \A m, n \in OnPath' : h[m] = h[n] => m = n
    BY <1>2, <1>5 DEF Chain
  <2>5. ASSUME NEW n \in OnPath'
        PROVE  /\ h[n] <= h[path']
               /\ prev'[n] = NoJob => h[n] = 0
               /\ prev'[n] # NoJob =>
                    prev'[n] \in OnPath' /\ Before(prev[n], n)' /\ h[prev'[n]] + 1 = h[n]
               /\ n # path' => \E m \in OnPath' : prev'[m] = n
    <3>1. n \in OnPath /\ n \in jobs /\ n # path /\ prev'[n] = prev[n]
      BY <1>5, <1>7
    <3>2. h[n] <= h[path']
      <4>1. path' # NoJob
        BY <2>2
      <4>2. h[n] < h[path] /\ h[n] \in Nat /\ h[path'] \in Nat
        BY <1>5, <1>7, <2>3, <3>1, <4>1
      <4> QED BY <2>3, <4>1, <4>2
    <3>3. prev[n] = NoJob => h[n] = 0
      BY <1>2, <3>1 DEF Chain
    <3>4. prev[n] # NoJob => prev[n] \in OnPath' /\ Before(prev[n], n) /\ h[prev[n]] + 1 = h[n]
      <4>1. prev[n] # NoJob =>
              prev[n] \in OnPath /\ Before(prev[n], n) /\ h[prev[n]] + 1 = h[n]
        BY <1>2, <3>1 DEF Chain
      <4>2. prev[n] # NoJob => prev[n] # path
        BY <1>3, <1>7, <3>1, <4>1
      <4> QED BY <1>5, <4>1, <4>2
    <3>5. n # path' => \E m \in OnPath' : prev'[m] = n
      <4>1. PICK m \in OnPath : prev[m] = n
        BY <1>2, <3>1 DEF Chain
      <4>2. n # path' => m # path
        BY <2>1, <4>1
      <4> QED BY <1>5, <1>7, <4>1, <4>2
    <3> QED BY <1>6, <3>1, <3>2, <3>3, <3>4, <3>5
  <2> QED BY <2>2, <2>3, <2>4, <2>5 DEF Chain
<1>9. \E d \in [jobs' -> Nat], k \in Nat : Ranked(d, k)'
  <2>1. PICK d \in [jobs -> Nat], k \in Nat : Ranked(d, k)
    BY DEF SearchInv
  <2>2. PICK e \in [jobs -> Nat] :
           \A m \in jobs : e[m] = IF m = path THEN k ELSE d[m]
    <3>1. [m \in jobs |-> IF m = path THEN k ELSE d[m]] \in [jobs -> Nat]
      OBVIOUS
    <3> QED BY <3>1
  <2>3. ASSUME NEW a \in jobs, mark'[a] = "done"
        PROVE  /\ e[a] < k + 1
               /\ \A b \in jobs : Before(a, b) => mark'[b] = "done" /\ e[b] < e[a]
    <3>1. CASE a = path
      <4>1. \A b \in jobs : Before(a, b) => mark[b] = "done" /\ b # path
        BY <3>1, EdgeFacts DEF Leave
      <4> QED BY <3>1, <4>1, <1>5, <2>1, <2>2 DEF Ranked
    <3>2. CASE a # path
      <4>1. mark[a] = "done" /\ mark[path] # "done"
        BY <1>3, <1>5, <2>3, <3>2 DEF OnPath
      <4>2. d[a] < k /\ \A b \in jobs : Before(a, b) => mark[b] = "done" /\ d[b] < d[a]
        BY <2>1, <4>1 DEF Ranked
      <4>3. \A b \in jobs : Before(a, b) => b # path
        BY <4>1, <4>2
      <4> QED BY <3>2, <4>2, <4>3, <1>5, <2>2
    <3> QED BY <3>1, <3>2
  <2>4. jobs' = jobs /\ k + 1 \in Nat
    BY DEF Leave
  <2>5. Ranked(e, k + 1)'
    BY <1>6, <2>3, <2>4 DEF Ranked
  <2> QED BY <2>2, <2>4, <2>5
<1>10. SearchInv'
  <2>1. \A m \in jobs' : mark'[m] # "path" => prev'[m] = NoJob
    BY <1>5 DEF Leave, SearchInv
  <2>2. jobs' = jobs /\ phase' = "search"
    BY DEF Leave
  <2> QED BY <1>8, <1>9, <2>1, <2>2 DEF SearchInv, FailsOnlyOnCircularDependencies
<1>11. SortInv'
  BY NothingSorted DEF Leave, TypeInv, SortInv, Presort, Placed, OrderRespectsEdges
<1> QED BY <1>1, <1>4, <1>10, <1>11

----------------------------------------------------------------------------
\* The walk back round the ring.

\* Two nodes of a ring that are entered from the same node are the same.
LEMMA OneSuccessor ==
    ASSUME NEW R \in SUBSET jobs, NEW h \in [jobs -> Nat], NEW tip \in jobs,
           Ring(R, h, tip), NEW m \in R, NEW n \in R, prev[m] = prev[n]
    PROVE  m = n
<1>1. \A l \in R : h[l] \in Nat /\ h[l] <= h[tip]
  BY DEF Ring
<1>2. tip \in R
  BY DEF Ring
<1>3. ASSUME NEW a \in R, NEW b \in R, prev[a] = prev[b], a = cycle
      PROVE  a = b
  <2>1. prev[b] = tip
    BY <1>3 DEF Ring
  <2>2. b # cycle => h[tip] + 1 = h[b]
    BY <2>1 DEF Ring
  <2> QED BY <1>1, <1>2, <1>3, <2>2
<1>4. CASE m # cycle /\ n # cycle
  <2>1. h[m] = h[n]
    BY <1>4 DEF Ring
  <2> QED BY <2>1 DEF Ring
<1> QED BY <1>3, <1>4

\* Once the node at hand is found not to split, none from there to the tip does.
LEMMA NoneSplitsSoFar ==
    ASSUME NEW R \in SUBSET jobs, NEW h \in [jobs -> Nat], NEW tip \in jobs,
           Ring(R, h, tip), ~Splittable, NEW m \in R, h[prev[m]] >= h[path]
    PROVE  ~Splits(prev[m], m)
<1>1. prev[m] \in R /\ path \in R
  BY DEF Ring
<1>2. h[prev[m]] \in Nat /\ h[path] \in Nat
  BY <1>1
<1>3. CASE h[prev[m]] > h[path]
  BY <1>3 DEF Ring
<1>4. CASE h[prev[m]] = h[path]
  <2>1. prev[m] = path
    BY <1>1, <1>4 DEF Ring
  <2>2. PICK l \in R : prev[l] = path /\ out = Edge(path, l)
    BY DEF Ring
  <2>3. m = l
    BY <2>1, <2>2, OneSuccessor
  <2> QED BY <2>1, <2>2, <2>3 DEF Splittable, Splits
<1> QED BY <1>2, <1>3, <1>4

LEMMA WalkBackStep ==
    ASSUME IInv, WalkBack
    PROVE  IInv'
<1> USE DEF IInv
<1>1. JobsInv'
  BY JobsKept DEF WalkBack
<1>2. PICK R \in SUBSET jobs, h \in [jobs -> Nat], tip \in jobs : Ring(R, h, tip)
  BY DEF SearchInv, WalkBack
<1>3. path \in R /\ prev[path] \in R /\ path # cycle /\ h[prev[path]] + 1 = h[path]
  BY <1>2 DEF Ring, WalkBack
<1>4. \A a, b : Edge(a, b)' = Edge(a, b) /\ Before(a, b)' = Before(a, b)
  BY EdgesKept DEF WalkBack
<1>5. path' = prev[path] /\ out' = Edge(prev[path], path) /\ UNCHANGED <<prev, cycle, jobs>>
  BY DEF WalkBack
<1>6. Ring(R, h, tip)'
  <2>1. ASSUME NEW m \in R, h[prev[m]] > h[path']
        PROVE  ~Splits(prev[m], m)'
    <3>1. prev[m] \in R /\ h[prev[m]] \in Nat /\ h[path] \in Nat /\ h[prev[path]] \in Nat
      BY <1>2, <1>3 DEF Ring
    <3>2. h[prev[m]] >= h[path]
      BY <2>1, <3>1, <1>3, <1>5
    <3>3. ~Splits(prev[m], m)
      BY <1>2, <3>2, NoneSplitsSoFar DEF WalkBack
    <3> QED BY <1>4, <1>5, <3>3 DEF Splits
  <2>2. \E m \in R : prev'[m] = path' /\ out' = Edge(path, m)'
    BY <1>3, <1>4, <1>5
  <2>3. /\ {tip, path', cycle'} \subseteq R /\ tip # cycle'
        /\ \A m, n \in R : h[m] = h[n] => m = n
        /\ \A n \in R : h[cycle'] <= h[n] /\ h[n] <= h[tip]
        /\ prev'[cycle'] = tip
    BY <1>2, <1>3, <1>5 DEF Ring
  <2>4. \A n \in R :
          /\ prev'[n] \in R /\ Before(prev[n], n)'
          /\ n # cycle' => h[prev'[n]] + 1 = h[n]
          /\ \E m \in R : prev'[m] = n
    BY <1>2, <1>4, <1>5 DEF Ring
  <2>5. \A m \in R : h[prev'[m]] > h[path'] => ~Splits(prev[m], m)'
    BY <1>5, <2>1
  <2> QED BY <2>2, <2>3, <2>4, <2>5 DEF Ring
<1>7. TypeInv'
  <2>1. Edge(prev[path], path) \in Labels
    BY EdgeFacts
  <2>2. prev[path] \in jobs /\ prev[prev[path]] \in jobs
    BY <1>2, <1>3 DEF Ring
  <2> QED BY <2>1, <2>2 DEF WalkBack, TypeInv, TypeOK, Labels
<1>8. SearchInv'
  <2>1. \E d \in [jobs' -> Nat], k \in Nat : Ranked(d, k)'
    BY RankedKept DEF WalkBack, SearchInv
  <2>2. \A m \in jobs' : mark'[m] # "path" => prev'[m] = NoJob
    BY DEF WalkBack, SearchInv
  <2>3. jobs' = jobs /\ phase' = "walk"
    BY DEF WalkBack
  <2> QED BY <1>6, <2>1, <2>2, <2>3 DEF SearchInv, FailsOnlyOnCircularDependencies
<1>9. SortInv'
  BY NothingSorted DEF WalkBack, TypeInv, SortInv, Presort, Placed, OrderRespectsEdges
<1> QED BY <1>1, <1>7, <1>8, <1>9

\* A ring of which no node can be split is one of dependencies, all of new
\* packages or all of installed ones.
LEMMA RingOfDependencies ==
    ASSUME NEW R \in SUBSET jobs, NEW h \in [jobs -> Nat], NEW tip \in jobs,
           JobsInv, Ring(R, h, tip), \A m \in R : ~Splits(prev[m], m)
    PROVE  DependencyCycle(req.newDeps) \/ DependencyCycle(req.oldDeps)
<1> DEFINE label(m) == Edge(prev[m], m)
           N == {m \in R : label(m) = "new_dep_new"}
           S == {m.uid : m \in R}
<1>1. S \in SUBSET Uid /\ S # {}
  BY JobFields DEF JobsInv, Ring
<1>2. ASSUME NEW m \in R
      PROVE  prev[m] \in R /\ label(m) \in Labels \ {"none"}
  <2>1. prev[m] \in R /\ Before(prev[m], m)
    BY DEF Ring
  <2> QED BY <2>1, EdgeFacts
<1>3. ASSUME NEW m \in R, label(prev[m]) # "old_dep_old"
      PROVE  m \in N
  <2>1. PICK n \in R : n = prev[m]
    BY <1>2
  <2>2. label(n) \in {"new_dep_new", "old_conflict_new", "split_upgrade"}
    BY <1>2, <1>3, <2>1 DEF Labels
  <2>3. HasNew(n)
    BY <2>2, EdgeFacts DEF HasNew
  <2>4. n.type = "upgrade" => label(n) # "split_upgrade"
    BY EdgeFacts
  <2>5. label(m) = Edge(n, m) /\ label(m) \in Labels \ {"none"} /\ ~Splits(n, m)
    BY <1>2, <2>1
  <2>6. Edge(n, m) # "split_upgrade"
    BY <2>3, EdgeFacts DEF HasNew
  <2>7. Edge(n, m) \in {"old_dep_old", "old_conflict_new"} => n.type = "upgrade"
    BY <2>3, EdgeFacts
  <2>8. Edge(n, m) \notin {"old_dep_old", "old_conflict_new"}
    BY <2>2, <2>4, <2>5, <2>7 DEF Splits
  <2> QED BY <2>5, <2>6, <2>8 DEF Labels
<1>4. \A n \in R : \E m \in R : prev[m] = n
  BY DEF Ring
<1>5. CASE N = {}
  <2>1. ASSUME NEW n \in R
        PROVE  \E y \in S : <<n.uid, y>> \in req.oldDeps
    <3>1. PICK m \in R : prev[m] = n
      BY <1>4
    <3>2. PICK l \in R : prev[l] = m
      BY <1>4
    <3>3. label(m) = "old_dep_old"
      BY <1>3, <1>5, <3>2
    <3>4. Edge(n, m) = "old_dep_old"
      BY <3>1, <3>3
    <3>5. <<n.uid, m.uid>> \in req.oldDeps
      BY <3>4, EdgeFacts
    <3> QED BY <3>5
  <2> QED BY <1>1, <2>1 DEF DependencyCycle
<1>6. CASE N # {}
  <2>1. \A m \in R : prev[m] \in N => m \in N
    BY <1>3
  <2> HIDE DEF N
  <2>2. N \subseteq R
    BY DEF N
  <2>3. \A n \in R : h[n] \in Nat /\ h[n] <= h[tip]
    BY DEF Ring
  <2>4. tip \in N
    <3> DEFINE D == {h[tip] - h[n] : n \in N}
    <3>0. tip \in R
      BY DEF Ring
    <3>1. D \in SUBSET Nat /\ D # {}
      BY <1>6, <2>2, <2>3, <3>0
    <3>2. PICK x \in D : \A y \in D : x <= y
      BY <3>1, LeastOf
    <3>3. PICK n \in N : x = h[tip] - h[n]
      OBVIOUS
    <3>4. PICK m \in R : prev[m] = n
      BY <1>4, <2>2
    <3>5. m \in N
      BY <2>1, <3>4
    <3>6. h[tip] - h[n] <= h[tip] - h[m]
      BY <3>2, <3>3, <3>5
    <3>7. m = cycle
      BY <2>2, <2>3, <3>0, <3>3, <3>4, <3>6 DEF Ring
    <3> QED BY <3>4, <3>7 DEF Ring
  <2>5. cycle \in N
    BY <2>1, <2>4 DEF Ring
  <2>6. ASSUME R \ N # {}
        PROVE  FALSE
    <3> DEFINE D == {h[n] : n \in R \ N}
    <3>1. D \in SUBSET Nat /\ D # {}
      BY <2>6, <2>3
    <3>2. PICK x \in D : \A y \in D : x <= y
      BY <3>1, LeastOf
    <3>3. PICK n \in R \ N : x = h[n]
      OBVIOUS
    <3>4. prev[n] \in R \ N /\ h[prev[n]] + 1 = h[n]
      BY <1>2, <2>1, <2>5, <3>3 DEF Ring
    <3>5. h[n] <= h[prev[n]]
      BY <3>2, <3>3, <3>4
    <3> QED BY <2>3, <3>4, <3>5
  <2>7. ASSUME NEW n \in R
        PROVE  \E y \in S : <<n.uid, y>> \in req.newDeps
    <3>1. label(n) = "new_dep_new"
      BY <2>6 DEF N
    <3> QED BY <1>2, <3>1, EdgeFacts
  <2> QED BY <1>1, <2>7 DEF DependencyCycle
<1> QED BY <1>5, <1>6

\* The walk came round: nothing on the ring can be split.
LEMMA FailStep ==
    ASSUME IInv, Fail
    PROVE  IInv'
<1> USE DEF IInv
<1>1. JobsInv'
  BY JobsKept DEF Fail
<1>2. PICK R \in SUBSET jobs, h \in [jobs -> Nat], tip \in jobs : Ring(R, h, tip)
  BY DEF SearchInv, Fail
<1>3. ASSUME NEW m \in R
      PROVE  ~Splits(prev[m], m)
  <2>1. prev[m] \in R /\ h[cycle] <= h[prev[m]] /\ path = cycle
    BY <1>2 DEF Ring, Fail
  <2>2. h[prev[m]] \in Nat /\ h[path] \in Nat
    BY <1>2, <2>1 DEF Ring
  <2> QED BY <1>2, <2>1, <2>2, NoneSplitsSoFar DEF Fail
<1>4. DependencyCycle(req.newDeps) \/ DependencyCycle(req.oldDeps)
  BY <1>2, <1>3, RingOfDependencies
<1>5. TypeInv'
  BY DEF Fail, TypeInv, TypeOK
<1>6. SearchInv'
  <2>1. \E d \in [jobs' -> Nat], k \in Nat : Ranked(d, k)'
    BY RankedKept DEF Fail, SearchInv
  <2>2. FailsOnlyOnCircularDependencies'
    BY <1>4 DEF Fail, FailsOnlyOnCircularDependencies, DependencyCycle
  <2> QED BY <2>1, <2>2 DEF Fail, SearchInv
<1>7. SortInv'
  BY NothingSorted DEF Fail, TypeInv, SortInv, Presort, Placed, OrderRespectsEdges
<1> QED BY <1>1, <1>5, <1>6, <1>7

\* After a split the search knows nothing again.
LEMMA SplitStep ==
    ASSUME IInv, Split
    PROVE  IInv'
<1> USE DEF IInv
<1>1. JobsInv'
  BY JobsSplit DEF TypeInv, Split
<1>2. /\ mark' = [n \in jobs' |-> "none"] /\ prev' = [n \in jobs' |-> NoJob]
      /\ path' = NoJob /\ cycle' = NoJob /\ out' = "none" /\ phase' = "search"
      /\ UNCHANGED <<req, available, sorted>> /\ available = {} /\ sorted = <<>>
  BY DEF Split, TypeInv
<1>3. TypeInv'
  <2>1. jobs' \subseteq Job /\ IsRequest(req') /\ sorted' \in Seq(jobs')
    BY <1>1, <1>2 DEF JobsInv, TypeInv, TypeOK
  <2> QED BY <1>2, <2>1 DEF TypeInv, TypeOK
<1>4. SearchInv'
  <2>1. PICK z \in [jobs' -> Nat] : \A n \in jobs' : z[n] = 0
    <3>1. [n \in jobs' |-> 0] \in [jobs' -> Nat]
      OBVIOUS
    <3> QED BY <3>1
  <2>2. Chain(z)' /\ Ranked(z, 0)'
    BY <1>2 DEF Chain, OnPath, Ranked
  <2>3. \A n \in jobs' : prev'[n] = NoJob
    BY <1>2
  <2> QED BY <1>2, <2>2, <2>3 DEF SearchInv, FailsOnlyOnCircularDependencies
<1>5. SortInv'
  BY <1>2 DEF SortInv, Placed, OrderRespectsEdges
<1> QED BY <1>1, <1>3, <1>4, <1>5

----------------------------------------------------------------------------
\* The sort.

\* All nodes are done when the sort begins, and the jobs that nothing precedes
\* are available.
LEMMA StartSortStep ==
    ASSUME IInv, StartSort
    PROVE  IInv'
<1> USE DEF IInv
<1>1. JobsInv'
  BY JobsKept DEF StartSort
<1>2. TypeInv'
  BY DEF StartSort, TypeInv, TypeOK
<1>3. SearchInv'
  <2>1. OnPath = {}
    BY DEF SearchInv, StartSort, Chain
  <2>2. \A n \in jobs : mark[n] = "done"
    BY <2>1 DEF OnPath, StartSort, TypeInv, TypeOK
  <2>3. \E d \in [jobs' -> Nat], k \in Nat : Ranked(d, k)'
    BY RankedKept DEF StartSort, SearchInv
  <2> QED BY <2>2, <2>3 DEF StartSort, SearchInv, FailsOnlyOnCircularDependencies
<1>4. SortInv'
  <2>1. sorted' = <<>> /\ Placed' = {} /\ jobs' = jobs /\ phase' = "sort"
    BY DEF StartSort, TypeInv, Placed
  <2>2. available' = {n \in jobs : ~HasIncoming(jobs, n)}
    BY DEF StartSort
  <2>3. \A a, b : Before(a, b)' = Before(a, b)
    BY EdgesKept DEF StartSort
  <2>4. \A n \in available', m \in jobs : ~Before(m, n)
    BY <2>2 DEF HasIncoming
  <2>5. \A n \in jobs \ available' : \E m \in jobs : Before(m, n)
    BY <2>2 DEF HasIncoming
  <2> QED BY <2>1, <2>3, <2>4, <2>5 DEF SortInv, OrderRespectsEdges, Unavailable, HasIncoming
<1> QED BY <1>1, <1>2, <1>3, <1>4

\* One job is placed: what only it preceded becomes available.
LEMMA PlaceStep ==
    ASSUME IInv, NEW n \in jobs, Place(n)
    PROVE  IInv'
<1> USE DEF IInv
<1>1. JobsInv'
  BY JobsKept DEF Place
<1> DEFINE rest == (available \ {n}) \cup Unavailable
           new == {m \in Unavailable : Before(n, m) /\ ~HasIncoming(rest, m)}
<1>2. available' = (available \ {n}) \cup new /\ n \in available
  BY DEF Place
<1>3. sorted' = Append(sorted, n) /\ sorted \in Seq(jobs) /\ Len(sorted) \in Nat
  BY DEF Place, TypeInv, TypeOK
<1>4. /\ \A i \in 1..Len(sorted) : sorted'[i] = sorted[i] /\ sorted[i] \in Placed
      /\ sorted'[Len(sorted) + 1] = n /\ DOMAIN sorted = 1..Len(sorted)
      /\ DOMAIN sorted' = 1..(Len(sorted) + 1) /\ sorted' \in Seq(jobs)
  <2>1. \A i \in 1..Len(sorted) : sorted[i] \in Placed
    BY <1>3 DEF Placed
  <2> QED BY <1>3, <2>1
<1>5. Placed' = Placed \cup {n}
  BY <1>3, <1>4 DEF Placed
<1>6. n \notin Placed /\ available \cap Placed = {}
  BY <1>2 DEF SortInv
<1>7. rest = jobs \ Placed'
  BY <1>2, <1>5, <1>6 DEF Unavailable, TypeInv, TypeOK
<1>8. jobs' = jobs /\ phase' = "sort" /\ phase = "sort"
  BY DEF Place
<1>9. \A a, b : Before(a, b)' = Before(a, b)
  BY EdgesKept DEF Place
<1> HIDE DEF rest
<1>10. new \subseteq Unavailable /\ new \subseteq jobs /\ new \cap Placed = {} /\ n \notin new
  BY <1>2 DEF Unavailable
<1>11. TypeInv'
  BY <1>2, <1>4, <1>10 DEF Place, TypeInv, TypeOK
<1>12. SearchInv'
  <2>1. \E d \in [jobs' -> Nat], k \in Nat : Ranked(d, k)'
    BY RankedKept DEF Place, SearchInv
  <2> QED BY <2>1 DEF Place, SearchInv, FailsOnlyOnCircularDependencies
<1>13. SortInv'
  <2>1. \A i, j \in DOMAIN sorted' : sorted'[i] = sorted'[j] => i = j
    BY <1>3, <1>4, <1>6 DEF SortInv
  <2>2. available' \cap Placed' = {}
    BY <1>2, <1>5, <1>6, <1>10
  <2>3. ASSUME NEW m \in available' \cup Placed', NEW l \in jobs, Before(l, m)
        PROVE  l \in Placed'
    <3>1. CASE m \in available \cup Placed
      BY <3>1, <2>3, <1>5 DEF SortInv
    <3>2. CASE m \in new
      BY <3>2, <2>3, <1>7 DEF HasIncoming
    <3> QED BY <3>1, <3>2, <1>2, <1>5
  <2>4. ASSUME NEW i \in DOMAIN sorted', NEW j \in DOMAIN sorted', i < j
        PROVE  ~Before(sorted'[j], sorted'[i])
    <3>1. i \in DOMAIN sorted
      BY <2>4, <1>3, <1>4
    <3>2. CASE j \in DOMAIN sorted
      BY <2>4, <3>1, <3>2, <1>4 DEF SortInv, OrderRespectsEdges
    <3>3. CASE j = Len(sorted) + 1
      BY <3>1, <3>3, <1>4, <1>6 DEF SortInv
    <3> QED BY <3>2, <3>3, <1>3, <1>4
  <2>5. ASSUME NEW m \in jobs \ (available' \cup Placed')
        PROVE  \E l \in jobs \ Placed' : Before(l, m)
    <3>1. m \in Unavailable
      BY <1>2, <1>5 DEF Unavailable
    <3>2. PICK l \in jobs \ Placed : Before(l, m)
      BY <3>1, <1>8 DEF SortInv, HasIncoming
    <3>3. CASE l # n
      BY <3>2, <3>3, <1>5
    <3>4. CASE l = n
      BY <3>1, <3>2, <3>4, <1>2, <1>7 DEF HasIncoming
    <3> QED BY <3>3, <3>4
  <2>6. OrderRespectsEdges'
    BY <2>4, <1>9 DEF OrderRespectsEdges
  <2>7. \A m \in Unavailable' : HasIncoming(jobs \ Placed, m)'
    BY <2>5, <1>8, <1>9 DEF Unavailable, HasIncoming
  <2> QED BY <2>1, <2>2, <2>3, <2>6, <2>7, <1>8, <1>9 DEF SortInv
<1> QED BY <1>1, <1>11, <1>12, <1>13

LEMMA FinishStep ==
    ASSUME IInv, Finish
    PROVE  IInv'
<1> USE DEF IInv
<1>1. JobsInv'
  BY JobsKept DEF Finish
<1>2. TypeInv'
  BY DEF Finish, TypeInv, TypeOK
<1>3. SearchInv'
  <2>1. \E d \in [jobs' -> Nat], k \in Nat : Ranked(d, k)'
    BY RankedKept DEF Finish, SearchInv
  <2> QED BY <2>1 DEF Finish, SearchInv, FailsOnlyOnCircularDependencies
<1>4. SortInv'
  <2>1. UNCHANGED <<req, jobs, available, sorted>> /\ available = {}
    BY DEF Finish
  <2>2. \A a, b : Before(a, b)' = Before(a, b)
    BY EdgesKept, <2>1
  <2>3. Placed' = Placed /\ Unavailable' = Unavailable
    BY <2>1 DEF Placed, Unavailable
  <2> QED BY <2>1, <2>2, <2>3 DEF Finish, SortInv, OrderRespectsEdges, HasIncoming
<1> QED BY <1>1, <1>2, <1>3, <1>4

LEMMA StutterStep ==
    ASSUME IInv, UNCHANGED vars
    PROVE  IInv'
<1> USE DEF IInv, vars
<1>1. JobsInv'
  BY JobsKept
<1>2. TypeInv'
  BY DEF TypeInv, TypeOK
<1>3. \A a, b : Edge(a, b)' = Edge(a, b) /\ Before(a, b)' = Before(a, b)
  BY EdgesKept
<1>4. SearchInv'
  <2>1. \E d \in [jobs' -> Nat], k \in Nat : Ranked(d, k)'
    BY RankedKept DEF SearchInv
  <2>2. phase' = "search" => \E h \in [jobs' -> Nat] : Chain(h)'
    <3>1. \A h : Chain(h) => Chain(h)'
      BY PathEdgesKept DEF Chain, OnPath
    <3> QED BY <3>1 DEF SearchInv
  <2>3. phase' = "walk" => \E R \in SUBSET jobs', h \in [jobs' -> Nat], tip \in jobs' : Ring(R, h, tip)'
    <3>1. \A m : Splits(prev[m], m)' = Splits(prev[m], m)
      BY DEF Splits, Edge, HasNew, HasOld
    <3>2. \A R, h, tip : Ring(R, h, tip) => Ring(R, h, tip)'
      BY <3>1, PathEdgesKept DEF Ring
    <3> QED BY <3>2 DEF SearchInv
  <2>4. FailsOnlyOnCircularDependencies'
    BY DEF SearchInv, FailsOnlyOnCircularDependencies, DependencyCycle
  <2> QED BY <2>1, <2>2, <2>3, <2>4 DEF SearchInv
<1>5. SortInv'
  BY <1>3 DEF SortInv, OrderRespectsEdges, Placed, Unavailable, HasIncoming
<1> QED BY <1>1, <1>2, <1>4, <1>5

LEMMA NextStep == IInv /\ [Next]_vars => IInv'
<1> SUFFICES ASSUME IInv, [Next]_vars PROVE IInv'
  OBVIOUS
<1>1. CASE \E n \in jobs : Visit(n) \/ FindCycle(n) \/ Place(n)
  BY <1>1, VisitStep, FindCycleStep, PlaceStep
<1> QED
  BY <1>1, LeaveStep, WalkBackStep, FailStep, SplitStep, StartSortStep, FinishStep, StutterStep
     DEF Next

LEMMA Invariance == Spec => []IInv
BY InitStep, NextStep, PTL DEF Spec

----------------------------------------------------------------------------
\* What the invariant says of a schedule.

\* Of the jobs that are not placed when the sort ends, the one that was left
\* last in the search would have another before it that was left later still.
LEMMA AllPlaced ==
    ASSUME IInv, phase = "done"
    PROVE  Unavailable = {} /\ Placed = jobs
<1> USE DEF IInv
<1>1. available = {} /\ Placed \subseteq jobs
  BY DEF SortInv, Placed, TypeInv, TypeOK
<1>2. ASSUME Unavailable # {}
      PROVE  FALSE
  <2>1. PICK d \in [jobs -> Nat], k \in Nat : Ranked(d, k)
    BY DEF SearchInv
  <2>2. \A n \in jobs : d[n] \in Nat /\ d[n] < k /\ mark[n] = "done"
    BY <2>1 DEF SearchInv, Ranked
  <2>3. Unavailable \subseteq jobs
    BY DEF Unavailable
  <2> DEFINE D == {k - d[n] : n \in Unavailable}
  <2>4. D \in SUBSET Nat /\ D # {}
    BY <1>2, <2>2, <2>3
  <2>5. PICK x \in D : \A y \in D : x <= y
    BY <2>4, LeastOf
  <2>6. PICK n \in Unavailable : x = k - d[n]
    OBVIOUS
  <2>7. PICK m \in jobs \ Placed : Before(m, n)
    BY <2>6 DEF SortInv, HasIncoming
  <2>8. m \in Unavailable
    BY <1>1, <2>7 DEF Unavailable
  <2>9. d[n] < d[m]
    BY <2>1, <2>2, <2>3, <2>6, <2>7 DEF Ranked
  <2>10. k - d[n] <= k - d[m]
    BY <2>5, <2>6, <2>8
  <2> QED BY <2>2, <2>3, <2>6, <2>7, <2>9, <2>10
<1> QED BY <1>1, <1>2 DEF Unavailable

LEMMA CompleteInIInv == IInv => SortIsComplete
<1> SUFFICES ASSUME IInv, phase = "done"
             PROVE  Unavailable = {} /\ Len(sorted) = Cardinality(jobs)
  BY DEF SortIsComplete
<1>1. sorted \in Seq(jobs) /\ Len(sorted) \in Nat /\ DOMAIN sorted = 1..Len(sorted)
  BY DEF IInv, TypeInv, TypeOK
<1>2. sorted \in Bijection(1..Len(sorted), jobs)
  <2>1. \A i, j \in 1..Len(sorted) : sorted[i] = sorted[j] => i = j
    BY <1>1 DEF IInv, SortInv
  <2>2. \A n \in jobs : \E i \in 1..Len(sorted) : sorted[i] = n
    BY <1>1, AllPlaced DEF Placed
  <2>3. sorted \in [1..Len(sorted) -> jobs]
    BY <1>1
  <2> QED BY <2>1, <2>2, <2>3 DEF Bijection, Injection, Surjection, IsInjective
<1>3. Cardinality(jobs) = Len(sorted)
  BY <1>1, <1>2, FS_CountingElements DEF ExistsBijection
<1> QED BY <1>3, AllPlaced

LEMMA PathInIInv == IInv => PathIsAssertSound
<1> SUFFICES ASSUME IInv PROVE PathIsAssertSound
  OBVIOUS
<1>1. \A n \in jobs : mark[n] = "none" => prev[n] = NoJob
  BY DEF IInv, SearchInv
<1>2. ASSUME phase = "walk"
      PROVE  /\ path # NoJob /\ prev[path] # NoJob /\ prev[path] # path
             /\ Before(prev[path], path)
             /\ path.type = "upgrade" => out # "split_upgrade"
  <2>1. PICK R \in SUBSET jobs, h \in [jobs -> Nat], tip \in jobs : Ring(R, h, tip)
    BY <1>2 DEF IInv, SearchInv
  <2>2. path \in R /\ prev[path] \in R /\ Before(prev[path], path)
    BY <2>1 DEF Ring
  <2>3. path # NoJob /\ prev[path] # NoJob
    BY <2>2, JobFields DEF IInv, JobsInv
  <2>4. path.type = "upgrade" => out # "split_upgrade"
    <3>1. PICK m \in R : out = Edge(path, m)
      BY <2>1 DEF Ring
    <3> QED BY <3>1, EdgeFacts
  <2> QED BY <2>2, <2>3, <2>4, EdgeFacts
<1> QED BY <1>1, <1>2 DEF PathIsAssertSound

----------------------------------------------------------------------------
\* For every set of transactions, the scheduler's variables keep their types: the
\* path is one of jobs, and the tables of marks and predecessors are those of the
\* jobs there are, before and after a split.
THEOREM ScheduleTypes == Spec => []TypeOK
<1>1. IInv => TypeOK
  BY DEF IInv, TypeInv
<1> QED BY <1>1, Invariance, PTL

\* For every set of transactions, no job is ever sorted in front of one that must
\* be executed before it: what pkg_jobs_schedule returns is a topological order.
THEOREM ScheduleOrder == Spec => []OrderRespectsEdges
<1>1. IInv => OrderRespectsEdges
  BY DEF IInv, SortInv
<1> QED BY <1>1, Invariance, PTL

\* For every set of transactions, the assertion at the end of the topological sort
\* holds: nothing is left unavailable, and every job is sorted exactly once.
THEOREM ScheduleIsComplete == Spec => []SortIsComplete
BY CompleteInIInv, Invariance, PTL

\* For every set of transactions, the walk round a cycle stays on edges, never
\* meets a null predecessor and never leaves an upgrade by the edge of a split,
\* which is what the assertions of pkg_jobs_schedule.c rely on.
THEOREM SchedulePath == Spec => []PathIsAssertSound
BY PathInIInv, Invariance, PTL

\* For every set of transactions, the scheduler refuses one only if packages of it
\* depend on each other in a circle: splitting upgrades undoes all other cycles.
THEOREM ScheduleRefusal == Spec => []FailsOnlyOnCircularDependencies
<1>1. IInv => FailsOnlyOnCircularDependencies
  BY DEF IInv, SearchInv
<1> QED BY <1>1, Invariance, PTL
=============================================================================
