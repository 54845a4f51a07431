----------------------------- MODULE MCPkgSolve -----------------------------
(* Universes and requests for TLC's runs of PkgSolve.                       *)
EXTENDS PkgSolve

P(u, v) == [uid |-> u, v |-> v]

\* A world without anything but packages, all of them in the universe, and a request
\* to install some.
Plain(pkgs, request) ==
    [job |-> "install", pkgs |-> pkgs, request |-> request, deps |-> {}, requires |-> {},
     provides |-> {}, files |-> {}, known |-> {}, vital |-> {}, cached |-> pkgs,
     start |-> {p.uid : p \in pkgs}, joins |-> {}, locked |-> {}, missing |-> {}]

Remote(S) == {p \in S : ~Installed(p)}
Local(S)  == {p \in S : Installed(p)}
Valid(W)  == {w \in W : IsWorld(w)}

\* Three chains, installed, new or both, and dependencies along a line and back,
\* one with an alternative, some of the new packages only.
Universes == {S \in SUBSET [uid : 1..3, v : 0..1] : \A u \in 1..3 : \E p \in S : p.uid = u}

DependencyWorlds ==
    UNION {{[Plain(S, R) EXCEPT !.deps =
                {<<p, 2, {3}>> : p \in {p \in D : p.uid = 1}} \cup
                {<<p, 3, {}>> : p \in {p \in D : p.uid = 2}} \cup
                {<<p, 1, {}>> : p \in {p \in D : p.uid = 3}}] :
                R \in SUBSET Remote(S), D \in SUBSET S} : S \in Universes}

\* Two chains with an installed and a new version, that own any of two paths; the
\* new ones are to be installed, and are or are not at hand.  The installed ones
\* are vital or not.
FileWorlds ==
    LET S == [uid : 1..2, v : 0..1]
    IN  Valid({[Plain(S, R) EXCEPT !.files = F, !.cached = C, !.vital = V] :
                R \in SUBSET Remote(S), C \in {{}, S, {P(1, 1)}}, F \in SUBSET (S \X (1..2)),
                V \in {{}, Local(S)}})

\* Of these, those that upgrade both.
BothWorlds == {w \in FileWorlds : w.request = Remote(w.pkgs)}

\* One chain with two versions beside one with one or two, of one path each at
\* most, that may be known to conflict.
ChoiceWorlds ==
    Valid(UNION {{[Plain(S, R) EXCEPT !.files = F, !.cached = C,
                                      !.known = IF k THEN {<<P(1, 0), 2>>} ELSE {}] :
                    R \in {{P(2, 1)}, {P(1, 1), P(2, 1)}} \cap SUBSET S, C \in SUBSET Remote(S),
                    F \in SUBSET (S \X {1}), k \in {k \in BOOLEAN : k => P(1, 0) \in S}} :
                 S \in {{P(1, 0), P(1, 1), P(2, 1)}, {P(1, 1), P(1, 2), P(2, 1)}}})

\* Three new packages and an installed one.
CrowdWorlds ==
    LET S == [uid : 1..3, v : {1}] \cup {P(2, 0)}
    IN  Valid({[Plain(S, Remote(S)) EXCEPT !.files = F, !.cached = C] :
                C \in {{}, S}, F \in SUBSET (S \X (1..2))})

\* What is installed is to be deleted, or what is new installed, of three chains
\* of which some are vital or conflict with the third.
VitalWorlds ==
    LET S == [uid : 1..3, v : {0}]
        T == {P(1, 0), P(2, 1), P(2, 0), P(3, 1)}
    IN  {[Plain(S, R) EXCEPT !.job = "delete", !.vital = V, !.deps = D] :
            R \in SUBSET S, V \in SUBSET S,
            D \in SUBSET {<<P(1, 0), 2, {}>>, <<P(2, 0), 3, {}>>, <<P(3, 0), 1, {2}>>}} \cup
        {[Plain(U, R) EXCEPT !.vital = V, !.known = K, !.files = F,
                             !.deps = {<<P(1, 0), 3, {}>>, <<P(2, 1), 3, {}>>}] :
            U \in {T, T \ {P(2, 0)}}, R \in SUBSET {P(2, 1), P(3, 1)}, V \in SUBSET {P(1, 0), P(2, 1)},
            K \in SUBSET {<<P(1, 0), 2>>, <<P(1, 0), 3>>}, F \in SUBSET {<<P(1, 0), 1>>, <<P(3, 1), 1>>}}

\* An installed package requires a feature that a new version of its provider
\* lacks, and another package has or lacks.
RequireWorlds ==
    LET S == {P(1, 0), P(2, 0), P(2, 1), P(3, 1)}
    IN  {[Plain(S, {P(2, 1)}) EXCEPT !.requires = {<<P(1, 0), 1>>}, !.provides = V \X {1}] :
            V \in SUBSET {P(2, 0), P(2, 1), P(3, 1)}}

\* Packages are to be installed that may share paths with installed ones that the
\* universe does not hold from the start: one that is sound, locked or lacks a
\* dependency, and another one like it, or that is added with the first.
OwnerWorlds ==
    LET S == {P(1, 1), P(2, 0), P(3, 1)}
        T == {P(1, 1), P(2, 0), P(3, 0), P(3, 1)}
    IN  Valid({[Plain(S, R) EXCEPT !.start = {1, 3}, !.files = F, !.cached = C, !.known = K,
                                   !.locked = O[1], !.missing = O[2]] :
                R \in {{P(1, 1)}, Remote(S)}, C \in {{}, {P(1, 1)}, S}, K \in {{}, {<<P(2, 0), 1>>}},
                F \in SUBSET (S \X (1..2)), O \in {{}, {P(2, 0)}} \X {{}, {P(2, 0)}}}) \cup
        Valid({[Plain(T, {P(1, 1)}) EXCEPT !.start = {1}, !.files = F, !.joins = N, !.missing = M] :
                N \in {{}, {<<2, 3>>}}, M \in SUBSET Local(T),
                F \in SUBSET ((T \X (1..2)) \ {<<P(3, 1), 2>>})})

AllWorlds ==
    DependencyWorlds \cup FileWorlds \cup ChoiceWorlds \cup CrowdWorlds \cup VitalWorlds
        \cup RequireWorlds \cup OwnerWorlds
=============================================================================
