-------------------------- MODULE PkgPolicyProofs ---------------------------
(***************************************************************************)
(* PolicyTypeOK, BaseIsNextbsd, RefusalChangesNothing, AbiRespected,       *)
(* DependenciesRegistered, AbiIgnoresNote and HostChecksPass for every      *)
(* offer, system and number of commands, and UrlIsPublished for systems     *)
(* NextBSD is built for.                                                    *)
(*                                                                         *)
(* The layers: the shape of the variables; then, with it, what candidates,  *)
(* jobs and open archives have passed and what they still need, and from    *)
(* that what is registered.                                                 *)
(***************************************************************************)
EXTENDS PkgPolicy, NextbsdBuildProofs, SequenceTheorems, TLAPS

\* The archives add may have open.
Frames(o) ==
    [pkg : o.files, automatic : BOOLEAN, opened : BOOLEAN,
     deps : SUBSET UNION {p.deps : p \in o.files},
     requires : SUBSET UNION {p.requires : p \in o.files}]

\* The shape of the variables, with what makes PolicyTypeOK inductive.
TypeInv ==
    /\ offer \in Offers
    /\ flags \in [force : BOOLEAN, missing : BOOLEAN, answer : Answers]
    /\ args \in Seq(offer.files)
    /\ stack \in Seq(Frames(offer))
    /\ \A i \in DOMAIN stack : stack[i].opened => i <= MaxOpen
    /\ op \in {"off", "failed", "idle", "collect", "check", "run", "add"}
    /\ op \in {"off", "failed"} => catalogue = {}
    /\ PolicyTypeOK

----------------------------------------------------------------------------
\* Below keeps the shape of the stack.
LEMMA StackParts ==
    ASSUME NEW F, NEW s \in Seq(F), s # <<>>
    PROVE  /\ Len(s) \in Nat \ {0} /\ DOMAIN s = 1..Len(s)
           /\ s[Len(s)] \in F
           /\ SubSeq(s, 1, Len(s) - 1) \in Seq(F)
           /\ Len(SubSeq(s, 1, Len(s) - 1)) = Len(s) - 1
           /\ \A i \in 1..(Len(s) - 1) : SubSeq(s, 1, Len(s) - 1)[i] = s[i]
<1>1. Len(s) \in Nat \ {0} /\ DOMAIN s = 1..Len(s)
  BY EmptySeq, LenProperties
<1>2. s[Len(s)] \in F
  <2>1. Len(s) \in 1..Len(s)
    BY <1>1
  <2> QED BY <2>1, ElementOfSeq
<1> QED BY <1>1, <1>2, SubSeqProperties

\* So do a new frame in the place of the last one and one that is put on it.
LEMMA StackReplaced ==
    ASSUME NEW F, NEW s \in Seq(F), s # <<>>, NEW f \in F,
           NEW t, t = [s EXCEPT ![Len(s)] = f]
    PROVE  /\ t \in Seq(F) /\ Len(t) = Len(s)
           /\ \A i \in 1..Len(s) : t[i] = IF i = Len(s) THEN f ELSE s[i]
<1>1. Len(s) \in 1..Len(s)
  BY StackParts
<1> QED BY <1>1, ExceptSeq

LEMMA StackPushed ==
    ASSUME NEW F, NEW s \in Seq(F), NEW g \in F, NEW t, t = Append(s, g)
    PROVE  /\ t \in Seq(F) /\ Len(t) = Len(s) + 1
           /\ \A i \in 1..Len(s) : t[i] = s[i]
           /\ t[Len(s) + 1] = g
BY AppendProperties

----------------------------------------------------------------------------
\* Register puts in an archive or a candidate, and nothing else that is new.
LEMMA RegisterTypes ==
    ASSUME NEW p \in Packages(offer), NEW by, Register(p, by), UNCHANGED offer,
           Registered \subseteq Packages(offer)
    PROVE  Registered' \subseteq Packages(offer')
BY DEF Register, Registered, Packages

\* The stack that goes on, with another archive or without.
StackOK(s) ==
    /\ s \in Seq(Frames(offer))
    /\ \A i \in DOMAIN s :
           /\ s[i].automatic <=> i > 1
           /\ i < Len(s) => s[i].opened
           /\ s[i].opened => i <= MaxOpen

LEMMA StackOKIsTyped ==
    ASSUME TypeInv, op = "add", NEW s, StackOK(s), GoOn(s), UNCHANGED bvars
    PROVE  TypeInv'
<1>1. \A i \in DOMAIN s : s[i].pkg \in offer.files
  <2>1. \A i \in DOMAIN s : s[i] \in Frames(offer)
    BY DEF StackOK
  <2> QED BY <2>1 DEF Frames
<1>2. Len(s) <= MaxOpen + 1
  <2>1. Len(s) \in Nat /\ DOMAIN s = 1..Len(s) /\ MaxOpen \in Nat
    BY PkgPolicyAssumption DEF StackOK
  <2>2. CASE Len(s) > 1
    <3>1. Len(s) - 1 \in DOMAIN s
      BY <2>1, <2>2
    <3> QED BY <2>1, <3>1 DEF StackOK
  <2> QED BY <2>1, <2>2
<1> QED
  BY <1>1, <1>2
  DEF TypeInv, PolicyTypeOK, StackOK, GoOn, Adding, cvars, ivars, bvars, Registered

LEMMA ReplacedTypes ==
    ASSUME TypeInv, stack # <<>>, NEW f \in Frames(offer),
           f.automatic = Top.automatic, f.opened, Len(stack) <= MaxOpen
    PROVE  /\ StackOK(Replaced(f))
           /\ \A q \in offer.files : StackOK(Append(Replaced(f), Frame(q, TRUE)))
<1>1. stack \in Seq(Frames(offer))
  BY DEF TypeInv
<1>2. PICK n \in Nat \ {0} : n = Len(stack) /\ DOMAIN stack = 1..n
  BY <1>1, EmptySeq
<1>3. /\ \A i \in 1..n : stack[i].automatic <=> i > 1
      /\ \A i \in 1..n : i < n => stack[i].opened
      /\ n <= MaxOpen /\ MaxOpen \in Nat
  BY <1>2, PkgPolicyAssumption DEF TypeInv, PolicyTypeOK
<1>4. PICK s : s = Replaced(f)
  OBVIOUS
<1>5. s \in Seq(Frames(offer)) /\ Len(s) = n
  BY <1>1, <1>2, <1>4, StackReplaced DEF Replaced
<1>6. \A i \in 1..n : s[i] = IF i = n THEN f ELSE stack[i]
  BY <1>1, <1>2, <1>4, StackReplaced DEF Replaced
<1>7. DOMAIN s = 1..n
  BY <1>5
<1>8. \A i \in 1..n : (s[i].automatic <=> i > 1) /\ s[i].opened /\ i <= MaxOpen
  <2> SUFFICES ASSUME NEW i \in 1..n
               PROVE  (s[i].automatic <=> i > 1) /\ s[i].opened /\ i <= MaxOpen
    OBVIOUS
  <2>1. CASE i = n
    BY <1>2, <1>3, <1>6, <2>1 DEF Top
  <2>2. CASE i # n
    BY <1>2, <1>3, <1>6, <2>2
  <2> QED BY <2>1, <2>2
<1>9. StackOK(s)
  BY <1>5, <1>7, <1>8 DEF StackOK
<1>10. ASSUME NEW q \in offer.files
       PROVE  StackOK(Append(s, Frame(q, TRUE)))
  <2>1. /\ Frame(q, TRUE) \in Frames(offer)
        /\ ~Frame(q, TRUE).opened /\ Frame(q, TRUE).automatic = TRUE
    BY DEF Frame, Frames
  <2>2. PICK g : g = Frame(q, TRUE)
    OBVIOUS
  <2>3. PICK t : t = Append(s, g)
    OBVIOUS
  <2>4. /\ t \in Seq(Frames(offer)) /\ Len(t) = n + 1
        /\ \A i \in 1..n : t[i] = s[i]
        /\ t[n + 1] = g
    <3>1. /\ t \in Seq(Frames(offer)) /\ Len(t) = Len(s) + 1
          /\ \A i \in 1..Len(s) : t[i] = s[i]
          /\ t[Len(s) + 1] = g
      <4>1. s \in Seq(Frames(offer)) /\ g \in Frames(offer)
        BY <1>5, <2>1, <2>2
      <4> QED BY <2>3, <4>1, StackPushed
    <3> QED BY <1>5, <3>1, Zenon
  <2>5. DOMAIN t = 1..(n + 1)
    BY <2>4
  <2>6. /\ Len(t) = n + 1 /\ \A i \in 1..n : t[i] = s[i]
        /\ ~t[n + 1].opened /\ t[n + 1].automatic = TRUE
    BY <2>1, <2>2, <2>4
  <2>7. ASSUME NEW i \in 1..(n + 1)
        PROVE  /\ t[i].automatic <=> i > 1
               /\ i < n + 1 => t[i].opened
               /\ t[i].opened => i <= MaxOpen
    <3>1. CASE i = n + 1
      BY <1>2, <2>6, <3>1
    <3>2. CASE i # n + 1
      <4>1. i \in 1..n
        BY <1>2, <3>2
      <4> QED BY <1>2, <1>8, <2>6, <4>1
    <3> QED BY <3>1, <3>2
  <2> QED BY <2>2, <2>3, <2>4, <2>5, <2>6, <2>7 DEF StackOK
<1> QED BY <1>4, <1>9, <1>10

\* The same for Unwind and Return, which only take archives away.
LEMMA UnwindTypes ==
    ASSUME TypeInv, op = "add", NEW r, Unwind(r), UNCHANGED bvars
    PROVE  TypeInv'
<1>1. stack' = <<>> /\ stack' \in Seq(Frames(offer)) /\ Len(stack') = 0 /\ DOMAIN stack' = {}
  BY EmptySeq DEF Unwind
<1> QED
  BY <1>1, PkgPolicyAssumption
  DEF TypeInv, PolicyTypeOK, Unwind, Adding, cvars, ivars, bvars, Registered

LEMMA ReturnTypes ==
    ASSUME TypeInv, op = "add", stack # <<>>, Return, UNCHANGED bvars,
           Registered' \subseteq Packages(offer)
    PROVE  TypeInv'
<1>1. /\ Len(stack) \in Nat \ {0} /\ DOMAIN stack = 1..Len(stack)
      /\ stack' \in Seq(Frames(offer)) /\ Len(stack') = Len(stack) - 1
      /\ \A i \in 1..(Len(stack) - 1) : stack'[i] = stack[i]
  BY StackParts DEF TypeInv, Return, Below
<1>2. DOMAIN stack' = 1..(Len(stack) - 1)
  BY <1>1
<1>3. \A i \in DOMAIN stack' : stack'[i] = stack[i] /\ i \in DOMAIN stack
  BY <1>1, <1>2
<1>4. Len(stack') <= MaxOpen + 1
  BY <1>1, PkgPolicyAssumption DEF TypeInv, PolicyTypeOK
<1>5. \A i \in DOMAIN stack' :
          /\ stack'[i].pkg \in offer.files
          /\ stack'[i].automatic <=> i > 1
          /\ i < Len(stack') => stack'[i].opened
          /\ stack'[i].opened => i <= MaxOpen
  BY <1>1, <1>2, <1>3 DEF TypeInv, PolicyTypeOK
<1> QED
  BY <1>1, <1>4, <1>5
  DEF TypeInv, PolicyTypeOK, Return, Adding, cvars, ivars, bvars

\* And for the end of a command.
LEMMA EndTypes ==
    ASSUME TypeInv, NEW r, End(r), UNCHANGED bvars
    PROVE  TypeInv'
<1>1. /\ stack' = <<>> /\ stack' \in Seq(Frames(offer)) /\ Len(stack') = 0 /\ DOMAIN stack' = {}
      /\ args' = <<>> /\ args' \in Seq(offer.files) /\ DOMAIN args' = {}
  BY EmptySeq DEF End
<1> QED
  BY <1>1, PkgPolicyAssumption
  DEF TypeInv, PolicyTypeOK, End, cvars, bvars, Registered, NoFlags, Answers

LEMMA TypeInit == PolicyInit => TypeInv
<1> SUFFICES ASSUME PolicyInit PROVE TypeInv
  OBVIOUS
<1>1. /\ stack = <<>> /\ stack \in Seq(Frames(offer)) /\ Len(stack) = 0 /\ DOMAIN stack = {}
      /\ args = <<>> /\ args \in Seq(offer.files) /\ DOMAIN args = {}
  BY EmptySeq DEF PolicyInit
<1>2. Registered \subseteq Packages(offer)
  BY DEF PolicyInit, Registered, Packages
<1>3. flags \in [force : BOOLEAN, missing : BOOLEAN, answer : Answers]
  BY DEF PolicyInit, NoFlags, Answers
<1>4. Len(stack) <= MaxOpen + 1
  <2>1. PICK n \in Nat : n = MaxOpen
    BY PkgPolicyAssumption
  <2> QED BY <1>1, <2>1
<1>5. PolicyTypeOK
  BY <1>1, <1>2, <1>4 DEF PolicyInit, BuildInit, PolicyTypeOK
<1> QED BY <1>1, <1>3, <1>5 DEF PolicyInit, TypeInv

\* The parts of Top, while there is one.
LEMMA TopTypes ==
    ASSUME TypeInv, stack # <<>>
    PROVE  /\ Top \in Frames(offer) /\ Top.pkg \in offer.files
           /\ Len(stack) \in Nat \ {0} /\ Len(stack) \in DOMAIN stack
           /\ Top.automatic <=> Len(stack) > 1
           /\ Top.opened => Len(stack) <= MaxOpen
<1>1. stack \in Seq(Frames(offer))
  BY DEF TypeInv
<1>2. Len(stack) \in Nat \ {0} /\ Len(stack) \in DOMAIN stack /\ Top \in Frames(offer)
  BY <1>1, StackParts DEF Top
<1>3. Top.pkg \in offer.files
  BY <1>2 DEF Frames
<1> QED BY <1>2, <1>3 DEF Top, TypeInv, PolicyTypeOK

\* Need goes on with what is left of Top, or takes everything away.
LEMMA NeedTypes ==
    ASSUME TypeInv, op = "add", stack # <<>>, Top.opened, NEW met, NEW ps \in SUBSET offer.files,
           NEW f \in Frames(offer), f.automatic = Top.automatic, f.opened,
           Need(met, ps, f), UNCHANGED bvars
    PROVE  TypeInv'
<1>1. Len(stack) <= MaxOpen
  BY TopTypes
<1>2. /\ StackOK(Replaced(f))
      /\ \A q \in offer.files : StackOK(Append(Replaced(f), Frame(q, TRUE)))
  BY <1>1, ReplacedTypes
<1>3. CASE GoOn(Replaced(f))
  BY <1>2, <1>3, StackOKIsTyped
<1>4. CASE \E q \in ps : GoOn(Append(Replaced(f), Frame(q, TRUE)))
  BY <1>2, <1>4, StackOKIsTyped
<1>5. CASE Unwind("failed")
  BY <1>5, UnwindTypes
<1> QED BY <1>3, <1>4, <1>5 DEF Need

LEMMA TypeStep == TypeInv /\ [PolicyNext]_vars => TypeInv'
<1> SUFFICES ASSUME TypeInv, [PolicyNext]_vars PROVE TypeInv'
  OBVIOUS
<1> USE DEF vars, pvars, cvars, avars, ivars
<1>1. CASE BuildNext /\ UNCHANGED pvars
  BY <1>1 DEF TypeInv, PolicyTypeOK, BuildNext, CheckCase, CasesChecked, CheckMachine, Stage,
              Registered
<1>2. CASE UNCHANGED vars
  BY <1>2 DEF TypeInv, PolicyTypeOK, bvars, Registered
<1>3. CASE Configure /\ UNCHANGED bvars
  BY <1>3 DEF TypeInv, PolicyTypeOK, Configure, bvars, Registered
<1>4. CASE Commands /\ UNCHANGED bvars
  <2>1. ASSUME NEW repos, NEW answer, Update(repos, answer)
        PROVE  TypeInv'
    BY <1>4, <2>1 DEF TypeInv, PolicyTypeOK, Update, Begin, bvars, Registered
  <2>2. ASSUME NEW asked, NEW files \in SUBSET offer.files, Install(asked, files)
        PROVE  TypeInv'
    BY <1>4, <2>2 DEF TypeInv, PolicyTypeOK, Install, Begin, bvars, Registered
  <2>3. ASSUME NEW files \in UNION {[1..k -> offer.files] : k \in 1..MaxPatterns},
               NEW force \in BOOLEAN, NEW missing \in BOOLEAN, NEW answer \in Answers,
               Add(files, force, missing, answer)
        PROVE  TypeInv'
    <3>1. files \in Seq(offer.files) /\ \A i \in DOMAIN files : files[i] \in offer.files
      BY PkgPolicyAssumption
    <3> QED BY <1>4, <2>3, <3>1 DEF TypeInv, PolicyTypeOK, Add, Begin, bvars, Registered
  <2> QED BY <1>4, <2>1, <2>2, <2>3 DEF Commands
<1>5. CASE InstallSteps /\ UNCHANGED bvars
  <2>1. ASSUME NEW what, NEW found \in SUBSET catalogue, LookUp(what, found)
        PROVE  TypeInv'
    BY <1>5, <2>1 DEF TypeInv, PolicyTypeOK, LookUp, Collecting, bvars, Registered
  <2>2. CASE FindUpgrade \/ ProcessDeps \/ ProcessRequires
    BY <2>1, <2>2 DEF FindUpgrade, ProcessDeps, ProcessRequires,
       pkg_jobs_universe_get_upgrade_candidates, pkg_jobs_universe_get_remote,
       pkg_jobs_universe_handle_provide
  <2>3. CASE Solve
    <3>1. CASE End("failed")
      BY <1>5, <3>1, EndTypes
    <3>2. CASE jobs' \in Solutions /\ op' = "check" /\ ~End("failed")
      BY <1>5, <2>3, <3>2 DEF Solve, Solutions, TypeInv, PolicyTypeOK, bvars, Registered
    <3> QED BY <2>3, <3>1, <3>2 DEF Solve
  <2>4. CASE DryRun \/ Refuse \/ JobsDone
    BY <1>5, <2>4, EndTypes DEF DryRun, Refuse, JobsDone
  <2>5. CASE Schedule
    <3>1. CASE End("failed")
      BY <1>5, <3>1, EndTypes
    <3>2. CASE ~End("failed")
      BY <1>5, <2>5, <3>2 DEF Schedule, TypeInv, PolicyTypeOK, bvars, Registered
    <3> QED BY <3>1, <3>2
  <2>6. ASSUME NEW p \in jobs, RunJob(p)
        PROVE  TypeInv'
    <3>1. CASE End("failed") \/ End("refused")
      BY <1>5, <3>1, EndTypes
    <3>2. CASE ~End("failed") /\ ~End("refused")
      <4>1. Register(p, "job") /\ p \in Packages(offer) /\ UNCHANGED offer
        BY <2>6, <3>2 DEF RunJob, TypeInv, PolicyTypeOK, Packages
      <4>2. Registered' \subseteq Packages(offer')
        BY <4>1, RegisterTypes DEF TypeInv, PolicyTypeOK
      <4> QED BY <1>5, <2>6, <3>2, <4>2 DEF RunJob, TypeInv, PolicyTypeOK, bvars
    <3> QED BY <3>1, <3>2
  <2> QED BY <1>5, <2>2, <2>3, <2>4, <2>5, <2>6 DEF InstallSteps
<1>6. CASE AddSteps /\ UNCHANGED bvars
  <2>1. CASE NextArgument
    <3>1. PICK g : g = Frame(Head(args), FALSE)
      OBVIOUS
    <3>2. g \in Frames(offer) /\ ~g.opened /\ ~g.automatic /\ Head(args) \in offer.files
          /\ Tail(args) \in Seq(offer.files)
      <4>1. args \in Seq(offer.files) /\ args # <<>>
        BY <2>1 DEF NextArgument, TypeInv
      <4>2. Head(args) \in offer.files /\ Tail(args) \in Seq(offer.files)
        BY <4>1, HeadTailProperties
      <4> QED BY <3>1, <4>2 DEF Frame, Frames
    <3>3. stack' = <<g>> /\ Len(stack') = 1 /\ DOMAIN stack' = {1} /\ stack'[1] = g
      BY <2>1, <3>1 DEF NextArgument
    <3>4. stack' \in Seq(Frames(offer))
      BY <3>2, <3>3
    <3>5. \A i \in DOMAIN args' : args'[i] \in offer.files
      BY <2>1, <3>2 DEF NextArgument
    <3>6. g.pkg \in offer.files
      BY <3>2 DEF Frames
    <3>7. Len(stack') <= MaxOpen + 1 /\ MaxOpen >= 1
      BY <3>3, PkgPolicyAssumption
    <3>8. \A i \in DOMAIN stack' :
              /\ stack'[i].pkg \in offer.files
              /\ stack'[i].automatic <=> i > 1
              /\ i < Len(stack') => stack'[i].opened
              /\ stack'[i].opened => i <= MaxOpen
      BY <3>2, <3>3, <3>6
    <3>9. args' \in Seq(offer.files)
      BY <2>1, <3>2 DEF NextArgument
    <3>10. PolicyTypeOK'
      BY <1>6, <2>1, <3>5, <3>7, <3>8
      DEF NextArgument, Adding, TypeInv, PolicyTypeOK, bvars, Registered
    <3> QED BY <1>6, <2>1, <3>4, <3>8, <3>9, <3>10
            DEF NextArgument, Adding, TypeInv, bvars
  <2>2. CASE CannotOpen \/ Refused \/ NotAdmitted \/ IsLocked
    BY <1>6, <2>2, UnwindTypes
    DEF CannotOpen, Refused, NotAdmitted, IsLocked, Admitted, Opening
  <2>3. CASE AlreadyInstalled
    BY <1>6, <2>3, ReturnTypes
    DEF AlreadyInstalled, Admitted, Opening, TypeInv, PolicyTypeOK, Registered
  <2>4. CASE OpenArchive
    <3>1. op = "add" /\ stack # <<>> /\ Len(stack) <= MaxOpen
      BY <2>4 DEF OpenArchive, Admitted, Opening, CanOpen
    <3>2. PICK f : f = [Top EXCEPT !.opened = TRUE, !.deps = Top.pkg.deps,
                                   !.requires = Top.pkg.requires]
      OBVIOUS
    <3>3. f \in Frames(offer) /\ f.automatic = Top.automatic /\ f.opened
      BY <3>1, <3>2, TopTypes DEF Frames
    <3> QED BY <1>6, <2>4, <3>1, <3>2, <3>3, ReplacedTypes, StackOKIsTyped DEF OpenArchive
  <2>5. CASE NeedDependency
    <3>1. PICK name \in Top.deps : Need(name \in NamesOf(Registered),
              {q \in offer.files : q.name = name}, [Top EXCEPT !.deps = @ \ {name}])
      BY <2>5 DEF NeedDependency
    <3>2. op = "add" /\ stack # <<>> /\ Top.opened
      BY <2>5 DEF NeedDependency
    <3>3. PICK f : f = [Top EXCEPT !.deps = @ \ {name}]
      OBVIOUS
    <3>4. f \in Frames(offer) /\ f.automatic = Top.automatic /\ f.opened
      BY <3>2, <3>3, TopTypes DEF Frames
    <3> QED BY <1>6, <3>1, <3>2, <3>3, <3>4, NeedTypes
  <2>6. CASE NeedFeature
    <3>1. PICK feature \in Top.requires : Need(feature \in Provided(Registered),
              {q \in offer.files : feature \in q.provides},
              [Top EXCEPT !.requires = @ \ {feature}])
      BY <2>6 DEF NeedFeature
    <3>2. op = "add" /\ stack # <<>> /\ Top.opened
      BY <2>6 DEF NeedFeature
    <3>3. PICK f : f = [Top EXCEPT !.requires = @ \ {feature}]
      OBVIOUS
    <3>4. f \in Frames(offer) /\ f.automatic = Top.automatic /\ f.opened
      BY <3>2, <3>3, TopTypes DEF Frames
    <3> QED BY <1>6, <3>1, <3>2, <3>3, <3>4, NeedTypes
  <2>7. CASE AddPackage
    <3>1. CASE Unwind("failed")
      BY <1>6, <2>7, <3>1, UnwindTypes DEF AddPackage
    <3>2. CASE Register(Top.pkg, IF Top.automatic THEN "need" ELSE "add") /\ Return
      <4>1. op = "add" /\ stack # <<>> /\ UNCHANGED offer
        BY <2>7, <3>2 DEF AddPackage, Return, Adding
      <4>2. Top.pkg \in Packages(offer)
        BY <4>1, TopTypes DEF Packages
      <4>3. Registered' \subseteq Packages(offer)
        BY <3>2, <4>1, <4>2, RegisterTypes DEF TypeInv, PolicyTypeOK
      <4> QED BY <1>6, <3>2, <4>1, <4>3, ReturnTypes
    <3> QED BY <2>7, <3>1, <3>2 DEF AddPackage
  <2>8. CASE AddDone
    BY <1>6, <2>8, EndTypes DEF AddDone
  <2> QED BY <1>6, <2>1, <2>2, <2>3, <2>4, <2>5, <2>6, <2>7, <2>8 DEF AddSteps
<1> QED BY <1>1, <1>2, <1>3, <1>4, <1>5, <1>6 DEF PolicyNext

\* The variables have their types, the archives of pkg add their limit, and a
\* command uses its own variables alone (pkg_add_common, pkg_jobs_execute).
THEOREM PolicyTypes == PolicySpec => []PolicyTypeOK
<1>1. TypeInv => PolicyTypeOK
  BY DEF TypeInv
<1> QED BY <1>1, TypeInit, TypeStep, PTL DEF PolicySpec

----------------------------------------------------------------------------
\* What a step does to the archives that are open: it leaves one as it is, begins
\* one, opens the last one or looks at one of the last one's needs.
LEMMA StackStep ==
    ASSUME TypeInv, [PolicyNext]_vars, NEW i \in DOMAIN stack'
    PROVE  \/ i \in DOMAIN stack /\ stack'[i] = stack[i] /\ op = "add"
           \/ ~stack'[i].opened
           \/ /\ OpenArchive
              /\ stack'[i].pkg = Top.pkg /\ stack'[i].automatic = Top.automatic
           \/ /\ stack # <<>> /\ Top.opened /\ op = "add"
              /\ stack'[i].pkg = Top.pkg /\ stack'[i].automatic = Top.automatic
<1> USE DEF vars, pvars, cvars, avars, ivars
<1>1. op # "add" => stack = <<>> /\ DOMAIN stack = {}
  BY DEF TypeInv, PolicyTypeOK
<1>2. CASE UNCHANGED stack
  BY <1>1, <1>2
<1>3. ASSUME NEW f, stack' = Replaced(f), stack # <<>>
      PROVE  i \in DOMAIN stack /\ stack'[i] = IF i = Len(stack) THEN f ELSE stack[i]
  BY <1>3 DEF Replaced
<1>4. CASE OpenArchive
  <2>1. stack # <<>> /\ op = "add"
    BY <1>4 DEF OpenArchive, Admitted, Opening
  <2>2. PICK f : f = [Top EXCEPT !.opened = TRUE, !.deps = Top.pkg.deps,
                                 !.requires = Top.pkg.requires]
    OBVIOUS
  <2>3. f.pkg = Top.pkg /\ f.automatic = Top.automatic
    BY <2>1, <2>2, TopTypes DEF Frames
  <2>4. stack' = Replaced(f)
    BY <1>4, <2>2 DEF OpenArchive, GoOn
  <2> QED BY <1>3, <1>4, <2>1, <2>3, <2>4
<1>5. ASSUME NEW f \in Frames(offer), f.pkg = Top.pkg, f.automatic = Top.automatic,
             NEW met, NEW ps \in SUBSET offer.files, Need(met, ps, f), op = "add", stack # <<>>, Top.opened
      PROVE  \/ i \in DOMAIN stack /\ stack'[i] = stack[i]
             \/ ~stack'[i].opened
             \/ stack'[i].pkg = Top.pkg /\ stack'[i].automatic = Top.automatic
  <2>1. CASE stack' = Replaced(f)
    BY <1>3, <1>5, <2>1
  <2>2. CASE \E q \in ps : stack' = Append(Replaced(f), Frame(q, TRUE))
    <3>1. PICK q \in ps : stack' = Append(Replaced(f), Frame(q, TRUE))
      BY <2>2
    <3>2. PICK g : g = Frame(q, TRUE)
      OBVIOUS
    <3>3. ~g.opened /\ g \in Frames(offer)
      BY <3>2 DEF Frame, Frames
    <3>4. PICK n \in Nat : n = Len(stack) /\ DOMAIN stack = 1..n
      BY TopTypes, <1>5 DEF TypeInv
    <3>a. stack \in Seq(Frames(offer))
      BY DEF TypeInv
    <3>5. PICK s : s = Replaced(f)
      OBVIOUS
    <3>6. Len(s) = n /\ s \in Seq(Frames(offer))
      BY <1>5, <3>4, <3>5, <3>a, StackReplaced DEF Replaced
    <3>7. s = [stack EXCEPT ![n] = f]
      BY <3>4, <3>5 DEF Replaced
    <3>8. i \in 1..(n + 1) /\ stack'[i] = IF i <= n THEN s[i] ELSE g
      <4>1. /\ stack' \in Seq(Frames(offer)) /\ Len(stack') = Len(s) + 1
            /\ \A k \in 1..Len(s) : stack'[k] = s[k]
            /\ stack'[Len(s) + 1] = g
        <5>1. PICK t : t = stack'
          OBVIOUS
        <5>2. t = Append(s, g)
          BY <3>1, <3>2, <3>5, <5>1
        <5>3. /\ t \in Seq(Frames(offer)) /\ Len(t) = Len(s) + 1
              /\ \A k \in 1..Len(s) : t[k] = s[k]
              /\ t[Len(s) + 1] = g
          BY <3>3, <3>6, <5>2, StackPushed
        <5> QED BY <5>1, <5>3
      <4>2. Len(stack') = n + 1 /\ (\A k \in 1..n : stack'[k] = s[k]) /\ stack'[n + 1] = g
        BY <3>6, <4>1
      <4>3. DOMAIN stack' = 1..(n + 1)
        BY <4>1, <4>2
      <4>4. i \in 1..(n + 1)
        BY <4>3
      <4>5. CASE i = n + 1
        BY <3>4, <4>2, <4>5
      <4>6. CASE i \in 1..n
        BY <3>4, <4>2, <4>6
      <4> QED BY <3>4, <4>4, <4>5, <4>6
    <3>9. CASE i = n + 1
      BY <3>3, <3>8, <3>9
    <3>10. CASE i \in 1..n
      BY <1>5, <3>4, <3>7, <3>8, <3>10
    <3> QED BY <3>4, <3>8, <3>9, <3>10
  <2>3. CASE stack' = <<>>
    BY <2>3
  <2> QED BY <1>5, <2>1, <2>2, <2>3 DEF Need, GoOn, Unwind
<1>6. CASE NeedDependency
  <2>1. PICK name \in Top.deps : Need(name \in NamesOf(Registered),
            {q \in offer.files : q.name = name}, [Top EXCEPT !.deps = @ \ {name}])
    BY <1>6 DEF NeedDependency
  <2>2. op = "add" /\ stack # <<>> /\ Top.opened
    BY <1>6 DEF NeedDependency
  <2>3. PICK f : f = [Top EXCEPT !.deps = @ \ {name}]
    OBVIOUS
  <2>4. f \in Frames(offer) /\ f.pkg = Top.pkg /\ f.automatic = Top.automatic
    BY <2>2, <2>3, TopTypes DEF Frames
  <2> QED BY <1>5, <2>1, <2>2, <2>3, <2>4
<1>7. CASE NeedFeature
  <2>1. PICK feature \in Top.requires : Need(feature \in Provided(Registered),
            {q \in offer.files : feature \in q.provides},
            [Top EXCEPT !.requires = @ \ {feature}])
    BY <1>7 DEF NeedFeature
  <2>2. op = "add" /\ stack # <<>> /\ Top.opened
    BY <1>7 DEF NeedFeature
  <2>3. PICK f : f = [Top EXCEPT !.requires = @ \ {feature}]
    OBVIOUS
  <2>4. f \in Frames(offer) /\ f.pkg = Top.pkg /\ f.automatic = Top.automatic
    BY <2>2, <2>3, TopTypes DEF Frames
  <2> QED BY <1>5, <2>1, <2>2, <2>3, <2>4
<1>8. CASE stack' = <<>>
  BY <1>8
<1>9. CASE Return /\ stack # <<>>
  <2>1. stack \in Seq(Frames(offer)) /\ stack' = SubSeq(stack, 1, Len(stack) - 1)
    BY <1>9 DEF TypeInv, Return, Below
  <2>2. /\ Len(stack) \in Nat \ {0} /\ DOMAIN stack = 1..Len(stack)
        /\ stack' \in Seq(Frames(offer)) /\ Len(stack') = Len(stack) - 1
        /\ \A k \in 1..(Len(stack) - 1) : stack'[k] = stack[k]
    BY <1>9, <2>1, StackParts
  <2>3. DOMAIN stack' = 1..(Len(stack) - 1)
    BY <2>2
  <2>4. PICK m \in Nat \ {0} : m = Len(stack)
    BY <2>2
  <2>5. DOMAIN stack = 1..m /\ i \in 1..(m - 1) /\ \A k \in 1..(m - 1) : stack'[k] = stack[k]
    BY <2>2, <2>3, <2>4
  <2>6. i \in DOMAIN stack /\ stack'[i] = stack[i]
    BY <2>5
  <2> QED BY <1>1, <1>9, <2>6
<1>10. CASE NextArgument
  <2>1. stack' = <<Frame(Head(args), FALSE)>> /\ i = 1
    BY <1>10 DEF NextArgument
  <2> QED BY <2>1 DEF Frame
<1>11. CASE (AlreadyInstalled \/ AddPackage) /\ ~Return
  BY <1>8, <1>11 DEF AlreadyInstalled, AddPackage, Unwind
<1>12. AlreadyInstalled \/ AddPackage => stack # <<>>
  BY DEF AlreadyInstalled, AddPackage, Admitted, Opening
<1>13. CASE CannotOpen \/ Refused \/ NotAdmitted \/ IsLocked \/ AddDone
  BY <1>8, <1>13 DEF CannotOpen, Refused, NotAdmitted, IsLocked, AddDone, Unwind, End
<1>14. CASE InstallSteps
  BY <1>2, <1>8, <1>14
  DEF InstallSteps, FindUpgrade, ProcessDeps, ProcessRequires, LookUp, Collecting, Solve, DryRun,
      Refuse, Schedule, RunJob, JobsDone, End
<1>15. CASE Configure \/ Commands
  BY <1>2, <1>15 DEF Configure, Commands, Update, Install, Add
<1> QED BY <1>2, <1>4, <1>6, <1>7, <1>9, <1>10, <1>11, <1>12, <1>13, <1>14, <1>15
        DEF PolicyNext, AddSteps

\* What a step does to the table of packages: it registers a job or an archive
\* that has passed everything.
LEMMA DbStep ==
    ASSUME TypeInv, [PolicyNext]_vars, db' # db
    PROVE  /\ UNCHANGED <<cvars, flags>> /\ op \in {"run", "add"} /\ catalogue' = catalogue
           /\ \/ \E p \in jobs : /\ Register(p, "job") /\ nextbsd_check_install(p)
                                /\ op = "run" /\ p \in Ready /\ jobs' = jobs \ {p}
              \/ /\ stack # <<>> /\ Top.opened /\ Top.deps = {}
                 /\ Register(Top.pkg, IF Top.automatic THEN "need" ELSE "add")
<1> USE DEF vars, pvars, cvars, avars, ivars
<1>1. CASE BuildNext /\ UNCHANGED pvars
  BY <1>1
<1>2. CASE Configure \/ Commands
  BY <1>2 DEF Configure, Commands, Update, Install, Add, Begin
<1>3. CASE InstallSteps
  BY <1>3
  DEF InstallSteps, FindUpgrade, ProcessDeps, ProcessRequires, LookUp, Collecting, Solve, DryRun,
      Refuse, Schedule, RunJob, JobsDone, End
<1>4. CASE AddSteps
  <2>1. CASE AddPackage
    BY <2>1 DEF AddPackage, Return, Unwind, Adding
  <2>2. CASE ~AddPackage
    BY <1>4, <2>2
    DEF AddSteps, NextArgument, CannotOpen, Refused, NotAdmitted, AlreadyInstalled, IsLocked,
        OpenArchive, NeedDependency, NeedFeature, Need, AddDone, GoOn, Unwind, End
  <2> QED BY <2>1, <2>2
<1> QED BY <1>1, <1>2, <1>3, <1>4 DEF PolicyNext

----------------------------------------------------------------------------
\* What has passed which check: candidates the filter, repositories' packages the
\* ABI, open archives nextbsd_check_install and, unless -f holds, the ABI.
Passed ==
    /\ \A p \in catalogue : AbiOK(p)
    /\ \A p \in universe : ~nextbsd_foreign_pkg(p) /\ (p.source = "file" \/ AbiOK(p))
    /\ \A i \in DOMAIN stack : stack[i].opened =>
           /\ nextbsd_check_install(stack[i].pkg)
           /\ (flags.force /\ ~stack[i].automatic) \/ AbiOK(stack[i].pkg)
    /\ op \in {"off", "failed"} => \A e \in db : e.by = "base"

PassedInv == Passed /\ BaseIsNextbsd /\ AbiRespected

LEMMA PassedInit == PolicyInit => PassedInv
<1> SUFFICES ASSUME PolicyInit PROVE PassedInv
  OBVIOUS
<1>1. \A e \in db : e.by = "base" /\ FromNextbsd(e.pkg)
  BY PkgPolicyAssumption DEF PolicyInit, FromNextbsd
<1>2. DOMAIN stack = {}
  BY DEF PolicyInit
<1> QED BY <1>1, <1>2 DEF PolicyInit, PassedInv, Passed, BaseIsNextbsd, AbiRespected

\* The filter and nextbsd_check_install together keep the base NextBSD's.
LEMMA CheckedIsHarmless ==
    ASSUME TypeInv, NEW p \in Packages(offer), ~nextbsd_foreign_pkg(p), nextbsd_check_install(p)
    PROVE  \/ FromNextbsd(p)
           \/ p.name \notin PkgNames /\ \A path \in p.paths : Inside(path)
<1>1. p.paths \subseteq Paths
  BY PkgPolicyAssumption DEF TypeInv
<1> QED
  BY <1>1, PathsStayInside
  DEF FromNextbsd, nextbsd_foreign_pkg, nextbsd_check_install, nextbsd_trusted, nextbsd_from_repo

LEMMA PassedStep == TypeInv /\ TypeInv' /\ PassedInv /\ [PolicyNext]_vars => PassedInv'
<1> SUFFICES ASSUME TypeInv, TypeInv', PassedInv, [PolicyNext]_vars PROVE PassedInv'
  OBVIOUS
<1> USE DEF vars, pvars, cvars, avars, ivars
<1>1. CASE UNCHANGED abi
  <2>1. \A p : AbiOK(p)' <=> AbiOK(p)
    BY <1>1 DEF AbiOK
  <2>2. \A p \in catalogue' : AbiOK(p)'
    <3>1. CASE UNCHANGED catalogue
      BY <2>1, <3>1 DEF PassedInv, Passed
    <3>2. ASSUME NEW repos, NEW answer, Update(repos, answer)
          PROVE  \A p \in catalogue' : AbiOK(p)
      BY <3>2 DEF Update, PassedInv, Passed
    <3>3. CASE \E repos, answer : Update(repos, answer)
      BY <2>1, <3>2, <3>3
    <3>4. \/ UNCHANGED catalogue \/ \E repos, answer : Update(repos, answer)
      BY DEF PolicyNext, Configure, Commands, Install, Add, InstallSteps, AddSteps,
         FindUpgrade, ProcessDeps, ProcessRequires, LookUp, Collecting, Solve, DryRun, Refuse,
         Schedule, RunJob, JobsDone, NextArgument, CannotOpen, Refused, NotAdmitted,
         AlreadyInstalled, IsLocked, OpenArchive, NeedDependency, NeedFeature, Need, AddPackage,
         AddDone, Adding, GoOn, Unwind, Return, End
    <3> QED BY <3>1, <3>3, <3>4
  <2>3. \A p \in universe' : ~nextbsd_foreign_pkg(p) /\ (p.source = "file" \/ AbiOK(p)')
    <3>1. CASE UNCHANGED universe \/ universe' = {}
      BY <2>1, <3>1 DEF PassedInv, Passed
    <3>2. CASE FindUpgrade \/ ProcessDeps \/ ProcessRequires
      BY <2>1, <3>2 DEF FindUpgrade, ProcessDeps, ProcessRequires, LookUp, PassedInv, Passed,
         pkg_jobs_universe_get_upgrade_candidates, pkg_jobs_universe_get_remote,
         pkg_jobs_universe_handle_provide
    <3>3. ASSUME NEW asked, NEW files \in SUBSET offer.files, Install(asked, files)
          PROVE  \A p \in universe' : ~nextbsd_foreign_pkg(p) /\ (p.source = "file" \/ AbiOK(p)')
      <4>1. \A p \in offer.files : p.source = "file"
        BY PkgPolicyAssumption DEF TypeInv
      <4> QED BY <3>3, <4>1 DEF Install, nextbsd_foreign_pkg
    <3>4. CASE Commands
      <4>1. CASE \E asked \in SUBSET NamesOf(offer.remote), files \in SUBSET offer.files :
                     Install(asked, files)
        <5>1. PICK asked \in SUBSET NamesOf(offer.remote), files \in SUBSET offer.files :
                  Install(asked, files)
          BY <4>1
        <5> QED BY <3>3, <5>1
      <4>2. CASE UNCHANGED universe
        BY <3>1, <4>2
      <4> QED BY <3>4, <4>1, <4>2 DEF Commands, Update, Add
    <3>5. \/ UNCHANGED universe \/ universe' = {}
          \/ FindUpgrade \/ ProcessDeps \/ ProcessRequires \/ Commands
      BY DEF PolicyNext, Configure, InstallSteps, AddSteps,
         Solve, DryRun, Refuse,
         Schedule, RunJob, JobsDone, NextArgument, CannotOpen, Refused, NotAdmitted,
         AlreadyInstalled, IsLocked, OpenArchive, NeedDependency, NeedFeature, Need, AddPackage,
         AddDone, Adding, GoOn, Unwind, Return, End
    <3> QED BY <3>1, <3>2, <3>4, <3>5
  <2>4. ASSUME NEW i \in DOMAIN stack', stack'[i].opened
        PROVE  /\ nextbsd_check_install(stack'[i].pkg)
               /\ (flags'.force /\ ~stack'[i].automatic) \/ AbiOK(stack'[i].pkg)
    <3>1. op = "add"
      BY <2>4, StackStep DEF OpenArchive, Admitted, Opening
    <3>2. UNCHANGED flags
      <4>1. CASE UNCHANGED flags
        BY <4>1
      <4>2. CASE stack' = <<>>
        BY <2>4, <4>2
      <4> QED
        BY <3>1, <4>1, <4>2 DEF PolicyNext, Configure, Commands, Update, Install, Add, Begin,
           InstallSteps, AddSteps, FindUpgrade, ProcessDeps, ProcessRequires, LookUp, Collecting,
           Solve, DryRun, Refuse, Schedule, RunJob, JobsDone, NextArgument, CannotOpen, Refused,
           NotAdmitted, AlreadyInstalled, IsLocked, OpenArchive, NeedDependency, NeedFeature,
           Need, AddPackage, AddDone, Adding, GoOn, Unwind, Return, End
    <3>3. CASE i \in DOMAIN stack /\ stack'[i] = stack[i]
      BY <2>1, <2>4, <3>2, <3>3 DEF PassedInv, Passed
    <3>4. CASE OpenArchive /\ stack'[i].pkg = Top.pkg /\ stack'[i].automatic = Top.automatic
      BY <2>1, <3>2, <3>4 DEF OpenArchive, Admitted, Forced
    <3>5. CASE /\ stack # <<>> /\ Top.opened
               /\ stack'[i].pkg = Top.pkg /\ stack'[i].automatic = Top.automatic
      BY <2>1, <3>2, <3>5, TopTypes DEF PassedInv, Passed, Top
    <3> QED BY <2>4, <3>3, <3>4, <3>5, StackStep
  <2>5. op' \in {"off", "failed"} => \A e \in db' : e.by = "base"
    <3>1. op' \in {"off", "failed"} => op \in {"off", "failed"}
      BY DEF TypeInv, PolicyNext, Configure, Commands, Update, Install, Add, Begin,
         InstallSteps, AddSteps, FindUpgrade, ProcessDeps, ProcessRequires, LookUp, Collecting,
         Solve, DryRun, Refuse, Schedule, RunJob, JobsDone, NextArgument, CannotOpen, Refused,
         NotAdmitted, AlreadyInstalled, IsLocked, OpenArchive, NeedDependency, NeedFeature,
         Need, AddPackage, AddDone, Adding, GoOn, Unwind, Return, End
    <3> QED BY <3>1, DbStep DEF PassedInv, Passed
  <2>6. Passed'
    <3>1. \A i \in DOMAIN stack' : stack'[i].opened =>
              /\ nextbsd_check_install(stack'[i].pkg)
              /\ (flags'.force /\ ~stack'[i].automatic) \/ AbiOK(stack'[i].pkg)
      BY <2>4
    <3>2. pkg_abi_to_string(abi') = pkg_abi_to_string(abi)
      BY <1>1
    <3>3. (\A i \in DOMAIN stack : stack[i].opened =>
              /\ nextbsd_check_install(stack[i].pkg)
              /\ (flags.force /\ ~stack[i].automatic) \/ AbiOK(stack[i].pkg))'
      BY <3>1, <3>2 DEF AbiOK
    <3> QED BY <2>2, <2>3, <2>5, <3>3 DEF Passed
  <2>7. BaseIsNextbsd' /\ AbiRespected'
    <3>1. CASE UNCHANGED db
      BY <2>1, <3>1 DEF PassedInv, BaseIsNextbsd, AbiRespected
    <3>2. ASSUME NEW p \in jobs, Register(p, "job"), nextbsd_check_install(p)
          PROVE  BaseIsNextbsd' /\ AbiRespected'
      <4>1. p \in universe /\ p \in Packages(offer)
        BY DEF TypeInv, PolicyTypeOK, Packages
      <4>2. \/ FromNextbsd(p)
            \/ p.name \notin PkgNames /\ \A path \in p.paths : Inside(path)
        BY <3>2, <4>1, CheckedIsHarmless DEF PassedInv, Passed
      <4>3. p.source = "file" \/ AbiOK(p)
        BY <4>1 DEF PassedInv, Passed
      <4> QED BY <2>1, <3>2, <4>2, <4>3
              DEF Register, PassedInv, BaseIsNextbsd, AbiRespected
    <3>3. ASSUME stack # <<>>, Top.opened, UNCHANGED flags,
                 Register(Top.pkg, IF Top.automatic THEN "need" ELSE "add")
          PROVE  BaseIsNextbsd' /\ AbiRespected'
      <4>1. /\ Top.pkg \in Packages(offer) /\ ~nextbsd_foreign_pkg(Top.pkg)
            /\ Len(stack) \in DOMAIN stack /\ Top \in Frames(offer)
        BY <3>3, TopTypes, PkgPolicyAssumption DEF Packages, nextbsd_foreign_pkg, TypeInv
      <4>2. /\ nextbsd_check_install(Top.pkg)
            /\ (flags.force /\ ~Top.automatic) \/ AbiOK(Top.pkg)
        BY <3>3, <4>1 DEF PassedInv, Passed, Top
      <4>3. \/ FromNextbsd(Top.pkg)
            \/ Top.pkg.name \notin PkgNames /\ \A path \in Top.pkg.paths : Inside(path)
        BY <4>1, <4>2, CheckedIsHarmless
      <4>4. PICK p, by : /\ p = Top.pkg /\ by = (IF Top.automatic THEN "need" ELSE "add")
                         /\ Register(p, by)
        BY <3>3
      <4>5. (by = "add" /\ flags.force) \/ AbiOK(p)
        BY <4>1, <4>2, <4>4 DEF Frames
      <4> QED BY <2>1, <3>3, <4>3, <4>4, <4>5
              DEF Register, PassedInv, BaseIsNextbsd, AbiRespected
    <3> QED BY <3>1, <3>2, <3>3, DbStep
  <2> QED BY <2>6, <2>7 DEF PassedInv
<1>2. CASE ~UNCHANGED abi
  <2>1. Configure
    BY <1>2 DEF PolicyNext, Commands, Update, Install, Add, Begin,
       InstallSteps, AddSteps, FindUpgrade, ProcessDeps, ProcessRequires, LookUp, Collecting,
       Solve, DryRun, Refuse, Schedule, RunJob, JobsDone, NextArgument, CannotOpen, Refused,
       NotAdmitted, AlreadyInstalled, IsLocked, OpenArchive, NeedDependency, NeedFeature,
       Need, AddPackage, AddDone, Adding, GoOn, Unwind, Return, End
  <2>2. op = "off" /\ catalogue = {} /\ universe = {} /\ stack = <<>>
    BY <2>1 DEF Configure, TypeInv, PolicyTypeOK
  <2>3. UNCHANGED <<catalogue, universe, stack, db>> /\ DOMAIN stack = {}
    BY <2>1, <2>2 DEF Configure
  <2>4. Passed'
    BY <2>2, <2>3 DEF PassedInv, Passed
  <2>5. \A e \in db : e.by = "base"
    BY <2>2 DEF PassedInv, Passed
  <2> QED BY <2>3, <2>4, <2>5 DEF PassedInv, BaseIsNextbsd, AbiRespected
<1> QED BY <1>1, <1>2

LEMMA PassedInvariant == PolicySpec => [](TypeInv /\ PassedInv)
BY TypeInit, TypeStep, PassedInit, PassedStep, PTL DEF PolicySpec

\* Whatever sequence of updates, installations and additions is run, and whatever
\* repositories and files hold: what is not NextBSD's is not pkg and stays in
\* /usr/local and /var (nextbsd_policy.c and the filters of the universe).
THEOREM BaseStaysNextbsd == PolicySpec => []BaseIsNextbsd
<1>1. PassedInv => BaseIsNextbsd
  BY DEF PassedInv
<1> QED BY <1>1, PassedInvariant, PTL

\* What is registered fits the ABI found, but for files of pkg install and the
\* arguments of pkg add -f (is_valid_abi where catalogues and archives are read).
THEOREM PackagesFitTheAbi == PolicySpec => []AbiRespected
<1>1. PassedInv => AbiRespected
  BY DEF PassedInv
<1> QED BY <1>1, PassedInvariant, PTL

----------------------------------------------------------------------------
\* Until something is let in the table is what it was, and the jobs that run have
\* all passed the check.
Undone ==
    /\ op \in {"collect", "check"} => verdict = "none" /\ db = before
    /\ op = "run" => verdict = "none" /\ \A p \in jobs : nextbsd_check_install(p)
    /\ stack # <<>> => verdict = "none"
    /\ stack # <<>> /\ ~stack[1].opened => db = before

UndoneInv == Undone /\ RefusalChangesNothing

\* The archive at the bottom is only begun by NextArgument.
LEMMA FirstArchive ==
    ASSUME TypeInv, [PolicyNext]_vars, stack' # <<>>, ~stack'[1].opened
    PROVE  NextArgument \/ UNCHANGED <<stack, db, before>>
<1> USE DEF vars, pvars, cvars, avars, ivars
<1>1. op # "add" => stack = <<>>
  BY DEF TypeInv, PolicyTypeOK
<1>2. ASSUME stack # <<>>
      PROVE  Len(stack) > 1 => stack[1].opened
  <2>1. PICK n \in Nat \ {0} : n = Len(stack) /\ DOMAIN stack = 1..n
    BY <1>2, TopTypes DEF TypeInv
  <2>2. n > 1 => 1 \in DOMAIN stack /\ 1 < n
    BY <2>1
  <2> QED BY <2>1, <2>2 DEF TypeInv, PolicyTypeOK
<1>3. ASSUME NEW f \in Frames(offer), f.opened, stack # <<>>, NEW s, s = Replaced(f)
      PROVE  s[1].opened /\ Len(s) \in Nat \ {0} /\ s \in Seq(Frames(offer))
  <2>1. stack \in Seq(Frames(offer))
    BY DEF TypeInv
  <2>2. PICK n \in Nat \ {0} : n = Len(stack)
    BY <1>3, TopTypes
  <2>3. s \in Seq(Frames(offer)) /\ Len(s) = n
    BY <1>3, <2>1, <2>2, StackReplaced DEF Replaced
  <2>4. \A i \in 1..n : s[i] = IF i = n THEN f ELSE stack[i]
    BY <1>3, <2>1, <2>2, StackReplaced DEF Replaced
  <2>5. s[1] = IF n = 1 THEN f ELSE stack[1]
    BY <2>4
  <2>6. n > 1 => stack[1].opened
    BY <1>2, <1>3, <2>2
  <2>7. s[1].opened
    BY <1>3, <2>5, <2>6
  <2> QED BY <2>2, <2>3, <2>7
<1>4. ASSUME NEW f \in Frames(offer), f.opened, NEW met, NEW ps \in SUBSET offer.files,
             Need(met, ps, f), stack # <<>>
      PROVE  FALSE
  <2>1. CASE stack' = Replaced(f)
    BY <1>3, <1>4, <2>1
  <2>2. CASE \E q \in ps : stack' = Append(Replaced(f), Frame(q, TRUE))
    <3>1. PICK q \in ps : stack' = Append(Replaced(f), Frame(q, TRUE))
      BY <2>2
    <3>2. PICK s : s = Replaced(f)
      OBVIOUS
    <3>3. s[1].opened /\ Len(s) \in Nat \ {0} /\ s \in Seq(Frames(offer))
      BY <1>3, <1>4, <3>2
    <3>4. PICK t : t = stack'
      OBVIOUS
    <3>5. Frame(q, TRUE) \in Frames(offer)
      BY <1>4 DEF Frame, Frames
    <3>6. \A i \in 1..Len(s) : t[i] = s[i]
      BY <3>1, <3>2, <3>3, <3>4, <3>5, StackPushed
    <3>7. PICK n \in Nat \ {0} : n = Len(s)
      BY <3>3
    <3>8. t[1] = s[1]
      BY <3>6, <3>7
    <3> QED BY <3>3, <3>4, <3>8
  <2> QED BY <1>4, <2>1, <2>2 DEF Need, GoOn, Unwind
<1>5. ASSUME NeedDependency PROVE FALSE
  <2>1. PICK name \in Top.deps : Need(name \in NamesOf(Registered),
            {q \in offer.files : q.name = name}, [Top EXCEPT !.deps = @ \ {name}])
    BY <1>5 DEF NeedDependency
  <2>2. stack # <<>> /\ Top.opened
    BY <1>5 DEF NeedDependency
  <2>3. PICK f : f = [Top EXCEPT !.deps = @ \ {name}]
    OBVIOUS
  <2>4. f \in Frames(offer) /\ f.opened
    BY <2>2, <2>3, TopTypes DEF Frames
  <2> QED BY <1>4, <2>1, <2>2, <2>3, <2>4
<1>6. ASSUME NeedFeature PROVE FALSE
  <2>1. PICK feature \in Top.requires : Need(feature \in Provided(Registered),
            {q \in offer.files : feature \in q.provides},
            [Top EXCEPT !.requires = @ \ {feature}])
    BY <1>6 DEF NeedFeature
  <2>2. stack # <<>> /\ Top.opened
    BY <1>6 DEF NeedFeature
  <2>3. PICK f : f = [Top EXCEPT !.requires = @ \ {feature}]
    OBVIOUS
  <2>4. f \in Frames(offer) /\ f.opened
    BY <2>2, <2>3, TopTypes DEF Frames
  <2> QED BY <1>4, <2>1, <2>2, <2>3, <2>4
<1>7. ASSUME OpenArchive PROVE FALSE
  <2>1. stack # <<>>
    BY <1>7 DEF OpenArchive, Admitted, Opening
  <2>2. PICK f : f = [Top EXCEPT !.opened = TRUE, !.deps = Top.pkg.deps,
                                 !.requires = Top.pkg.requires]
    OBVIOUS
  <2>3. f \in Frames(offer) /\ f.opened
    BY <2>1, <2>2, TopTypes DEF Frames
  <2>4. stack' = Replaced(f)
    BY <1>7, <2>2 DEF OpenArchive, GoOn
  <2> QED BY <1>3, <2>1, <2>3, <2>4
<1>8. ASSUME Return, stack # <<>> PROVE FALSE
  <2>1. stack \in Seq(Frames(offer)) /\ stack' = SubSeq(stack, 1, Len(stack) - 1)
    BY <1>8 DEF TypeInv, Return, Below
  <2>2. /\ Len(stack) \in Nat \ {0}
        /\ stack' \in Seq(Frames(offer)) /\ Len(stack') = Len(stack) - 1
        /\ \A k \in 1..(Len(stack) - 1) : stack'[k] = stack[k]
    BY <1>8, <2>1, StackParts
  <2>3. PICK m \in Nat \ {0} : m = Len(stack) /\ \A k \in 1..(m - 1) : stack'[k] = stack[k]
    BY <2>2
  <2>4. m > 1
    <3>1. SUFFICES ASSUME m = 1 PROVE FALSE
      BY <2>3
    <3>2. Len(stack') = 0
      BY <2>2, <2>3, <3>1
    <3> QED BY <2>2, <3>2, EmptySeq
  <2>5. stack'[1] = stack[1] /\ stack[1].opened
    BY <1>2, <1>8, <2>3, <2>4
  <2> QED BY <2>5
<1>9. CASE InstallSteps
  BY <1>1, <1>9
  DEF InstallSteps, FindUpgrade, ProcessDeps, ProcessRequires, LookUp, Collecting, Solve, DryRun,
      Refuse, Schedule, RunJob, JobsDone, End
<1>10. CASE Configure \/ Commands
  BY <1>1, <1>10 DEF Configure, Commands, Update, Install, Add, Begin
<1>11. CASE AddSteps
  BY <1>5, <1>6, <1>7, <1>8, <1>11
  DEF AddSteps, CannotOpen, Refused, NotAdmitted, AlreadyInstalled, IsLocked, AddPackage, AddDone,
      Admitted, Opening, Unwind, End
<1> QED BY <1>9, <1>10, <1>11 DEF PolicyNext

LEMMA UndoneStep == TypeInv /\ TypeInv' /\ UndoneInv /\ [PolicyNext]_vars => UndoneInv'
<1> SUFFICES ASSUME TypeInv, TypeInv', UndoneInv, [PolicyNext]_vars PROVE UndoneInv'
  OBVIOUS
<1> USE DEF vars, pvars, cvars, avars, ivars
<1>1. op # "add" => stack = <<>>
  BY DEF TypeInv, PolicyTypeOK
<1>2. stack' # <<>> /\ ~stack'[1].opened => db' = before'
  <2> SUFFICES ASSUME stack' # <<>>, ~stack'[1].opened PROVE db' = before'
    OBVIOUS
  <2>1. CASE NextArgument
    BY <2>1 DEF NextArgument
  <2>2. CASE UNCHANGED <<stack, db, before>>
    BY <2>2 DEF UndoneInv, Undone
  <2> QED BY <2>1, <2>2, FirstArchive
<1>3. CASE (BuildNext /\ UNCHANGED pvars) \/ UNCHANGED vars
  BY <1>3 DEF UndoneInv, Undone, RefusalChangesNothing, nextbsd_check_install
<1>4. CASE Configure \/ Commands
  <2>1. CASE Configure
    BY <1>1, <2>1 DEF Configure, UndoneInv, Undone, RefusalChangesNothing
  <2>2. CASE Commands
    BY <1>1, <2>2 DEF Commands, Update, Install, Add, Begin, UndoneInv, Undone,
       RefusalChangesNothing
  <2> QED BY <1>4, <2>1, <2>2
<1>5. CASE InstallSteps
  <2>1. CASE FindUpgrade \/ ProcessDeps \/ ProcessRequires
    BY <1>1, <1>2, <2>1 DEF FindUpgrade, ProcessDeps, ProcessRequires, LookUp, Collecting,
       UndoneInv, Undone, RefusalChangesNothing
  <2>2. CASE Solve
    BY <1>1, <1>2, <2>2 DEF Solve, End, UndoneInv, Undone, RefusalChangesNothing
  <2>3. CASE DryRun \/ Refuse
    BY <2>3 DEF DryRun, Refuse, End, UndoneInv, Undone, RefusalChangesNothing
  <2>4. CASE Schedule
    BY <1>1, <1>2, <2>4 DEF Schedule, End, UndoneInv, Undone, RefusalChangesNothing,
       nextbsd_check_jobs
  <2>5. ASSUME NEW p \in jobs, RunJob(p)
        PROVE  UndoneInv'
    <3>1. op = "run" /\ nextbsd_check_install(p)
      BY <2>5 DEF RunJob, UndoneInv, Undone
    <3>2. CASE End("failed")
      BY <3>2 DEF End, UndoneInv, Undone, RefusalChangesNothing
    <3>3. CASE /\ Register(p, "job") /\ jobs' = jobs \ {p}
               /\ UNCHANGED <<stack, op, verdict, before>>
      BY <1>2, <3>1, <3>3 DEF UndoneInv, Undone, RefusalChangesNothing
    <3> QED BY <2>5, <3>1, <3>2, <3>3 DEF RunJob
  <2>6. CASE JobsDone
    BY <2>6 DEF JobsDone, End, UndoneInv, Undone, RefusalChangesNothing
  <2> QED BY <1>5, <2>1, <2>2, <2>3, <2>4, <2>5, <2>6 DEF InstallSteps
<1>6. CASE AddSteps
  <2>1. CASE NextArgument
    BY <1>2, <2>1 DEF NextArgument, Adding, UndoneInv, Undone, RefusalChangesNothing
  <2>2. ASSUME NEW r, Unwind(r), op = "add", r = "refused" => db = before
        PROVE  UndoneInv'
    BY <2>2 DEF Unwind, Adding, UndoneInv, Undone, RefusalChangesNothing
  <2>3. CASE CannotOpen \/ NotAdmitted \/ IsLocked
    BY <2>2, <2>3 DEF CannotOpen, NotAdmitted, IsLocked, Admitted, Opening
  <2>4. CASE Refused
    <3>1. op = "add" /\ stack # <<>> /\ ~Top.opened
      BY <2>4 DEF Refused, Opening
    <3>2. ~Top.automatic => Len(stack) = 1
      <4>1. PICK n \in Nat \ {0} : n = Len(stack) /\ (Top.automatic <=> n > 1)
        BY <3>1, TopTypes
      <4> QED BY <4>1
    <3>3. ~Top.automatic => db = before
      BY <3>1, <3>2 DEF Top, UndoneInv, Undone
    <3> QED BY <2>2, <2>4, <3>1, <3>3 DEF Refused
  <2>5. CASE Return /\ op = "add" /\ stack # <<>>
    BY <1>2, <2>5 DEF Return, Adding, UndoneInv, Undone, RefusalChangesNothing
  <2>6. CASE AlreadyInstalled
    BY <2>5, <2>6 DEF AlreadyInstalled, Admitted, Opening
  <2>7. CASE AddPackage
    BY <2>2, <2>5, <2>7 DEF AddPackage
  <2>8. ASSUME NEW s, GoOn(s), op = "add", stack # <<>>
        PROVE  UndoneInv'
    BY <1>2, <2>8 DEF GoOn, Adding, UndoneInv, Undone, RefusalChangesNothing
  <2>9. CASE OpenArchive
    BY <2>8, <2>9 DEF OpenArchive, Admitted, Opening
  <2>10. CASE NeedDependency \/ NeedFeature
    BY <2>2, <2>8, <2>10 DEF NeedDependency, NeedFeature, Need
  <2>11. CASE AddDone
    BY <2>11 DEF AddDone, End, UndoneInv, Undone, RefusalChangesNothing
  <2> QED BY <1>6, <2>1, <2>3, <2>4, <2>6, <2>7, <2>9, <2>10, <2>11 DEF AddSteps
<1> QED BY <1>3, <1>4, <1>5, <1>6 DEF PolicyNext

\* A command or an argument that is refused has changed nothing: a refusal stops
\* the whole transaction (nextbsd_check_jobs, and its place in pkg_add_common).
THEOREM RefusalStopsAll == PolicySpec => []RefusalChangesNothing
<1>1. PolicyInit => UndoneInv
  BY DEF PolicyInit, UndoneInv, Undone, RefusalChangesNothing
<1>2. UndoneInv => RefusalChangesNothing
  BY DEF UndoneInv
<1> QED BY <1>1, <1>2, TypeInit, TypeStep, UndoneStep, PTL DEF PolicySpec

----------------------------------------------------------------------------
\* What an open archive depends on and no longer looks for is registered, or is
\* the archive above it; what a job depends on is registered or a job.
Served(f, above) ==
    f.opened /\ ~(flags.missing /\ ~f.automatic) =>
        f.pkg.deps \subseteq f.deps \cup NamesOf(Registered) \cup above

Above(i) == IF i < Len(stack) THEN {stack[i + 1].pkg.name} ELSE {}

StackServed == \A i \in DOMAIN stack : Served(stack[i], Above(i))

JobsServed ==
    op \in {"check", "run"} =>
        \A p \in jobs : p.deps \subseteq NamesOf(Registered) \cup NamesOf(jobs)

NeedsInv == StackServed /\ JobsServed /\ DependenciesRegistered

LEMMA RegisterNames ==
    ASSUME NEW p, NEW by, Register(p, by)
    PROVE  NamesOf(Registered)' = NamesOf(Registered) \cup {p.name}
<1>1. PICK new : /\ new = [pkg |-> p, by |-> by, force |-> flags.force, missing |-> flags.missing]
                 /\ db' = {e \in db : e.pkg.name # p.name} \cup {new}
  BY DEF Register
<1>2. NamesOf(Registered) = {e.pkg.name : e \in db}
  BY DEF NamesOf, Registered
<1>3. NamesOf(Registered)' = {e.pkg.name : e \in db'}
  BY DEF NamesOf, Registered
<1> QED BY <1>1, <1>2, <1>3

\* Nothing that is installed goes away.
LEMMA NamesGrow ==
    ASSUME TypeInv, [PolicyNext]_vars
    PROVE  NamesOf(Registered) \subseteq NamesOf(Registered)'
<1>1. CASE UNCHANGED db
  BY <1>1 DEF Registered, NamesOf
<1>2. ASSUME NEW p, NEW by, Register(p, by)
      PROVE  NamesOf(Registered) \subseteq NamesOf(Registered)'
  BY <1>2, RegisterNames
<1> QED BY <1>1, <1>2, DbStep

\* Looking at one need of Top serves it, by what is registered or by the archive
\* that is put on it.
LEMMA ServedReplaced ==
    ASSUME TypeInv, StackServed, stack # <<>>, UNCHANGED <<flags, db>>,
           NEW f \in Frames(offer), f.pkg = Top.pkg,
           Served(f, {}), stack' = Replaced(f)
    PROVE  StackServed'
<1>1. PICK n \in Nat \ {0} : n = Len(stack) /\ DOMAIN stack = 1..n
  BY TopTypes DEF TypeInv
<1>2. /\ Len(stack') = n /\ DOMAIN stack' = 1..n
      /\ \A i \in 1..n : stack'[i] = IF i = n THEN f ELSE stack[i]
  <2>1. stack \in Seq(Frames(offer))
    BY DEF TypeInv
  <2>2. stack' \in Seq(Frames(offer)) /\ Len(stack') = n
        /\ \A i \in 1..n : stack'[i] = IF i = n THEN f ELSE stack[i]
    BY <1>1, <2>1, StackReplaced DEF Replaced
  <2> QED BY <2>2
<1>3. ASSUME NEW i \in 1..n PROVE Served(stack[i], Above(i))'
  <2>1. CASE i = n
    BY <1>1, <1>2, <2>1 DEF Served, Above, Registered, NamesOf
  <2>2. CASE i # n
    <3>1. i + 1 \in 1..n /\ i < n
      BY <2>2
    <3>2. stack'[i] = stack[i] /\ stack'[i + 1].pkg = stack[i + 1].pkg
      BY <1>1, <1>2, <2>2, <3>1 DEF Top
    <3>3. Served(stack[i], Above(i))
      BY <1>1 DEF StackServed
    <3> QED BY <1>1, <1>2, <3>1, <3>2, <3>3 DEF Served, Above, Registered, NamesOf
  <2> QED BY <2>1, <2>2
<1> QED BY <1>2, <1>3 DEF StackServed

LEMMA ServedPushed ==
    ASSUME TypeInv, StackServed, stack # <<>>, UNCHANGED <<flags, db>>,
           NEW f \in Frames(offer), f.pkg = Top.pkg, NEW q \in offer.files,
           Served(f, {q.name}), stack' = Append(Replaced(f), Frame(q, TRUE))
    PROVE  StackServed'
<1>1. PICK n \in Nat \ {0} : n = Len(stack) /\ DOMAIN stack = 1..n
  BY TopTypes DEF TypeInv
<1>2. /\ Len(stack') = n + 1 /\ DOMAIN stack' = 1..(n + 1)
      /\ \A i \in 1..n : stack'[i] = IF i = n THEN f ELSE stack[i]
      /\ stack'[n + 1] = Frame(q, TRUE)
  <2>1. stack \in Seq(Frames(offer))
    BY DEF TypeInv
  <2>2. PICK s : s = Replaced(f)
    OBVIOUS
  <2>3. s \in Seq(Frames(offer)) /\ Len(s) = n
        /\ \A i \in 1..n : s[i] = IF i = n THEN f ELSE stack[i]
    BY <1>1, <2>1, <2>2, StackReplaced DEF Replaced
  <2>4. Frame(q, TRUE) \in Frames(offer)
    BY DEF Frame, Frames
  <2>5. PICK t : t = stack'
    OBVIOUS
  <2>6. t \in Seq(Frames(offer)) /\ Len(t) = Len(s) + 1
        /\ (\A i \in 1..Len(s) : t[i] = s[i]) /\ t[Len(s) + 1] = Frame(q, TRUE)
    <3>1. PICK g \in Frames(offer) : g = Frame(q, TRUE)
      BY <2>4
    <3>2. t = Append(s, g)
      BY <2>2, <2>5, <3>1
    <3>3. t \in Seq(Frames(offer)) /\ Len(t) = Len(s) + 1
          /\ (\A i \in 1..Len(s) : t[i] = s[i]) /\ t[Len(s) + 1] = g
      BY <2>3, <3>2, StackPushed
    <3> QED BY <3>1, <3>3
  <2>7. Len(t) = n + 1 /\ DOMAIN t = 1..(n + 1) /\ t[n + 1] = Frame(q, TRUE)
    BY <2>3, <2>6
  <2>8. \A i \in 1..n : t[i] = IF i = n THEN f ELSE stack[i]
    BY <2>3, <2>6
  <2> QED BY <2>5, <2>7, <2>8
<1>3. ASSUME NEW i \in 1..(n + 1) PROVE Served(stack[i], Above(i))'
  <2>1. CASE i = n + 1
    BY <1>2, <2>1 DEF Served, Frame
  <2>2. CASE i = n
    <3>1. i < Len(stack') /\ stack'[i] = f /\ stack'[i + 1].pkg = q
      BY <1>2, <2>2 DEF Frame
    <3> QED BY <3>1 DEF Served, Above, Registered, NamesOf
  <2>3. CASE i < n
    <3>1. i \in 1..n /\ i + 1 \in 1..n /\ i < n + 1
      BY <2>3
    <3>2. PICK k : k = i + 1
      OBVIOUS
    <3>3. /\ stack'[i] = IF i = n THEN f ELSE stack[i]
          /\ stack'[k] = IF k = n THEN f ELSE stack[k]
      BY <1>2, <3>1, <3>2
    <3>4. stack'[i] = stack[i] /\ stack'[k].pkg = stack[k].pkg
      <4>1. i # n
        BY <2>3
      <4>2. k = n => f.pkg = stack[k].pkg
        BY <1>1 DEF Top
      <4> QED BY <3>3, <4>1, <4>2
    <3>5. Served(stack[i], Above(i))
      BY <1>1, <3>1 DEF StackServed
    <3>6. Above(i)' = Above(i)
      BY <1>1, <1>2, <2>3, <3>1, <3>2, <3>4 DEF Above
    <3> QED BY <3>4, <3>5, <3>6 DEF Served, Registered, NamesOf
  <2>4. i = n + 1 \/ i = n \/ i < n
    OBVIOUS
  <2> QED BY <2>1, <2>2, <2>3, <2>4
<1> QED BY <1>2, <1>3 DEF StackServed

\* Top is done when it is registered, and with it what the one below needed.
LEMMA ServedReturn ==
    ASSUME TypeInv, StackServed, stack # <<>>, UNCHANGED flags, stack' = Below,
           NamesOf(Registered) \cup {Top.pkg.name} \subseteq NamesOf(Registered)'
    PROVE  StackServed'
<1>1. PICK n \in Nat \ {0} : n = Len(stack) /\ DOMAIN stack = 1..n
  BY TopTypes DEF TypeInv
<1>2. /\ Len(stack') = n - 1 /\ DOMAIN stack' = 1..(n - 1)
      /\ \A i \in 1..(n - 1) : stack'[i] = stack[i]
  <2>1. stack \in Seq(Frames(offer))
    BY DEF TypeInv
  <2>2. stack' \in Seq(Frames(offer)) /\ Len(stack') = n - 1
        /\ \A i \in 1..(n - 1) : stack'[i] = stack[i]
    BY <1>1, <2>1, StackParts DEF Below
  <2> QED BY <2>2
<1>3. ASSUME NEW i \in 1..(n - 1) PROVE Served(stack[i], Above(i))'
  <2>1. i \in 1..n /\ i < n /\ stack'[i] = stack[i]
    BY <1>2
  <2>2. Served(stack[i], Above(i))
    BY <1>1, <2>1 DEF StackServed
  <2>3. CASE i = n - 1
    <3>1. Above(i) = {Top.pkg.name}
      BY <1>1, <2>1, <2>3 DEF Above, Top
    <3> QED BY <2>1, <2>2, <3>1 DEF Served
  <2>4. CASE i < n - 1
    <3>1. i + 1 \in 1..(n - 1)
      BY <2>4
    <3>2. Above(i)' = Above(i)
      BY <1>1, <1>2, <2>1, <2>4, <3>1 DEF Above
    <3> QED BY <2>1, <2>2, <3>2 DEF Served
  <2> QED BY <2>3, <2>4
<1> QED BY <1>2, <1>3 DEF StackServed

\* Every step of add serves what it leaves on the stack.
LEMMA StackServedStep ==
    ASSUME TypeInv, StackServed, [PolicyNext]_vars
    PROVE  StackServed'
<1> USE DEF vars, pvars, cvars, avars, ivars
<1>1. op # "add" => stack = <<>> /\ DOMAIN stack = {}
  BY DEF TypeInv, PolicyTypeOK
<1>2. NamesOf(Registered) \subseteq NamesOf(Registered)'
  BY NamesGrow
<1>3. CASE stack' = <<>>
  BY <1>3 DEF StackServed
<1>4. CASE UNCHANGED <<stack, flags>>
  <2>1. \A f, above : Served(f, above) => Served(f, above)'
    BY <1>2, <1>4 DEF Served
  <2>2. \A i : Above(i)' = Above(i)
    BY <1>4 DEF Above
  <2>3. SUFFICES ASSUME NEW i \in DOMAIN stack PROVE Served(stack[i], Above(i))'
    BY <1>4 DEF StackServed
  <2>4. Served(stack[i], Above(i))
    BY DEF StackServed
  <2> QED BY <1>2, <1>4, <2>2, <2>4 DEF Served
<1>5. CASE NextArgument
  <2>1. DOMAIN stack' = {1} /\ ~stack'[1].opened
    BY <1>5 DEF NextArgument, Frame
  <2> QED BY <2>1 DEF StackServed, Served
<1>6. CASE AlreadyInstalled
  <2>1. stack # <<>> /\ Return /\ UNCHANGED <<db, flags>> /\ Current
    BY <1>6 DEF AlreadyInstalled, Admitted, Opening, Return, Adding
  <2>2. Top.pkg.name \in NamesOf(Registered)
    BY <2>1 DEF Current, NamesOf
  <2> QED BY <1>2, <2>1, <2>2, ServedReturn DEF Return
<1>7. CASE AddPackage
  <2>1. PICK by : (Register(Top.pkg, by) /\ Return) \/ Unwind("failed")
    BY <1>7 DEF AddPackage
  <2>2. CASE Unwind("failed")
    BY <1>3, <2>2 DEF Unwind
  <2>3. CASE Register(Top.pkg, by) /\ Return
    <3>1. NamesOf(Registered)' = NamesOf(Registered) \cup {Top.pkg.name}
      BY <2>3, RegisterNames
    <3> QED BY <1>7, <2>3, <3>1, ServedReturn DEF AddPackage, Return, Adding
  <2> QED BY <2>1, <2>2, <2>3
<1>8. CASE OpenArchive
  <2>1. stack # <<>>
    BY <1>8 DEF OpenArchive, Admitted, Opening
  <2>2. PICK f : f = [Top EXCEPT !.opened = TRUE, !.deps = Top.pkg.deps,
                                 !.requires = Top.pkg.requires]
    OBVIOUS
  <2>3. f \in Frames(offer) /\ f.pkg = Top.pkg /\ f.deps = Top.pkg.deps
    BY <2>1, <2>2, TopTypes DEF Frames
  <2>4. stack' = Replaced(f) /\ UNCHANGED <<flags, db>>
    BY <1>8, <2>2 DEF OpenArchive, GoOn, Adding
  <2>5. Served(f, {})
    BY <2>3 DEF Served
  <2> QED BY <2>1, <2>3, <2>4, <2>5, ServedReplaced
<1>9. ASSUME stack # <<>>
      PROVE  Served(Top, {})
  <2>1. PICK n \in Nat \ {0} : n = Len(stack) /\ n \in DOMAIN stack
    BY <1>9, TopTypes
  <2>2. Served(stack[n], Above(n))
    BY <2>1 DEF StackServed
  <2>3. Above(n) = {}
    BY <2>1 DEF Above
  <2> QED BY <2>1, <2>2, <2>3 DEF Top
<1>10. CASE NeedDependency
  <2>1. PICK name \in Top.deps : Need(name \in NamesOf(Registered),
            {q \in offer.files : q.name = name}, [Top EXCEPT !.deps = @ \ {name}])
    BY <1>10 DEF NeedDependency
  <2>2. stack # <<>> /\ Top.opened
    BY <1>10 DEF NeedDependency
  <2>3. PICK f : f = [Top EXCEPT !.deps = @ \ {name}]
    OBVIOUS
  <2>4. /\ f \in Frames(offer) /\ f.pkg = Top.pkg /\ f.opened /\ f.automatic = Top.automatic
        /\ f.deps = Top.deps \ {name}
    BY <2>2, <2>3, TopTypes DEF Frames
  <2>5. Served(f, {name})
    BY <1>9, <2>2, <2>4 DEF Served
  <2>6. Need(name \in NamesOf(Registered), {q \in offer.files : q.name = name}, f)
    BY <2>1, <2>3
  <2>7. CASE (name \in NamesOf(Registered) \/ Lenient) /\ GoOn(Replaced(f))
    <3>1. Served(f, {})
      BY <2>4, <2>5, <2>7 DEF Served, Lenient
    <3> QED BY <2>2, <2>4, <2>7, <3>1, ServedReplaced DEF GoOn, Adding
  <2>8. CASE \E q \in {q \in offer.files : q.name = name} :
                 GoOn(Append(Replaced(f), Frame(q, TRUE)))
    <3>1. PICK q \in offer.files :
              q.name = name /\ GoOn(Append(Replaced(f), Frame(q, TRUE)))
      BY <2>8
    <3> QED BY <2>2, <2>4, <2>5, <3>1, ServedPushed DEF GoOn, Adding
  <2>9. CASE Unwind("failed")
    BY <1>3, <2>9 DEF Unwind
  <2> QED BY <2>6, <2>7, <2>8, <2>9 DEF Need
<1>11. CASE NeedFeature
  <2>1. PICK feature \in Top.requires : Need(feature \in Provided(Registered),
            {q \in offer.files : feature \in q.provides},
            [Top EXCEPT !.requires = @ \ {feature}])
    BY <1>11 DEF NeedFeature
  <2>2. stack # <<>> /\ Top.opened
    BY <1>11 DEF NeedFeature
  <2>3. PICK f : f = [Top EXCEPT !.requires = @ \ {feature}]
    OBVIOUS
  <2>4. /\ f \in Frames(offer) /\ f.pkg = Top.pkg /\ f.opened /\ f.automatic = Top.automatic
        /\ f.deps = Top.deps
    BY <2>2, <2>3, TopTypes DEF Frames
  <2>5. \A above : Served(f, above)
    BY <1>9, <2>2, <2>4 DEF Served
  <2>6. Need(feature \in Provided(Registered), {q \in offer.files : feature \in q.provides}, f)
    BY <2>1, <2>3
  <2>7. CASE GoOn(Replaced(f))
    BY <2>2, <2>4, <2>5, <2>7, ServedReplaced DEF GoOn, Adding
  <2>8. CASE \E q \in {q \in offer.files : feature \in q.provides} :
                 GoOn(Append(Replaced(f), Frame(q, TRUE)))
    <3>1. PICK q \in offer.files : GoOn(Append(Replaced(f), Frame(q, TRUE)))
      BY <2>8
    <3> QED BY <2>2, <2>4, <2>5, <3>1, ServedPushed DEF GoOn, Adding
  <2>9. CASE Unwind("failed")
    BY <1>3, <2>9 DEF Unwind
  <2> QED BY <2>6, <2>7, <2>8, <2>9 DEF Need
<1>12. CASE CannotOpen \/ Refused \/ NotAdmitted \/ IsLocked \/ AddDone
  BY <1>3, <1>12 DEF CannotOpen, Refused, NotAdmitted, IsLocked, AddDone, Unwind, End
<1>13. CASE InstallSteps
  BY <1>3, <1>4, <1>13
  DEF InstallSteps, FindUpgrade, ProcessDeps, ProcessRequires, LookUp, Collecting, Solve, DryRun,
      Refuse, Schedule, RunJob, JobsDone, End
<1>14. CASE Configure \/ Commands
  BY <1>1, <1>3, <1>4, <1>14 DEF Configure, Commands, Update, Install, Add, Begin
<1>15. CASE (BuildNext /\ UNCHANGED pvars) \/ UNCHANGED vars
  BY <1>4, <1>15
<1> QED BY <1>5, <1>6, <1>7, <1>8, <1>10, <1>11, <1>12, <1>13, <1>14, <1>15
        DEF PolicyNext, AddSteps

LEMMA JobsServedStep ==
    ASSUME TypeInv, JobsServed, [PolicyNext]_vars
    PROVE  JobsServed'
<1> USE DEF vars, pvars, cvars, avars, ivars
<1>1. NamesOf(Registered) \subseteq NamesOf(Registered)'
  BY NamesGrow
<1>2. CASE op' \notin {"check", "run"}
  BY <1>2 DEF JobsServed
<1>3. CASE op \in {"check", "run"} /\ UNCHANGED jobs
  BY <1>1, <1>3 DEF JobsServed, NamesOf
<1>4. CASE Solve
  <2>1. CASE End("failed")
    BY <1>2, <2>1 DEF End
  <2>2. CASE jobs' \in Solutions /\ UNCHANGED db
    <3>1. \A p \in jobs' : p.deps \subseteq NamesOf(After(jobs'))
      BY <2>2 DEF Solutions
    <3>2. NamesOf(After(jobs')) \subseteq NamesOf(Registered) \cup NamesOf(jobs')
      BY DEF After, NamesOf
    <3> QED BY <1>1, <3>1, <3>2 DEF JobsServed, NamesOf
  <2> QED BY <1>4, <2>1, <2>2 DEF Solve
<1>5. ASSUME NEW p \in jobs, RunJob(p)
      PROVE  JobsServed'
  <2>1. CASE End("failed") \/ End("refused")
    BY <1>2, <2>1 DEF End
  <2>2. CASE Register(p, "job") /\ jobs' = jobs \ {p}
    <3>1. NamesOf(Registered)' = NamesOf(Registered) \cup {p.name}
      BY <2>2, RegisterNames
    <3>2. NamesOf(jobs) \subseteq NamesOf(jobs') \cup {p.name}
      BY <2>2 DEF NamesOf
    <3>3. \A q \in jobs : q.deps \subseteq NamesOf(Registered) \cup NamesOf(jobs)
      BY <1>5 DEF RunJob, JobsServed
    <3>4. \A q \in jobs' : q.deps \subseteq NamesOf(Registered)' \cup NamesOf(jobs')
      BY <2>2, <3>1, <3>2, <3>3
    <3>5. NamesOf(jobs)' = NamesOf(jobs')
      BY DEF NamesOf
    <3> QED BY <3>4, <3>5 DEF JobsServed
  <2> QED BY <1>5, <2>1, <2>2 DEF RunJob
<1>6. CASE InstallSteps /\ ~Solve /\ ~(\E p \in jobs : RunJob(p))
  BY <1>2, <1>3, <1>6
  DEF InstallSteps, FindUpgrade, ProcessDeps, ProcessRequires, LookUp, Collecting, DryRun,
      Refuse, Schedule, JobsDone, End
<1>7. CASE Configure \/ Commands
  BY <1>2, <1>7 DEF Configure, Commands, Update, Install, Add, Begin
<1>8. CASE AddSteps
  <2>1. op = "add"
    BY <1>8 DEF AddSteps, NextArgument, CannotOpen, Refused, NotAdmitted, AlreadyInstalled,
       IsLocked, OpenArchive, NeedDependency, NeedFeature, AddPackage, AddDone, Admitted, Opening
  <2>2. op' \in {"add", "idle"}
    BY <1>8, <2>1 DEF AddSteps, NextArgument, CannotOpen, Refused, NotAdmitted, AlreadyInstalled,
       IsLocked, OpenArchive, NeedDependency, NeedFeature, Need, AddPackage, AddDone, Adding,
       GoOn, Unwind, Return, End
  <2> QED BY <1>2, <2>2
<1>9. CASE (BuildNext /\ UNCHANGED pvars) \/ UNCHANGED vars
  BY <1>2, <1>3, <1>9
<1> QED BY <1>4, <1>5, <1>6, <1>7, <1>8, <1>9 DEF PolicyNext, InstallSteps

\* What is registered was served before: a job by those before it, an archive by
\* what was added for it.
LEMMA DependenciesStep ==
    ASSUME TypeInv, NeedsInv, [PolicyNext]_vars
    PROVE  DependenciesRegistered'
<1>1. NamesOf(Registered) \subseteq NamesOf(Registered)'
  BY NamesGrow
<1>2. CASE UNCHANGED db
  BY <1>1, <1>2 DEF NeedsInv, DependenciesRegistered
<1>3. ASSUME NEW p, NEW by, Register(p, by), UNCHANGED flags,
             (by = "add" /\ flags.missing) \/ p.deps \subseteq NamesOf(Registered) \cup {p.name}
      PROVE  DependenciesRegistered'
  <2>1. NamesOf(Registered)' = NamesOf(Registered) \cup {p.name}
    BY <1>3, RegisterNames
  <2>2. \A e \in db : (e.by = "add" /\ e.missing) \/ e.pkg.deps \subseteq NamesOf(Registered)
    BY DEF NeedsInv, DependenciesRegistered
  <2>3. \A e \in db' : \/ e \in db
                       \/ e.pkg = p /\ e.by = by /\ e.missing = flags.missing
    BY <1>3 DEF Register
  <2>4. \A e \in db' : (e.by = "add" /\ e.missing) \/ e.pkg.deps \subseteq NamesOf(Registered)'
    BY <1>3, <2>1, <2>2, <2>3
  <2> QED BY <2>4 DEF DependenciesRegistered
<1>4. ASSUME NEW p \in jobs, op = "run", p \in Ready
      PROVE  p.deps \subseteq NamesOf(Registered) \cup {p.name}
  <2>1. p.deps \subseteq NamesOf(Registered) \cup NamesOf(jobs)
    BY <1>4 DEF NeedsInv, JobsServed
  <2>2. p.deps \cap NamesOf(jobs \ {p}) = {}
    BY <1>4 DEF Ready
  <2>3. NamesOf(jobs) \subseteq NamesOf(jobs \ {p}) \cup {p.name}
    BY DEF NamesOf
  <2> QED BY <2>1, <2>2, <2>3
<1>5. ASSUME stack # <<>>, Top.opened, Top.deps = {}
      PROVE  (~Top.automatic /\ flags.missing) \/ Top.pkg.deps \subseteq NamesOf(Registered)
  <2>1. PICK n \in Nat \ {0} : n = Len(stack) /\ n \in DOMAIN stack
    BY <1>5, TopTypes
  <2>2. Served(stack[n], Above(n))
    BY <2>1 DEF NeedsInv, StackServed
  <2>3. Above(n) = {} /\ Top = stack[n]
    BY <2>1 DEF Above, Top
  <2> QED BY <1>5, <2>2, <2>3 DEF Served
<1>6. ASSUME stack # <<>>, Top.opened, Top.deps = {}, UNCHANGED flags,
             Register(Top.pkg, IF Top.automatic THEN "need" ELSE "add")
      PROVE  DependenciesRegistered'
  <2>1. PICK by : by = (IF Top.automatic THEN "need" ELSE "add") /\ Register(Top.pkg, by)
    BY <1>6
  <2>2. (by = "add" /\ flags.missing) \/ Top.pkg.deps \subseteq NamesOf(Registered)
    <3>1. Top.automatic \in BOOLEAN
      BY <1>6, TopTypes DEF Frames
    <3> QED BY <1>5, <1>6, <2>1, <3>1
  <2> QED BY <1>3, <1>6, <2>1, <2>2
<1>7. \/ UNCHANGED db
      \/ /\ UNCHANGED flags
         /\ \E p \in jobs : Register(p, "job") /\ op = "run" /\ p \in Ready
      \/ /\ UNCHANGED flags /\ stack # <<>> /\ Top.opened /\ Top.deps = {}
         /\ Register(Top.pkg, IF Top.automatic THEN "need" ELSE "add")
  BY DbStep
<1> QED BY <1>2, <1>3, <1>4, <1>6, <1>7

\* In whatever order and nesting jobs and archives are installed, and wherever it
\* stops, what a package depends on is registered before it is, but for -M
\* (pkg_add_check_pkg_archive and the order of pkg_jobs_execute).
THEOREM DependenciesComeFirst == PolicySpec => []DependenciesRegistered
<1>1. PolicyInit => NeedsInv
  <2> SUFFICES ASSUME PolicyInit PROVE NeedsInv
    OBVIOUS
  <2>1. DOMAIN stack = {} /\ op = "off"
    BY DEF PolicyInit
  <2>2. /\ \A e \in db : e.pkg \in offer.base
        /\ \A p \in offer.base : \E e \in db : e.pkg = p
    <3>1. db = {[pkg |-> p, by |-> "base", force |-> FALSE, missing |-> FALSE] : p \in offer.base}
      BY DEF PolicyInit
    <3>2. ASSUME NEW p \in offer.base PROVE \E e \in db : e.pkg = p
      <4>1. PICK e : e = [pkg |-> p, by |-> "base", force |-> FALSE, missing |-> FALSE]
        OBVIOUS
      <4> QED BY <3>1, <4>1
    <3> QED BY <3>1, <3>2
  <2>3. \A p \in offer.base : p.deps \subseteq NamesOf(offer.base)
    BY PkgPolicyAssumption DEF PolicyInit
  <2>4. NamesOf(offer.base) \subseteq NamesOf(Registered)
    BY <2>2 DEF NamesOf, Registered
  <2>5. DependenciesRegistered
    BY <2>2, <2>3, <2>4 DEF DependenciesRegistered
  <2> QED BY <2>1, <2>5 DEF NeedsInv, StackServed, JobsServed
<1>2. TypeInv /\ NeedsInv /\ [PolicyNext]_vars => NeedsInv'
  BY StackServedStep, JobsServedStep, DependenciesStep DEF NeedsInv
<1>3. NeedsInv => DependenciesRegistered
  BY DEF NeedsInv
<1> QED BY <1>1, <1>2, <1>3, TypeInit, TypeStep, PTL DEF PolicySpec

----------------------------------------------------------------------------
\* What nextbsd_abi_from_freebsd makes of a FreeBSD note does not depend on the
\* version in it: all that is left of the note is the architecture.
LEMMA VersionOverwritten ==
    ASSUME NEW note \in Abis, note.os = "FreeBSD", NEW osversion \in Nat, NEW s,
           nextbsd_release(s) # None
    PROVE  LET other == pkg_abi_set_freebsd_osversion(note, osversion)
           IN  /\ other \in Abis
               /\ nextbsd_abi_from_freebsd(other, s) = nextbsd_abi_from_freebsd(note, s)
<1> DEFINE major == osversion \div 100000
           minor == (osversion \div 1000) % 100
           patch == osversion % 1000
           other == [note EXCEPT !.major = major, !.minor = minor, !.patch = patch]
           number == nextbsd_release(s)[1] * 100000 + nextbsd_release(s)[2] * 1000
           x == number \div 100000
           y == (number \div 1000) % 100
           z == number % 1000
<1>1. major \in Nat /\ minor \in Nat /\ patch \in Nat
  BY SMT
<1>2. pkg_abi_set_freebsd_osversion(note, osversion) = other
  BY DEF pkg_abi_set_freebsd_osversion
<1>3. ASSUME NEW a, a.os = "FreeBSD"
      PROVE  nextbsd_abi_from_freebsd(a, s)
             = [[a EXCEPT !.os = "NextBSD"] EXCEPT !.major = x, !.minor = y, !.patch = z]
  BY <1>3, SMT DEF nextbsd_abi_from_freebsd, pkg_abi_set_freebsd_osversion
<1> HIDE DEF major, minor, patch, x, y, z
<1>4. other \in Abis /\ other.os = "FreeBSD" /\ other.arch = note.arch
  BY <1>1 DEF Abis
<1> HIDE DEF other
<1>5. [[other EXCEPT !.os = "NextBSD"] EXCEPT !.major = x, !.minor = y, !.patch = z]
      = [[note EXCEPT !.os = "NextBSD"] EXCEPT !.major = x, !.minor = y, !.patch = z]
  BY <1>4, Zenon DEF Abis
<1>6. nextbsd_abi_from_freebsd(other, s) = nextbsd_abi_from_freebsd(note, s)
  BY <1>3, <1>4, <1>5, Zenon
<1> QED BY <1>2, <1>4, <1>6

\* The ABI is what Configure found, and the system stays the same.
AbiInv == sys \in Systems /\ (abi # None => abi = config_init_abi(sys))

\* config_init_abi is called by pkg_ini alone.
LEMMA AbiInvariant == PolicySpec => []AbiInv
<1>1. PolicyInit => AbiInv
  BY DEF PolicyInit, AbiInv
<1>2. AbiInv /\ [PolicyNext]_vars => AbiInv'
  <2> SUFFICES ASSUME AbiInv, [PolicyNext]_vars PROVE AbiInv'
    OBVIOUS
  <2>1. CASE Configure
    BY <2>1 DEF Configure, AbiInv
  <2> USE DEF pvars, cvars, avars, ivars
  <2>2. CASE Commands
    BY <2>2 DEF Commands, Update, Install, Add, Begin, AbiInv
  <2>3. CASE InstallSteps
    BY <2>3
    DEF InstallSteps, FindUpgrade, ProcessDeps, ProcessRequires, LookUp, Collecting, Solve, DryRun,
        Refuse, Schedule, RunJob, JobsDone, End, AbiInv
  <2>4. CASE AddSteps
    <3>1. UNCHANGED <<sys, abi>>
      BY <2>4
      DEF AddSteps, NextArgument, CannotOpen, Refused, NotAdmitted, AlreadyInstalled, IsLocked,
          OpenArchive, NeedDependency, NeedFeature, Need, AddPackage, AddDone, Adding, GoOn,
          Return, Unwind, End
    <3> QED BY <3>1 DEF AbiInv
  <2>5. CASE UNCHANGED pvars
    BY <2>5 DEF AbiInv
  <2> QED BY <2>1, <2>2, <2>3, <2>4, <2>5 DEF PolicyNext, vars
<1> QED BY <1>1, <1>2, PTL DEF PolicySpec

\* On NextBSD the ABI that pkg_ini finds is that of the kernel, whatever version
\* the note of the executable has (nextbsd_abi_from_freebsd of patch 0005).
THEOREM AbiIsTheKernels == PolicySpec => []AbiIgnoresNote
<1>1. ASSUME AbiInv, abi # None, nextbsd_release(sys) # None, sys.ABI = None,
             sys.note.os = "FreeBSD", NEW osversion \in Nat
      PROVE  config_init_abi(WithVersion(sys, osversion)) = abi
  <2> DEFINE note == pkg_abi_set_freebsd_osversion(sys.note, osversion)
             t == [sys EXCEPT !.note = note]
  <2>1. abi = pkg_abi_from_file(sys) /\ sys.note # None
    BY <1>1 DEF AbiInv, config_init_abi, pkg_abi_from_file
  <2>2. abi = nextbsd_abi_from_freebsd(sys.note, sys)
    BY <2>1 DEF pkg_abi_from_file
  <2>3. sys.note \in Abis
    BY <1>1, <2>1, SystemsAssumption DEF AbiInv
  <2>4. note \in Abis /\ nextbsd_abi_from_freebsd(note, sys) = abi
    BY <1>1, <2>2, <2>3, VersionOverwritten
  <2> HIDE DEF note
  <2>5. /\ t.note = note /\ t.ABI = None
        /\ t.ostype = sys.ostype /\ t.osrelease = sys.osrelease
        /\ t.sysname = sys.sysname /\ t.release = sys.release
    BY <1>1, SystemsAssumption DEF AbiInv
  <2> HIDE DEF t
  <2>6. nextbsd_release(t) = nextbsd_release(sys)
    BY <2>5 DEF nextbsd_release
  <2>7. nextbsd_abi_from_freebsd(note, t) = nextbsd_abi_from_freebsd(note, sys)
    BY <2>6 DEF nextbsd_abi_from_freebsd
  <2>8. config_init_abi(t) = nextbsd_abi_from_freebsd(note, t)
    BY <2>4, <2>5, SystemsAssumption DEF config_init_abi, pkg_abi_from_file
  <2> QED BY <2>4, <2>7, <2>8 DEF t, note, WithVersion
<1>2. AbiInv => AbiIgnoresNote
  <2>1. Osversions \subseteq Nat
    BY SMT DEF Osversions
  <2> QED BY <1>1, <2>1 DEF AbiIgnoresNote
<1> QED BY <1>2, AbiInvariant, PTL

----------------------------------------------------------------------------
\* What is made of a note keeps its architecture.
LEMMA ArchKept ==
    ASSUME NEW note \in Abis, NEW s
    PROVE  nextbsd_abi_from_freebsd(note, s).arch = note.arch
  BY DEF nextbsd_abi_from_freebsd, pkg_abi_set_freebsd_osversion, Abis

\* An ABI of NextBSD is found in a note only.
LEMMA NextbsdArch ==
    ASSUME BuiltForNextbsd, AbiInv, abi # None, abi.os = "NextBSD"
    PROVE  abi.arch \in BuiltArches
<1>1. CASE sys.ABI = None
  <2>1. sys.note # None /\ abi = nextbsd_abi_from_freebsd(sys.note, sys)
    BY <1>1 DEF AbiInv, config_init_abi, pkg_abi_from_file
  <2>2. sys.note \in Abis /\ sys.note.arch \in BuiltArches
    BY <2>1, SystemsAssumption DEF AbiInv, BuiltForNextbsd
  <2> QED BY <2>1, <2>2, ArchKept
<1>2. CASE sys.ABI # None
  <2> DEFINE string == pkg_abi_from_string(sys.ABI)
  <2>1. string # None => string.os = sys.ABI[1] /\ "os" \in DOMAIN string
    BY DEF pkg_abi_from_string
  <2> HIDE DEF string
  <2>2. string # None
        /\ (abi = string \/ abi = pkg_abi_set_freebsd_osversion(string, sys.OSVERSION))
    BY <1>2 DEF AbiInv, config_init_abi, string
  <2>3. pkg_abi_set_freebsd_osversion(string, sys.OSVERSION).os = string.os
    BY <2>1, <2>2 DEF pkg_abi_set_freebsd_osversion
  <2> QED BY <1>2, <2>1, <2>2, <2>3 DEF AbiInv, BuiltForNextbsd
<1> QED BY <1>1, <1>2

\* The urls that nextbsd-check-machine expects.
LEMMA ExpectedUrls ==
    {<<"continuous-", "amd64">>, <<"continuous-", "arm64">>} \subseteq {e.url : e \in ToSet(expected)}
<1>1. expected[1].url = <<"continuous-", "amd64">> /\ expected[2].url = <<"continuous-", "arm64">>
  BY DEF expected
<1>2. 1 \in DOMAIN expected /\ 2 \in DOMAIN expected
  BY DEF expected
<1> QED BY <1>1, <1>2 DEF ToSet

\* On every NextBSD system the ${MACHINE} of NextBSD.conf becomes what the build
\* has checked with ABIs of FreeBSD (patch 0003, config_parser_vars_register), as
\* long as pkg takes the ABI from an executable NextBSD is built for.
THEOREM UrlsArePublished == ASSUME BuiltForNextbsd PROVE PolicySpec => []UrlIsPublished
<1>1. AbiInv => UrlIsPublished
  <2> SUFFICES ASSUME AbiInv, abi # None, abi.os = "NextBSD"
               PROVE  Expand(conf_url, config_parser_vars_register(abi))
                      \in {e.url : e \in ToSet(expected)}
    BY DEF UrlIsPublished
  <2>1. abi.arch \in BuiltArches
    BY BuiltForNextbsd, NextbsdArch
  <2>2. pkg_arch_to_string("NextBSD", "AMD64") = "amd64"
        /\ pkg_arch_to_string("NextBSD", "aarch64") = "aarch64"
    BY DEF pkg_arch_to_string, os_table
  <2>3. config_parser_vars_register(abi).MACHINE
        = nextbsd_machine(pkg_arch_to_string("NextBSD", abi.arch))
    BY DEF config_parser_vars_register
  <2>4. config_parser_vars_register(abi).MACHINE \in {"amd64", "arm64"}
    BY <2>1, <2>2, <2>3, MachineOf DEF BuiltArches
  <2> QED BY <2>4, UrlOfMachine, ExpectedUrls
<1> QED BY <1>1, AbiInvariant, PTL

----------------------------------------------------------------------------
\* Neither nextbsd-check-sip nor nextbsd-check-machine fails the build: the headers
\* of the patches say of every path and ABI in their tables what the tables say.
THEOREM HostChecksNeverFail == PolicySpec => []HostChecksPass
<1>1. PolicyInit => BuildInv
  BY BuildInvInit DEF PolicyInit
<1>2. BuildInv /\ [PolicyNext]_vars => BuildInv'
  <2> SUFFICES ASSUME [PolicyNext]_vars PROVE [BuildNext]_bvars
    BY BuildInvStep
  <2> QED BY DEF PolicyNext, vars, bvars
<1> QED BY <1>1, <1>2, BuildInvIsEnough, PTL DEF PolicySpec
=============================================================================
