----------------------------- MODULE PkgPolicy ------------------------------
(***************************************************************************)
(* What NextBSD's pkg lets onto a system: the patches 0001 and 0004 in the  *)
(* commands that install packages.                                          *)
(*                                                                         *)
(* pkg is built (NextbsdBuild), finds the ABI of its system (NextbsdAbi),   *)
(* and runs commands: update reads a repository's catalogue, install and    *)
(* upgrade collect candidates into the universe, let the solver choose and  *)
(* execute its jobs, add installs package files and the packages they need  *)
(* one inside the other.                                                    *)
(*                                                                         *)
(* Left to other modules: the locks (PkgLock: one command writes at a       *)
(* time), the clauses (PkgSolve: here the solver may choose whatever meets  *)
(* the needs), order, splits and crashes (PkgSchedule, PkgExecute).         *)
(***************************************************************************)
EXTENDS NextbsdBuild, FiniteSets

CONSTANTS
    Paths,          \* the paths packages install
    Repos,          \* the repositories configured
    Offers,         \* what repositories and files hold and what is installed
    Systems,        \* what pkg_ini finds
    Locked,         \* names of the packages pkg lock has locked
    MaxOpen,        \* how many archives a process can have open
    MaxPatterns,    \* a bound: names and files of one command
    MaxCommands     \* a bound: commands that are run

NextbsdRepo == "NextBSD"
PkgNames == {"pkg", "pkg-devel"}

\* A package is [name, version, source, stamped, paths, abi, osversion, deps,
\* requires, provides]: source is its repository or "file", and stamped whether
\* it has the annotation org.nextbsd.origin=NextBSD.
Packages(offer) == offer.remote \cup offer.files \cup offer.base
NamesOf(S) == {p.name : p \in S}

\* PathsStayInside is what the rule is for: the file system finds every path it
\* allows under a prefix it allows.
ASSUME PathsStayInside ==
    \A path \in Paths : nextbsd_sip_path_allowed(path) => Inside(path)

\* What uname, sysctl, the note of the executable and the settings say.
Abis == [os : DOMAIN os_table, major : Nat, minor : Nat, patch : Nat,
         arch : Arches \cup {"AMD64", "*"}]

ASSUME SystemsAssumption ==
    /\ None \notin Abis
    /\ \A s \in Systems :
           /\ DOMAIN s = {"note", "ostype", "osrelease", "sysname", "release", "ABI", "OSVERSION"}
           /\ s.note \in Abis \cup {None}

\* The architectures NextBSD is built for (TA of build-contrib.sh).
BuiltArches == {"AMD64", "aarch64"}

\* Every executable is of one of those, and no setting names an ABI of NextBSD: not
\* assumed of every system, but what a theorem on the url of NextBSD.conf is for.
BuiltForNextbsd ==
    \A s \in Systems :
        /\ s.note # None => s.note.arch \in BuiltArches
        /\ s.ABI # None => s.ABI[1] # "NextBSD"

ASSUME PkgPolicyAssumption ==
    /\ "file" \notin Repos
    /\ MaxOpen \in Nat \ {0} /\ MaxPatterns \in Nat /\ MaxCommands \in Nat
    /\ \A offer \in Offers :
           /\ \A p \in offer.remote : p.source \in Repos
           /\ \A p \in offer.files : p.source = "file"
           /\ \A p \in offer.base :
                  p.source = NextbsdRepo /\ p.deps \subseteq NamesOf(offer.base)
           /\ \A p \in Packages(offer) : p.paths \subseteq Paths

VARIABLES
    sys, abi,       \* the system and the ABI that was found for it
    offer,          \* one of Offers
    catalogue,      \* the packages of the repositories' local copies
    db,             \* table packages, with how each got there
    op,             \* the command that runs and where it is
    flags,          \* add: -f and -M, and the user's answer to its question
    args,           \* add: files not begun
    stack,          \* add: the archives open, one for the sake of the other
    names,          \* install: the names asked for
    looked,         \* install: what was looked up
    universe,       \* install: candidates
    jobs,           \* install: chosen, not yet installed
    verdict,        \* what became of the command, or of its last argument
    before,         \* history: db when that began
    count           \* of commands

cvars == <<sys, abi, offer>>
avars == <<flags, args, stack>>
ivars == <<names, looked, universe, jobs>>
pvars == <<cvars, avars, ivars, catalogue, db, op, verdict, before, count>>
vars == <<bvars, pvars>>

----------------------------------------------------------------------------
\* The rules.

nextbsd_foreign_pkg(p) ==
    p.source # "file" /\ p.name \in PkgNames /\ p.source # NextbsdRepo

nextbsd_from_repo(p) == p.source # "file"

nextbsd_trusted(p) == IF nextbsd_from_repo(p) THEN p.source = NextbsdRepo ELSE p.stamped

nextbsd_check_install(p) ==
    \/ nextbsd_trusted(p)
    \/ /\ nextbsd_from_repo(p) \/ p.name \notin PkgNames
       /\ \A path \in p.paths : nextbsd_sip_path_allowed(path)

\* Faulty variant: package files are left to pkg_add_common.
CheckJobsOfRepos(J) == \A p \in J : nextbsd_from_repo(p) => nextbsd_check_install(p)

nextbsd_check_jobs(J) == \A p \in J : nextbsd_check_install(p)

AbiOK(p) == is_valid_abi(p.abi, pkg_abi_to_string(abi))
OsVersionOK(p, answer) == is_valid_os_version(p.osversion, abi, answer)

Registered == {e.pkg : e \in db}
Provided(S) == UNION {p.provides : p \in S}

\* pkgdb_register_pkg: the package and what it was let in by.
Register(p, by) ==
    db' = {e \in db : e.pkg.name # p.name}
          \cup {[pkg |-> p, by |-> by, force |-> flags.force, missing |-> flags.missing]}

----------------------------------------------------------------------------
\* Commands begin and end.

NoFlags == [force |-> FALSE, missing |-> FALSE, answer |-> "no"]
Answers == {"yes", "no", "ignore"}

\* pkg_ini; without an ABI it fails, and every command with it.
Configure ==
    /\ build = "staged" /\ op = "off"
    /\ abi' = config_init_abi(sys)
    /\ op' = IF abi' = None THEN "failed" ELSE "idle"
    /\ UNCHANGED <<sys, offer, avars, ivars, catalogue, db, verdict, before, count>>

Begin(command) ==
    /\ op = "idle" /\ count < MaxCommands
    /\ count' = count + 1
    /\ op' = command
    /\ before' = db
    /\ verdict' = "none"
    /\ UNCHANGED <<cvars, db>>

End(result) ==
    /\ op' = "idle"
    /\ verdict' = result
    /\ flags' = NoFlags /\ args' = <<>> /\ stack' = <<>>
    /\ names' = {} /\ looked' = {} /\ universe' = {} /\ jobs' = {}
    /\ UNCHANGED <<cvars, catalogue, db, before, count>>

\* pkg update of some repositories.  The local copy is left alone when it is
\* current.  When an entry has a wrong ABI or OS version, or anything else goes
\* wrong, it is removed; an update that the user cancels commits what it has read
\* until then, in whatever order the entries come.
Update(repos, answer) ==
    /\ Begin("idle")
    /\ \E current \in SUBSET repos :
           LET fitting == {p \in offer.remote : /\ p.source \in repos \ current
                                                /\ AbiOK(p) /\ OsVersionOK(p, answer)}
           IN  \E read \in SUBSET fitting :
                   catalogue' = {p \in catalogue : p.source \notin repos \ current} \cup read
    /\ UNCHANGED <<avars, ivars>>

----------------------------------------------------------------------------
\* pkg install and pkg upgrade.

\* pkg install takes names and files, pkg upgrade the names that are installed.
Install(asked, files) ==
    /\ Begin("collect")
    /\ names' = asked
    /\ universe' = files
    /\ UNCHANGED <<avars, looked, jobs, catalogue>>

pkg_jobs_universe_get_upgrade_candidates(name) ==
    {p \in catalogue : p.name = name /\ ~nextbsd_foreign_pkg(p)}

\* Faulty variant: dependencies are not filtered.
GetRemoteUnfiltered(name) == {p \in catalogue : p.name = name}

pkg_jobs_universe_get_remote(name) ==
    {p \in catalogue : p.name = name /\ ~nextbsd_foreign_pkg(p)}

pkg_jobs_universe_handle_provide(feature) ==
    {p \in catalogue : feature \in p.provides /\ ~nextbsd_foreign_pkg(p)}

\* What is looked up: a pattern, a dependency or a requirement of a candidate.
Collecting == UNCHANGED <<cvars, avars, names, jobs, catalogue, db, op, verdict, before, count>>

LookUp(what, found) ==
    /\ op = "collect" /\ what \notin looked
    /\ universe' = universe \cup found
    /\ looked' = looked \cup {what}
    /\ Collecting

FindUpgrade ==
    \E name \in names :
        LookUp(<<"name", name>>, pkg_jobs_universe_get_upgrade_candidates(name))

ProcessDeps ==
    \E p \in universe : \E name \in p.deps :
        LookUp(<<"dep", name>>, pkg_jobs_universe_get_remote(name))

ProcessRequires ==
    \E p \in universe : \E feature \in p.requires :
        LookUp(<<"provide", feature>>, pkg_jobs_universe_handle_provide(feature))

Collected ==
    looked = {<<"name", name>> : name \in names}
             \cup {<<"dep", name>> : name \in UNION {p.deps : p \in universe}}
             \cup {<<"provide", f>> : f \in UNION {p.requires : p \in universe}}

After(J) == {p \in Registered : p.name \notin NamesOf(J)} \cup J

\* What the solver may choose: one package of a name, all the files asked for,
\* of a repository nothing that is locked or as new already, and all needs met.
Solutions ==
    {J \in SUBSET universe :
        /\ J # {}
        /\ {p \in universe : p.source = "file"} \subseteq J
        /\ \A p, q \in J : p.name = q.name => p = q
        /\ \A p \in J, q \in Registered :
               p.source # "file" /\ p.name = q.name =>
                   p.version > q.version /\ p.name \notin Locked
        /\ \A p \in J : p.deps \subseteq NamesOf(After(J)) /\ p.requires \subseteq Provided(After(J))}

Solve ==
    /\ op = "collect" /\ Collected
    /\ \/ /\ jobs' \in Solutions
          /\ op' = "check"
          /\ UNCHANGED <<cvars, avars, names, looked, universe, catalogue, db, verdict, before,
                         count>>
       \/ End("failed")

\* Faulty variant: a circle over another job is not seen.
CircularAlone(J) == \E p \in J : p.name \in p.deps

\* Jobs that each depend on another one of them cannot be scheduled.
Circular(J) ==
    \E S \in SUBSET J \ {{}} : \A p \in S : p.deps \cap (NamesOf(S) \ {p.name}) # {}

\* pkg_jobs_execute up to its first job: a dry run ends here.
DryRun == op = "check" /\ End("done")

Refuse == op = "check" /\ ~nextbsd_check_jobs(jobs) /\ End("refused")

Schedule ==
    /\ op = "check" /\ nextbsd_check_jobs(jobs)
    /\ IF Circular(jobs) THEN End("failed")
       ELSE op' = "run" /\ UNCHANGED <<cvars, avars, ivars, catalogue, db, verdict, before, count>>

\* Faulty variant: any job may come next.
ReadyAlways == jobs

\* The jobs that can come next in the schedule.
Ready == {p \in jobs : p.deps \cap NamesOf(jobs \ {p}) = {}}

\* One job: pkg_add_common with a remote package checks it again, and that or
\* anything else that fails ends the transaction.
RunJob(p) ==
    /\ op = "run" /\ p \in Ready
    /\ IF nextbsd_check_install(p)
       THEN \/ /\ Register(p, "job")
               /\ jobs' = jobs \ {p}
               /\ UNCHANGED <<cvars, avars, names, looked, universe, catalogue, op, verdict,
                              before, count>>
            \/ End("failed")
       ELSE End("refused")

JobsDone == op = "run" /\ jobs = {} /\ End("done")

----------------------------------------------------------------------------
\* pkg add.

\* An archive, whether it is added for another one, and, once it is opened and
\* checked, what it needs and was not yet looked at.
Frame(p, automatic) ==
    [pkg |-> p, automatic |-> automatic, opened |-> FALSE, deps |-> {}, requires |-> {}]

Add(files, force, missing, answer) ==
    /\ Begin("add")
    /\ args' = files
    /\ flags' = [force |-> force, missing |-> missing, answer |-> answer]
    /\ UNCHANGED <<ivars, stack, catalogue>>

Top == stack[Len(stack)]
Below == SubSeq(stack, 1, Len(stack) - 1)

\* Faulty variant: -f holds for what is added for the argument too.
ForcedForAll == flags.force

\* -f and -M hold for the argument and for nothing that is added for it.
Forced == flags.force /\ ~Top.automatic
Lenient == flags.missing /\ ~Top.automatic

\* What every step of add leaves alone.
Adding == UNCHANGED <<cvars, ivars, flags, catalogue, op, count>>

\* The loop of exec_add over its arguments; it goes on after one that failed.
NextArgument ==
    /\ op = "add" /\ stack = <<>> /\ args # <<>>
    /\ stack' = <<Frame(Head(args), FALSE)>>
    /\ args' = Tail(args)
    /\ verdict' = "none" /\ before' = db
    /\ UNCHANGED db /\ Adding

AddDone == op = "add" /\ stack = <<>> /\ args = <<>> /\ End(verdict)

\* The failure of an archive is that of all it was to be added for.
Unwind(result) ==
    /\ stack' = <<>>
    /\ verdict' = result
    /\ UNCHANGED <<db, args, before>> /\ Adding

\* After its success the one below goes on.
Return ==
    /\ stack' = Below
    /\ verdict' = IF Below = <<>> THEN "done" ELSE "none"
    /\ UNCHANGED <<args, before>> /\ Adding

\* pkg_add_common until the dependencies.  The archive may be one too many.
Opening == op = "add" /\ stack # <<>> /\ ~Top.opened

\* Faulty variant: there is no such limit.
CanOpenAlways == TRUE

CanOpen == Len(stack) <= MaxOpen

CannotOpen == Opening /\ ~CanOpen /\ Unwind("failed")

\* nextbsd_check_install refuses it.
Refused ==
    /\ Opening /\ CanOpen /\ ~nextbsd_check_install(Top.pkg)
    /\ Unwind(IF Top.automatic THEN "failed" ELSE "refused")

\* pkg_add_check_pkg_archive: the ABI, the version installed, the lock.
Admitted ==
    /\ Opening /\ CanOpen /\ nextbsd_check_install(Top.pkg)
    /\ Forced \/ (AbiOK(Top.pkg) /\ OsVersionOK(Top.pkg, flags.answer))

NotAdmitted ==
    /\ Opening /\ CanOpen /\ nextbsd_check_install(Top.pkg)
    /\ ~Forced /\ ~(AbiOK(Top.pkg) /\ OsVersionOK(Top.pkg, flags.answer))
    /\ Unwind("failed")

Current == \E q \in Registered : q.name = Top.pkg.name /\ q.version >= Top.pkg.version
LockedOut == Top.pkg.name \in Locked \cap NamesOf(Registered)

AlreadyInstalled == Admitted /\ ~Forced /\ Current /\ Return /\ UNCHANGED db

IsLocked == Admitted /\ (Forced \/ ~Current) /\ LockedOut /\ Unwind("failed")

\* What is left of Top, and the stack that goes on.
Replaced(frame) == [stack EXCEPT ![Len(stack)] = frame]

GoOn(frames) ==
    /\ stack' = frames
    /\ UNCHANGED <<db, args, verdict, before>> /\ Adding

OpenArchive ==
    /\ Admitted /\ (Forced \/ ~Current) /\ ~LockedOut
    /\ GoOn(Replaced([Top EXCEPT !.opened = TRUE, !.deps = Top.pkg.deps,
                                 !.requires = Top.pkg.requires]))

\* What Top needs is there, or is missing, or is added first; it is not asked for
\* a second time.
Need(met, providers, frame) ==
    \/ (met \/ (providers = {} /\ Lenient)) /\ GoOn(Replaced(frame))
    \/ ~met /\ providers = {} /\ ~Lenient /\ Unwind("failed")
    \/ ~met /\ \E q \in providers : GoOn(Append(Replaced(frame), Frame(q, TRUE)))

NeedDependency ==
    /\ op = "add" /\ stack # <<>> /\ Top.opened
    /\ \E name \in Top.deps :
           Need(name \in NamesOf(Registered), {q \in offer.files : q.name = name},
                [Top EXCEPT !.deps = @ \ {name}])

NeedFeature ==
    /\ op = "add" /\ stack # <<>> /\ Top.opened /\ Top.deps = {}
    /\ \E feature \in Top.requires :
           Need(feature \in Provided(Registered), {q \in offer.files : feature \in q.provides},
                [Top EXCEPT !.requires = @ \ {feature}])

\* The rest of pkg_add_common, which may fail and then undoes what it did.
AddPackage ==
    /\ op = "add" /\ stack # <<>> /\ Top.opened /\ Top.deps = {} /\ Top.requires = {}
    /\ \/ Register(Top.pkg, IF Top.automatic THEN "need" ELSE "add") /\ Return
       \/ Unwind("failed")

----------------------------------------------------------------------------
PolicyInit ==
    /\ BuildInit
    /\ sys \in Systems /\ offer \in Offers /\ abi = None
    /\ catalogue = {}
    /\ db = {[pkg |-> p, by |-> "base", force |-> FALSE, missing |-> FALSE] : p \in offer.base}
    /\ op = "off" /\ flags = NoFlags /\ args = <<>> /\ stack = <<>>
    /\ names = {} /\ looked = {} /\ universe = {} /\ jobs = {}
    /\ verdict = "none" /\ before = db /\ count = 0

Commands ==
    \/ \E repos \in SUBSET Repos \ {{}}, answer \in Answers : Update(repos, answer)
    \/ \E asked \in SUBSET NamesOf(offer.remote), files \in SUBSET offer.files :
           /\ Cardinality(asked) + Cardinality(files) \in 1..MaxPatterns
           /\ Install(asked, files)
    \/ \E files \in UNION {[1..k -> offer.files] : k \in 1..MaxPatterns},
          force, missing \in BOOLEAN, answer \in Answers : Add(files, force, missing, answer)

InstallSteps ==
    \/ FindUpgrade \/ ProcessDeps \/ ProcessRequires \/ Solve
    \/ DryRun \/ Refuse \/ Schedule \/ (\E p \in jobs : RunJob(p)) \/ JobsDone

AddSteps ==
    \/ NextArgument \/ CannotOpen \/ Refused \/ NotAdmitted \/ AlreadyInstalled \/ IsLocked
    \/ OpenArchive \/ NeedDependency \/ NeedFeature \/ AddPackage \/ AddDone

PolicyNext ==
    \/ BuildNext /\ UNCHANGED pvars
    \/ (Configure \/ Commands \/ InstallSteps \/ AddSteps) /\ UNCHANGED bvars

PolicySpec == PolicyInit /\ [][PolicyNext]_vars

\* A command that was begun runs on.
FairPolicySpec == PolicySpec /\ WF_vars((InstallSteps \/ AddSteps) /\ UNCHANGED bvars)

----------------------------------------------------------------------------
\* The values of the variables; the command at hand uses its own and no other.
PolicyTypeOK ==
    /\ build \in {"sip", "machine", "staged", "failed"} /\ bad \in BOOLEAN
    /\ op \in {"off", "failed", "idle", "collect", "check", "run", "add"}
    /\ catalogue \subseteq offer.remote
    /\ universe \subseteq catalogue \cup offer.files
    /\ jobs \subseteq universe
    /\ Registered \subseteq Packages(offer)
    /\ \A i \in DOMAIN args : args[i] \in offer.files
    /\ \A i \in DOMAIN stack :
           /\ stack[i].pkg \in offer.files
           /\ stack[i].automatic <=> i > 1
           /\ i < Len(stack) => stack[i].opened
    /\ Len(stack) <= MaxOpen + 1
    /\ op \notin {"collect", "check", "run"} => universe = {} /\ looked = {}
    /\ op # "add" => stack = <<>> /\ args = <<>> /\ flags = NoFlags

\* What NEXTBSD.md calls a NextBSD package.
FromNextbsd(p) == p.source = NextbsdRepo \/ (p.source = "file" /\ p.stamped)

\* The base belongs to NextBSD: whatever is installed and does not come from
\* NextBSD is not pkg, and the file system finds all its paths in /usr/local or
\* /var (nextbsd_policy.c, pkg_jobs_universe.c and their two places of call).
BaseIsNextbsd ==
    \A e \in db :
        \/ FromNextbsd(e.pkg)
        \/ e.pkg.name \notin PkgNames /\ \A path \in e.pkg.paths : Inside(path)

\* "A refusal stops the whole transaction" (nextbsd_policy.c), and pkg add asks
\* before dependencies are added: what is refused has installed nothing.
RefusalChangesNothing == verdict = "refused" => db = before

\* A package is registered after all it depends on, by jobs and by add alike,
\* also when the command fails half way; only -M makes exceptions.
DependenciesRegistered ==
    \A e \in db : (e.by = "add" /\ e.missing) \/ e.pkg.deps \subseteq NamesOf(Registered)

\* Repositories and pkg add bring packages of this system's ABI only; -f makes
\* an exception for the file it is given for, not for what that needs.
AbiRespected ==
    \A e \in db :
        \/ e.by = "add" /\ e.force
        \/ e.by = "base"
        \/ e.by = "job" /\ e.pkg.source = "file"
        \/ AbiOK(e.pkg)

\* The url that a NextBSD system makes of NextBSD.conf is one that the build
\* has checked, although it did so with ABI strings of FreeBSD.
UrlIsPublished ==
    abi # None /\ abi.os = "NextBSD" =>
        Expand(conf_url, config_parser_vars_register(abi)) \in {e.url : e \in ToSet(expected)}

\* The system with another version in the note, and some that may be there.
Osversions == {1401000, 1501000, 2700000}
WithVersion(s, osversion) == [s EXCEPT !.note = pkg_abi_set_freebsd_osversion(@, osversion)]

\* On NextBSD the ABI found does not depend on the version in the note of a
\* FreeBSD executable, "whatever osreldate is" (nextbsd_abi_from_freebsd).
AbiIgnoresNote ==
    abi # None /\ nextbsd_release(sys) # None /\ sys.ABI = None /\ sys.note.os = "FreeBSD" =>
        \A osversion \in Osversions :
            config_init_abi(WithVersion(sys, osversion)) = abi

\* Every command ends, for packages that need each other in a circle as well.
CommandsEnd == op \in {"collect", "check", "run", "add"} ~> op = "idle"
=============================================================================
