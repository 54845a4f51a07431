# nextbsd-contrib: TLA+ models of NextBSD's pkg

nextbsd-contrib collects third-party programs for NextBSD: `sudo`, `zsh` with
its plugins, `pico` and `pkg`, each under `src/<name>/dist`, with a
`build-contrib.sh` that cross-builds them and `scripts/sync-pkg.sh` that brings
in a new upstream. NextBSD changes one of them, `pkg`, with six patches in
`src/pkg/patches`: its rules about who may replace the base system, and its own
ABI. `pkg` is also the program here with state that several processes share,
that survives a crash, and whose order of steps matters. This directory specifies
NextBSD's rules with the commands they guard, and how `pkg` fetches archives, locks its database, solves a
request, orders the transaction and executes it.

Paths below are relative to the repository; `libpkg/` stands for
`src/pkg/dist/libpkg/`, `cmd/` for `src/pkg/dist/src/` and `0001` … `0006` for the
patches. The trees under `dist` are unpatched: where a patch inserts a call
the model follows the patched code.

## 1. The system

### Components

| component | code | state | operations |
|---|---|---|---|
| package policy | `0001`, `0004` (`nextbsd_policy.c`, `nextbsd_sip.h`) | none of its own; it reads origin, annotations and paths of packages | which packages of other origins may be installed: never pkg itself, only paths under `/usr/local` and `/var` |
| ABI and `MACHINE` | `0003`, `0005`, `libpkg/pkg_abi.c`, `utils.c` | the ABI of the process, once found | detection, strings, what fits, the variables of repository urls |
| host build checks | `src/pkg/nextbsd-check-*.c`, run by `build_pkg` of `src/build-contrib.sh` | the next case, a wrong answer seen | try the headers of the patches on the build host before pkg is staged |
| database lock | `libpkg/pkgdb.c`, `pkgdb_obtain_lock` … `pkgdb_release_lock` | tables `pkg_lock` (a row of three counters) and `pkg_lock_pid` | obtain, upgrade, downgrade, release; inside them the scan for live holders and the reset |
| locking commands | `cmd/install.c`, `upgrade.c`, `delete.c`, `autoremove.c`, `check.c`, `add.c`, … | which lock the process thinks it has | sequences of lock calls, and the exits that release or do not |
| universe and requests | `libpkg/pkg_jobs.c`, `pkg_jobs_universe.c` | hashes of packages per uid, request chains | closure of a request under dependencies, provides and conflicts |
| solver | `libpkg/pkg_solve.c` | variables, rules, assumptions | clauses for picosat, its assignment read back as jobs |
| conflicts | `libpkg/pkg_jobs_conflicts.c` | conflict lists of packages, tree of path owners | integrity check, registration of a conflict, solving again |
| scheduler | `libpkg/pkg_jobs_schedule.c` | the list of jobs; marks and back links of a search | find a cycle, split an upgrade, sort |
| executor | `libpkg/pkg_jobs.c`, `pkg_jobs_execute` | the job at hand | protections, then delete or add |
| installation | `libpkg/pkg_add.c` | an SQL transaction, temporary files | register, extract, remove the old files, rename, commit |
| deletion | `libpkg/pkg_delete.c` | – | scripts, files, directories, unregister |
| package database | `libpkg/pkgdb*.c` | SQLite | schema, registration, queries |
| fetch | `cmd/fetch.c`, `pkg_jobs_fetch`, `repo/binary/fetch.c`, `libpkg/fetch*.c` | the cache of archives, shared by all commands | resume, download, check, retry once; `pkg clean` removes |
| repositories | `libpkg/pkg_repo*.c`, `repo/binary/` | catalogues | download, verify, replace |
| triggers, rc scripts, lua | `libpkg/triggers.c`, `rcscripts.c`, `*scripts.c` | deferred starts and cleanups | run programs at the end of a transaction |
| creation, audit, versions, signatures, manifests, output | the rest of `libpkg` | none between calls | sequential |
| `sudo`, `zsh`, `pico` | `src/sudo/dist`, `src/zsh/dist`, `src/pico/dist` | their own | unmodified upstream |

### How they interact

A command such as `pkg install` opens the database, obtains the *advisory* lock,
builds the universe and the solver's problem from the database, solves, asks the
user, and calls `pkg_jobs_apply`. That *upgrades* the lock to the exclusive one,
has the scheduler order the jobs, and executes them one by one; every job is one
call of `pkg_delete` or of `pkg_add_common`, each of which commits its own SQL
transaction. At the end the exclusive lock is released, then the advisory one.
`pkg info` and its like obtain a *read-only* lock, when `READ_LOCK` is
configured; `pkg set`, `pkg add` and others the exclusive lock at once. Processes
meet in the two lock tables, in the tables of packages and in the cache of
archives, which `pkg fetch` fills under a read-only lock and `pkg clean -a` empties under none; there are no
threads. Scripts of packages run in between, and may fail; `^C` sets a flag that
some loops look at; any process can be killed.

NextBSD's rules are called at five places: three loops that let candidates into the
universe drop foreign `pkg`s; `pkg_jobs_execute` looks at all jobs before it runs the
first; `pkg_add_common` looks at every package, those that `pkg add` brings in
for the sake of others included. The ABI found by `pkg_ini` decides which catalogues are taken and
which files `pkg add` takes, and, through `${MACHINE}`, from which url.

### What is hard

- The rules hold only if no way onto the system goes around them: by name, as a dependency, as the
  provider of a feature, as a file, recursively; with `-f`, with `-M`, with a half-done command before.
- The rule about paths is textual, and what counts is where the file system finds the path.
- Archives are appended to by several processes at once, unlinked under each other, left half
  written by a kill and served from the wrong offset. No lock keeps them apart; checks and one retry have to.

- The lock is a protocol of single SQL statements, each committed by itself, with
  recovery from crashed holders inside the path that obtains it. Every interleaving
  of two such statements of different processes happens.
- A transaction is not atomic: it is a list of small transactions, between and
  inside of which it stops on an error or a crash. What it leaves is only as good
  as the order of the jobs.
- Jobs can be in a cycle (an upgrade that conflicts with what another replaces).
  The scheduler breaks cycles by splitting upgrades and must not loop, lose a job
  or refuse a transaction that can be ordered.
- Shared paths are found only after solving, partly only after fetching. Each
  finding throws the solution away and starts again with what was registered.

### What makes each component correct

- *Policy*: whatever the sequence of commands, what does not come from NextBSD is not `pkg` and
  lies under `/usr/local` or `/var`; a refusal changes nothing; a package comes after what it needs.
- *ABI*: packages of other systems stay out unless forced; on NextBSD the ELF note decides
  nothing; the url exists.
- *Fetch*: a leftover is never taken for a whole archive, and one that is left alone repairs it; every fetch ends.
- *Lock*: an exclusive lock is alone; at most one advisory lock; no lock leaks;
  a dead holder is got rid of; a live one is not; every call returns.
- *Scheduler*: the result contains every job once and respects every edge; it
  terminates; it fails only when there is no order.
- *Executor, add, delete*: at every moment every registered package has its
  dependencies and no conflict; what a failure damages is one package; the
  database does not run ahead of the disk; a completed transaction has done
  everything that the solver decided.
- *Solver, conflicts*: what is read back from the assignment, packages kept after
  all included, satisfies the rules; the loop solve–check–solve ends and overlooks no conflict.
- *Repositories* (planned): a catalogue that fails verification never replaces one that did not.

## 2. Modules

```
NextbsdSip --+
             +--> NextbsdBuild --> PkgPolicy <-- MCPkgPolicy       (run policy)
NextbsdAbi --+         ^               ^-------- PkgPolicyProofs   (theorems)
                       +-- NextbsdBuildProofs <--------+           (lemmas)
PkgFetch <-- MCPkgFetch                                            (runs fetch*)
    ^------- PkgFetchProofs                                        (theorems)
DbLock  <--refines--  PkgLock  <-- MCPkgLock                       (runs lock_*)
                         ^-------- PkgLockProofs                   (theorems)
PkgRequest --> PkgSchedule <-- MCPkgSchedule                       (run schedule)
 |                  ^   ^----- PkgScheduleProofs <--+              (theorems)
 |                  |                               |
 |                  +--------- PkgExecute <-- PkgExecuteProofs     (theorems)
 |                                 ^--------- MCPkgExecute         (run execute)
 |         PkgSolve <-- MCPkgSolve                                 (runs solve*)
 |             ^   ^--- PkgSolveProofs <----------+                (theorems)
 |             |                                  |
 +---> PkgTransaction <-------------- PkgTransactionProofs         (theorems)
```

`PkgSolve` and `PkgExecute` share no state; they meet in a transaction, the set of jobs with what the packages say of one
another. `PkgRequest` says what such a transaction is (`IsRequest`, `Solved`), what an execution may have made of it
(`IsOutcome`) and what it keeps on the way (`NeedsKept`, `ConflictsApart`, `Performed`). `PkgExecute` takes the first
two for granted and claims the others. `PkgTransaction` is the other side: it makes the
transaction out of the state of `PkgSolve`, claims the first two of it, and takes the others for granted to say what is
registered of all the packages the solver knew, of which the executor knows the transaction only.

`PkgPolicy` goes through the whole of a command, from the build of pkg to the table of packages, and is coarse where the others are fine: its
solver may choose whatever meets the needs, its jobs run in an order that respects
dependencies, and a job happens or does not.

In all modules of the system some definitions are preceded by a
*faulty variant*, with a comment that says so: the same operation with a
plausible bug in it. No specification uses them. They show what each property is
able to notice (`mutants` in `PROJECT.json`).

### `NextbsdSip`, `NextbsdAbi` – NextBSD's rules as operators

`nextbsd_sip_path_allowed` is the textual rule of `0004`; `Resolve` walks the same path from the
root, and `Inside` is what the rule is for. A path is what its slashes separate: a sequence of
components, the last empty after a trailing slash.

`NextbsdAbi` has detection (`pkg_abi_from_file` with `nextbsd_abi_from_freebsd`), the ABI and OSVERSION that are
given (`config_init_abi`), strings in both directions, which packages fit (`is_valid_abi`,
`is_valid_os_version`), and the variables. An ABI string is a triple of system, version and
architecture, a version the sequence of its numbers; that of a package may have fewer fields, and a star for one of
them or for all that follow. Left out: how the note is read from the
file, ALTABI, the ABI `*` alone, patterns and prefixes that end inside a field, the case of letters.

### `NextbsdBuild` – the checks of the build

`CheckCase` is one round of the loop of `nextbsd-check-sip`'s `main` over its table `cases`, `CasesChecked` its exit and
`build_pkg`'s look at it, `CheckMachine` one run of `nextbsd-check-machine`, `Stage` what follows.

### `PkgPolicy` – what is let onto a system

`sys` and `offer`, chosen at the start, are what `pkg_ini` finds and what repositories and files hold;
`abi` is what it makes of it, `catalogue` the local copies of the catalogues, `db` the registered
packages, each with how it came in. The command at hand has the rest: `names`, `looked`, `universe` and `jobs` of
an installation, `args`, `flags` and `stack` of `pkg add`.

| action | code |
|---|---|
| `Configure` | `pkg_ini` |
| `Update` | `pkg update`, `pkg_repo_binary_update`: per repository current, taken, taken up to where the user cancelled, or lost, for a package that does not fit among other reasons |
| `Install` | `pkg install` and `pkg upgrade`, up to the universe; files are candidates at once |
| `FindUpgrade`, `ProcessDeps`, `ProcessRequires` | the loops of `pkg_jobs_universe.c`, each with its filter |
| `Solve` | `pkg_jobs_solve`: any choice of candidates that meets the needs, or none |
| `DryRun`, `Refuse`, `Schedule`, `RunJob`, `JobsDone` | `pkg_jobs_execute` with `nextbsd_check_jobs` before the first job |
| `Add`, `NextArgument`, `AddDone` | `exec_add`; `-f`, `-M` and what the user answers |
| `CannotOpen`, `Refused`, `NotAdmitted`, `AlreadyInstalled`, `IsLocked`, `OpenArchive` | `pkg_add_common` with `nextbsd_check_install`, and `pkg_add_check_pkg_archive` up to the dependencies |
| `NeedDependency`, `NeedFeature` | its loops, which call `pkg_add` for a file beside the one at hand; flags are not handed on |
| `AddPackage` | the rest of `pkg_add_common` |

`stack` is the C stack of `pkg_add` calls: each has an archive open, and `MaxOpen` stands for the limit of
file descriptors, which is all that ends a circle of packages that need each other. A shared library
that is required is treated like a feature. The file that a directory names for a feature is taken to provide it; it is
not asked for again after that file was added. Left out: `pkg install -f` and `-M`, ALTABI, reverse dependencies
and conflicts in the universe, the choice among repositories.

The failing branch of `check_machine` and the refusal in `RunJob` are there because the code has them; nothing
reaches them, since the headers are right and `nextbsd_check_jobs` has looked at the same packages before.

### `PkgFetch` – the cache of archives

A file is a number of pieces and whether they are, in order, the right ones. Each command has a list of
archives; `cache` is what is at their paths, `linked` whether the descriptor a command writes to still is
that file. Every action is one system call or one decision:

| action | code |
|---|---|
| `Summary` | `print_jobs_summary` of `cmd/fetch.c`, and the question it leads to |
| `Plan` | `pkg_jobs_fetch`: `dlsize`, added up over the jobs, and the return when it is 0 |
| `Stat`, `CheckSize`, `CheckSum`, `Retry`, `Cleanup` | `pkg_repo_binary_try_fetch` |
| `Open`, `Request`, `Transfer`, `TransferEnd`, `TransferFails` | `pkg_fetch_file`, `stdio_fetch`; a server may ignore the offset, send wrong pieces or stop |
| `NextJob` | the loop of `pkg_jobs_fetch` |
| `Kill`, `Clean` | death; `pkg clean` of one archive |

`undisturbed[p]` is a history variable: since `p` began nobody else changed its archives, and it was
served what it asked for. A fetch that fails unlinks the path, where another process may have
put its own file by then; the code does it twice with nothing in between, the model once. Left out:
`file://` repositories, the symbolic links beside the archives, the order of mirrors and
their retry counters (one request stands for all of them), modification times.

### `PkgLock` – the lock and its commands

One process runs one command. `at` says which call the command makes (or between
which calls it is), `pc` which statement of the call comes next. Every action is one
SQL statement, or one decision of the command:

| action | code |
|---|---|
| `Choose` | what the commands do between two calls, table `Choices`; `After` is where the result of a call leads them |
| `Grant`, `Refuse` | `pkgdb_try_lock`: the UPDATE of `pkg_lock`, then `sqlite3_changes` |
| `WriteLockPid` | `pkgdb_write_lock_pid` |
| `CheckLockPid` | `pkgdb_check_lock_pid` and what `pkgdb_try_lock` does with its result: retry, give up, or reset |
| `ResetLock`, `RemoveOwnPid` | `pkgdb_reset_lock`, `pkgdb_remove_lock_pid` |
| `DeleteRows`, `ReinsertRow` | the two statements of `reset_lock_sql` |
| `ReleaseLock`, `ReleasePid` | `pkgdb_release_lock` |
| `SqlFails` | the error branch of each statement |
| `Crash` | death, and the exits of commands that release nothing |

The commands are `read` (`pkg info` and the others that lock read-only), `write` (an exclusive lock at once),
`jobs` (install, upgrade, delete, autoremove: advisory, then upgraded, for autoremove perhaps twice) and
`check` (`pkg check -d`, which upgrades without obtaining).

`held` and `intruded` are history variables: `held[p]` is what a statement of `p`
was granted and nobody has given up or taken; `intruded` becomes true when a step takes away what another
live process holds, puts a second row into `pkg_lock`, or releases or converts a
lock its process does not hold while another holds something. These are
the four ways in which the code can go wrong, and section 5 shows that they really happen. Everything
else is claimed, and proved, for as long as they have not.

Abstractions. `pkg_lock` is the *set* of its rows, because the statements ask
only whether some row was changed. The scan of `pkg_lock_pid` is one step: its SELECT
sees one state of the table, and what it then deletes are pids of the dead, which do not come back. Pids are not reused, and `kill(pid, 0)`
tells the truth. A wait is no step (time passes anyway), so `LOCK_WAIT` does not
appear, and `LOCK_WAIT = 0`, which gives up at once, is `MaxTries = 0`. As in
the code, `MaxTries` retries are `MaxTries + 1` attempts. The
unprivileged user's read-only database, on which the read lock does nothing, is not modelled.

### `DbLock` – what the lock promises

A set of locks per process; a process acquires when that is compatible with the
others, and gives up. `StepsAreLockSteps` says that every step of `PkgLock`
that usurps nothing is a step of `DbLock`.

### `PkgSchedule` – the scheduler

`Requests` is a set of transactions: for every package what is to be done with it, and the relations
`newDeps`, `oldDeps` and `conflicts`. (`newNeeds` and `oldNeeds`, the dependencies among them that have no alternative,
are for the executor: the scheduler looks at first choices and does not know of alternatives.) `Edge` is `pkg_jobs_schedule_graph_edge`, with
the same priority among the kinds of edge. `Visit`, `FindCycle` and `Leave` are the call,
the hit and the return of the recursive `pkg_jobs_schedule_find_cycle`; the C stack is
the chain of `prev`, as the code's own `path_prev` is. `WalkBack`, `Split` and `Fail` are the loop of
`pkg_jobs_schedule` over the cycle found, `StartSort`, `Place` and `Finish` its
topological sort. The list `j->jobs` is a set, so the search may look at its nodes
in any order; the tie-breaker of the sort is kept.

### `PkgExecute` – the transaction

Composes with `PkgSchedule` (it runs first, and its `sorted` is what is executed)
and adds `inst`, the committed table of packages, and `files`, what is on disk:
the complete files of a version (`old`, `new`) or some under temporary names (`temp`).

| action | code |
|---|---|
| `Begin`, `Complete` | the loop of `pkg_jobs_execute`, with its protection of vital packages and of pkg itself |
| `DeleteFiles`, `Unregister` | `pkg_delete` |
| `Extract` | `pkg_add_common`: `pkgdb_register_pkg` (which begins a transaction) and `do_extract` |
| `CleanupOld` | `pkg_add_cleanup_old` |
| `Finalize` | `pkg_extract_finalize` |
| `Commit` | `pkgdb_register_finale`, whose result is ignored |
| `Crash` | death; SQLite rolls back |

Every step may fail where the code may, and leaves what the code leaves. `open` says that a commit
failed without a rollback (SQLITE_BUSY): a later BEGIN fails, a later deletion is not
committed. `lost` is a history variable: a commit has failed and nobody noticed. Abstracted: single files (a version's files go or come together, an
incomplete set counts as none or as `temp`), `PKG_FLAG_KEEPFILES` and `NOEXEC`, and a forced reinstallation, which is
executed as an upgrade. The process holds the exclusive lock throughout, so no other appears here.

`Solved`, which `SolvedAssumption` asks of all transactions, restricts them to those a solver produces: no new package
needs one that is deleted, and no installed one needs one that was not. That it does is `SolverOffersSolved` (section 4). A
package *needs* what it depends on without an alternative. Of a dependency with alternatives the solver may choose any, the
transaction names the first, and so nothing is claimed of it while the jobs are executed.

### `PkgSolve` – from a request to a transaction

`world`, chosen at the start, is what there is and a request: packages (an upgrade chain and a version in it, 0 for
the installed one), with what they depend on, require, provide and own, and which chains are closed under
all that for the request (`start`). `universe` are the chains of `j->universe`; it begins with these and grows when the owner of a
path is met that is not in it. `problem` are the chains the solver was given, the universe as it was when it was last called.

| action | code |
|---|---|
| `Reconsider`, `Decide`, `TryAnotherPlan`, `AskToRemove`, `RunOff` | the loop of `pkg_solve_sat_problem`: an answer not taken because it removes installed packages, one that is, a failure, a failure after ten, a failure without a culprit |
| `ReadInstall`, `ReadDelete`, `ReadUnchanged` | `pkg_solve_insert_res_job` for one chain, with `pkg_solve_can_keep` |
| `EndRead` | what `pkg_jobs_solve` does with the jobs: is anything to be fetched? |
| `Enter`, `Collide`, `MeetPath`, `Met` | `pkg_conflicts_check_all_paths` for one path and key |
| `Compare` | one pair of `pkg_conflicts_register_chain` |
| `MeetOwner`, `SkipOwner`, `NextPath` | the owner in the database, `pkg_conflicts_check_local_path`; it is added to the universe, or that fails and no conflict is registered; and the next path |
| `SolveAgain`, `NoConflicts` | the loops of `pkg_jobs_solve` and of `pkg_jobs_apply` |
| `Apply`, `Stop` | the user confirms, or not; `pkg_jobs_fetch` |

The clauses are predicates on a set of packages (`DependRule` … `ChainRule`); picosat may answer
with any set in `Models` that agrees with the assumptions, so the phases pkg sets, which prefer what is
installed or asked for, are left out. A request is always an assumption about one package, because
`pkg_jobs_universe_process_upgrade_chains` leaves one candidate. When the solver fails
any of the requests may be blamed. `slots` is the table of paths with the keys tried for each path; that
two *different* paths have one hash is left out.

Of `pkg_jobs_universe_process_item`, called for an owner, the model has the three outcomes. A locked package is not added, each time it is met
(`locked`). One that lacks a dependency (`missing`) is added and refused; it is marked as processed, so that the next path it
owns finds it there and is compared. Any other is added with the chains that come along (`joins`: what it depends on, what depends on it).
A chain is added as a whole.

Left out also: how the universe is closed for the request (it is, from the start, but for owners of paths), versions added later to a
chain that is there (a provider that is looked up, the remote versions of a locked package), the
choice among repositories, the check of ABIs and `BACKUP_LIBRARIES` in `pkg_solve_handle_provide`, the check for
file flags, `max_attempts = 100` of `pkg_jobs_solve` (no run of the model needs as many rounds), fetch jobs, conflicts
within one request, and external solvers. Under `-f` with `FORCE_CAN_REMOVE_VITAL` no package is vital; that is a
world without vital packages. `RunOff` reads an element before an array: undefined
behaviour, after which the model stops.

### `PkgTransaction` – from the solver to the executor

Operators on the state of `PkgSolve`. `Kind` is `j->jobs`; `NewDeps` and `OldDeps` are the dependencies of the packages
that are new and of those that are installed, of which `FirstChoices` is what `pkg_jobs_schedule_direct_depends` sees and `Needs`
what has no alternative; `OldConflicts` are the conflicts of installed packages, those registered by the search included.
`Registered(inst)` is what is registered when the packages of the transaction are as `inst` says; what it needs and what it conflicts with is
claimed for packages of which the solver knew (`Pkgs`).
`InSplitGap` is the one hole in what the executor keeps: when an upgrade is split, its
package is not there between the halves, and packages of no job are not nodes of the scheduler's graph.

## 3. Runs

All pass unless marked otherwise.

| run | bounds | what it shows |
|---|---|---|
| `policy` | 6 systems × 4 offers, two commands of at most two names or files each, three open archives; all absolute paths of up to 4 out of 7 components; fair | what is let in by whatever way is NextBSD's or stays out of the base; refusals change nothing; dependencies first; ABIs fit; the build's checks agree with the headers and cover NextBSD's urls; every command ends |
| `fetch` | two commands fetch one archive at once, a third wants that and another and finds what they left; 2 pieces and 1; kills, faulty servers, `pkg clean` at any moment; fair | a fetch left alone repairs every leftover; a command never writes more than the archive is to have; every fetch ends |
| `fetch_integrity` | the same | **violated**: the integrity check passes a damaged archive |
| `lock_commands` | any two of the four commands, or three readers and writers; one retry, crashes, SQL errors of one process; fair | types, exclusion, honesty of the table; a working command is registered; nothing leaks on normal exits; refinement of `DbLock`; whoever asks when only the dead are left gets the lock |
| `lock_unsafe_reset` | 2 writers | **violated**: a reset takes a live process's lock |
| `lock_beside_exclusive` | a `jobs` and a `check` | **violated**: exclusive beside advisory |
| `lock_livelock` | 3 writers without retries, one crash, fair | **violated**: two resets in step for ever |
| `schedule` | every transaction of 1–2 packages, and 3 packages of which the first two are upgraded (one of two requests that exchange them), acyclic dependencies, any conflicts; fair | order, completeness, the code's assertions, termination, refusal only of circular dependencies, through cycles that need several splits |
| `execute` | every solved transaction of 1–2 packages, whose dependencies all have an alternative or none has, and 3 packages in chains and fans without alternatives and with any conflicts; vital packages, pkg itself, crashes and failing commits; fair | dependencies, conflicts, locality of damage, completeness, split upgrades; the database does not run ahead of the disk; what is installed stays; the execution ends |
| `solve` | about 11600 worlds: up to 3 chains and 4 packages, 2 paths, owners outside the universe, locked or without a dependency; the user is asked from the third failure on; fair | what is offered is closed under dependencies, excludes the conflicts found, overlooks no shared path but for what other versions share and for owners the universe refuses; the rounds end; the last failed assumption exists |
| `solve_sharing` | 2 upgrades, 2 paths | **violated**: two packages installed with one path |
| `solve_require` | an installed package, its provider and another | **violated**: a package kept without what it requires |

*Why these bounds are enough.* Two processes suffice for the races of two
statements; three let a third see what two have done to the table (two readers
and a writer; two resets and a crashed holder). One retry distinguishes a first attempt, a later one
and giving up. Three packages are the
least for a cycle whose nodes are all upgrades and in which splitting one leaves a second cycle,
and for a chain of two dependencies, of which a wrong order breaks one or the other. Cycles of four and more
upgrades are not explored; the proofs of section 4 are for them.

`policy`: two commands are an update and an installation from what it brought, or an installation on top of one that
was refused or stopped half way. The offers are families: repositories with foreign packages that are called pkg, are
needed by others, provide features, lie in the base or are of another ABI; files that
need each other in a chain; files in a circle; a file that would replace pkg. The systems are NextBSD on two architectures, one whose
kernel says nothing, and explicit ABIs, one of which is of another system and has a minor version only. Three open archives let a chain of three come through and stop
a circle of two in its second round. Four path components are enough to leave `/usr/local` by `..` and come
back.

`fetch`: two pieces are the least for a file that is too short, one that is right in length and wrong in order or content, and, after
two writers, one that is too long. The third command has the order of jobs, and the sum of sizes that cancel out. It runs
after the two have ended, in whatever way: what matters to it is what it finds, and
`pkg clean` still disturbs it.

For `PkgSolve` the worlds are families (`MCPkgSolve`), each all there is of one
kind: three chains with a circle of dependencies, one with an alternative; two chains with two
versions and any files; one chain of two versions; three new packages that may all share paths;
vital packages and known conflicts, for deletions too; an installed package, and one with a package that comes along with it, that
own paths of what is installed and are not in the universe at first, sound, locked, without a dependency or both. `MaxPlans`, 10 in the code, is 3: two plans are enough to
negate a request and the next, and no property depends on how many there are.
What holds of four chains and more is for the proofs of section 4 to say.

`Row.read` is unbounded in the specification but never exceeds the number of
readers plus what crashed ones left, and `round` never exceeds 2, so no constraint is needed.

`CHECK_DEADLOCK FALSE` is set everywhere because every process and every
transaction ends, and a state in which all have ended has no successor. That nobody stops *before* the end
is what the liveness runs are for.

*Fairness.* `FairPolicySpec`: a command that was begun runs on; none need begin, and the build need not either.
`PkgFetch!FairSpec`: each command goes on unless it is killed (libfetch has timeouts, so that a transfer ends or fails); no
kill, no `pkg clean` and no good server is assumed. `PkgLock!Fairness`: a command that has begun goes on (the system schedules it, its
sleeps end, SQLite answers). No fairness between processes is assumed, nobody needs to begin a command,
and no crash is forced. `PkgSchedule`, `PkgExecute` and `PkgSolve` are one thread: weak fairness of their step, never of
`Crash`; the user of `PkgSolve` answers in the end, and which answer is left open.

*Where a property is not claimed.* `DependenciesPresent`, `NoConflictRegistered`,
`DamageIsLocal`, `CompletedIsSolved` and `SplitOldIsGone` are claimed as long as no commit of a registration has failed (`lost`). After that they are
false: the execution goes on after a registration that did not happen. What remains true then
(`RegisteredIsOnDisk`, `NewStaysNew`, `ExecutionEnds`) is claimed without exception. `DependenciesRegistered` is about
dependencies and not about features: a feature found when a package is added can be gone at the end, because
what is added for the next one may upgrade its provider. `AbiRespected` leaves out files given to `pkg install`, whose ABI
nobody asks (hazards). `FetchRepairs` is about commands that nobody disturbed; of two that fetch one archive
at once both may fail. Of a command that fetches nothing, because the sizes of what is in the cache add up to what it wants, it says
only that they do: its archives may be damaged, which is finding 6.
`SharingIsRegistered` leaves out packages of chains between which some conflict is known already (finding 4), and owners that
the universe refuses: a locked one, and one without a dependency at the one path at which it was added. `FoundConflictsExcluded` and `FailureHasCulprit` assume that what is installed at the start is sound (`InstalledIsSound`),
because a removal that is not carried out after all brings its defects along. `RoundsEnd` is excused once the
user is asked what to do: what is asked from then on has no end of its own (hazards).
`WorkIsRegistered` covers the time
from obtaining a lock up to the first release of the exclusive one; after that the process is unregistered
although it holds the advisory lock (hazards).

## 4. What is proved

`PkgPolicyProofs` proves, for every set of paths, offers, systems and locked packages and any bounds:

| theorem | statement |
|---|---|
| `PolicyTypes` | `PolicySpec => []PolicyTypeOK` |
| `BaseStaysNextbsd` | `PolicySpec => []BaseIsNextbsd` |
| `PackagesFitTheAbi` | `PolicySpec => []AbiRespected` |
| `RefusalStopsAll` | `PolicySpec => []RefusalChangesNothing` |
| `DependenciesComeFirst` | `PolicySpec => []DependenciesRegistered` |
| `AbiIsTheKernels` | `PolicySpec => []AbiIgnoresNote` |
| `UrlsArePublished` | `PolicySpec => []UrlIsPublished`, if `BuiltForNextbsd` |
| `HostChecksNeverFail` | `PolicySpec => []HostChecksPass` |

There are three assumptions. `PkgPolicyAssumption` is about the constants (what comes from a repository is of one that is
configured; what is installed at first is NextBSD's and complete). `SystemsAssumption` is the type of what `pkg_ini` finds. `PathsStayInside` says that the textual rule allows no path that
the file system finds elsewhere. Resolving a path is a recursion over it, so this one is for TLC, which evaluates it for
all paths of the run (2801 of them).

The argument is in layers. `TypeInv` adds the shape of the stack to the types. `PassedInv` says what each thing on its
way has passed: what is in a catalogue is of this ABI, a candidate is no foreign `pkg`, an archive that is
open was admitted. From it and the types follow `BaseIsNextbsd` and `AbiRespected`, since only
`RunJob` and `AddPackage` register. `UndoneInv` says that up to the point where a command may refuse it has registered
nothing: for `pkg add` that holds while the argument itself is not yet open. What is added for its sake may be refused later, when
others have been installed already; that is a failure of the argument and no refusal of it. `NeedsInv` is for the dependencies: those of an open archive that are no
longer in its list are registered, or are the archive above it (`StackServed`), and those of a job are registered or jobs themselves (`JobsServed`). Both
survive a registration because it replaces a package by one of the same name. For `AbiIsTheKernels` it is enough that
`abi` is what `Configure` found; the rest is that all three numbers of the note are overwritten
(`VersionOverwritten`). The proof showed that the property is about notes of FreeBSD executables only: where `ABI_FILE` is a
Linux one, the ABI is what its note says, on NextBSD too.

`UrlsArePublished` has a hypothesis of its own: the executables of the systems are of an architecture NextBSD is built for, and
nobody has set an ABI of NextBSD by hand. Without it the property is false (on any other architecture there is no such
repository). The module of the run assumes it too, so that TLC evaluates it for the systems of the run. The
architecture survives the change of system and version (`ArchKept`), so the url can be one of two only.

`NextbsdBuildProofs` has what `HostChecksNeverFail` rests on. `AllowedByComponent` replaces the prefixes and the scan of
`nextbsd_sip_path_allowed` by a rule about single components, for absolute paths of any length; `CasesAgree` applies it to the table
of `nextbsd-check-sip.c`, entry by entry, and `ExpectedAgree` does the same for `nextbsd-check-machine`. `BuildInv` then only adds
that the programs look at entries there are.

`PkgFetchProofs` proves, for every set of commands and archives of any sizes, all running together if they like:

| theorem | statement |
|---|---|
| `FetchTypes` | `Spec => []FetchTypeOK`, with the bound of what is written |
| `UndisturbedFetchRepairs` | `Spec => []FetchRepairs`: it does not fail, and every archive it has gone through is intact; one that goes through none has sizes that add up |

The assumption is `FetchAssumption`. That an undisturbed command does not fail is not inductive; `RepairInv` adds `Sound(p)`, what such a command knows
at each label. Of a file it resumes it knows the size only, and then the retry is still to come;
a file that it fetched from the beginning, which it does if it is at it for the second time, is right as far as it goes, and
the server's next piece is the one that is missing. So the checks succeed at the latest the second time. `SkipInv` is for a command that goes
through none: what it found when it planned (`SkipByPlan`) is still there, since nobody changed its archives since (`SameDownload`). Steps of others leave
`Sound(p)` alone because they leave the archives of `p` alone or end `undisturbed[p]`.

`PkgLockProofs` proves, for every finite set of processes, every set of
commands, any number of retries, with and without crashes, SQL errors and `READ_LOCK`:

| theorem | statement |
|---|---|
| `LockTypeCorrect` | `Spec => []TypeOK`; the count of readers never becomes negative |
| `LockExclusion` | `Spec => []LocksExclude` |
| `LockRecords` | `Spec => []RowsRecordHolders` |
| `LockImplementsDbLock` | `Spec => StepsAreLockSteps` |
| `WorkRegistered` | `Spec => []WorkIsRegistered` |
| `QuiescenceIsFree` | `Spec => []QuiescentIsFree` |

The only assumption is `PkgLockAssumption`. The argument: that locks exclude one
another is not inductive, since nothing in it keeps a statement from finding a free row
while somebody holds a lock. The invariant `IInv` adds to compatibility that the table shows at least
what is held (one row at most, a row if anybody holds anything, the flags of the
holders, and no fewer readers than there are). With that a granted statement
implies, through its WHERE clause, that the others hold nothing incompatible: no
flag in the row means no holder of the flag, `read = 0` means no reader. A release may lower the table only by what its process held;
where it did not hold it while another holds something, `intruded` is set. The reset
sets `intruded` unless nobody else holds anything, and an emptied table is
consistent with that. A crash only lowers `held`. Each action has a lemma: one step
per conjunct it can disturb; the count of readers needs that a set of readers with one
more or one less member has a cardinality one more or one less (`FiniteSetTheorems`).
`LockImplementsDbLock` uses `IInv` before the step and the cases of what the step does to `held`.

`WorkRegistered` rests on `CallInv`, one formula per process: which call and statement a command can be at
(`CallShape`), and from which of them on its pid is in the table (`Registered`). Only a process itself
removes its pid while it lives, so the steps of the others matter only in what they do not delete. `QuiescenceIsFree` needs the bound of the
table from the other side: `IInv` lets it show more than is held, since a crash leaves such rows behind. `ExactInv` says that as long as
nothing was usurped and all commands so far are readers and writers that neither crashed nor met an SQL error (`Undisturbed`) the table shows
no more than what processes hold, and a pid is in the other table only while its command works or releases.

`PkgScheduleProofs` proves, for every finite set of packages and every set of transactions over it, that is for
cycles of any length and any number of splits:

| theorem | statement |
|---|---|
| `ScheduleTypes` | `Spec => []TypeOK` |
| `ScheduleOrder` | `Spec => []OrderRespectsEdges` |
| `ScheduleIsComplete` | `Spec => []SortIsComplete` |
| `SchedulePath` | `Spec => []PathIsAssertSound` |
| `ScheduleRefusal` | `Spec => []FailsOnlyOnCircularDependencies` |

The assumption is `PkgScheduleAssumption`. None of the properties but the type is inductive: that the sort places all the
jobs depends on there being no cycle, which is what the search before it has found out. `SearchInv` says how, with three
witnesses that the code does not keep. A numbering `h` of the path: a back link leads from each node to the one numbered before it, which has an edge to it (`Chain`). A
rank `d` of the nodes marked done: every edge leads from a done node to a done node of lower rank (`Ranked`), since a node is
left only when all it leads to are done. And, while the cycle is walked, the ring of nodes on it (`Ring`), the numbered part of the
path from where it closed. When all are done the rank covers all jobs, so every
non-empty set of jobs has a member without a predecessor in it: with `SortInv` (what is not available has a predecessor that is not placed)
nothing can be left over. `FailsOnlyOnCircularDependencies` takes the ring as its witness: a ring without an edge at which an upgrade can be split
consists of dependencies alone. Induction is used on sets only: a minimal element of a set under a
rank (`WFMin`, from the well-foundedness of `<` and of strict inclusion of finite sets), never with an operator as a parameter.

`PkgExecuteProofs` extends them and proves, for every set of transactions and through every failure and crash:

| theorem | statement |
|---|---|
| `ExecuteTypes` | `ExecuteSpec => []ExecuteTypeOK` |
| `DependenciesStay` | `ExecuteSpec => []DependenciesPresent` |
| `ConflictsStayApart` | `ExecuteSpec => []NoConflictRegistered` |
| `DamageStaysLocal` | `ExecuteSpec => []DamageIsLocal` |
| `CompletionIsSolution` | `ExecuteSpec => []CompletedIsSolved` |
| `SplitFindsNothingOld` | `ExecuteSpec => []SplitOldIsGone` |
| `RegisteredHasFiles` | `ExecuteSpec => []RegisteredIsOnDisk` |
| `NewVersionsStay` | `ExecuteSpec => NewStaysNew` |
| `ExecutionIsOutcome` | `ExecuteSpec => []IsOutcome(req, inst)` |

The assumptions are those of the scheduler, `PkgExecuteAssumption`, and `SolvedAssumption`, which only `DependenciesStay` needs: without
it a transaction could ask for a new package whose dependency it deletes. (`SolverOffersSolved` below is that the solver asks for no such thing.) The executor takes over the
scheduler's invariant, which gives it the order. `RecordInv` is the link: a version is registered only if a job for it was
begun, and as long as no commit was lost every job that is settled had its effect. From the two,
a dependency that is missing would be that of a job placed before its own, and so on for conflicts and halves of upgrades:
each of these properties is a few lines about two positions in `sorted`. `FilesInv` ties `files` to the stage of the job at hand, and says that all the
others are as the database has them. `NewVersionsStay` needs that the package at hand is not there in its new version (`RunningNotNew`): only a job that comes
earlier can have put it there, and of the two halves of an upgrade the removing one comes first.

`PkgSolveProofs` proves, for every set of universes and requests that `PkgSolveAssumption` admits and every
assignment the SAT solver may give:

| theorem | statement |
|---|---|
| `SolveFailureHasCulprit` | `Spec => []FailureHasCulprit` |
| `SolveTypeCorrect` | `Spec => []SolveTypeOK` |
| `SolveMeetsDependencies` | `Spec => []DependenciesMet` |
| `SolveExcludesConflicts` | `Spec => []FoundConflictsExcluded` |
| `SolveFindsSharing` | `Spec => []SharingIsRegistered` |

The argument of the first: to leave everything installed as it is satisfies every clause, so there is always a model and a
failure is due to an assumption. That needs `InstalledAgree`, that no conflict stands between two installed packages,
which the property alone does not say; it is kept because a registered conflict is of a pair not both installed, and its type makes
`pkg_solve_add_conflict_rule` skip pairs of installed packages (`RegisteredSparesInstalled`). Every step but
`Compare` leaves the conflicts alone, and every step but `Solve` the problem.

`DependInv`, for `SolveMeetsDependencies`, claims the rule of dependencies for `result` from the answer on, in every phase and not only when
something is offered: the solver's answer satisfies it, and bringing back a package that `pkg_solve_can_keep` lets stay keeps it (`KeepMeetsDependencies`). The attempt showed that one more thing is needed of a universe, which `IsWorld` now says: an installed package that has a dependency with
alternatives has the first of them in the universe. Of a dependency that is not there `pkg_solve_can_keep` says "Assume satisfied", so that a
package could be kept while the solver, which knew of the alternative, has removed that one. The code
justifies it: `pkgdb_load_deps` makes an installed package's dependencies from the packages that are installed, and the closure of the universe
takes them in. (If that closure is broken off, the first alternative remains installed and no part of the transaction.)

`ConflictInv` claims the same of the rule of conflicts, except while a conflict was found and not yet solved again (`Agreed`). It
needs `Mutual`: a conflict that was found is known to both sides, so that `pkg_solve_can_keep`, which looks at the conflicts of
the package kept only, sees those of the others too (`KeepAgrees`).
`SharingInv` follows the search. Of every path checked it says that the package has a place among the items of
that path (`Entered`), behind items of chains with which it is `Cleared`: a conflict is known, or there is nothing to register. Of two packages that
share the path one has its place before the other, so they are cleared (an item is replaced only by another version of its chain). Where
the other is an installed package outside the problem, the search has met it as the owner of the path (`Searched`), and either compared the chains or was refused:
because it is locked, which it then stays out of the universe for (`LockedInv`), or because it lacked a dependency, after which it is in the universe, so that no
second path is lost (`EnteredMeet`, `OverlookedOwners`). `CheckInv` has this for the
paths already checked and how far the one at hand is; `JobsInv` and `CoverInv`, that what is executed has been
checked: every new package has a job and was at hand in a check that found nothing.

`PkgTransactionProofs` joins the two, for the same universes, requests and answers:

| theorem | statement |
|---|---|
| `SolverOffersSolved` | `Spec => []OffersSolved`: what is offered is a transaction as `PkgRequest` has it, and `Solved` |
| `ExecutionKeepsNeeds` | `Spec => []NeedsRegistered`: as long as `NeedsKept` holds of the transaction, no package the solver knew lacks one it needs, but in the gap of a split |
| `ExecutionKeepsConflictsApart` | `Spec => []ConflictsRegistered`: as long as `ConflictsApart` holds of the transaction, no two packages that the solver knew to conflict are registered |
| `ExecutionReachesResult` | `Spec => []ResultRegistered`: when all jobs are `Performed` what is registered is the solver's `result`, and what was installed of other chains |

The properties are about *every* outcome (`IsOutcome`) that keeps what is named, and that the outcomes of `PkgExecute` are such is
proved over there: `ExecutionIsOutcome`, `DependenciesStay`, `ConflictsStayApart` and `CompletionIsSolution` have the very same
operators of `PkgRequest` as their conclusions. So, put together: on a system that was sound when the command began, and as long as no commit is
lost, the execution of what the solver offers can be stopped by any failure or crash and
leaves none of the packages the solver knew without one it needs that could be had (but in that gap) and no two that conflict; if it completes, what is
registered is what was solved. (Of packages that the solver did not know, those in no relation to the request, nothing is changed.) The two specifications are not composed in one module, since nothing is shared but
the transaction; that they speak of one transaction is the definition of `Transaction`.

The invariant behind it is `OfferInv`: types, `DependInv`, and `MatchInv`, that for every chain that has been read its job is the
difference between the installed packages and `result`. The last needs a look at each way a chain is read: a
package kept by `pkg_solve_can_keep` has no job *and* is put back into `result`. `Solved` follows from `DependenciesMet` for new
packages and from `InstalledIsSound` for old ones, which is why the latter is a hypothesis: an installed package that lacked what
it needs may still lack it. The rest is a distinction by whether each end of a dependency has a job: with two jobs the executor keeps
it, with none nothing changes, with one it is the solver's answer that holds, except where the job is an upgrade that is split.

TLC has found no violation of the four properties in the universes of the run `solve`, and violations of each of them when one of
its hypotheses (soundness, the gap, dependencies without alternatives, `ConflictsApart`, the exemption of pkg
itself) was taken away. They are theorems without being properties of a run, which would add nothing to that.

Only model-checked: liveness (`StaleLockRecovered`, `Terminates`, `ExecutionEnds`, `RoundsEnd`, `FetchesEnd`, and `CommandsEnd` of `PkgPolicy`), which involves
fairness and ENABLED and is out of the prover's reach, and the assumption `PathsStayInside`, whose `Resolve` is a recursion over
the path. Every safety property of the passing runs is a theorem.

## 5. Findings

1. **A reset can take a live lock** (`lock_unsafe_reset`). `pkgdb_try_lock` commits the
   lock in `pkg_lock` first and registers the pid in a second statement. A process refused in
   between finds no live pid ("No live processes found, so we can safely reset lock") and resets. Also the reset comes
   several statements after the scan.
2. **`pkg check -d` becomes exclusive beside a transaction** (`lock_beside_exclusive`). It upgrades an
   advisory lock that it never obtained; the statement only asks that *somebody*
   has it, while `pkg.h.in` says that the exclusive lock "does not allow other locks".
3. **`LOCK_RETRIES` does not bound the attempts** (`lock_livelock`). After a reset the lock is asked for
   again with `tries` at 0. Two processes that delete and insert the row in step go on for ever.
4. **Two new packages with one path** (`solve_sharing`). A pair counts as registered when each
   has *some* conflict with the other's uid. If each new version also shares a path with the other's installed one
   (two packages that swap files, say), the conflict of the new ones is neither registered nor found in a later round. The
   registration in the database refuses the second of them in the middle of the transaction.
5. **A package is kept without what it requires** (`solve_require`). The solver gives it up because of a require rule;
   `pkg_solve_can_keep` ("can safely be kept") looks at dependencies and conflicts, not at shared libraries and provides.

6. **The integrity check checks nothing** (`fetch_integrity`). `pkg fetch` offers it when every archive has the size of the
   catalogue. Then there is nothing to download, `pkg_jobs_fetch` returns before it looks at a checksum, and
   "Integrity check was successful."

Not findings of a run, but on the way:

- A failed `pkg_jobs_schedule` returns from `pkg_jobs_execute` without releasing the exclusive lock; the next
  command recovers it (`StaleLockRecovered`).
- The commit of a registration is not checked in `pkg_add_common` (hazards).
- `pkg install ./file.pkg` never compares the file's ABI, although `src/pkg/NEXTBSD.md:159` says that the ABI of all
  packages has to match (hazards).
- A failed `pkg update` restores the previous catalogue (`repo/binary/update.c:765`), which the caller then removes
  (line 850).
- `pkg_abi_from_string` looks at the minor version of a string that has one only when its major version is no good, and then
  accepts the string with 0 for a major (`libpkg/pkg_abi.c:226`).
- A file conflict with an installed package that is locked, or lacks a dependency, is not registered (`libpkg/pkg_jobs_conflicts.c:461`): the
  transaction is offered as if there were none.
- An update of a catalogue that the user cancels commits the part that was read (`repo/binary/update.c:730`, where `rc` still is `EPKG_OK`),
  and the next one may take it to be current.
- A split upgrade leaves packages of no job without what they need until its second half (`InSplitGap`): installed packages that
  depend on it and are not themselves changed are not in the scheduler's graph (hazards).
- The scheduler orders jobs by the first choice of a dependency, although since alternatives exist the solver may have chosen another: while
  the jobs run, and if they stop, the alternative may be missing.
- When one archive lacks as much as others have too much, `pkg_jobs_fetch` fetches none of them (`pc` is `"skipped"`).

## 6. Not modelled, and the plan

Not modelled: the components marked so in `PROJECT.json`, with a reason each. Third-party code (SQLite, picosat,
libfetch, `sudo`, `zsh`, `pico`) is unmodified upstream; SQLite is taken to execute
one statement atomically.

The order of work, the most important behaviour first:

1. *(done)* `DbLock`, `PkgLock`, their runs and proofs.
2. *(done)* `PkgSchedule`, `PkgExecute` and their runs.
3. *(done)* `PkgSolve`, its runs, its type invariant and `FailureHasCulprit` proved. Left: the rest of the universe's
   closure; that asking the user need not end.
4. *(done)* `NextbsdSip`, `NextbsdAbi`, `NextbsdBuild`, `PkgPolicy`: NextBSD's own rules, their run and proofs. Left of the patches:
   `0002` and `0006`, which move files and choose a format, without a step that could go wrong in an order.
5. *(done)* `PkgFetch`, its runs and proofs. Left: `PkgRepoUpdate`, the lock file of an update, the verification and
   the replacement of a catalogue; triggers and deferred rc scripts as part of `PkgExecute`;
   `PkgVersion`, the comparison of versions as an operator, checked to be a total preorder over bounded versions, and
   the ranges of `pkg_audit.c` on top of it. Existing runs give way where these need one.
6. *(done)* Proofs of every safety property of the runs: `PkgScheduleProofs`, `PkgExecuteProofs`, `PkgLockProofs`,
   `PkgSolveProofs`, `PkgFetchProofs` and `PkgPolicyProofs`.
7. *(done)* `PkgRequest`, `PkgTransaction` and their proofs: what `PkgSolve` offers is what `PkgExecute` assumes. Left: dependencies with
   alternatives while the jobs are executed, of which the code makes no promise.
