---------------------------- MODULE MCPkgPolicy -----------------------------
(* Systems, repositories and package files for TLC's run of PkgPolicy.      *)
EXTENDS PkgPolicy

\* All absolute paths of up to four components, some of them not normal.
Components == {"usr", "local", "var", "etc", "..", ".", ""}
AllPaths == {Path(TRUE, c) : c \in UNION {[1..k -> Components] : k \in 1..4}}
            \cup {Path(FALSE, <<"usr", "local">>)}

usr_bin == Path(TRUE, <<"usr", "etc">>)
usr_local == Path(TRUE, <<"usr", "local", "etc">>)
var_up == Path(TRUE, <<"var", "..", "etc">>)

\* A NextBSD system by its note and by what sysctl and uname say of it.
System(osversion, ostype, osrelease, ABI, OSVERSION) ==
    [note |-> pkg_abi_set_freebsd_osversion(
                  [os |-> "FreeBSD", major |-> 0, minor |-> 0, patch |-> 0,
                   arch |-> IF osversion = 1501000 THEN "AMD64" ELSE "aarch64"], osversion),
     ostype |-> ostype, osrelease |-> osrelease, sysname |-> "FreeBSD", release |-> <<15, 1>>,
     ABI |-> ABI, OSVERSION |-> OSVERSION]

AllSystems ==
    {System(1501000, "NextBSD", <<27, 0, 0>>, None, None),
     System(2700000, "NextBSD", <<27, 0, 0>>, None, None),
     System(1501000, "FreeBSD", <<15, 1>>, None, None),
     System(1501000, "NextBSD", <<27, 0, 0>>, <<"FreeBSD", <<15>>, "amd64">>, 1500000),
     System(1501000, "NextBSD", <<27, 0, 0>>, <<"FreeBSD", <<15>>, "sparc">>, None),
     System(1501000, "NextBSD", <<27, 0, 0>>, <<"dragonfly", <<0, 1>>, "x86:64">>, None)}

ASSUME SystemsOfNextbsd == BuiltForNextbsd

Pkg(name, version, source, stamped, paths, abi_, osversion, deps, requires, provides) ==
    [name |-> name, version |-> version, source |-> source, stamped |-> stamped,
     paths |-> paths, abi |-> abi_, osversion |-> osversion,
     deps |-> deps, requires |-> requires, provides |-> provides]

nextbsd == <<"NextBSD", <<27>>, "*">>
freebsd == <<"FreeBSD", <<15>>, "amd64">>
any == <<"NextBSD", <<>>>>

pkg1 == Pkg("pkg", 1, "NextBSD", TRUE, {usr_bin}, nextbsd, 2700000, {}, {}, {})
Remote(name, version, source, paths, abi_, deps, requires, provides) ==
    Pkg(name, version, source, source = "NextBSD", paths, abi_, None, deps, requires, provides)
File(name, stamped, paths, abi_, osversion, deps, requires, provides) ==
    Pkg(name, 1, "file", stamped, paths, abi_, osversion, deps, requires, provides)

\* Repositories: NextBSD's, and another one that has a pkg too.
Repositories ==
    {Remote("pkg", 2, "NextBSD", {usr_bin}, nextbsd, {}, {}, {"pkg"}),
     Remote("base", 1, "NextBSD", {usr_bin}, nextbsd, {}, {}, {}),
     Remote("pkg", 3, "other", {usr_local}, nextbsd, {}, {}, {"pkg", "f"}),
     Remote("tool", 1, "other", {usr_local}, nextbsd, {"pkg", "lib"}, {"f"}, {}),
     Remote("lib", 1, "other", {usr_local}, nextbsd, {}, {}, {"f"}),
     Remote("base", 2, "other", {usr_bin}, nextbsd, {}, {}, {})}

\* Files that need one another, one of them in a circle; foreign ones.
Chain ==
    {File("tool", FALSE, {usr_local}, nextbsd, 2700001, {"lib"}, {"f"}, {}),
     File("lib", FALSE, {usr_local}, freebsd, None, {}, {}, {}),
     File("pkg", FALSE, {usr_local}, nextbsd, None, {}, {}, {"f"}),
     File("feature", TRUE, {usr_bin}, any, 2700000, {}, {}, {"f"})}

Circle ==
    {File("tool", FALSE, {usr_local}, nextbsd, None, {"lib"}, {}, {}),
     File("lib", FALSE, {usr_local}, nextbsd, None, {"tool"}, {}, {}),
     File("base", FALSE, {usr_local, var_up}, nextbsd, None, {"tool"}, {}, {})}

NewPkg == {File("pkg", TRUE, {usr_bin}, nextbsd, None, {}, {}, {}),
           File("tool", FALSE, {usr_local}, freebsd, None, {"missing"}, {}, {}),
           File("lib", FALSE, {}, freebsd, 2900000, {}, {"g"}, {}),
           File("base", FALSE, {usr_bin}, nextbsd, None, {"lib"}, {}, {})}

AllOffers ==
    {[remote |-> Repositories, files |-> {}, base |-> {pkg1}],
     [remote |-> {p \in Repositories : p.name \in {"lib", "tool"}}, files |-> Chain, base |-> {pkg1}],
     [remote |-> {}, files |-> Circle, base |-> {pkg1}],
     [remote |-> {}, files |-> NewPkg, base |-> {[pkg1 EXCEPT !.version = 0]}]}
=============================================================================
