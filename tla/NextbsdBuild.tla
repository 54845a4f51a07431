---------------------------- MODULE NextbsdBuild ----------------------------
(***************************************************************************)
(* The last checks of build_pkg (build-contrib.sh) before pkg is staged:    *)
(* nextbsd-check-sip and nextbsd-check-machine, run on the build host with  *)
(* the headers of the patches.  A wrong answer fails the build.             *)
(***************************************************************************)
EXTENDS NextbsdSip, NextbsdAbi

\* The table of nextbsd-check-sip.c.
cases ==
    <<[path |-> Path(TRUE, <<"usr", "local", "bin", "git">>),             allowed |-> TRUE],
      [path |-> Path(TRUE, <<"usr", "local", "share", "doc", "git", "">>), allowed |-> TRUE],
      [path |-> Path(TRUE, <<"usr", "local">>),                           allowed |-> TRUE],
      [path |-> Path(TRUE, <<"usr", "local", "">>),                       allowed |-> TRUE],
      [path |-> Path(TRUE, <<"var", "db", "git">>),                       allowed |-> TRUE],
      [path |-> Path(TRUE, <<"var">>),                                    allowed |-> TRUE],
      [path |-> Path(TRUE, <<"usr", "bin", "uname">>),                    allowed |-> FALSE],
      [path |-> Path(TRUE, <<"etc", "rc.conf">>),                         allowed |-> FALSE],
      [path |-> Path(TRUE, <<"boot", "kernel", "kernel">>),               allowed |-> FALSE],
      [path |-> Path(TRUE, <<"boot", "modules", "i915kms.ko">>),          allowed |-> FALSE],
      [path |-> Path(TRUE, <<"usr", "lib", "libc.so.7">>),                allowed |-> FALSE],
      [path |-> Path(TRUE, <<"sbin", "init">>),                           allowed |-> FALSE],
      [path |-> Path(TRUE, <<"usr", "localx", "bin", "x">>),              allowed |-> FALSE],
      [path |-> Path(TRUE, <<"variable", "x">>),                          allowed |-> FALSE],
      [path |-> Path(TRUE, <<"usr", "local", "..", "..", "etc", "passwd">>), allowed |-> FALSE],
      [path |-> Path(TRUE, <<"var", "..">>),                              allowed |-> FALSE],
      [path |-> Path(FALSE, <<"usr", "local", "bin", "x">>),              allowed |-> FALSE],
      [path |-> Path(TRUE, <<"compat", "linux", "bin", "sh">>),           allowed |-> FALSE]>>

\* The url of NextBSD.conf, with its variable; and the urls the script expects.
conf_url == <<"continuous-", "${MACHINE}">>
expected ==
    <<[abi |-> <<"FreeBSD", <<15>>, "amd64">>,   url |-> <<"continuous-", "amd64">>],
      [abi |-> <<"FreeBSD", <<15>>, "aarch64">>, url |-> <<"continuous-", "arm64">>]>>

\* What libucl makes of the url when the variables are registered.
Expand(url, vars) ==
    [k \in DOMAIN url |-> IF url[k] = "${MACHINE}" THEN vars.MACHINE ELSE url[k]]

\* nextbsd-check-machine: its ARCH is the last field of the ABI.
check_machine(abi, url) ==
    Expand(conf_url, [ARCH |-> Last(abi), MACHINE |-> nextbsd_machine(Last(abi))]) = url

----------------------------------------------------------------------------
VARIABLES
    build,      \* the program that runs, then "staged" or "failed"
    next,       \* the case it looks at
    bad         \* an answer was wrong

bvars == <<build, next, bad>>

BuildInit == build = "sip" /\ next = 1 /\ bad = FALSE

\* One round of the loop of nextbsd-check-sip's main.
CheckCase ==
    /\ build = "sip" /\ next <= Len(cases)
    /\ bad' = (bad \/ nextbsd_sip_path_allowed(cases[next].path) # cases[next].allowed)
    /\ next' = next + 1
    /\ UNCHANGED build

\* It returns bad, and the script goes on or fails.
CasesChecked ==
    /\ build = "sip" /\ next > Len(cases)
    /\ build' = IF bad THEN "failed" ELSE "machine"
    /\ next' = 1
    /\ UNCHANGED bad

\* nextbsd-check-machine is run for one ABI after the other.
CheckMachine ==
    /\ build = "machine" /\ next <= Len(expected)
    /\ IF check_machine(expected[next].abi, expected[next].url)
       THEN next' = next + 1 /\ UNCHANGED build
       ELSE build' = "failed" /\ UNCHANGED next
    /\ UNCHANGED bad

Stage ==
    /\ build = "machine" /\ next > Len(expected)
    /\ build' = "staged"
    /\ UNCHANGED <<next, bad>>

BuildNext == CheckCase \/ CasesChecked \/ CheckMachine \/ Stage

\* The host checks agree with the headers: neither program finds a wrong answer.
HostChecksPass == build # "failed" /\ ~bad
=============================================================================
