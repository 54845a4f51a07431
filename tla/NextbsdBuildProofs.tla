------------------------- MODULE NextbsdBuildProofs -------------------------
(***************************************************************************)
(* The programs that check the headers on the build host find them right.   *)
(* Both headers are evaluated on the tables of both programs, for which the *)
(* rules are stated by the components of a path first.                      *)
(***************************************************************************)
EXTENDS NextbsdBuild, TLAPS

Absolute(s) == Path(TRUE, s)

\* nextbsd_sip_path_allowed by what it looks at.
InAllowedTree(s) ==
    /\ \A i \in 1..Len(s) : s[i] # ".."
    /\ \/ Len(s) >= 1 /\ s[1] = "var"
       \/ Len(s) >= 2 /\ s[1] = "usr" /\ s[2] = "local"

\* The two prefixes of nextbsd_sip_allowed, by component.
LEMMA PrefixByComponent ==
    ASSUME NEW S, NEW s \in Seq(S)
    PROVE  /\ IsPrefix(<<"var">>, s) <=> Len(s) >= 1 /\ s[1] = "var"
           /\ IsPrefix(<<"usr", "local">>, s) <=> Len(s) >= 2 /\ s[1] = "usr" /\ s[2] = "local"
<1>1. ASSUME Len(s) >= 1 PROVE SubSeq(<<"var">>, 1, 1) = SubSeq(s, 1, 1) <=> s[1] = "var"
  BY <1>1
<1>2. ASSUME Len(s) >= 2
      PROVE  SubSeq(<<"usr", "local">>, 1, 2) = SubSeq(s, 1, 2) <=> s[1] = "usr" /\ s[2] = "local"
  BY <1>2
<1>3. Len(<<"var">>) = 1 /\ Len(<<"usr", "local">>) = 2 /\ Len(s) \in Nat
  OBVIOUS
<1> QED BY <1>1, <1>2, <1>3 DEF IsPrefix

\* The code, with its scan for ".." and its comparison of prefixes, looks at that.
LEMMA AllowedByComponent ==
    ASSUME NEW S, NEW s \in Seq(S)
    PROVE  nextbsd_sip_path_allowed(Absolute(s)) <=> InAllowedTree(s)
<1>1. nextbsd_sip_path_allowed(Absolute(s)) <=>
          /\ ~Contains(s, "..")
          /\ IsPrefix(<<"usr", "local">>, s) \/ IsPrefix(<<"var">>, s)
  BY DEF nextbsd_sip_path_allowed, nextbsd_sip_allowed, Under, Path, Absolute
<1> QED BY <1>1, PrefixByComponent DEF Contains, InAllowedTree

\* No relative path is allowed.
LEMMA RelativeRefused == ASSUME NEW s PROVE ~nextbsd_sip_path_allowed(Path(FALSE, s))
  BY DEF nextbsd_sip_path_allowed, Under, Path

\* The answer is yes or no.
LEMMA AllowedIsBoolean == ASSUME NEW path PROVE nextbsd_sip_path_allowed(path) \in BOOLEAN
  BY DEF nextbsd_sip_path_allowed

\* The rule for paths of one component.
LEMMA AllowedOf1 ==
    ASSUME NEW a
    PROVE  nextbsd_sip_path_allowed(Absolute(<<a>>)) <=>
               /\ a # ".."
               /\ a = "var"
<1> DEFINE s == <<a>>
<1>1. /\ s \in Seq({a}) /\ Len(s) = 1
      /\ s[1] = a
  OBVIOUS
<1> HIDE DEF s
<1>2. nextbsd_sip_path_allowed(Absolute(s)) <=> InAllowedTree(s)
  BY <1>1, AllowedByComponent
<1>3. InAllowedTree(s) <=>
          /\ a # ".."
          /\ a = "var"
  BY <1>1 DEF InAllowedTree
<1> QED BY <1>2, <1>3 DEF s

\* And of two.
LEMMA AllowedOf2 ==
    ASSUME NEW a, NEW b
    PROVE  nextbsd_sip_path_allowed(Absolute(<<a, b>>)) <=>
               /\ a # ".." /\ b # ".."
               /\ a = "var" \/ (a = "usr" /\ b = "local")
<1> DEFINE s == <<a, b>>
<1>1. /\ s \in Seq({a, b}) /\ Len(s) = 2
      /\ s[1] = a /\ s[2] = b
  OBVIOUS
<1> HIDE DEF s
<1>2. nextbsd_sip_path_allowed(Absolute(s)) <=> InAllowedTree(s)
  BY <1>1, AllowedByComponent
<1>3. InAllowedTree(s) <=>
          /\ a # ".." /\ b # ".."
          /\ a = "var" \/ (a = "usr" /\ b = "local")
  BY <1>1 DEF InAllowedTree
<1> QED BY <1>2, <1>3 DEF s

\* And of three.
LEMMA AllowedOf3 ==
    ASSUME NEW a, NEW b, NEW c
    PROVE  nextbsd_sip_path_allowed(Absolute(<<a, b, c>>)) <=>
               /\ a # ".." /\ b # ".." /\ c # ".."
               /\ a = "var" \/ (a = "usr" /\ b = "local")
<1> DEFINE s == <<a, b, c>>
<1>1. /\ s \in Seq({a, b, c}) /\ Len(s) = 3
      /\ s[1] = a /\ s[2] = b /\ s[3] = c
  OBVIOUS
<1> HIDE DEF s
<1>2. nextbsd_sip_path_allowed(Absolute(s)) <=> InAllowedTree(s)
  BY <1>1, AllowedByComponent
<1>3. InAllowedTree(s) <=>
          /\ a # ".." /\ b # ".." /\ c # ".."
          /\ a = "var" \/ (a = "usr" /\ b = "local")
  BY <1>1 DEF InAllowedTree
<1> QED BY <1>2, <1>3 DEF s

\* And of four.
LEMMA AllowedOf4 ==
    ASSUME NEW a, NEW b, NEW c, NEW d
    PROVE  nextbsd_sip_path_allowed(Absolute(<<a, b, c, d>>)) <=>
               /\ a # ".." /\ b # ".." /\ c # ".." /\ d # ".."
               /\ a = "var" \/ (a = "usr" /\ b = "local")
<1> DEFINE s == <<a, b, c, d>>
<1>1. /\ s \in Seq({a, b, c, d}) /\ Len(s) = 4
      /\ s[1] = a /\ s[2] = b /\ s[3] = c /\ s[4] = d
  OBVIOUS
<1> HIDE DEF s
<1>2. nextbsd_sip_path_allowed(Absolute(s)) <=> InAllowedTree(s)
  BY <1>1, AllowedByComponent
<1>3. InAllowedTree(s) <=>
          /\ a # ".." /\ b # ".." /\ c # ".." /\ d # ".."
          /\ a = "var" \/ (a = "usr" /\ b = "local")
  BY <1>1 DEF InAllowedTree
<1> QED BY <1>2, <1>3 DEF s

\* And of six.
LEMMA AllowedOf6 ==
    ASSUME NEW a, NEW b, NEW c, NEW d, NEW e, NEW f
    PROVE  nextbsd_sip_path_allowed(Absolute(<<a, b, c, d, e, f>>)) <=>
               /\ a # ".." /\ b # ".." /\ c # ".." /\ d # ".." /\ e # ".." /\ f # ".."
               /\ a = "var" \/ (a = "usr" /\ b = "local")
<1> DEFINE s == <<a, b, c, d, e, f>>
<1>1. /\ s \in Seq({a, b, c, d, e, f}) /\ Len(s) = 6
      /\ s[1] = a /\ s[2] = b /\ s[3] = c /\ s[4] = d /\ s[5] = e /\ s[6] = f
  OBVIOUS
<1> HIDE DEF s
<1>2. nextbsd_sip_path_allowed(Absolute(s)) <=> InAllowedTree(s)
  BY <1>1, AllowedByComponent
<1>3. InAllowedTree(s) <=>
          /\ a # ".." /\ b # ".." /\ c # ".." /\ d # ".." /\ e # ".." /\ f # ".."
          /\ a = "var" \/ (a = "usr" /\ b = "local")
  BY <1>1 DEF InAllowedTree
<1> QED BY <1>2, <1>3 DEF s

\* The program finds this answer right.
Agrees(case) == nextbsd_sip_path_allowed(case.path) = case.allowed

\* It does so if it is what the table says.
LEMMA AgreesIfAllowed ==
    ASSUME NEW p, nextbsd_sip_path_allowed(p)
    PROVE  Agrees([path |-> p, allowed |-> TRUE])
BY AllowedIsBoolean DEF Agrees

\* Of a path that is not allowed likewise.
LEMMA AgreesIfRefused ==
    ASSUME NEW p, ~nextbsd_sip_path_allowed(p)
    PROVE  Agrees([path |-> p, allowed |-> FALSE])
<1>1. nextbsd_sip_path_allowed(p) = FALSE
  BY AllowedIsBoolean
<1> QED BY <1>1 DEF Agrees

\* The table of nextbsd-check-sip.c, case by case.
LEMMA CasesAgree == \A k \in 1..Len(cases) : Agrees(cases[k])
<1> DEFINE empty == ""
<1>0. empty # ".."
  OBVIOUS
<1> HIDE DEF empty
<1>1. Agrees(cases[1])
  <2>1. nextbsd_sip_path_allowed(Absolute(<<"usr", "local", "bin", "git">>))
    BY <1>0, AllowedOf4
  <2>2. cases[1] = [path |-> Absolute(<<"usr", "local", "bin", "git">>), allowed |-> TRUE]
    BY DEF cases, Absolute
  <2> QED BY <2>1, <2>2, AgreesIfAllowed
<1>2. Agrees(cases[2])
  <2>1. nextbsd_sip_path_allowed(Absolute(<<"usr", "local", "share", "doc", "git", empty>>))
    BY <1>0, AllowedOf6
  <2>2. cases[2] =
            [path |-> Absolute(<<"usr", "local", "share", "doc", "git", empty>>), allowed |-> TRUE]
    BY DEF cases, Absolute, empty
  <2> QED BY <2>1, <2>2, AgreesIfAllowed
<1>3. Agrees(cases[3])
  <2>1. nextbsd_sip_path_allowed(Absolute(<<"usr", "local">>))
    BY <1>0, AllowedOf2
  <2>2. cases[3] = [path |-> Absolute(<<"usr", "local">>), allowed |-> TRUE]
    BY DEF cases, Absolute
  <2> QED BY <2>1, <2>2, AgreesIfAllowed
<1>4. Agrees(cases[4])
  <2>1. nextbsd_sip_path_allowed(Absolute(<<"usr", "local", empty>>))
    BY <1>0, AllowedOf3
  <2>2. cases[4] = [path |-> Absolute(<<"usr", "local", empty>>), allowed |-> TRUE]
    BY DEF cases, Absolute, empty
  <2> QED BY <2>1, <2>2, AgreesIfAllowed
<1>5. Agrees(cases[5])
  <2>1. nextbsd_sip_path_allowed(Absolute(<<"var", "db", "git">>))
    BY <1>0, AllowedOf3
  <2>2. cases[5] = [path |-> Absolute(<<"var", "db", "git">>), allowed |-> TRUE]
    BY DEF cases, Absolute
  <2> QED BY <2>1, <2>2, AgreesIfAllowed
<1>6. Agrees(cases[6])
  <2>1. nextbsd_sip_path_allowed(Absolute(<<"var">>))
    BY <1>0, AllowedOf1
  <2>2. cases[6] = [path |-> Absolute(<<"var">>), allowed |-> TRUE]
    BY DEF cases, Absolute
  <2> QED BY <2>1, <2>2, AgreesIfAllowed
<1>7. Agrees(cases[7])
  <2>1. ~nextbsd_sip_path_allowed(Absolute(<<"usr", "bin", "uname">>))
    BY <1>0, AllowedOf3
  <2>2. cases[7] = [path |-> Absolute(<<"usr", "bin", "uname">>), allowed |-> FALSE]
    BY DEF cases, Absolute
  <2> QED BY <2>1, <2>2, AgreesIfRefused
<1>8. Agrees(cases[8])
  <2>1. ~nextbsd_sip_path_allowed(Absolute(<<"etc", "rc.conf">>))
    BY <1>0, AllowedOf2
  <2>2. cases[8] = [path |-> Absolute(<<"etc", "rc.conf">>), allowed |-> FALSE]
    BY DEF cases, Absolute
  <2> QED BY <2>1, <2>2, AgreesIfRefused
<1>9. Agrees(cases[9])
  <2>1. ~nextbsd_sip_path_allowed(Absolute(<<"boot", "kernel", "kernel">>))
    BY <1>0, AllowedOf3
  <2>2. cases[9] = [path |-> Absolute(<<"boot", "kernel", "kernel">>), allowed |-> FALSE]
    BY DEF cases, Absolute
  <2> QED BY <2>1, <2>2, AgreesIfRefused
<1>10. Agrees(cases[10])
  <2>1. ~nextbsd_sip_path_allowed(Absolute(<<"boot", "modules", "i915kms.ko">>))
    BY <1>0, AllowedOf3
  <2>2. cases[10] = [path |-> Absolute(<<"boot", "modules", "i915kms.ko">>), allowed |-> FALSE]
    BY DEF cases, Absolute
  <2> QED BY <2>1, <2>2, AgreesIfRefused
<1>11. Agrees(cases[11])
  <2>1. ~nextbsd_sip_path_allowed(Absolute(<<"usr", "lib", "libc.so.7">>))
    BY <1>0, AllowedOf3
  <2>2. cases[11] = [path |-> Absolute(<<"usr", "lib", "libc.so.7">>), allowed |-> FALSE]
    BY DEF cases, Absolute
  <2> QED BY <2>1, <2>2, AgreesIfRefused
<1>12. Agrees(cases[12])
  <2>1. ~nextbsd_sip_path_allowed(Absolute(<<"sbin", "init">>))
    BY <1>0, AllowedOf2
  <2>2. cases[12] = [path |-> Absolute(<<"sbin", "init">>), allowed |-> FALSE]
    BY DEF cases, Absolute
  <2> QED BY <2>1, <2>2, AgreesIfRefused
<1>13. Agrees(cases[13])
  <2>1. ~nextbsd_sip_path_allowed(Absolute(<<"usr", "localx", "bin", "x">>))
    BY <1>0, AllowedOf4
  <2>2. cases[13] = [path |-> Absolute(<<"usr", "localx", "bin", "x">>), allowed |-> FALSE]
    BY DEF cases, Absolute
  <2> QED BY <2>1, <2>2, AgreesIfRefused
<1>14. Agrees(cases[14])
  <2>1. ~nextbsd_sip_path_allowed(Absolute(<<"variable", "x">>))
    BY <1>0, AllowedOf2
  <2>2. cases[14] = [path |-> Absolute(<<"variable", "x">>), allowed |-> FALSE]
    BY DEF cases, Absolute
  <2> QED BY <2>1, <2>2, AgreesIfRefused
<1>15. Agrees(cases[15])
  <2>1. ~nextbsd_sip_path_allowed(Absolute(<<"usr", "local", "..", "..", "etc", "passwd">>))
    BY <1>0, AllowedOf6
  <2>2. cases[15] =
            [path |-> Absolute(<<"usr", "local", "..", "..", "etc", "passwd">>), allowed |-> FALSE]
    BY DEF cases, Absolute
  <2> QED BY <2>1, <2>2, AgreesIfRefused
<1>16. Agrees(cases[16])
  <2>1. ~nextbsd_sip_path_allowed(Absolute(<<"var", "..">>))
    BY <1>0, AllowedOf2
  <2>2. cases[16] = [path |-> Absolute(<<"var", "..">>), allowed |-> FALSE]
    BY DEF cases, Absolute
  <2> QED BY <2>1, <2>2, AgreesIfRefused
<1>17. Agrees(cases[17])
  <2>1. ~nextbsd_sip_path_allowed(Path(FALSE, <<"usr", "local", "bin", "x">>))
    BY <1>0, RelativeRefused
  <2>2. cases[17] = [path |-> Path(FALSE, <<"usr", "local", "bin", "x">>), allowed |-> FALSE]
    BY DEF cases, Absolute
  <2> QED BY <2>1, <2>2, AgreesIfRefused
<1>18. Agrees(cases[18])
  <2>1. ~nextbsd_sip_path_allowed(Absolute(<<"compat", "linux", "bin", "sh">>))
    BY <1>0, AllowedOf4
  <2>2. cases[18] = [path |-> Absolute(<<"compat", "linux", "bin", "sh">>), allowed |-> FALSE]
    BY DEF cases, Absolute
  <2> QED BY <2>1, <2>2, AgreesIfRefused
<1>19. Len(cases) = 18
  BY DEF cases
<1> QED
  BY <1>1, <1>2, <1>3, <1>4, <1>5, <1>6, <1>7, <1>8, <1>9, <1>10, <1>11, <1>12, <1>13, <1>14,
     <1>15, <1>16, <1>17, <1>18, <1>19

----------------------------------------------------------------------------
\* nextbsd_machine renames aarch64 and leaves amd64 alone.
LEMMA MachineOf == nextbsd_machine("amd64") = "amd64" /\ nextbsd_machine("aarch64") = "arm64"
<1>1. /\ "aarch64" \in DOMAIN machines /\ machines["aarch64"] = "arm64"
      /\ "amd64" \notin DOMAIN machines
  BY DEF machines
<1> QED BY <1>1 DEF nextbsd_machine

\* The url of NextBSD.conf becomes the one that ends in the machine.
LEMMA UrlOfMachine ==
    ASSUME NEW settings
    PROVE  Expand(conf_url, settings) = <<"continuous-", settings.MACHINE>>
<1> DEFINE variable == "${MACHINE}"
<1>1. conf_url = <<"continuous-", variable>> /\ "continuous-" # variable
  BY DEF conf_url
<1>2. Expand(conf_url, settings) =
          [k \in DOMAIN conf_url |-> IF conf_url[k] = variable THEN settings.MACHINE ELSE conf_url[k]]
  BY DEF Expand
<1> HIDE DEF variable
<1> QED BY <1>1, <1>2

\* So nextbsd-check-machine expects what it gets, for every ABI.
LEMMA MachineChecked ==
    ASSUME NEW os, NEW version, NEW arch
    PROVE  check_machine(<<os, version, arch>>, <<"continuous-", nextbsd_machine(arch)>>)
<1>1. Last(<<os, version, arch>>) = arch
  BY DEF Last
<1> QED BY <1>1, UrlOfMachine DEF check_machine

\* Both architectures of the script are expected to have the url they get.
LEMMA ExpectedAgree ==
    /\ Len(expected) = 2
    /\ \A k \in 1..2 : check_machine(expected[k].abi, expected[k].url)
<1>1. check_machine(expected[1].abi, expected[1].url)
  BY MachineChecked, MachineOf DEF expected
<1>2. check_machine(expected[2].abi, expected[2].url)
  BY MachineChecked, MachineOf DEF expected
<1>3. Len(expected) = 2
  BY DEF expected
<1> QED BY <1>1, <1>2, <1>3

----------------------------------------------------------------------------
\* next counts up from 1, so what the programs look at is in their tables.
BuildInv ==
    /\ build \in {"sip", "machine", "staged"}
    /\ next \in Nat \ {0}
    /\ bad = FALSE

\* Nothing has been looked at before.
LEMMA BuildInvInit == BuildInit => BuildInv
  BY DEF BuildInit, BuildInv

\* No step of the build finds a wrong answer.
LEMMA BuildInvStep == BuildInv /\ [BuildNext]_bvars => BuildInv'
<1> SUFFICES ASSUME BuildInv, [BuildNext]_bvars PROVE BuildInv'
  OBVIOUS
<1> USE DEF BuildInv
<1>1. CASE CheckCase
  <2>1. next \in 1..Len(cases)
    BY <1>1, CasesAgree DEF CheckCase
  <2>2. Agrees(cases[next])
    BY <2>1, CasesAgree
  <2>3. bad' = FALSE
    BY <1>1, <2>2 DEF CheckCase, Agrees
  <2> QED BY <1>1, <2>3 DEF CheckCase
<1>2. CASE CasesChecked
  BY <1>2 DEF CasesChecked
<1>3. CASE CheckMachine
  <2>1. next \in 1..2
    BY <1>3, ExpectedAgree DEF CheckMachine
  <2>2. check_machine(expected[next].abi, expected[next].url)
    BY <2>1, ExpectedAgree
  <2> QED BY <1>3, <2>2 DEF CheckMachine
<1>4. CASE Stage
  BY <1>4 DEF Stage
<1>5. CASE UNCHANGED bvars
  BY <1>5 DEF bvars
<1> QED BY <1>1, <1>2, <1>3, <1>4, <1>5 DEF BuildNext

\* So the build does not fail.
LEMMA BuildInvIsEnough == BuildInv => HostChecksPass
  BY DEF BuildInv, HostChecksPass
=============================================================================
