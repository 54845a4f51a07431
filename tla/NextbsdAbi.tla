----------------------------- MODULE NextbsdAbi -----------------------------
(***************************************************************************)
(* The ABI of the system pkg runs on and what follows from it: pkg_abi.c,   *)
(* config_init_abi and config_parser_vars_register (pkg_config.c) and       *)
(* is_valid_abi, is_valid_os_version (utils.c), with patches 0003 and 0005. *)
(*                                                                         *)
(* An ABI string is <<os, version, arch>>, a version the sequence of its    *)
(* numbers and <<>> the version "*"; those of packages may have fewer       *)
(* fields.  The ABI "*" alone is left out, and so is the case of letters,   *)
(* which is_valid_abi ignores.                                              *)
(***************************************************************************)
EXTENDS Integers, Sequences, SequencesExt

CONSTANT None       \* NULL

\* What pkg_abi.c spells amd64 like, and which strings show the major alone.
os_table == [FreeBSD   |-> [amd64 |-> "amd64",  major_version_only |-> TRUE],
             NetBSD    |-> [amd64 |-> "x86_64", major_version_only |-> TRUE],
             dragonfly |-> [amd64 |-> "x86:64", major_version_only |-> FALSE],
             Linux     |-> [amd64 |-> "x86_64", major_version_only |-> FALSE],
             Darwin    |-> [amd64 |-> "x86_64", major_version_only |-> TRUE],
             CheriBSD  |-> [amd64 |-> "amd64",  major_version_only |-> TRUE],
             NextBSD   |-> [amd64 |-> "amd64",  major_version_only |-> TRUE]]

\* Every architecture but amd64 has one name; that one is called AMD64 here.
Arches == {"i386", "armv6", "armv7", "aarch64", "aarch64c", "aarch64cb", "powerpc",
           "powerpc64", "powerpc64le", "riscv32", "riscv64", "riscv64c"}

pkg_os_is_freebsd_like(os) == os \in {"FreeBSD", "NextBSD"}

\* Faulty variant: only FreeBSD's own amd64 is spelled like that.
ArchToStringUpstream(os, arch) ==
    IF arch # "AMD64" THEN arch ELSE IF os = "FreeBSD" THEN "amd64" ELSE "x86_64"

pkg_arch_to_string(os, arch) == IF arch = "AMD64" THEN os_table[os].amd64 ELSE arch

pkg_arch_from_string(os, string) ==
    CASE string = os_table[os].amd64  -> "AMD64"
      [] string \in Arches \cup {"*"} -> string
      [] OTHER                        -> None

----------------------------------------------------------------------------
\* ABI strings
pkg_abi_to_string(abi) ==
    <<abi.os,
      IF os_table[abi.os].major_version_only THEN <<abi.major>> ELSE <<abi.major, abi.minor>>,
      pkg_arch_to_string(abi.os, abi.arch)>>

\* As in the code, the version "*" is for systems that show the major alone, and
\* the minor of the others is looked at only when their major is no good.
pkg_abi_from_string(string) ==
    LET os == string[1]
        version == string[2]
        arch == pkg_arch_from_string(os, string[3])
        abi(major, minor, a) ==
            [os |-> os, major |-> major, minor |-> minor, patch |-> 0, arch |-> a]
        archOK == arch # None /\ (os = "dragonfly" => arch = "AMD64")
        numbers == IF os_table[os].major_version_only THEN 1 ELSE 2
    IN  CASE os \notin DOMAIN os_table                          -> None
          [] version = <<>> /\ numbers = 1                      -> abi(0, 0, "*")
          [] Len(version) < numbers                             -> None
          [] numbers = 1 /\ Len(version) > 1                    -> None
          [] version[1] >= 1 /\ archOK                          -> abi(version[1], 0, arch)
          [] version[1] < 1 /\ numbers = 2 /\ version[2] >= 1 /\ archOK
                                                                -> abi(0, version[2], arch)
          [] OTHER                                              -> None

pkg_abi_set_freebsd_osversion(abi, osversion) ==
    [abi EXCEPT !.major = osversion \div 100000,
                !.minor = (osversion \div 1000) % 100,
                !.patch = osversion % 1000]

pkg_abi_get_freebsd_osversion(abi) == abi.major * 100000 + abi.minor * 1000 + abi.patch

----------------------------------------------------------------------------
\* Detection.  sys.ostype and sys.osrelease are what sysctl says and sys.sysname
\* and sys.release what uname says; a release is the sequence of its numbers.
nextbsd_release(sys) ==
    LET release == IF sys.osrelease # None THEN sys.osrelease ELSE sys.release
    IN  IF /\ "NextBSD" \in {sys.ostype, sys.sysname}
           /\ Len(release) >= 2
           /\ release[1] \in 1..999 /\ release[2] \in 0..99
        THEN release
        ELSE None

\* Faulty variant: the version is that of the note.
AbiFromNote(abi, sys) ==
    IF abi.os # "FreeBSD" \/ nextbsd_release(sys) = None THEN abi
    ELSE [abi EXCEPT !.os = "NextBSD"]

nextbsd_abi_from_freebsd(abi, sys) ==
    LET release == nextbsd_release(sys)
    IN  IF abi.os # "FreeBSD" \/ release = None THEN abi
        ELSE pkg_abi_set_freebsd_osversion([abi EXCEPT !.os = "NextBSD"],
                                           release[1] * 100000 + release[2] * 1000)

\* sys.note is the ABI by the note of the file read: ABI_FILE if it is set, or
\* the first of uname and sh that can be opened.
pkg_abi_from_file(sys) ==
    IF sys.note = None THEN None ELSE nextbsd_abi_from_freebsd(sys.note, sys)

\* sys.ABI and sys.OSVERSION are what -o, the environment and pkg.conf give.
config_init_abi(sys) ==
    LET abi == pkg_abi_from_string(sys.ABI)
    IN  IF sys.ABI = None THEN pkg_abi_from_file(sys)
        ELSE IF abi = None \/ ~pkg_os_is_freebsd_like(abi.os) \/ sys.OSVERSION = None
             THEN abi
        ELSE IF sys.OSVERSION < 1 THEN None
        ELSE pkg_abi_set_freebsd_osversion(abi, sys.OSVERSION)

----------------------------------------------------------------------------
\* What follows: the variables of the configuration, and which packages fit.
machines == [aarch64 |-> "arm64", armv6 |-> "arm", armv7 |-> "arm",
             powerpc64 |-> "powerpc", powerpc64le |-> "powerpc",
             powerpcspe |-> "powerpc", riscv64 |-> "riscv"]

nextbsd_machine(arch) == IF arch \in DOMAIN machines THEN machines[arch] ELSE arch

config_parser_vars_register(abi) ==
    LET arch == pkg_arch_to_string(abi.os, abi.arch)
    IN  [ARCH |-> arch, MACHINE |-> nextbsd_machine(arch)]

\* A prefix, or a pattern in which a star stands for a field, and a last one for
\* all fields that follow as well.
star == <<"*", <<>>, "*">>

is_valid_abi(test, string) ==
    \/ IsPrefix(test, string)
    \/ /\ test # <<>> /\ (Len(test) = 3 \/ test[Len(test)] = star[Len(test)])
       /\ \A i \in 1..Len(test) : test[i] \in {star[i], string[i]}

\* Asked once about newer packages of a close version, the user answers "yes" or
\* "no"; "ignore" is IGNORE_OSVERSION.
is_valid_os_version(osversion, abi, answer) ==
    \/ ~pkg_os_is_freebsd_like(abi.os) \/ answer = "ignore" \/ osversion = None
    \/ /\ osversion # None /\ osversion >= 1
       /\ LET newer == osversion - pkg_abi_get_freebsd_osversion(abi)
          IN  newer <= 0 \/ (newer < 100000 /\ answer = "yes")
=============================================================================
