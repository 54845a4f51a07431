----------------------------- MODULE NextbsdSip -----------------------------
(***************************************************************************)
(* Where a package that is not a NextBSD package may install: the table and *)
(* the function of libpkg/private/nextbsd_sip.h (patch 0004).               *)
(*                                                                         *)
(* A path is what its slashes separate: whether it begins with one, and the *)
(* sequence of its components, of which the last is empty after a trailing  *)
(* slash.                                                                   *)
(***************************************************************************)
EXTENDS Naturals, Sequences, SequencesExt

Path(abs, comps) == [abs |-> abs, comps |-> comps]

nextbsd_sip_allowed == {<<"usr", "local">>, <<"var">>}

\* The prefix itself, with or without its slash, or something under it.
Under(pre, path) == path.abs /\ IsPrefix(pre, path.comps)

\* Faulty variant: a prefix is only found with its slash.
PathAllowedUnderOnly(path) ==
    /\ ~Contains(path.comps, "..")
    /\ \E pre \in nextbsd_sip_allowed :
           Under(pre, path) /\ Len(path.comps) > Len(pre)

nextbsd_sip_path_allowed(path) ==
    /\ ~Contains(path.comps, "..")
    /\ \E pre \in nextbsd_sip_allowed : Under(pre, path)

----------------------------------------------------------------------------
\* The reference: where the file system finds a path, walked from the root.
Step(dir, comp) ==
    IF comp \in {"", "."} THEN dir
    ELSE IF comp # ".." THEN Append(dir, comp)
    ELSE IF dir = <<>> THEN dir ELSE Front(dir)

Resolve(path) == FoldLeft(Step, <<>>, path.comps)

Inside(path) == \E pre \in nextbsd_sip_allowed : IsPrefix(pre, Resolve(path))
=============================================================================
