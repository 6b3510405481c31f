--------------------------- MODULE MCRuntimeStore ---------------------------
(***************************************************************************)
(* Two commands over one retained projection of up to two events, each     *)
(* with or without a time, and nothing else that an event could say.       *)
(***************************************************************************)
EXTENDS RuntimeStore

\* No command is distinguished from the other.
Perms == Permutations(Procs)
=============================================================================
