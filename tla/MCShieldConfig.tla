--------------------------- MODULE MCShieldConfig ---------------------------
(***************************************************************************)
(* Small instances of ShieldConfig: one listed path, two administrative    *)
(* invocations and one or two guarded commands on that path.               *)
(***************************************************************************)
EXTENDS ShieldConfig, TLC

CONSTANT p1

SharedTarget == [s \in Shims |-> p1]

Symmetry == Permutations(Cmds)
=============================================================================
