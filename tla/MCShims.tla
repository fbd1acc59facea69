------------------------------ MODULE MCShims -------------------------------
(***************************************************************************)
(* Small instances of Shims: d1 is a system directory (/usr/bin), d2       *)
(* /usr/local/bin and d3 a directory of the user's own, which the shield   *)
(* searches last and where the command is a link.                          *)
(***************************************************************************)
EXTENDS Shims

CONSTANTS d1, d2, d3

SearchOrder == [d \in Dirs |-> CASE d = d1 -> 1 [] d = d2 -> 2 [] OTHER -> 3]
=============================================================================
