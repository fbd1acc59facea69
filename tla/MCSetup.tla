------------------------------- MODULE MCSetup ------------------------------
(***************************************************************************)
(* Small instance of Setup: root and a user, a path they may add to their  *)
(* lists, a shim, a hook and an MCP client of the user's, and one monitor. *)
(* The default lists are empty: what is on them is listed even without a   *)
(* file, which makes it the easier case.                                   *)
(***************************************************************************)
EXTENDS Setup

CONSTANTS root, user, own, rm, bashrc, claude

ListOf == [h \in Homes |-> {}]
Kinds  == [c \in Callers |-> CASE c = rm -> "shim" [] c = bashrc -> "hook" [] OTHER -> "client"]
Places == [c \in Callers |-> user]
=============================================================================
