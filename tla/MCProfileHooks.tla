--------------------------- MODULE MCProfileHooks ---------------------------
(***************************************************************************)
(* Small instance of ProfileHooks: the user's own file, root's or the one  *)
(* inside WSL.                                                             *)
(***************************************************************************)
EXTENDS ProfileHooks

CONSTANTS root, user, bashrc, rootrc, wslrc

FileHome  == [f \in Files |-> IF f = rootrc THEN root ELSE user]
FileShell == [f \in Files |-> IF f = wslrc THEN "wsl" ELSE "bash"]
=============================================================================
