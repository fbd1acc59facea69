----------------------------- MODULE MCFanotify -----------------------------
(* Two guarded opens, one of another path, and the close of a guarded file. *)
EXTENDS Fanotify

CONSTANTS secret, key, note, saved
=============================================================================
