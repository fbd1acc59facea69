----------------------------- MODULE MCExecMon -----------------------------
(***************************************************************************)
(* Small instances of ExecMon: one risky exec, one of low risk and one of  *)
(* the daemon's own binary, or two risky ones.                             *)
(***************************************************************************)
EXTENDS ExecMon
=============================================================================
