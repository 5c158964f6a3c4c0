----------------------------- MODULE MCAuditLog -----------------------------
(* Small instances of AuditLog for TLC: the configurations name their values. *)
EXTENDS AuditLog
=============================================================================
