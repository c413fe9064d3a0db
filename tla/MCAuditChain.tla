---------------------------- MODULE MCAuditChain ----------------------------
(* The audit chain with ids up to MCMaxId and secrets up to MCMaxSecret. *)
EXTENDS AuditChain

MCMaxId == 6
MCMaxSecret == 3
=============================================================================
