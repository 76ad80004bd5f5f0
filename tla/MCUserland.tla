---------------------------- MODULE MCUserland -----------------------------
(* The five boot tasks and one spare slot; root and one other account. *)
EXTENDS Userland

BootFive == <<TRUE, FALSE, FALSE, FALSE, FALSE>>
=============================================================================
