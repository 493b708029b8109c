---------------------------- MODULE MCZapInvoices ----------------------------
(***************************************************************************)
(* One zap request submitted twice, to two processes or to one, with two   *)
(* invoices the wallet may hand out and two overlapping reconciliations.   *)
(***************************************************************************)
EXTENDS ZapInvoices
=============================================================================
