---------------------------- MODULE MC_Suporte -----------------------------
(* A sale, a document whose XML is stored and the first-run setup, of two    *)
(* writes each; one migration beyond the old version; one backup.           *)
EXTENDS Suporte

CONSTANTS nfce, setup, venda, c1
=============================================================================
