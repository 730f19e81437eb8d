----------------------------- MODULE MC_Fiscal -----------------------------
(* Finite instances of module Fiscal for TLC. *)
EXTENDS Fiscal

CONSTANT q1

\* Anything may be answered for the oldest document, the younger are authorised.
Provider ==
  [d \in Docs |-> IF d = 1 THEN IssueResult \cup QueryResult ELSE {"AUTHORIZED"}]
=============================================================================
