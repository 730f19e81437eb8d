------------------------------ MODULE Registro ------------------------------
(***************************************************************************)
(* What the database file promises, without connections, nested              *)
(* transactions, savepoints, file writes or crashes: an operation is stored   *)
(* whole, in the step in which it returns to its caller, and one that fails   *)
(* leaves nothing; the content is thrown away only while nobody uses it and   *)
(* there is a copy to go back to, and only the content of that copy takes its  *)
(* place.                                                                   *)
(*                                                                         *)
(* Module Suporte implements this specification.                            *)
(***************************************************************************)
EXTENDS Integers

CONSTANTS Ops, Partes, Copias, SemCopia

VARIABLES
  linhas,      \* the rows that are stored
  retornadas,  \* the operations that are stored, as their callers know
  emUso,       \* whether the services use the file
  guardadas,   \* per copy: {} or {the rows in it}
  emTroca      \* the copy whose content replaces that of the file

registroVars == <<linhas, retornadas, emUso, guardadas, emTroca>>

Escritas(o) == {o} \X (1..Partes)

Abre ==
  /\ ~emUso /\ emUso' = TRUE
  /\ UNCHANGED <<linhas, retornadas, guardadas, emTroca>>

Fecha ==
  /\ emUso /\ emUso' = FALSE
  /\ UNCHANGED <<linhas, retornadas, guardadas, emTroca>>

Grava(o) ==
  /\ emUso
  /\ linhas' = linhas \cup Escritas(o)
  /\ retornadas' = retornadas \cup {o}
  /\ UNCHANGED <<emUso, guardadas, emTroca>>

\* A copy is taken, or is lost.
Guarda(c) ==
  /\ \/ guardadas' = [guardadas EXCEPT ![c] = {linhas}]
     \/ guardadas' = [guardadas EXCEPT ![c] = {}]
  /\ UNCHANGED <<linhas, retornadas, emUso, emTroca>>

Apaga(c) ==
  /\ ~emUso /\ guardadas[c] # {}
  /\ linhas' = {} /\ retornadas' = {}
  /\ emTroca' = c
  /\ UNCHANGED <<emUso, guardadas>>

Repoe(c) ==
  /\ ~emUso /\ emTroca = c
  /\ linhas = {}
  /\ linhas' \in guardadas[c]
  /\ retornadas' = {o \in Ops : Escritas(o) \subseteq linhas'}
  /\ UNCHANGED <<emUso, guardadas, emTroca>>

Termina(c) ==
  /\ ~emUso /\ emTroca = c
  /\ linhas \in guardadas[c]
  /\ emTroca' = SemCopia
  /\ UNCHANGED <<linhas, retornadas, emUso, guardadas>>

RegistroInit ==
  /\ linhas = {} /\ retornadas = {}
  /\ ~emUso
  /\ guardadas \in [Copias -> {{}, {{}}}]
  /\ emTroca = SemCopia

RegistroNext ==
  \/ Abre \/ Fecha
  \/ \E o \in Ops : Grava(o)
  \/ \E c \in Copias : Guarda(c) \/ Apaga(c) \/ Repoe(c) \/ Termina(c)

RegistroSpec == RegistroInit /\ [][RegistroNext]_registroVars
=============================================================================
