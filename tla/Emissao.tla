------------------------------- MODULE Emissao -------------------------------
(***************************************************************************)
(* What the fiscal queue promises, without tables, leases, timers or dates:   *)
(* a note is issued by one call at a time, whose answer alone settles it; it   *)
(* keeps the key under which it became known; and once authorised it stays    *)
(* so, unless it is asked for again, or is in doubt: written by a call that    *)
(* did not have it.                                                        *)
(*                                                                         *)
(* Module Fiscal implements this specification.                             *)
(***************************************************************************)
CONSTANTS Notas, SemChave, Situacao, NaFila

VARIABLES
  situacao,  \* per note: see Situacao
  chave,     \* per note: the key that fisco and customer know it by, or SemChave
  dono,      \* per note: {} or {the call that has it}
  duvida,    \* notes in doubt
  refeita    \* notes asked for again while a call was about them

emissaoVars == <<situacao, chave, dono, duvida, refeita>>

\* A key is given once, and what is told to somebody has one; but the calls about a
\* note that was asked for again may know it by another key.
Chaveada(n) ==
  /\ chave' = [chave EXCEPT ![n] = chave'[n]]
  /\ n \notin refeita =>
       /\ chave[n] # SemChave => chave'[n] = chave[n]
       /\ situacao'[n] \in {"AUTORIZADA", "CONTINGENCIA"} => chave'[n] # SemChave

Enfileira(n) ==
  /\ situacao[n] = "NENHUMA"
  /\ situacao' = [situacao EXCEPT ![n] = "FILA"]
  /\ UNCHANGED <<chave, dono, duvida, refeita>>

\* A note is asked for again: whatever has become of it, it waits, with no key and
\* with no call that has it; if a call was about it, it is in doubt.
Refaz(n) ==
  /\ situacao[n] # "NENHUMA"
  /\ situacao' = [situacao EXCEPT ![n] = "FILA"]
  /\ chave' = [chave EXCEPT ![n] = SemChave]
  /\ dono' = [dono EXCEPT ![n] = {}]
  /\ \/ dono[n] = {} /\ UNCHANGED <<duvida, refeita>>
     \/ duvida' = duvida \cup {n} /\ refeita' = refeita \cup {n}

\* A call takes a note that waits and that no other call has.
Toma(n) ==
  /\ situacao[n] \in NaFila /\ dono[n] = {} /\ n \notin duvida
  /\ \E s \in dono'[n] : dono' = [dono EXCEPT ![n] = {s}]
  /\ UNCHANGED <<situacao, chave, duvida, refeita>>

\* The call that has the note is answered.
Responde(n) ==
  /\ dono[n] # {} /\ situacao[n] # "AUTORIZADA" /\ n \notin duvida
  /\ situacao' = [situacao EXCEPT ![n] = situacao'[n]]
  /\ situacao'[n] \in Situacao \ {"NENHUMA"}
  /\ Chaveada(n)
  /\ dono' = [dono EXCEPT ![n] = {}]
  /\ UNCHANGED <<duvida, refeita>>

\* A call that does not have the note is answered.
Contradiz(n) ==
  /\ situacao[n] # "NENHUMA"
  /\ situacao' = [situacao EXCEPT ![n] = situacao'[n]]
  /\ situacao'[n] \in Situacao \ {"NENHUMA"}
  /\ Chaveada(n)
  /\ dono' = [dono EXCEPT ![n] = {}]
  /\ duvida' = duvida \cup {n}
  /\ UNCHANGED refeita

\* Calls are given up, and doubts are over.
Solta ==
  /\ duvida' \subseteq duvida
  /\ \A n \in Notas : dono'[n] \in {dono[n], {}}
  /\ dono' = [n \in Notas |-> dono'[n]]
  /\ UNCHANGED <<situacao, chave, refeita>>

EmissaoInit ==
  /\ situacao = [n \in Notas |-> "NENHUMA"]
  /\ chave = [n \in Notas |-> SemChave]
  /\ dono = [n \in Notas |-> {}]
  /\ duvida = {}
  /\ refeita = {}

EmissaoNext ==
  \/ Solta
  \/ \E n \in Notas :
       Enfileira(n) \/ Refaz(n) \/ Toma(n) \/ Responde(n) \/ Contradiz(n)

EmissaoSpec == EmissaoInit /\ [][EmissaoNext]_emissaoVars
=============================================================================
