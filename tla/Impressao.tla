------------------------------ MODULE Impressao ------------------------------
(***************************************************************************)
(* What the print spool promises, without tables, leases, retries or          *)
(* printers: a ticket is printed once, and what is settled stays settled; it   *)
(* is printed once more for somebody who has asked for it, or after the       *)
(* process has died between the paper and its record.                         *)
(*                                                                         *)
(* Module PrintSpool implements this specification.                         *)
(***************************************************************************)
EXTENDS Integers

CONSTANT Tickets

VARIABLES
  estado,   \* per ticket: NENHUM, ESPERA, PAPEL (printed, not yet recorded), FEITO
            \* or ATENCAO
  papel,    \* tickets that are on paper
  repetir   \* tickets that may be printed once more

impressaoVars == <<estado, papel, repetir>>

Passa(n, de, para) == estado[n] = de /\ estado' = [estado EXCEPT ![n] = para]

Cria(n) == Passa(n, "NENHUM", "ESPERA") /\ UNCHANGED <<papel, repetir>>

Imprime(n) ==
  /\ Passa(n, "ESPERA", "PAPEL")
  /\ n \notin papel \/ n \in repetir
  /\ papel' = papel \cup {n}
  /\ repetir' = repetir \ {n}

Registra(n) == Passa(n, "PAPEL", "FEITO") /\ UNCHANGED <<papel, repetir>>

Desiste(n) == Passa(n, "ESPERA", "ATENCAO") /\ UNCHANGED <<papel, repetir>>

\* The process dies before it has recorded the paper.
Corta(n) ==
  /\ Passa(n, "PAPEL", "ESPERA")
  /\ repetir' = repetir \cup {n}
  /\ UNCHANGED papel

\* Somebody asks for the ticket, whatever has become of it.
Pede(n) ==
  /\ \E de \in {"ESPERA", "FEITO", "ATENCAO"} : Passa(n, de, "ESPERA")
  /\ repetir' = repetir \cup {n}
  /\ UNCHANGED papel

ImpressaoInit ==
  /\ estado \in [Tickets -> {"NENHUM", "FEITO"}]
  /\ papel = {n \in Tickets : estado[n] = "FEITO"}
  /\ repetir = {}

ImpressaoNext ==
  \E n \in Tickets :
    Cria(n) \/ Imprime(n) \/ Registra(n) \/ Desiste(n) \/ Corta(n) \/ Pede(n)

ImpressaoSpec == ImpressaoInit /\ [][ImpressaoNext]_impressaoVars
=============================================================================
