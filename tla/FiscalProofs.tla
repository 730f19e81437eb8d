---------------------------- MODULE FiscalProofs ----------------------------
(***************************************************************************)
(* Theorems about the fiscal queue, for any number of documents, of cycles   *)
(* and of status queries under way, any lease and any delay of the provider,  *)
(* and whatever it answers.                                                *)
(***************************************************************************)
EXTENDS Fiscal, TLAPS

-----------------------------------------------------------------------------
(* The invariant *)

ComDoc == {"TOMADO"} \cup Awaiting
DoCiclo == {"TOMADO", "EMISSAO", "CONSULTA_CICLO"}

\* Every key is the one of the normal mode, but for a document that was drafted again
\* under a call; and a draft has none.
Chaves ==
  \A d \in Docs :
    /\ d \notin refeita => doc[d].chave \in {"SEM_CHAVE", "tpEmis1"}
    /\ doc[d].status \in {"AUSENTE", "DRAFT"} => doc[d].chave = "SEM_CHAVE"

\* A call looks at a document that is there and carries a key, its own one but for
\* a document that was drafted again under a call.
Levadas ==
  \A s \in Chamadas :
    /\ chamada[s].op = "PROXIMO" => chamada[s].restam > 0
    /\ chamada[s].op \in ComDoc =>
         /\ chamada[s].doc \in Docs
         /\ chamada[s].chave # "SEM_CHAVE"
         /\ chamada[s].doc \notin refeita => chamada[s].chave = "tpEmis1"
         /\ doc[chamada[s].doc].status # "AUSENTE"

\* What a cycle has read and not yet acted on is still so.
Tomadas ==
  \A s \in Chamadas : chamada[s].op = "TOMADO" =>
    /\ chamada[s].status = doc[chamada[s].doc].status
    /\ chamada[s].status # "AUTHORIZED"
    /\ chamada[s].status = "REJECTED" => fila[chamada[s].doc].retry # SemData

\* What a status query has read may be stale, but is undone behind it by nothing but
\* a second draft.
Consultadas ==
  \A s \in Chamadas : chamada[s].op = "CONSULTA" =>
    /\ chamada[s].status \notin {"AUSENTE", "DRAFT"}
    /\ chamada[s].doc \notin refeita =>
         /\ doc[chamada[s].doc].chave = "tpEmis1"
         /\ chamada[s].status = "AUTHORIZED" => doc[chamada[s].doc].xml
         /\ chamada[s].status = "CONTINGENCY" =>
              doc[chamada[s].doc].modo = "CONTINGENCY_OFFLINE"

Ativa(s) == chamada[s].op \in {"PROXIMO", "TOMADO"}

\* One piece of JavaScript at a time.
UmaSo == \A s, t \in Chamadas : Ativa(s) /\ Ativa(t) => s = t

\* A call that has its document holds it: the lease is its own, and nobody else's.
Arrendadas ==
  \A s \in Chamadas : Posse(s) =>
    /\ fila[chamada[s].doc].lease = Lease - chamada[s].idade
    /\ doc[chamada[s].doc].status # "AUTHORIZED"
    /\ \A t \in Chamadas :
         chamada[t].doc = chamada[s].doc
           /\ (Posse(t) \/ chamada[t].op = "TOMADO") => t = s

FiscalInv ==
  /\ FiscalTypeOK /\ RowsAgree /\ Chaves /\ Levadas /\ Tomadas /\ Consultadas
  /\ UmaSo /\ Arrendadas

\* What IssuedIsKept and AuthorizedIsFinal say of a step that does not queue d.
Mantido(d) ==
  /\ doc[d].chave # "SEM_CHAVE" /\ d \notin refeita => doc'[d].chave = doc[d].chave
  /\ doc[d].xml => doc'[d].xml
  /\ doc[d].modo = "CONTINGENCY_OFFLINE" => doc'[d].modo = "CONTINGENCY_OFFLINE"
  /\ doc'[d].status \in {"AUSENTE", "DRAFT"} => doc[d].status = doc'[d].status

Firme(d) ==
  doc[d].status = "AUTHORIZED" /\ d \notin perturbada' => doc'[d].status = "AUTHORIZED"

Mantidos == \A d \in Docs : Mantido(d)

Firmes == \A d \in Docs : Firme(d)

-----------------------------------------------------------------------------
(* Numbers, rows and calls *)

LEMMA Numbers ==
  /\ NumDocs \in Nat \ {0} /\ NumCiclos \in Nat \ {0} /\ Lease \in Nat \ {0}
  /\ Retry \in Nat \ {0} /\ MaxIdade \in Nat \ {0} /\ Limit \in Nat \ {0}
  /\ Pulsos \in Nat \ {0}
BY FiscalAssumption

LEMMA CallFields ==
  ASSUME FiscalTypeOK, NEW s \in Chamadas
  PROVE  /\ chamada[s] \in Chamada
         /\ chamada[s].op \in {"OCIOSA", "PROXIMO", "TOMADO", "EMISSAO",
                               "CONSULTA_CICLO", "CONSULTA"}
         /\ chamada[s].doc \in Docs \cup {SemDoc}
         /\ chamada[s].status \in Status \cup {"AUSENTE"}
         /\ chamada[s].chave \in AccessKey
         /\ chamada[s].idade \in 0..MaxIdade /\ chamada[s].restam \in 0..Limit
<1>1. chamada[s] \in Chamada
  BY DEF FiscalTypeOK
<1> QED BY <1>1 DEF Chamada

LEMMA RowFields ==
  ASSUME FiscalTypeOK, NEW d \in Docs
  PROVE  /\ doc[d] \in DocRow /\ fila[d] \in FilaRow
         /\ doc[d].status \in Status \cup {"AUSENTE"} /\ doc[d].chave \in AccessKey
         /\ doc[d].modo \in EmissionMode /\ doc[d].xml \in BOOLEAN
         /\ fila[d].lease \in SemLease..Lease /\ fila[d].retry \in SemData..Retry
<1>1. doc[d] \in DocRow /\ fila[d] \in FilaRow
  BY DEF FiscalTypeOK
<1> QED BY <1>1 DEF DocRow, FilaRow

LEMMA IdleCall ==
  /\ Ociosa \in Chamada /\ Ociosa.op = "OCIOSA" /\ Ociosa.doc = SemDoc
  /\ Ociosa.status = "AUSENTE" /\ Ociosa.chave = "SEM_CHAVE"
  /\ Ociosa.idade = 0 /\ Ociosa.restam = 0
BY Numbers DEF Ociosa, Chamada, AccessKey

LEMMA TurnTypes ==
  ASSUME NEW c \in Chamada
  PROVE  /\ Seguinte(c) \in Chamada /\ Seguinte(c).op \in {"OCIOSA", "PROXIMO"}
         /\ Seguinte(c).op = "PROXIMO" => Seguinte(c).restam > 0
<1>1. CASE c.op = "CONSULTA" \/ c.restam = 0
  BY <1>1, IdleCall DEF Seguinte
<1>2. CASE ~(c.op = "CONSULTA" \/ c.restam = 0)
  <2>1. /\ c.idade \in 0..MaxIdade /\ c.restam \in 0..Limit /\ c.restam > 0
    BY <1>2, Numbers DEF Chamada
  <2>2. Seguinte(c) = [Ociosa EXCEPT !.op = "PROXIMO", !.idade = c.idade,
                                     !.restam = c.restam]
    BY <1>2 DEF Seguinte
  <2>3. /\ Seguinte(c) \in Chamada /\ Seguinte(c).op = "PROXIMO"
        /\ Seguinte(c).restam = c.restam
    BY <2>1, <2>2 DEF Ociosa, Chamada, AccessKey
  <2> QED BY <2>1, <2>3
<1> QED BY <1>1, <1>2

LEMMA Dates ==
  /\ SemLease \in SemLease..Lease /\ SemData \in SemData..Retry
  /\ \A n \in 0..MaxIdade :
       /\ Lease - n \in SemLease..Lease /\ Retry - n \in SemData..Retry
       /\ -n \in SemData..Retry
BY Numbers DEF SemLease, SemData

LEMMA RetryDates ==
  ASSUME NEW espera \in Esperas, NEW n \in 0..MaxIdade
  PROVE  RetryAt(espera, n) \in SemData..Retry
<1>1. espera \in {"NUNCA", "JA", "DEPOIS"}
  BY FiscalAssumption
<1>2. CASE espera = "NUNCA"
  BY <1>2, Dates DEF RetryAt
<1>3. CASE espera = "JA"
  BY <1>3, Dates DEF RetryAt
<1>4. CASE espera = "DEPOIS"
  BY <1>4, Dates DEF RetryAt
<1> QED BY <1>1, <1>2, <1>3, <1>4

-----------------------------------------------------------------------------
(* Answers that are written to the rows *)

\* What the two rows of a document say together.
Coerente(r, q) ==
  /\ q.status = r.status /\ q.chave = r.chave /\ q.modo = r.modo
  /\ r.chave = "SEM_CHAVE" <=> ~r.xml /\ r.modo = "NORMAL"

\* What the row says besides of a document that was never drafted again under a call.
Fiel(r) ==
  /\ r.status = "AUTHORIZED" => r.xml
  /\ r.status = "CONTINGENCY" => r.modo = "CONTINGENCY_OFFLINE"
  /\ r.chave \in {"SEM_CHAVE", "tpEmis1"}

\* What a row may become without taking anything back.
Continua(d, r) ==
  /\ doc[d].chave # "SEM_CHAVE" /\ d \notin refeita => r.chave = doc[d].chave
  /\ doc[d].xml => r.xml
  /\ doc[d].modo = "CONTINGENCY_OFFLINE" => r.modo = "CONTINGENCY_OFFLINE"

(* The call that answers holds its document alone, or leaves it marked. *)
LEMMA AnswerKeeps ==
  ASSUME FiscalInv, Livre, NEW s \in Chamadas, chamada[s].op \in Awaiting,
         NEW resposta, NEW r \in DocRow, NEW q \in FilaRow,
         Responde(s, resposta, r, q),
         Coerente(r, q), Continua(chamada[s].doc, r),
         r.status \notin {"AUSENTE", "DRAFT"}, chamada[s].doc \in refeita \/ Fiel(r)
  PROVE  FiscalInv' /\ Mantidos /\ Firmes
<1>1. /\ FiscalTypeOK /\ RowsAgree /\ Chaves /\ Levadas /\ Tomadas /\ Consultadas
      /\ UmaSo /\ Arrendadas
  BY DEF FiscalInv
<1>2. PICK d \in Docs : d = chamada[s].doc
  BY <1>1 DEF Levadas, ComDoc
<1>3. /\ doc' = [doc EXCEPT ![d] = r] /\ fila' = [fila EXCEPT ![d] = q]
      /\ chamada' = [chamada EXCEPT ![s] = Seguinte(@)]
      /\ pulso' = pulso /\ refeita' = refeita
      /\ perturbada' = IF chamada[s].idade >= Lease \/ chamada[s].op = "CONSULTA"
                         THEN perturbada \cup {d} ELSE perturbada
  BY <1>2 DEF Responde, AppendState, Anota
<1>4. /\ doc' \in [Docs -> DocRow] /\ fila' \in [Docs -> FilaRow]
      /\ doc'[d] = r /\ fila'[d] = q
      /\ \A e \in Docs : e # d => doc'[e] = doc[e] /\ fila'[e] = fila[e]
  BY <1>1, <1>3 DEF FiscalTypeOK
<1>5. /\ chamada' \in [Chamadas -> Chamada]
      /\ chamada'[s].op \in {"OCIOSA", "PROXIMO"}
      /\ chamada'[s].op = "PROXIMO" => chamada'[s].restam > 0
      /\ \A t \in Chamadas : t # s => chamada'[t] = chamada[t]
  <2>1. chamada[s] \in Chamada /\ chamada \in [Chamadas -> Chamada]
    BY <1>1 DEF FiscalTypeOK
  <2> QED BY <1>3, <2>1, TurnTypes
<1>6. \A t \in Chamadas : chamada[t].op \notin {"PROXIMO", "TOMADO"}
  BY DEF Livre, Awaiting
<1>7. perturbada \subseteq perturbada' /\ perturbada' \subseteq Docs
  BY <1>1, <1>3 DEF FiscalTypeOK
<1>8. d \notin perturbada' => Posse(s)
  <2>1. SUFFICES ASSUME d \notin perturbada' PROVE Posse(s)
    OBVIOUS
  <2>2. /\ d \notin perturbada /\ ~(chamada[s].idade >= Lease)
        /\ chamada[s].op # "CONSULTA"
    BY <1>3, <2>1
  <2>3. chamada[s].idade < Lease
    BY <1>1, <2>2, CallFields, Numbers
  <2> QED BY <1>2, <2>2, <2>3 DEF Posse, DoCiclo, Awaiting
<1>9. FiscalTypeOK'
  BY <1>1, <1>3, <1>4, <1>5, <1>7 DEF FiscalTypeOK
<1>10. RowsAgree'
  BY <1>1, <1>2, <1>3, <1>4 DEF RowsAgree, Coerente, Fiel
<1>11. Chaves'
  BY <1>1, <1>2, <1>3, <1>4 DEF Chaves, Fiel
<1>12. Levadas'
  <2>1. ASSUME NEW t \in Chamadas
        PROVE  /\ chamada'[t].op = "PROXIMO" => chamada'[t].restam > 0
               /\ chamada'[t].op \in ComDoc =>
                    /\ chamada'[t].doc \in Docs
                    /\ chamada'[t].chave # "SEM_CHAVE"
                    /\ chamada'[t].doc \notin refeita' => chamada'[t].chave = "tpEmis1"
                    /\ doc'[chamada'[t].doc].status # "AUSENTE"
    <3>1. CASE t = s
      BY <1>5, <3>1 DEF ComDoc, Awaiting
    <3>2. CASE t # s
      BY <1>1, <1>3, <1>4, <1>5, <3>2 DEF Levadas
    <3> QED BY <3>1, <3>2
  <2> QED BY <2>1 DEF Levadas
<1>13. Tomadas'
  BY <1>5, <1>6 DEF Tomadas
<1>14. Consultadas'
  <2>1. ASSUME NEW t \in Chamadas, chamada'[t].op = "CONSULTA"
        PROVE  /\ chamada'[t].status \notin {"AUSENTE", "DRAFT"}
               /\ chamada'[t].doc \notin refeita' =>
                    /\ doc'[chamada'[t].doc].chave = "tpEmis1"
                    /\ chamada'[t].status = "AUTHORIZED" => doc'[chamada'[t].doc].xml
                    /\ chamada'[t].status = "CONTINGENCY" =>
                         doc'[chamada'[t].doc].modo = "CONTINGENCY_OFFLINE"
    <3>1. t # s /\ chamada'[t] = chamada[t] /\ chamada[t].op = "CONSULTA"
      BY <1>5, <2>1
    <3>2. chamada[t].doc \in Docs
      BY <1>1, <3>1 DEF Levadas, ComDoc, Awaiting
    <3>3. /\ chamada[t].status \notin {"AUSENTE", "DRAFT"}
          /\ chamada[t].doc \notin refeita =>
               /\ doc[chamada[t].doc].chave = "tpEmis1"
               /\ chamada[t].status = "AUTHORIZED" => doc[chamada[t].doc].xml
               /\ chamada[t].status = "CONTINGENCY" =>
                    doc[chamada[t].doc].modo = "CONTINGENCY_OFFLINE"
      BY <1>1, <3>1 DEF Consultadas
    <3> QED BY <1>2, <1>3, <1>4, <3>1, <3>2, <3>3 DEF Continua
  <2> QED BY <2>1 DEF Consultadas
<1>15. UmaSo'
  BY <1>5, <1>6 DEF UmaSo, Ativa
<1>16. Arrendadas'
  <2>1. ASSUME NEW t \in Chamadas, Posse(t)'
        PROVE  /\ fila'[chamada'[t].doc].lease = Lease - chamada'[t].idade
               /\ doc'[chamada'[t].doc].status # "AUTHORIZED"
               /\ \A u \in Chamadas :
                    chamada'[u].doc = chamada'[t].doc
                      /\ (Posse(u)' \/ chamada'[u].op = "TOMADO") => u = t
    <3>1. t # s /\ chamada'[t] = chamada[t] /\ Posse(t)
      BY <1>5, <1>7, <2>1 DEF Posse, DoCiclo
    <3>2. /\ fila[chamada[t].doc].lease = Lease - chamada[t].idade
          /\ doc[chamada[t].doc].status # "AUTHORIZED"
          /\ \A u \in Chamadas :
               chamada[u].doc = chamada[t].doc
                 /\ (Posse(u) \/ chamada[u].op = "TOMADO") => u = t
      BY <1>1, <3>1 DEF Arrendadas
    <3>3. chamada[t].doc \in Docs
      BY <1>1, <3>1 DEF Levadas, Posse, DoCiclo, ComDoc, Awaiting
    <3>4. chamada[t].doc # d
      <4>1. SUFFICES ASSUME chamada[t].doc = d PROVE FALSE
        OBVIOUS
      <4>2. d \notin perturbada'
        BY <2>1, <3>1, <4>1 DEF Posse
      <4> QED BY <1>2, <1>8, <3>1, <3>2, <4>1, <4>2
    <3>5. ASSUME NEW u \in Chamadas, chamada'[u].doc = chamada'[t].doc,
                 Posse(u)' \/ chamada'[u].op = "TOMADO"
          PROVE  u = t
      <4>1. chamada'[u].op \in DoCiclo
        BY <3>5 DEF Posse, DoCiclo
      <4>2. u # s /\ chamada'[u] = chamada[u]
        BY <1>5, <4>1 DEF DoCiclo
      <4>3. Posse(u)' => Posse(u)
        BY <1>7, <4>2 DEF Posse
      <4> QED BY <3>1, <3>2, <3>5, <4>2, <4>3
    <3> QED BY <1>4, <3>1, <3>2, <3>3, <3>4, <3>5
  <2> QED BY <2>1 DEF Arrendadas
<1>17. Mantidos
  BY <1>2, <1>4 DEF Mantidos, Mantido, Continua
<1>18. Firmes
  <2>1. ASSUME NEW e \in Docs, doc[e].status = "AUTHORIZED", e \notin perturbada'
        PROVE  doc'[e].status = "AUTHORIZED"
    <3>1. CASE e = d
      BY <1>1, <1>2, <1>8, <2>1, <3>1 DEF Arrendadas
    <3>2. CASE e # d
      BY <1>4, <2>1, <3>2
    <3> QED BY <3>1, <3>2
  <2> QED BY <2>1 DEF Firmes, Firme
<1> QED BY <1>9, <1>10, <1>11, <1>12, <1>13, <1>14, <1>15, <1>16, <1>17, <1>18
       DEF FiscalInv

(* The document of a call that awaits, and what its rows are. *)
LEMMA AwaitedRow ==
  ASSUME FiscalInv, NEW s \in Chamadas, chamada[s].op \in Awaiting
  PROVE  \E d \in Docs :
           /\ d = chamada[s].doc
           /\ chamada[s].chave \in AccessKey \ {"SEM_CHAVE"}
           /\ d \notin refeita => chamada[s].chave = "tpEmis1"
           /\ chamada[s].idade \in 0..MaxIdade
           /\ chamada[s].status \in Status \cup {"AUSENTE"}
           /\ doc[d] \in DocRow /\ fila[d] \in FilaRow /\ Coerente(doc[d], fila[d])
           /\ d \in refeita \/ Fiel(doc[d])
<1>1. FiscalTypeOK /\ RowsAgree /\ Levadas /\ Chaves
  BY DEF FiscalInv
<1>2. /\ chamada[s].doc \in Docs /\ chamada[s].chave # "SEM_CHAVE"
      /\ chamada[s].doc \notin refeita => chamada[s].chave = "tpEmis1"
  BY <1>1 DEF Levadas, ComDoc
<1> QED BY <1>1, <1>2, CallFields, RowFields DEF RowsAgree, Coerente, Chaves, Fiel

LEMMA AuthorizedKeeps ==
  ASSUME FiscalInv, Livre, NEW s \in Chamadas, ApplyAuthorized(s)
  PROVE  FiscalInv' /\ Mantidos /\ Firmes
<1>1. chamada[s].op \in Awaiting
  BY DEF ApplyAuthorized
<1>2. PICK d \in Docs :
        /\ d = chamada[s].doc
        /\ chamada[s].chave \in AccessKey \ {"SEM_CHAVE"}
        /\ d \notin refeita => chamada[s].chave = "tpEmis1"
        /\ chamada[s].idade \in 0..MaxIdade
        /\ chamada[s].status \in Status \cup {"AUSENTE"}
        /\ doc[d] \in DocRow /\ fila[d] \in FilaRow /\ Coerente(doc[d], fila[d])
        /\ d \in refeita \/ Fiel(doc[d])
  BY <1>1, AwaitedRow
<1> DEFINE k == chamada[s].chave
           r == [doc[d] EXCEPT !.status = "AUTHORIZED", !.chave = k, !.xml = TRUE]
           q == [fila[d] EXCEPT !.status = "AUTHORIZED", !.chave = k,
                                !.lease = SemLease, !.retry = SemData]
<1>3. Responde(s, "AUTHORIZED", r, q)
  BY <1>2 DEF ApplyAuthorized
<1>a. k \in AccessKey \ {"SEM_CHAVE"} /\ (d \notin refeita => k = "tpEmis1")
  BY <1>2
<1> HIDE DEF k
<1>4. /\ r \in DocRow /\ r.status = "AUTHORIZED" /\ r.chave = k /\ r.xml
      /\ r.modo = doc[d].modo
  BY <1>2, <1>a DEF DocRow, Status
<1>5. /\ q \in FilaRow /\ q.status = "AUTHORIZED" /\ q.chave = k
      /\ q.modo = fila[d].modo
  BY <1>2, <1>a, Dates DEF FilaRow, Status
<1> HIDE DEF r, q
<1>6. /\ Coerente(r, q) /\ Continua(chamada[s].doc, r)
      /\ chamada[s].doc \in refeita \/ Fiel(r)
  BY <1>2, <1>a, <1>4, <1>5 DEF Coerente, Continua, Fiel
<1> QED BY <1>1, <1>3, <1>4, <1>5, <1>6, AnswerKeeps

LEMMA RejectedKeeps ==
  ASSUME FiscalInv, Livre, NEW s \in Chamadas, ApplyRejected(s)
  PROVE  FiscalInv' /\ Mantidos /\ Firmes
<1>1. chamada[s].op \in Awaiting
  BY DEF ApplyRejected, ApplyRejectedWith
<1>2. PICK d \in Docs :
        /\ d = chamada[s].doc
        /\ chamada[s].chave \in AccessKey \ {"SEM_CHAVE"}
        /\ d \notin refeita => chamada[s].chave = "tpEmis1"
        /\ chamada[s].idade \in 0..MaxIdade
        /\ chamada[s].status \in Status \cup {"AUSENTE"}
        /\ doc[d] \in DocRow /\ fila[d] \in FilaRow /\ Coerente(doc[d], fila[d])
        /\ d \in refeita \/ Fiel(doc[d])
  BY <1>1, AwaitedRow
<1>3. PICK espera \in Esperas :
        Responde(s, "REJECTED",
          [doc[d] EXCEPT !.status = "REJECTED"],
          [fila[d] EXCEPT !.status = "REJECTED", !.lease = SemLease,
                          !.retry = RetryAt(espera, chamada[s].idade)])
  BY <1>2 DEF ApplyRejected, ApplyRejectedWith
<1> DEFINE n == RetryAt(espera, chamada[s].idade)
           r == [doc[d] EXCEPT !.status = "REJECTED"]
           q == [fila[d] EXCEPT !.status = "REJECTED", !.lease = SemLease, !.retry = n]
<1>4. n \in SemData..Retry
  BY <1>2, RetryDates
<1>5. Responde(s, "REJECTED", r, q)
  BY <1>3
<1> HIDE DEF n
<1>6. /\ r \in DocRow /\ r.status = "REJECTED" /\ r.chave = doc[d].chave
      /\ r.xml = doc[d].xml /\ r.modo = doc[d].modo
  BY <1>2 DEF DocRow, Status
<1>7. /\ q \in FilaRow /\ q.status = "REJECTED" /\ q.chave = fila[d].chave
      /\ q.modo = fila[d].modo
  BY <1>2, <1>4, Dates DEF FilaRow, Status
<1> HIDE DEF r, q
<1>8. /\ Coerente(r, q) /\ Continua(chamada[s].doc, r)
      /\ chamada[s].doc \in refeita \/ Fiel(r)
  BY <1>2, <1>6, <1>7 DEF Coerente, Continua, Fiel
<1> QED BY <1>1, <1>2, <1>5, <1>6, <1>7, <1>8, AnswerKeeps

LEMMA PendingKeeps ==
  ASSUME FiscalInv, Livre, NEW s \in Chamadas, ApplyPending(s)
  PROVE  FiscalInv' /\ Mantidos /\ Firmes
<1>1. chamada[s].op \in Awaiting
  BY DEF ApplyPending, Awaiting
<1>2. PICK d \in Docs :
        /\ d = chamada[s].doc
        /\ chamada[s].chave \in AccessKey \ {"SEM_CHAVE"}
        /\ d \notin refeita => chamada[s].chave = "tpEmis1"
        /\ chamada[s].idade \in 0..MaxIdade
        /\ chamada[s].status \in Status \cup {"AUSENTE"}
        /\ doc[d] \in DocRow /\ fila[d] \in FilaRow /\ Coerente(doc[d], fila[d])
        /\ d \in refeita \/ Fiel(doc[d])
  BY <1>1, AwaitedRow
<1> DEFINE n == Retry - chamada[s].idade
           r == [doc[d] EXCEPT !.status = "SENT"]
           q == [fila[d] EXCEPT !.status = "SENT", !.lease = SemLease, !.retry = n]
<1>3. n \in SemData..Retry
  BY <1>2, Dates
<1>4. Responde(s, "PENDING", r, q)
  BY <1>2 DEF ApplyPending
<1> HIDE DEF n
<1>5. /\ r \in DocRow /\ r.status = "SENT" /\ r.chave = doc[d].chave
      /\ r.xml = doc[d].xml /\ r.modo = doc[d].modo
  BY <1>2 DEF DocRow, Status
<1>6. /\ q \in FilaRow /\ q.status = "SENT" /\ q.chave = fila[d].chave
      /\ q.modo = fila[d].modo
  BY <1>2, <1>3, Dates DEF FilaRow, Status
<1> HIDE DEF r, q
<1>7. /\ Coerente(r, q) /\ Continua(chamada[s].doc, r)
      /\ chamada[s].doc \in refeita \/ Fiel(r)
  BY <1>2, <1>5, <1>6 DEF Coerente, Continua, Fiel
<1> QED BY <1>1, <1>2, <1>4, <1>5, <1>6, <1>7, AnswerKeeps

LEMMA ContingencyKeeps ==
  ASSUME FiscalInv, Livre, NEW s \in Chamadas, EnterContingency(s)
  PROVE  FiscalInv' /\ Mantidos /\ Firmes
<1>1. chamada[s].op \in Awaiting
  BY DEF EnterContingency, Awaiting
<1>2. PICK d \in Docs :
        /\ d = chamada[s].doc
        /\ chamada[s].chave \in AccessKey \ {"SEM_CHAVE"}
        /\ d \notin refeita => chamada[s].chave = "tpEmis1"
        /\ chamada[s].idade \in 0..MaxIdade
        /\ chamada[s].status \in Status \cup {"AUSENTE"}
        /\ doc[d] \in DocRow /\ fila[d] \in FilaRow /\ Coerente(doc[d], fila[d])
        /\ d \in refeita \/ Fiel(doc[d])
  BY <1>1, AwaitedRow
<1> DEFINE n == Retry - chamada[s].idade
           k == chamada[s].chave
           r == [doc[d] EXCEPT !.status = "CONTINGENCY", !.chave = k,
                               !.modo = "CONTINGENCY_OFFLINE"]
           q == [fila[d] EXCEPT !.status = "CONTINGENCY", !.chave = k,
                                !.modo = "CONTINGENCY_OFFLINE", !.lease = SemLease,
                                !.retry = n]
<1>3. n \in SemData..Retry
  BY <1>2, Dates
<1>4. Responde(s, "CONTINGENCY_REQUIRED", r, q)
  BY <1>2 DEF EnterContingency
<1>a. k \in AccessKey \ {"SEM_CHAVE"} /\ (d \notin refeita => k = "tpEmis1")
  BY <1>2
<1> HIDE DEF n, k
<1>5. /\ r \in DocRow /\ r.status = "CONTINGENCY" /\ r.chave = k
      /\ r.xml = doc[d].xml /\ r.modo = "CONTINGENCY_OFFLINE"
  BY <1>2, <1>a DEF DocRow, Status, EmissionMode
<1>6. /\ q \in FilaRow /\ q.status = "CONTINGENCY" /\ q.chave = k
      /\ q.modo = "CONTINGENCY_OFFLINE"
  BY <1>2, <1>a, <1>3, Dates DEF FilaRow, Status, EmissionMode
<1> HIDE DEF r, q
<1>7. /\ Coerente(r, q) /\ Continua(chamada[s].doc, r)
      /\ chamada[s].doc \in refeita \/ Fiel(r)
  BY <1>2, <1>a, <1>5, <1>6 DEF Coerente, Continua, Fiel
<1> QED BY <1>1, <1>4, <1>5, <1>6, <1>7, AnswerKeeps

(* The status that a query read before its await is written back: it may be     *)
(* stale, but it is none that the columns contradict.                         *)
LEMMA UnsettledKeeps ==
  ASSUME FiscalInv, Livre, NEW s \in Chamadas, QueryUnsettled(s)
  PROVE  FiscalInv' /\ Mantidos /\ Firmes
<1>1. chamada[s].op = "CONSULTA" /\ chamada[s].op \in Awaiting
  BY DEF QueryUnsettled, Awaiting
<1>2. PICK d \in Docs :
        /\ d = chamada[s].doc
        /\ chamada[s].chave \in AccessKey \ {"SEM_CHAVE"}
        /\ d \notin refeita => chamada[s].chave = "tpEmis1"
        /\ chamada[s].idade \in 0..MaxIdade
        /\ chamada[s].status \in Status \cup {"AUSENTE"}
        /\ doc[d] \in DocRow /\ fila[d] \in FilaRow /\ Coerente(doc[d], fila[d])
        /\ d \in refeita \/ Fiel(doc[d])
  BY <1>1, AwaitedRow
<1> DEFINE n == Retry - chamada[s].idade
           v == chamada[s].status
           r == [doc[d] EXCEPT !.status = v]
           q == [fila[d] EXCEPT !.status = v, !.lease = SemLease, !.retry = n]
<1>3. n \in SemData..Retry
  BY <1>2, Dates
<1>4. /\ v \notin {"AUSENTE", "DRAFT"}
      /\ d \notin refeita =>
           /\ doc[d].chave = "tpEmis1"
           /\ v = "AUTHORIZED" => doc[d].xml
           /\ v = "CONTINGENCY" => doc[d].modo = "CONTINGENCY_OFFLINE"
  BY <1>1, <1>2 DEF FiscalInv, Consultadas
<1>5. PICK resposta \in {"PENDING", "NOT_FOUND"} : Responde(s, resposta, r, q)
  BY <1>2 DEF QueryUnsettled
<1>6. v \in Status \cup {"AUSENTE"}
  BY <1>2
<1> HIDE DEF n, v
<1>7. /\ r \in DocRow /\ r.status = v /\ r.chave = doc[d].chave
      /\ r.xml = doc[d].xml /\ r.modo = doc[d].modo
  BY <1>2, <1>6 DEF DocRow
<1>8. /\ q \in FilaRow /\ q.status = v /\ q.chave = fila[d].chave
      /\ q.modo = fila[d].modo
  BY <1>2, <1>3, <1>6, Dates DEF FilaRow
<1> HIDE DEF r, q
<1>9. /\ Coerente(r, q) /\ Continua(chamada[s].doc, r)
      /\ chamada[s].doc \in refeita \/ Fiel(r)
  BY <1>2, <1>4, <1>7, <1>8 DEF Coerente, Continua, Fiel
<1>10. r.status \notin {"AUSENTE", "DRAFT"}
  BY <1>4, <1>7
<1> QED BY <1>1, <1>5, <1>7, <1>8, <1>9, <1>10, AnswerKeeps

-----------------------------------------------------------------------------
(* Steps that write no row *)

LEMMA RowsStay ==
  ASSUME doc' = doc
  PROVE  Mantidos /\ Firmes
BY DEF Mantidos, Firmes, Mantido, Firme

(* One call begins, ends, or goes on to another answer about its document. *)
LEMMA CallKeeps ==
  ASSUME FiscalInv, doc' = doc, fila' = fila, perturbada' = perturbada,
         refeita' = refeita,
         pulso' \in 0..Pulsos, NEW s \in Chamadas, NEW c \in Chamada,
         chamada' = [chamada EXCEPT ![s] = c],
         c.op # "TOMADO",
         c.op = "PROXIMO" => Livre /\ c.restam > 0,
         c.op \in Awaiting =>
           /\ c.doc \in Docs /\ c.chave # "SEM_CHAVE"
           /\ c.doc \notin refeita => c.chave = "tpEmis1"
           /\ doc[c.doc].status # "AUSENTE",
         c.op \in {"EMISSAO", "CONSULTA_CICLO"} =>
           chamada[s].op \in DoCiclo /\ c.doc = chamada[s].doc
             /\ c.idade = chamada[s].idade,
         c.op = "CONSULTA" =>
           /\ doc[c.doc].chave = c.chave
           /\ c.status = doc[c.doc].status
  PROVE  FiscalInv' /\ Mantidos /\ Firmes
<1>1. /\ FiscalTypeOK /\ RowsAgree /\ Chaves /\ Levadas /\ Tomadas /\ Consultadas
      /\ UmaSo /\ Arrendadas
  BY DEF FiscalInv
<1>2. /\ chamada' \in [Chamadas -> Chamada] /\ chamada'[s] = c
      /\ \A t \in Chamadas : t # s => chamada'[t] = chamada[t]
  BY <1>1 DEF FiscalTypeOK
<1>3. FiscalTypeOK'
  BY <1>1, <1>2 DEF FiscalTypeOK
<1>4. RowsAgree' /\ Chaves'
  BY <1>1 DEF RowsAgree, Chaves
<1>5. Levadas'
  <2>1. ASSUME NEW t \in Chamadas
        PROVE  /\ chamada'[t].op = "PROXIMO" => chamada'[t].restam > 0
               /\ chamada'[t].op \in ComDoc =>
                    /\ chamada'[t].doc \in Docs
                    /\ chamada'[t].chave # "SEM_CHAVE"
                    /\ chamada'[t].doc \notin refeita' => chamada'[t].chave = "tpEmis1"
                    /\ doc'[chamada'[t].doc].status # "AUSENTE"
    <3>1. CASE t = s
      BY <1>2, <3>1 DEF ComDoc
    <3>2. CASE t # s
      BY <1>1, <1>2, <3>2 DEF Levadas
    <3> QED BY <3>1, <3>2
  <2> QED BY <2>1 DEF Levadas
<1>6. Tomadas'
  BY <1>1, <1>2 DEF Tomadas
<1>7. Consultadas'
  <2>1. ASSUME NEW t \in Chamadas, chamada'[t].op = "CONSULTA"
        PROVE  /\ chamada'[t].status \notin {"AUSENTE", "DRAFT"}
               /\ chamada'[t].doc \notin refeita' =>
                    /\ doc'[chamada'[t].doc].chave = "tpEmis1"
                    /\ chamada'[t].status = "AUTHORIZED" => doc'[chamada'[t].doc].xml
                    /\ chamada'[t].status = "CONTINGENCY" =>
                         doc'[chamada'[t].doc].modo = "CONTINGENCY_OFFLINE"
    <3>1. CASE t = s
      <4>1. c.op = "CONSULTA" /\ c.doc \in Docs
        BY <1>2, <2>1, <3>1 DEF Awaiting
      <4>2. /\ c.doc \notin refeita => doc[c.doc].chave = "tpEmis1"
            /\ doc[c.doc].chave # "SEM_CHAVE" /\ c.status = doc[c.doc].status
        BY <4>1 DEF Awaiting
      <4> QED BY <1>1, <1>2, <3>1, <4>1, <4>2 DEF RowsAgree, Chaves
    <3>2. CASE t # s
      BY <1>1, <1>2, <2>1, <3>2 DEF Consultadas
    <3> QED BY <3>1, <3>2
  <2> QED BY <2>1 DEF Consultadas
<1>8. UmaSo'
  <2>1. ASSUME NEW t \in Chamadas, NEW u \in Chamadas, Ativa(t)', Ativa(u)'
        PROVE  t = u
    <3>1. CASE c.op = "PROXIMO"
      <4>1. \A v \in Chamadas : v # s => ~Ativa(v)'
        BY <1>2, <3>1 DEF Livre, Ativa, Awaiting
      <4> QED BY <2>1, <4>1
    <3>2. CASE c.op # "PROXIMO"
      <4>1. ~Ativa(s)'
        BY <1>2, <3>2 DEF Ativa
      <4>2. Ativa(t) /\ Ativa(u)
        BY <1>2, <2>1, <4>1 DEF Ativa
      <4> QED BY <1>1, <4>2 DEF UmaSo
    <3> QED BY <3>1, <3>2
  <2> QED BY <2>1 DEF UmaSo
<1>9. ASSUME NEW t \in Chamadas, Posse(t)'
      PROVE  /\ Posse(t) /\ chamada'[t].doc = chamada[t].doc
             /\ chamada'[t].idade = chamada[t].idade
  BY <1>2, <1>9 DEF Posse, DoCiclo
<1>10. Arrendadas'
  <2>1. ASSUME NEW t \in Chamadas, Posse(t)'
        PROVE  /\ fila'[chamada'[t].doc].lease = Lease - chamada'[t].idade
               /\ doc'[chamada'[t].doc].status # "AUTHORIZED"
               /\ \A u \in Chamadas :
                    chamada'[u].doc = chamada'[t].doc
                      /\ (Posse(u)' \/ chamada'[u].op = "TOMADO") => u = t
    <3>1. /\ Posse(t) /\ chamada'[t].doc = chamada[t].doc
          /\ chamada'[t].idade = chamada[t].idade
      BY <1>9, <2>1
    <3>2. /\ fila[chamada[t].doc].lease = Lease - chamada[t].idade
          /\ doc[chamada[t].doc].status # "AUTHORIZED"
          /\ \A u \in Chamadas :
               chamada[u].doc = chamada[t].doc
                 /\ (Posse(u) \/ chamada[u].op = "TOMADO") => u = t
      BY <1>1, <3>1 DEF Arrendadas
    <3>3. ASSUME NEW u \in Chamadas, chamada'[u].doc = chamada'[t].doc,
                 Posse(u)' \/ chamada'[u].op = "TOMADO"
          PROVE  u = t
      <4>1. CASE Posse(u)'
        BY <1>9, <3>1, <3>2, <3>3, <4>1
      <4>2. CASE chamada'[u].op = "TOMADO"
        <5>1. u # s /\ chamada'[u] = chamada[u]
          BY <1>2, <4>2
        <5> QED BY <3>1, <3>2, <3>3, <4>2, <5>1
      <4> QED BY <3>3, <4>1, <4>2
    <3> QED BY <3>1, <3>2, <3>3
  <2> QED BY <2>1 DEF Arrendadas
<1> QED BY <1>3, <1>4, <1>5, <1>6, <1>7, <1>8, <1>10, RowsStay DEF FiscalInv

LEMMA StartKeeps ==
  ASSUME FiscalInv, NEW s \in Ciclos, Comeca(s), pulso' \in 0..Pulsos
  PROVE  FiscalInv' /\ Mantidos /\ Firmes
<1> DEFINE c == [chamada[s] EXCEPT !.op = "PROXIMO", !.restam = Limit]
<1>1. /\ s \in Chamadas /\ Livre /\ chamada[s] = Ociosa
      /\ chamada' = [chamada EXCEPT ![s] = c]
      /\ doc' = doc /\ fila' = fila /\ perturbada' = perturbada /\ refeita' = refeita
  BY DEF Comeca, Chamadas
<1>2. c \in Chamada /\ c.op = "PROXIMO" /\ c.restam = Limit /\ Limit > 0
  <2>1. Limit \in 0..Limit /\ Limit > 0
    BY Numbers
  <2>2. c = [Ociosa EXCEPT !.op = "PROXIMO", !.restam = Limit]
    BY <1>1
  <2> HIDE DEF c
  <2> QED BY <2>1, <2>2, IdleCall DEF Chamada
<1> HIDE DEF c
<1> QED BY <1>1, <1>2, CallKeeps DEF Awaiting

LEMMA AbandonKeeps ==
  ASSUME FiscalInv, NEW s \in Chamadas, Abandon(s)
  PROVE  FiscalInv' /\ Mantidos /\ Firmes
<1>1. /\ chamada' = [chamada EXCEPT ![s] = Ociosa]
      /\ doc' = doc /\ fila' = fila /\ perturbada' = perturbada /\ refeita' = refeita
      /\ pulso' \in 0..Pulsos
  BY DEF Abandon, FiscalInv, FiscalTypeOK
<1> QED BY <1>1, IdleCall, CallKeeps DEF Awaiting

LEMMA ResendKeeps ==
  ASSUME FiscalInv, NEW s \in Chamadas, NotFoundResend(s)
  PROVE  FiscalInv' /\ Mantidos /\ Firmes
<1> DEFINE c == [chamada[s] EXCEPT !.op = "EMISSAO"]
<1>1. /\ chamada[s].op = "CONSULTA_CICLO"
      /\ chamada' = [chamada EXCEPT ![s] = c]
      /\ doc' = doc /\ fila' = fila /\ perturbada' = perturbada /\ refeita' = refeita
      /\ pulso' \in 0..Pulsos
  BY DEF NotFoundResend, FiscalInv, FiscalTypeOK
<1>2. /\ chamada[s] \in Chamada /\ chamada[s].doc \in Docs
      /\ chamada[s].chave # "SEM_CHAVE" /\ doc[chamada[s].doc].status # "AUSENTE"
      /\ chamada[s].doc \notin refeita => chamada[s].chave = "tpEmis1"
  BY <1>1, CallFields DEF FiscalInv, Levadas, ComDoc, Awaiting
<1>3. /\ c \in Chamada /\ c.op = "EMISSAO" /\ c.doc = chamada[s].doc
      /\ c.chave = chamada[s].chave /\ c.idade = chamada[s].idade
  BY <1>2 DEF Chamada
<1> HIDE DEF c
<1> QED BY <1>1, <1>2, <1>3, CallKeeps DEF DoCiclo

LEMMA QueryKeeps ==
  ASSUME FiscalInv, NEW s \in Consultas, NEW d \in Consultados, QueryStatus(s, d)
  PROVE  FiscalInv' /\ Mantidos /\ Firmes
<1> DEFINE c == [Ociosa EXCEPT !.op = "CONSULTA", !.doc = d, !.status = doc[d].status,
                               !.chave = doc[d].chave]
<1>1. /\ s \in Chamadas /\ d \in Docs /\ doc[d].chave # "SEM_CHAVE"
      /\ chamada' = [chamada EXCEPT ![s] = c]
      /\ doc' = doc /\ fila' = fila /\ perturbada' = perturbada /\ refeita' = refeita
      /\ pulso' \in 0..Pulsos /\ FiscalTypeOK
  BY FiscalAssumption DEF QueryStatus, HasAccessKey, FiscalInv, FiscalTypeOK, Chamadas
<1>2. (d \notin refeita => doc[d].chave = "tpEmis1") /\ doc[d].status # "AUSENTE"
  BY <1>1 DEF FiscalInv, Chaves
<1>3. doc[d].status \in Status \cup {"AUSENTE"} /\ doc[d].chave \in AccessKey
  BY <1>1, RowFields
<1>4. /\ c \in Chamada /\ c.op = "CONSULTA" /\ c.doc = d
      /\ c.chave = doc[d].chave /\ c.status = doc[d].status
  BY <1>1, <1>3, IdleCall DEF Chamada
<1> HIDE DEF c
<1> QED BY <1>1, <1>2, <1>4, CallKeeps

LEMMA CrashKeeps ==
  ASSUME FiscalInv, Crash
  PROVE  FiscalInv' /\ Mantidos /\ Firmes
<1>1. /\ chamada' = [s \in Chamadas |-> Ociosa] /\ pulso' = 0 /\ perturbada' = {}
      /\ doc' = doc /\ fila' = fila /\ refeita' = refeita
  BY DEF Crash
<1>2. \A t \in Chamadas : chamada'[t] = Ociosa
  BY <1>1
<1>3. FiscalTypeOK'
  BY <1>1, IdleCall, Numbers DEF FiscalInv, FiscalTypeOK
<1>4. RowsAgree' /\ Chaves'
  BY <1>1 DEF FiscalInv, RowsAgree, Chaves
<1>5. Levadas' /\ Tomadas' /\ Consultadas' /\ UmaSo' /\ Arrendadas'
  BY <1>2, IdleCall DEF Levadas, Tomadas, Consultadas, UmaSo, Arrendadas, Ativa, Posse,
     ComDoc, DoCiclo, Awaiting
<1> QED BY <1>1, <1>3, <1>4, <1>5, RowsStay DEF FiscalInv

(* A period later every lease, and the age of every call, is one period on. *)
LEMMA TickKeeps ==
  ASSUME FiscalInv, Tick
  PROVE  FiscalInv' /\ Mantidos /\ Firmes
<1>1. /\ Livre /\ doc' = doc /\ pulso' = Pulsos /\ refeita' = refeita
      /\ \A s \in Chamadas : chamada[s].idade < MaxIdade
      /\ fila' = [d \in Docs |-> [fila[d] EXCEPT !.lease = Passa(@), !.retry = Passa(@)]]
      /\ chamada' = [s \in Chamadas |->
           IF chamada[s] = Ociosa THEN Ociosa ELSE [chamada[s] EXCEPT !.idade = @ + 1]]
      /\ perturbada' = {d \in perturbada : \E s \in Chamadas : chamada[s].doc = d}
  BY DEF Tick
<1>2. /\ FiscalTypeOK /\ RowsAgree /\ Chaves /\ Levadas /\ Tomadas /\ Consultadas
      /\ UmaSo /\ Arrendadas
  BY DEF FiscalInv
<1>3. ASSUME NEW d \in Docs
      PROVE  /\ fila'[d] \in FilaRow /\ fila'[d].status = fila[d].status
             /\ fila'[d].chave = fila[d].chave /\ fila'[d].modo = fila[d].modo
             /\ fila'[d].lease = Passa(fila[d].lease)
  <2> DEFINE l == Passa(fila[d].lease)
             r == Passa(fila[d].retry)
  <2>1. fila'[d] = [fila[d] EXCEPT !.lease = l, !.retry = r]
    BY <1>1
  <2>2. /\ fila[d] \in FilaRow /\ fila[d].lease \in SemLease..Lease
        /\ fila[d].retry \in SemData..Retry
    BY <1>2, RowFields
  <2>3. l \in SemLease..Lease /\ r \in SemData..Retry
    BY <2>2, Numbers DEF Passa, SemLease, SemData
  <2> HIDE DEF l, r
  <2>4. /\ fila'[d] \in FilaRow /\ fila'[d].status = fila[d].status
        /\ fila'[d].chave = fila[d].chave /\ fila'[d].modo = fila[d].modo
        /\ fila'[d].lease = l
    BY <2>1, <2>2, <2>3 DEF FilaRow
  <2> QED BY <2>4 DEF l
<1>4. ASSUME NEW s \in Chamadas
      PROVE  /\ chamada'[s] \in Chamada /\ chamada'[s].op = chamada[s].op
             /\ chamada'[s].doc = chamada[s].doc /\ chamada'[s].status = chamada[s].status
             /\ chamada'[s].chave = chamada[s].chave
             /\ chamada'[s].restam = chamada[s].restam
             /\ chamada[s].op # "OCIOSA" => chamada'[s].idade = chamada[s].idade + 1
  <2>1. /\ chamada[s] \in Chamada /\ chamada[s].idade \in 0..MaxIdade
        /\ chamada[s].idade < MaxIdade
    BY <1>1, <1>2, CallFields
  <2>2. CASE chamada[s] = Ociosa
    BY <1>1, <2>2, IdleCall
  <2>3. CASE chamada[s] # Ociosa
    <3> DEFINE i == chamada[s].idade + 1
    <3>1. i \in 0..MaxIdade
      BY <2>1, Numbers
    <3>2. chamada'[s] = [chamada[s] EXCEPT !.idade = i]
      BY <1>1, <2>3
    <3> HIDE DEF i
    <3>3. /\ chamada'[s] \in Chamada /\ chamada'[s].op = chamada[s].op
          /\ chamada'[s].doc = chamada[s].doc
          /\ chamada'[s].status = chamada[s].status
          /\ chamada'[s].chave = chamada[s].chave
          /\ chamada'[s].restam = chamada[s].restam /\ chamada'[s].idade = i
      BY <2>1, <3>1, <3>2 DEF Chamada
    <3> QED BY <3>3 DEF i
  <2> QED BY <2>2, <2>3
<1>5. FiscalTypeOK'
  <2>1. fila' \in [Docs -> FilaRow]
    <3>1. fila' = [d \in Docs |-> fila'[d]]
      BY <1>1
    <3> QED BY <1>3, <3>1
  <2>2. chamada' \in [Chamadas -> Chamada]
    <3>1. chamada' = [s \in Chamadas |-> chamada'[s]]
      BY <1>1
    <3> QED BY <1>4, <3>1
  <2>3. Pulsos \in 0..Pulsos
    BY Numbers
  <2> QED BY <1>1, <1>2, <2>1, <2>2, <2>3 DEF FiscalTypeOK
<1>6. RowsAgree' /\ Chaves'
  <2>1. doc' = doc /\ refeita' = refeita
    BY <1>1
  <2>2. Chaves'
    BY <1>2, <2>1 DEF Chaves
  <2>3. ASSUME NEW d \in Docs
        PROVE  /\ fila'[d].status = fila[d].status /\ fila'[d].chave = fila[d].chave
               /\ fila'[d].modo = fila[d].modo
    BY <1>3
  <2>4. RowsAgree'
    BY <1>2, <2>1, <2>3 DEF RowsAgree
  <2> QED BY <2>2, <2>4
<1>7. Levadas' /\ Tomadas' /\ Consultadas' /\ UmaSo'
  <2>1. doc' = doc /\ refeita' = refeita
    BY <1>1
  <2>2. Levadas'
    BY <1>2, <1>4, <2>1 DEF Levadas
  <2>3. Tomadas'
    BY <1>1, <1>4 DEF Tomadas, Livre, Awaiting
  <2>4. UmaSo'
    BY <1>2, <1>4 DEF UmaSo, Ativa
  <2>5. Consultadas'
    BY <1>2, <1>4, <2>1 DEF Consultadas
  <2> QED BY <2>2, <2>3, <2>4, <2>5
<1>8. ASSUME NEW t \in Chamadas, Posse(t)'
      PROVE  Posse(t) /\ chamada'[t].idade = chamada[t].idade + 1
  <2>1. chamada[t].op \in DoCiclo /\ chamada'[t].idade = chamada[t].idade + 1
    BY <1>4, <1>8 DEF Posse, DoCiclo
  <2>2. chamada[t].doc \notin perturbada
    <3>1. chamada[t].doc \notin perturbada'
      BY <1>4, <1>8 DEF Posse
    <3>2. perturbada' = {d \in perturbada : \E s \in Chamadas : chamada[s].doc = d}
      BY <1>1
    <3> QED BY <3>1, <3>2
  <2>3. chamada[t].idade \in Nat /\ chamada'[t].idade < Lease
    BY <1>2, <1>8, CallFields, Numbers DEF Posse
  <2>4. chamada[t].idade < Lease
    BY <2>1, <2>3, Numbers
  <2> QED BY <2>1, <2>2, <2>4 DEF Posse, DoCiclo
<1>9. Arrendadas'
  <2>1. ASSUME NEW t \in Chamadas, Posse(t)'
        PROVE  /\ fila'[chamada'[t].doc].lease = Lease - chamada'[t].idade
               /\ doc'[chamada'[t].doc].status # "AUTHORIZED"
               /\ \A u \in Chamadas :
                    chamada'[u].doc = chamada'[t].doc
                      /\ (Posse(u)' \/ chamada'[u].op = "TOMADO") => u = t
    <3>1. Posse(t) /\ chamada'[t].idade = chamada[t].idade + 1
      BY <1>8, <2>1
    <3>2. /\ fila[chamada[t].doc].lease = Lease - chamada[t].idade
          /\ doc[chamada[t].doc].status # "AUTHORIZED"
          /\ \A u \in Chamadas :
               chamada[u].doc = chamada[t].doc
                 /\ (Posse(u) \/ chamada[u].op = "TOMADO") => u = t
      BY <1>2, <3>1 DEF Arrendadas
    <3>3. chamada[t].doc \in Docs
      BY <1>2, <3>1 DEF Levadas, Posse, DoCiclo, ComDoc, Awaiting
    <3>4. fila'[chamada[t].doc].lease = Lease - chamada'[t].idade
      <4>1. fila'[chamada[t].doc].lease = Passa(Lease - chamada[t].idade)
        BY <1>3, <3>2, <3>3
      <4>2. /\ chamada[t].idade \in Nat /\ chamada[t].idade < Lease
            /\ Lease \in Nat /\ MaxIdade \in Nat \ {0}
        BY <1>2, <3>1, CallFields, Numbers DEF Posse
      <4>3. Passa(Lease - chamada[t].idade) = Lease - (chamada[t].idade + 1)
        BY <4>2 DEF Passa
      <4> QED BY <3>1, <4>1, <4>3
    <3>5. \A u \in Chamadas :
            chamada'[u].doc = chamada'[t].doc
              /\ (Posse(u)' \/ chamada'[u].op = "TOMADO") => u = t
      BY <1>4, <1>8, <3>2
    <3> QED BY <1>1, <1>4, <3>2, <3>4, <3>5
  <2> QED BY <2>1 DEF Arrendadas
<1> QED BY <1>1, <1>5, <1>6, <1>7, <1>9, RowsStay DEF FiscalInv

-----------------------------------------------------------------------------
(* A new draft, a claim and a signature *)

(* No call that has a document is left with one that is drafted. *)
LEMMA DraftKeeps ==
  ASSUME FiscalInv, NEW d \in Docs, QueueNfce(d)
  PROVE  FiscalInv' /\ \A e \in Docs : QueueNfce(e) \/ (Mantido(e) /\ Firme(e))
<1> DEFINE perdida == {e \in {d} : \E s \in Chamadas :
                         chamada[s].op \in Awaiting /\ chamada[s].doc = e}
<1>1. /\ doc' = [doc EXCEPT ![d] = DraftDocument]
      /\ fila' = [fila EXCEPT ![d] = DraftQueueRow]
      /\ chamada' = chamada /\ pulso' = pulso /\ Livre
      /\ perturbada' = perturbada \cup perdida /\ refeita' = refeita \cup perdida
  BY DEF QueueNfce, SaveDraft, UpsertDocument, UpsertQueue
<1>2. /\ FiscalTypeOK /\ RowsAgree /\ Chaves /\ Levadas /\ Tomadas /\ Consultadas
      /\ UmaSo /\ Arrendadas
  BY DEF FiscalInv
<1>3. /\ DraftDocument \in DocRow /\ DraftDocument.status = "DRAFT"
      /\ DraftDocument.chave = "SEM_CHAVE" /\ DraftDocument.modo = "NORMAL"
      /\ DraftDocument.xml = FALSE
  BY DEF DraftDocument, DocRow, Status, AccessKey, EmissionMode
<1>4. /\ DraftQueueRow \in FilaRow /\ DraftQueueRow.status = "DRAFT"
      /\ DraftQueueRow.chave = "SEM_CHAVE" /\ DraftQueueRow.modo = "NORMAL"
  BY Dates DEF DraftQueueRow, FilaRow, Status, AccessKey, EmissionMode
<1>5. /\ doc' \in [Docs -> DocRow] /\ fila' \in [Docs -> FilaRow]
      /\ doc'[d] = DraftDocument /\ fila'[d] = DraftQueueRow
      /\ \A e \in Docs : e # d => doc'[e] = doc[e] /\ fila'[e] = fila[e]
  BY <1>1, <1>2, <1>3, <1>4 DEF FiscalTypeOK
<1>6. /\ perdida \subseteq Docs
      /\ \A s \in Chamadas : chamada[s].op \in Awaiting /\ chamada[s].doc = d =>
           d \in perdida
  OBVIOUS
<1> HIDE DEF perdida
<1>7. /\ perturbada \subseteq perturbada' /\ refeita \subseteq refeita'
      /\ \A s \in Chamadas : chamada[s].op \in ComDoc /\ chamada[s].doc = d =>
           d \in perturbada' /\ d \in refeita'
  BY <1>1, <1>6 DEF Livre, ComDoc, Awaiting
<1>8. FiscalTypeOK'
  BY <1>1, <1>2, <1>5, <1>6 DEF FiscalTypeOK
<1>9. RowsAgree' /\ Chaves'
  BY <1>2, <1>3, <1>4, <1>5, <1>7 DEF RowsAgree, Chaves
<1>10. Levadas'
  <2>1. ASSUME NEW t \in Chamadas, chamada[t].op \in ComDoc
        PROVE  /\ chamada[t].doc \in Docs /\ chamada[t].chave # "SEM_CHAVE"
               /\ chamada[t].doc \notin refeita' => chamada[t].chave = "tpEmis1"
               /\ doc'[chamada[t].doc].status # "AUSENTE"
    BY <1>2, <1>3, <1>5, <1>7, <2>1 DEF Levadas
  <2> QED BY <1>1, <1>2, <2>1 DEF Levadas
<1>11. Tomadas' /\ UmaSo'
  BY <1>1, <1>2 DEF Tomadas, UmaSo, Ativa, Livre, Awaiting
<1>12. Consultadas'
  <2>1. ASSUME NEW t \in Chamadas, chamada[t].op = "CONSULTA"
        PROVE  /\ chamada[t].status \notin {"AUSENTE", "DRAFT"}
               /\ chamada[t].doc \notin refeita' =>
                    /\ doc'[chamada[t].doc].chave = "tpEmis1"
                    /\ chamada[t].status = "AUTHORIZED" => doc'[chamada[t].doc].xml
                    /\ chamada[t].status = "CONTINGENCY" =>
                         doc'[chamada[t].doc].modo = "CONTINGENCY_OFFLINE"
    <3>1. chamada[t].doc \in Docs
      BY <1>2, <2>1 DEF Levadas, ComDoc, Awaiting
    <3>2. chamada[t].doc \notin refeita' =>
            doc'[chamada[t].doc] = doc[chamada[t].doc] /\ chamada[t].doc \notin refeita
      BY <1>5, <1>7, <2>1, <3>1 DEF ComDoc, Awaiting
    <3> QED BY <1>2, <2>1, <3>2 DEF Consultadas
  <2> QED BY <1>1, <2>1 DEF Consultadas
<1>13. Arrendadas'
  <2>1. \A t \in Chamadas : Posse(t)' => Posse(t) /\ chamada[t].doc # d
    BY <1>1, <1>7 DEF Posse, ComDoc, Awaiting
  <2>2. \A t \in Chamadas : Posse(t) => chamada[t].doc \in Docs
    BY <1>2 DEF Levadas, Posse, DoCiclo, ComDoc, Awaiting
  <2> QED BY <1>1, <1>2, <1>5, <2>1, <2>2 DEF Arrendadas
<1>14. \A e \in Docs : e # d => Mantido(e) /\ Firme(e)
  BY <1>5 DEF Mantido, Firme
<1>15. FiscalInv'
  BY <1>8, <1>9, <1>10, <1>11, <1>12, <1>13 DEF FiscalInv
<1>16. QueueNfce(d)
  OBVIOUS
<1>17. ASSUME NEW e \in Docs
       PROVE  QueueNfce(e) \/ (Mantido(e) /\ Firme(e))
  <2>1. CASE e = d
    BY <1>16, <2>1
  <2>2. CASE e # d
    BY <1>14, <2>2
  <2> QED BY <2>1, <2>2
<1> QED BY <1>15, <1>17

(* A cycle claims a document only when the lease of every other one has passed. *)
LEMMA ClaimKeeps ==
  ASSUME FiscalInv, NEW s \in Ciclos, ClaimNext(s)
  PROVE  FiscalInv' /\ Mantidos /\ Firmes
<1>1. /\ FiscalTypeOK /\ RowsAgree /\ Chaves /\ Levadas /\ Tomadas /\ Consultadas
      /\ UmaSo /\ Arrendadas
      /\ s \in Chamadas /\ chamada[s].op = "PROXIMO"
      /\ doc' = doc /\ pulso' = pulso /\ perturbada' = perturbada /\ refeita' = refeita
  BY DEF FiscalInv, ClaimNext, Chamadas
<1>2. CASE NoneReady(chamada[s].idade) /\ chamada' = [chamada EXCEPT ![s] = Ociosa]
             /\ fila' = fila
  <2>1. pulso' \in 0..Pulsos
    BY <1>1 DEF FiscalTypeOK
  <2> QED BY <1>1, <1>2, <2>1, IdleCall, CallKeeps DEF Awaiting
<1>3. ASSUME NEW d \in Docs, Oldest(d, chamada[s].idade),
             chamada' = [chamada EXCEPT
               ![s].op = "TOMADO", ![s].doc = d, ![s].status = doc[d].status,
               ![s].chave = KeyFor(doc[d]), ![s].restam = @ - 1],
             fila' = [fila EXCEPT ![d].lease = Lease - chamada[s].idade]
      PROVE  FiscalInv' /\ Mantidos /\ Firmes
  <2>1. /\ chamada[s] \in Chamada /\ chamada[s].idade \in 0..MaxIdade
        /\ chamada[s].restam \in 0..Limit /\ chamada[s].restam > 0
        /\ doc[d] \in DocRow /\ fila[d] \in FilaRow
        /\ doc[d].status \in Status \cup {"AUSENTE"}
    BY <1>1, CallFields, RowFields DEF Levadas
  <2>2. /\ doc[d].status \notin {"AUSENTE", "AUTHORIZED"}
        /\ fila[d].lease <= -chamada[s].idade
        /\ doc[d].status = "REJECTED" => fila[d].retry # SemData
    BY <1>1, <1>3 DEF Oldest, Ready, Claimable, RowsAgree
  <2>3. /\ KeyFor(doc[d]) \in AccessKey \ {"SEM_CHAVE"}
        /\ d \notin refeita => KeyFor(doc[d]) = "tpEmis1"
    <3>1. doc[d].chave \in AccessKey
      BY <2>1 DEF DocRow
    <3>2. KeyFor(doc[d]) \in AccessKey \ {"SEM_CHAVE"}
      BY <3>1 DEF KeyFor, AccessKey
    <3>3. d \notin refeita /\ doc[d].chave = "SEM_CHAVE" =>
            doc[d].modo = "NORMAL" /\ doc[d].status # "CONTINGENCY"
      BY <1>1 DEF RowsAgree
    <3>4. d \notin refeita => doc[d].chave \in {"SEM_CHAVE", "tpEmis1"}
      BY <1>1 DEF Chaves
    <3> QED BY <3>2, <3>3, <3>4 DEF KeyFor
  <2> DEFINE ch == KeyFor(doc[d])
             k == chamada[s].restam - 1
             v == doc[d].status
             c == [chamada[s] EXCEPT !.op = "TOMADO", !.doc = d, !.status = v,
                                     !.chave = ch, !.restam = k]
             l == Lease - chamada[s].idade
             q == [fila[d] EXCEPT !.lease = l]
  <2>4. chamada' = [chamada EXCEPT ![s] = c] /\ fila' = [fila EXCEPT ![d] = q]
    <3>1. chamada' = [chamada EXCEPT
            ![s].op = "TOMADO", ![s].doc = d, ![s].status = v,
            ![s].chave = ch, ![s].restam = @ - 1]
      BY <1>3
    <3>2. chamada' = [chamada EXCEPT ![s] = c]
      BY <3>1
    <3>3. fila' = [fila EXCEPT ![d] = q]
      BY <1>3
    <3> QED BY <3>2, <3>3
  <2>5. k \in 0..Limit /\ l \in SemLease..Lease /\ v \in Status \cup {"AUSENTE"}
    BY <2>1, Dates, Numbers
  <2>a. ch \in AccessKey \ {"SEM_CHAVE"} /\ (d \notin refeita => ch = "tpEmis1")
    BY <2>3
  <2> HIDE DEF k, v, l, ch
  <2>6. /\ c \in Chamada /\ c.op = "TOMADO" /\ c.doc = d /\ c.status = v
        /\ c.chave = ch /\ c.idade = chamada[s].idade
    BY <2>1, <2>5, <2>a DEF Chamada
  <2>7. /\ q \in FilaRow /\ q.lease = l /\ q.status = fila[d].status
        /\ q.chave = fila[d].chave /\ q.modo = fila[d].modo
        /\ q.retry = fila[d].retry
    BY <2>1, <2>5 DEF FilaRow
  <2> HIDE DEF c, q
  <2>8. /\ chamada' \in [Chamadas -> Chamada] /\ chamada'[s] = c
        /\ \A t \in Chamadas : t # s => chamada'[t] = chamada[t]
    BY <1>1, <2>4, <2>6 DEF FiscalTypeOK
  <2>9. /\ fila' \in [Docs -> FilaRow] /\ fila'[d] = q
        /\ \A e \in Docs : e # d => fila'[e] = fila[e]
    BY <1>1, <2>4, <2>7 DEF FiscalTypeOK
  <2>10. \A t \in Chamadas : t # s => chamada[t].op \notin {"PROXIMO", "TOMADO"}
    BY <1>1 DEF UmaSo, Ativa
  <2>11. FiscalTypeOK'
    BY <1>1, <2>8, <2>9 DEF FiscalTypeOK
  <2>12. RowsAgree' /\ Chaves'
    BY <1>1, <2>7, <2>9 DEF RowsAgree, Chaves
  <2>13. Levadas'
    <3>1. ASSUME NEW t \in Chamadas
          PROVE  /\ chamada'[t].op = "PROXIMO" => chamada'[t].restam > 0
                 /\ chamada'[t].op \in ComDoc =>
                      /\ chamada'[t].doc \in Docs
                      /\ chamada'[t].chave # "SEM_CHAVE"
                      /\ chamada'[t].doc \notin refeita' => chamada'[t].chave = "tpEmis1"
                      /\ doc'[chamada'[t].doc].status # "AUSENTE"
      <4>1. CASE t = s
        BY <1>1, <2>2, <2>a, <2>6, <2>8, <4>1
      <4>2. CASE t # s
        BY <1>1, <2>8, <4>2 DEF Levadas
      <4> QED BY <4>1, <4>2
    <3> QED BY <3>1 DEF Levadas
  <2>14. Tomadas'
    BY <1>1, <2>2, <2>6, <2>7, <2>8, <2>9, <2>10 DEF Tomadas, v
  <2>15. Consultadas'
    BY <1>1, <2>6, <2>8 DEF Consultadas
  <2>16. UmaSo'
    BY <2>8, <2>10 DEF UmaSo, Ativa
  <2>17. ASSUME NEW t \in Chamadas, Posse(t), chamada[t].doc = d
         PROVE  FALSE
    <3>1. fila[d].lease = Lease - chamada[t].idade
      BY <1>1, <2>17 DEF Arrendadas
    <3>2. /\ chamada[t].idade \in Nat /\ chamada[t].idade < Lease
          /\ chamada[s].idade \in Nat /\ Lease \in Nat
      BY <1>1, <2>1, <2>17, CallFields, Numbers DEF Posse
    <3> QED BY <2>2, <3>1, <3>2
  <2>18. \A t \in Chamadas : t # s => (Posse(t)' <=> Posse(t))
    BY <1>1, <2>8 DEF Posse
  <2>19. Arrendadas'
    <3>1. ASSUME NEW t \in Chamadas, Posse(t)'
          PROVE  /\ fila'[chamada'[t].doc].lease = Lease - chamada'[t].idade
                 /\ doc'[chamada'[t].doc].status # "AUTHORIZED"
                 /\ \A u \in Chamadas :
                      chamada'[u].doc = chamada'[t].doc
                        /\ (Posse(u)' \/ chamada'[u].op = "TOMADO") => u = t
      <4>1. CASE t = s
        <5>1. \A u \in Chamadas : u # s /\ chamada'[u].doc = d =>
                ~Posse(u)' /\ chamada'[u].op # "TOMADO"
          BY <2>8, <2>10, <2>17, <2>18
        <5> QED BY <1>1, <2>2, <2>6, <2>7, <2>8, <2>9, <4>1, <5>1 DEF l
      <4>2. CASE t # s
        <5>1. /\ Posse(t) /\ chamada'[t] = chamada[t] /\ chamada[t].doc # d
              /\ chamada[t].doc \in Docs
          BY <1>1, <2>8, <2>17, <2>18, <3>1, <4>2
             DEF Levadas, Posse, DoCiclo, ComDoc, Awaiting
        <5>2. /\ fila[chamada[t].doc].lease = Lease - chamada[t].idade
              /\ doc[chamada[t].doc].status # "AUTHORIZED"
              /\ \A u \in Chamadas :
                   chamada[u].doc = chamada[t].doc
                     /\ (Posse(u) \/ chamada[u].op = "TOMADO") => u = t
          BY <1>1, <5>1 DEF Arrendadas
        <5>3. \A u \in Chamadas :
                chamada'[u].doc = chamada'[t].doc
                  /\ (Posse(u)' \/ chamada'[u].op = "TOMADO") => u = t
          BY <2>6, <2>8, <2>18, <5>1, <5>2
        <5> QED BY <1>1, <2>9, <5>1, <5>2, <5>3
      <4> QED BY <4>1, <4>2
    <3> QED BY <3>1 DEF Arrendadas
  <2> QED BY <1>1, <2>11, <2>12, <2>13, <2>14, <2>15, <2>16, <2>19, RowsStay DEF FiscalInv
<1> QED BY <1>1, <1>2, <1>3 DEF ClaimNext

(* The call that has just claimed a document is the only one that may sign it. *)
LEMMA SendKeeps ==
  ASSUME FiscalInv, NEW s \in Ciclos, Send(s)
  PROVE  FiscalInv' /\ Mantidos /\ Firmes
<1>1. /\ FiscalTypeOK /\ RowsAgree /\ Chaves /\ Levadas /\ Tomadas /\ Consultadas
      /\ UmaSo /\ Arrendadas
      /\ s \in Chamadas /\ chamada[s].op = "TOMADO" /\ Sign(s)
      /\ pulso' = pulso /\ perturbada' = perturbada /\ refeita' = refeita
  BY DEF FiscalInv, Send, Chamadas
<1>2. PICK d \in Docs : d = chamada[s].doc
  BY <1>1 DEF Levadas, ComDoc
<1>3. /\ chamada[s] \in Chamada /\ chamada[s].idade \in 0..MaxIdade
      /\ doc[d] \in DocRow /\ fila[d] \in FilaRow /\ chamada[s].chave # "SEM_CHAVE"
      /\ d \notin refeita => chamada[s].chave = "tpEmis1"
      /\ doc[d].status \notin {"AUSENTE", "AUTHORIZED"}
      /\ chamada[s].status = doc[d].status
  BY <1>1, <1>2, CallFields, RowFields DEF Levadas, Tomadas, ComDoc
<1>4. PICK c \in Chamada :
        /\ chamada' = [chamada EXCEPT ![s] = c]
        /\ c.op \in {"EMISSAO", "CONSULTA_CICLO"} /\ c.doc = d
        /\ c.chave # "SEM_CHAVE" /\ c.idade = chamada[s].idade
        /\ d \notin refeita => c.chave = "tpEmis1"
  <2> DEFINE o == IF chamada[s].status = "CONTINGENCY" /\ HasAccessKey(chamada[s].doc)
                    THEN "CONSULTA_CICLO" ELSE "EMISSAO"
             c == [chamada[s] EXCEPT !.status = "AUSENTE", !.op = o]
  <2>1. chamada' = [chamada EXCEPT ![s] = c]
    BY DEF Send
  <2>2. o \in {"EMISSAO", "CONSULTA_CICLO"}
    OBVIOUS
  <2> HIDE DEF o
  <2>3. /\ c \in Chamada /\ c.op = o /\ c.doc = chamada[s].doc
        /\ c.chave = chamada[s].chave /\ c.idade = chamada[s].idade
    BY <1>3, <2>2 DEF Chamada
  <2> HIDE DEF c
  <2> QED BY <1>2, <1>3, <2>1, <2>2, <2>3
<1>5. /\ chamada' \in [Chamadas -> Chamada] /\ chamada'[s] = c
      /\ \A t \in Chamadas : t # s => chamada'[t] = chamada[t]
  BY <1>1, <1>4 DEF FiscalTypeOK
<1>6. /\ doc' \in [Docs -> DocRow] /\ fila' \in [Docs -> FilaRow]
      /\ \A e \in Docs : e # d => doc'[e] = doc[e] /\ fila'[e] = fila[e]
      /\ doc'[d].chave = doc[d].chave /\ doc'[d].xml = doc[d].xml
      /\ doc'[d].modo = doc[d].modo
      /\ fila'[d].chave = fila[d].chave /\ fila'[d].modo = fila[d].modo
      /\ fila'[d].status = doc'[d].status
      /\ doc'[d].status \notin {"AUSENTE", "AUTHORIZED", "DRAFT"}
      /\ doc'[d].status = "CONTINGENCY" => doc[d].status = "CONTINGENCY"
      /\ fila'[d].lease \in {fila[d].lease, Lease - chamada[s].idade}
  <2>1. CASE doc[d].status \in {"DRAFT", "REJECTED"}
    <3> DEFINE r == [doc[d] EXCEPT !.status = "SIGNED"]
               l == Lease - chamada[s].idade
               q == [fila[d] EXCEPT !.status = "SIGNED", !.lease = l]
    <3>1. doc' = [doc EXCEPT ![d] = r] /\ fila' = [fila EXCEPT ![d] = q]
      BY <1>1, <1>2, <1>3, <2>1 DEF Sign, AppendState
    <3>2. l \in SemLease..Lease
      BY <1>3, Dates
    <3> HIDE DEF l
    <3>3. /\ r \in DocRow /\ r.status = "SIGNED" /\ r.chave = doc[d].chave
          /\ r.xml = doc[d].xml /\ r.modo = doc[d].modo
      BY <1>3 DEF DocRow, Status
    <3>4. /\ q \in FilaRow /\ q.status = "SIGNED" /\ q.chave = fila[d].chave
          /\ q.modo = fila[d].modo /\ q.lease = l
      BY <1>3, <3>2 DEF FilaRow, Status
    <3> HIDE DEF r, q
    <3>5. doc \in [Docs -> DocRow] /\ fila \in [Docs -> FilaRow]
      BY <1>1 DEF FiscalTypeOK
    <3>6. /\ doc' \in [Docs -> DocRow] /\ fila' \in [Docs -> FilaRow]
          /\ \A e \in Docs : e # d => doc'[e] = doc[e] /\ fila'[e] = fila[e]
          /\ doc'[d] = r /\ fila'[d] = q
      BY <3>1, <3>3, <3>4, <3>5
    <3>7. fila'[d].lease = Lease - chamada[s].idade
      BY <3>4, <3>6 DEF l
    <3> QED BY <3>3, <3>4, <3>6, <3>7
  <2>2. CASE doc[d].status \notin {"DRAFT", "REJECTED"}
    <3>1. doc' = doc /\ fila' = fila
      BY <1>1, <1>2, <1>3, <2>2 DEF Sign
    <3> QED BY <1>1, <1>3, <2>2, <3>1 DEF FiscalTypeOK, RowsAgree
  <2> QED BY <2>1, <2>2
<1>7. \A t \in Chamadas : t # s => chamada[t].op \notin {"PROXIMO", "TOMADO"}
  BY <1>1 DEF UmaSo, Ativa
<1>8. FiscalTypeOK'
  BY <1>1, <1>5, <1>6 DEF FiscalTypeOK
<1>9. RowsAgree'
  <2>1. ASSUME NEW e \in Docs
        PROVE  /\ fila'[e].status = doc'[e].status
               /\ fila'[e].chave = doc'[e].chave
               /\ fila'[e].modo = doc'[e].modo
               /\ doc'[e].chave = "SEM_CHAVE" <=> ~doc'[e].xml /\ doc'[e].modo = "NORMAL"
               /\ e \notin refeita' =>
                    /\ doc'[e].status = "AUTHORIZED" => doc'[e].xml
                    /\ doc'[e].status = "CONTINGENCY" =>
                         doc'[e].modo = "CONTINGENCY_OFFLINE"
    <3>1. CASE e = d
      BY <1>1, <1>6, <3>1 DEF RowsAgree
    <3>2. CASE e # d
      BY <1>1, <1>6, <3>2 DEF RowsAgree
    <3> QED BY <3>1, <3>2
  <2> QED BY <2>1 DEF RowsAgree
<1>10. Chaves'
  BY <1>1, <1>6 DEF Chaves
<1>11. Levadas'
  <2>1. ASSUME NEW t \in Chamadas
        PROVE  /\ chamada'[t].op = "PROXIMO" => chamada'[t].restam > 0
               /\ chamada'[t].op \in ComDoc =>
                    /\ chamada'[t].doc \in Docs
                    /\ chamada'[t].chave # "SEM_CHAVE"
                    /\ chamada'[t].doc \notin refeita' => chamada'[t].chave = "tpEmis1"
                    /\ doc'[chamada'[t].doc].status # "AUSENTE"
    <3>1. CASE t = s
      BY <1>1, <1>4, <1>5, <1>6, <3>1
    <3>2. CASE t # s
      BY <1>1, <1>5, <1>6, <3>2 DEF Levadas
    <3> QED BY <3>1, <3>2
  <2> QED BY <2>1 DEF Levadas
<1>12. Tomadas' /\ UmaSo'
  BY <1>4, <1>5, <1>7 DEF Tomadas, UmaSo, Ativa
<1>13. Consultadas'
  <2>1. ASSUME NEW t \in Chamadas, chamada'[t].op = "CONSULTA"
        PROVE  /\ chamada'[t].status \notin {"AUSENTE", "DRAFT"}
               /\ chamada'[t].doc \notin refeita' =>
                    /\ doc'[chamada'[t].doc].chave = "tpEmis1"
                    /\ chamada'[t].status = "AUTHORIZED" => doc'[chamada'[t].doc].xml
                    /\ chamada'[t].status = "CONTINGENCY" =>
                         doc'[chamada'[t].doc].modo = "CONTINGENCY_OFFLINE"
    <3>1. t # s /\ chamada'[t] = chamada[t]
      BY <1>4, <1>5, <2>1
    <3>2. chamada[t].doc \in Docs
      BY <1>1, <2>1, <3>1 DEF Levadas, ComDoc, Awaiting
    <3>3. \A e \in Docs : doc'[e].chave = doc[e].chave /\ doc'[e].xml = doc[e].xml
                            /\ doc'[e].modo = doc[e].modo
      BY <1>6
    <3> QED BY <1>1, <2>1, <3>1, <3>2, <3>3 DEF Consultadas
  <2> QED BY <2>1 DEF Consultadas
<1>14. \A t \in Chamadas : Posse(t)' <=> Posse(t)
  BY <1>1, <1>2, <1>4, <1>5 DEF Posse, DoCiclo
<1>15. Arrendadas'
  <2>1. ASSUME NEW t \in Chamadas, Posse(t)'
        PROVE  /\ fila'[chamada'[t].doc].lease = Lease - chamada'[t].idade
               /\ doc'[chamada'[t].doc].status # "AUTHORIZED"
               /\ \A u \in Chamadas :
                    chamada'[u].doc = chamada'[t].doc
                      /\ (Posse(u)' \/ chamada'[u].op = "TOMADO") => u = t
    <3>1. \A u \in Chamadas : chamada'[u].doc = chamada[u].doc
                                /\ chamada'[u].idade = chamada[u].idade
      BY <1>2, <1>4, <1>5
    <3>2. /\ fila[chamada[t].doc].lease = Lease - chamada[t].idade
          /\ doc[chamada[t].doc].status # "AUTHORIZED"
          /\ \A u \in Chamadas :
               chamada[u].doc = chamada[t].doc
                 /\ (Posse(u) \/ chamada[u].op = "TOMADO") => u = t
      BY <1>1, <1>14, <2>1 DEF Arrendadas
    <3>3. \A u \in Chamadas : chamada'[u].op = "TOMADO" => chamada[u].op = "TOMADO"
      BY <1>1, <1>5
    <3>4. chamada[t].doc \in Docs
      BY <1>1, <1>14, <2>1 DEF Levadas, Posse, DoCiclo, ComDoc, Awaiting
    <3>5. chamada[t].doc = d => t = s
      BY <1>1, <1>2, <3>2
    <3>6. /\ fila'[chamada[t].doc].lease = Lease - chamada[t].idade
          /\ doc'[chamada[t].doc].status # "AUTHORIZED"
      <4>1. CASE chamada[t].doc = d
        BY <1>6, <3>2, <3>5, <4>1
      <4>2. CASE chamada[t].doc # d
        BY <1>6, <3>2, <3>4, <4>2
      <4> QED BY <4>1, <4>2
    <3> QED BY <1>14, <3>1, <3>2, <3>3, <3>6
  <2> QED BY <2>1 DEF Arrendadas
<1>16. Mantidos /\ Firmes
  BY <1>3, <1>6 DEF Mantidos, Firmes, Mantido, Firme
<1> QED BY <1>8, <1>9, <1>10, <1>11, <1>12, <1>13, <1>15, <1>16 DEF FiscalInv

-----------------------------------------------------------------------------
(* The theorems *)

LEMMA FiscalStarts ==
  ASSUME FiscalInit
  PROVE  FiscalInv
<1> DEFINE r == [DraftDocument EXCEPT !.status = "AUSENTE"]
           q == [DraftQueueRow EXCEPT !.status = "AUSENTE"]
<1>1. /\ doc = [d \in Docs |-> r] /\ fila = [d \in Docs |-> q]
      /\ chamada = [s \in Chamadas |-> Ociosa] /\ pulso = 0
      /\ perturbada = {} /\ refeita = {}
  BY DEF FiscalInit
<1>2. /\ r \in DocRow /\ r.status = "AUSENTE" /\ r.chave = "SEM_CHAVE"
      /\ r.modo = "NORMAL" /\ r.xml = FALSE
  BY DEF DraftDocument, DocRow, AccessKey, EmissionMode
<1>3. /\ q \in FilaRow /\ q.status = "AUSENTE" /\ q.chave = "SEM_CHAVE"
      /\ q.modo = "NORMAL"
  BY Dates DEF DraftQueueRow, FilaRow, AccessKey, EmissionMode
<1> HIDE DEF r, q
<1>4. /\ \A d \in Docs : doc[d] = r /\ fila[d] = q
      /\ \A s \in Chamadas : chamada[s] = Ociosa
  BY <1>1
<1>5. FiscalTypeOK
  BY <1>1, <1>2, <1>3, IdleCall, Numbers DEF FiscalTypeOK
<1>6. RowsAgree /\ Chaves
  BY <1>2, <1>3, <1>4 DEF RowsAgree, Chaves
<1>7. Levadas /\ Tomadas /\ Consultadas /\ UmaSo /\ Arrendadas
  BY <1>4, IdleCall DEF Levadas, Tomadas, Consultadas, UmaSo, Arrendadas, Ativa, Posse,
     ComDoc, DoCiclo, Awaiting
<1> QED BY <1>5, <1>6, <1>7 DEF FiscalInv

LEMMA AnswersKeep ==
  ASSUME FiscalInv, NEW s \in Chamadas, Answer(s)
  PROVE  FiscalInv' /\ Mantidos /\ Firmes
<1>1. Livre
  BY DEF Answer
<1>2. CASE ApplyAuthorized(s)
  BY <1>1, <1>2, AuthorizedKeeps
<1>3. CASE ApplyRejected(s)
  BY <1>1, <1>3, RejectedKeeps
<1>4. CASE ApplyPending(s)
  BY <1>1, <1>4, PendingKeeps
<1>5. CASE EnterContingency(s)
  BY <1>1, <1>5, ContingencyKeeps
<1>6. CASE NotFoundResend(s)
  BY <1>6, ResendKeeps
<1>7. CASE QueryUnsettled(s)
  BY <1>1, <1>7, UnsettledKeeps
<1>8. CASE Abandon(s)
  BY <1>8, AbandonKeeps
<1> QED BY <1>2, <1>3, <1>4, <1>5, <1>6, <1>7, <1>8 DEF Answer

LEMMA FiscalInductive ==
  ASSUME FiscalInv, FiscalNext
  PROVE  /\ FiscalInv'
         /\ \A d \in Docs : QueueNfce(d) \/ (Mantido(d) /\ Firme(d))
<1>a. Mantidos /\ Firmes => \A d \in Docs : Mantido(d) /\ Firme(d)
  BY DEF Mantidos, Firmes
<1>1. ASSUME NEW d \in Docs, QueueNfce(d)
      PROVE  FiscalInv' /\ \A e \in Docs : QueueNfce(e) \/ (Mantido(e) /\ Firme(e))
  BY <1>1, DraftKeeps
<1>2. CASE Worker
  <2>1. PICK s \in Ciclos : Comeca(s)
    BY <1>2 DEF Worker
  <2>2. pulso \in 0..Pulsos /\ pulso > 0 /\ pulso' = pulso - 1
    BY <1>2 DEF Worker, FiscalInv, FiscalTypeOK
  <2>3. pulso' \in 0..Pulsos
    BY <2>2, Numbers
  <2> QED BY <1>a, <2>1, <2>3, StartKeeps
<1>3. ASSUME NEW s \in Ciclos, Reprocess(s)
      PROVE  FiscalInv' /\ Mantidos /\ Firmes
  <2>1. Comeca(s) /\ pulso' \in 0..Pulsos
    BY <1>3 DEF Reprocess, FiscalInv, FiscalTypeOK
  <2> QED BY <2>1, StartKeeps
<1>4. ASSUME NEW s \in Ciclos, ClaimNext(s)
      PROVE  FiscalInv' /\ Mantidos /\ Firmes
  BY <1>4, ClaimKeeps
<1>5. ASSUME NEW s \in Ciclos, Send(s)
      PROVE  FiscalInv' /\ Mantidos /\ Firmes
  BY <1>5, SendKeeps
<1>6. ASSUME NEW s \in Consultas, NEW d \in Consultados, QueryStatus(s, d)
      PROVE  FiscalInv' /\ Mantidos /\ Firmes
  BY <1>6, QueryKeeps
<1>7. ASSUME NEW s \in Chamadas, Answer(s)
      PROVE  FiscalInv' /\ Mantidos /\ Firmes
  BY <1>7, AnswersKeep
<1>8. CASE Crash
  BY <1>a, <1>8, CrashKeeps
<1>9. CASE Tick
  BY <1>a, <1>9, TickKeeps
<1> QED BY <1>a, <1>1, <1>2, <1>3, <1>4, <1>5, <1>6, <1>7, <1>8, <1>9 DEF FiscalNext

LEMMA FiscalStutters ==
  ASSUME FiscalInv, UNCHANGED fiscalVars
  PROVE  FiscalInv'
BY DEF fiscalVars, FiscalInv, FiscalTypeOK, RowsAgree, Chaves, Levadas, Tomadas,
       Consultadas, UmaSo, Ativa, Arrendadas, Posse

LEMMA FiscalInvariant == FiscalSpec => []FiscalInv
<1>1. FiscalInit => FiscalInv
  BY FiscalStarts
<1>2. FiscalInv /\ [FiscalNext]_fiscalVars => FiscalInv'
  BY FiscalInductive, FiscalStutters
<1> QED BY <1>1, <1>2, PTL DEF FiscalSpec

\* The rows of fiscal_documents and fiscal_queue, and the calls, keep their types.
THEOREM FiscalTypeCorrect == FiscalSpec => []FiscalTypeOK
<1>1. FiscalInv => FiscalTypeOK
  BY DEF FiscalInv
<1> QED BY <1>1, FiscalInvariant, PTL

\* However many cycles and status queries overlap, are late, throw or die, and whatever
\* is queued again, the row of the queue says what the row of the document says, and
\* the columns of a document fit each other, but for the status of one that was
\* drafted again under a call.
THEOREM RowsStayTogether == FiscalSpec => []RowsAgree
<1>1. FiscalInv => RowsAgree
  BY DEF FiscalInv
<1> QED BY <1>1, FiscalInvariant, PTL

\* No step of the queue, of a query or of a crash takes back an XML, a contingency or
\* the fact that a document left the draft, nor the key of a document that was never
\* drafted again under a call: only a second queueNfce does, for its document.
THEOREM NothingIssuedIsLost == FiscalSpec => IssuedIsKept
<1>1. FiscalInv /\ [FiscalNext]_fiscalVars =>
        [\A d \in Docs :
           \/ QueueNfce(d)
           \/ /\ doc[d].chave # "SEM_CHAVE" /\ d \notin refeita =>
                   doc'[d].chave = doc[d].chave
              /\ doc[d].xml => doc'[d].xml
              /\ doc[d].modo = "CONTINGENCY_OFFLINE" =>
                   doc'[d].modo = "CONTINGENCY_OFFLINE"
              /\ doc'[d].status \in {"AUSENTE", "DRAFT"} =>
                   doc[d].status = doc'[d].status]_fiscalVars
  BY FiscalInductive DEF Mantido
<1> QED BY <1>1, FiscalInvariant, PTL DEF FiscalSpec, IssuedIsKept

\* The lease of claimNextReady is enough: among any number of overlapping cycles, an
\* authorised document is taken back only by a second queueNfce, by an answer that
\* outlived its lease or that draft, or by a status query.
THEOREM AuthorizedStays == FiscalSpec => AuthorizedIsFinal
<1>1. FiscalInv /\ [FiscalNext]_fiscalVars =>
        [\A d \in Docs :
           doc[d].status = "AUTHORIZED" /\ d \notin perturbada' =>
             doc'[d].status = "AUTHORIZED" \/ QueueNfce(d)]_fiscalVars
  BY FiscalInductive DEF Firme
<1> QED BY <1>1, FiscalInvariant, PTL DEF FiscalSpec, AuthorizedIsFinal

-----------------------------------------------------------------------------
(* Documents as notes *)

LEMMA NoteRows ==
  /\ Situacoes = [d \in Docs |-> Situacoes[d]]
  /\ ChavesDe = [d \in Docs |-> ChavesDe[d]]
  /\ Donos = [d \in Docs |-> Donos[d]]
BY DEF Situacoes, ChavesDe, Donos

LEMMA NoteAt ==
  ASSUME NEW d \in Docs
  PROVE  /\ Situacoes[d] = SituacaoDe(d) /\ ChavesDe[d] = doc[d].chave
         /\ Donos[d] = {s \in Chamadas : Posse(s) /\ chamada[s].doc = d}
BY DEF Situacoes, ChavesDe, Donos

(* What a document looks like depends on its two rows alone. *)
LEMMA Situations ==
  ASSUME NEW d \in Docs
  PROVE  /\ SituacaoDe(d) \in Situacao
         /\ SituacaoDe(d) = "NENHUMA" <=> doc[d].status = "AUSENTE"
         /\ SituacaoDe(d) = "AUTORIZADA" <=> doc[d].status = "AUTHORIZED"
         /\ SituacaoDe(d) = "CONTINGENCIA" <=> doc[d].status = "CONTINGENCY"
         /\ SituacaoDe(d) = "RECUSADA" <=>
              doc[d].status = "REJECTED" /\ fila[d].retry = SemData
BY Zenon DEF SituacaoDe, Situacao

LEMMA SameRowSameNote ==
  ASSUME NEW d \in Docs, doc'[d] = doc[d], fila'[d] = fila[d]
  PROVE  Situacoes'[d] = Situacoes[d] /\ ChavesDe'[d] = ChavesDe[d]
BY DEF Situacoes, ChavesDe, SituacaoDe

LEMMA OneOwner ==
  ASSUME FiscalInv, NEW s \in Chamadas, Posse(s), chamada[s].doc \in Docs
  PROVE  Donos[chamada[s].doc] = {s}
<1>1. \A t \in Chamadas : Posse(t) /\ chamada[t].doc = chamada[s].doc => t = s
  BY DEF FiscalInv, Arrendadas
<1> QED BY <1>1, NoteAt

(* The notes change only at one document. *)
LEMMA ChangedAt ==
  ASSUME NEW d \in Docs,
         \A e \in Docs : e # d =>
           Situacoes'[e] = Situacoes[e] /\ ChavesDe'[e] = ChavesDe[e]
             /\ Donos'[e] = Donos[e]
  PROVE  /\ Situacoes' = [Situacoes EXCEPT ![d] = Situacoes'[d]]
         /\ ChavesDe' = [ChavesDe EXCEPT ![d] = ChavesDe'[d]]
         /\ Donos' = [Donos EXCEPT ![d] = Donos'[d]]
<1>1. /\ Situacoes' = [e \in Docs |-> Situacoes'[e]]
      /\ ChavesDe' = [e \in Docs |-> ChavesDe'[e]]
      /\ Donos' = [e \in Docs |-> Donos'[e]]
  BY DEF Situacoes, ChavesDe, Donos
<1> QED BY <1>1, NoteRows

LEMMA SameNotes ==
  ASSUME perturbada' = perturbada, refeita' = refeita,
         \A e \in Docs :
           Situacoes'[e] = Situacoes[e] /\ ChavesDe'[e] = ChavesDe[e]
             /\ Donos'[e] = Donos[e]
  PROVE  UNCHANGED Nota!emissaoVars
<1>1. /\ Situacoes' = [e \in Docs |-> Situacoes'[e]]
      /\ ChavesDe' = [e \in Docs |-> ChavesDe'[e]]
      /\ Donos' = [e \in Docs |-> Donos'[e]]
  BY DEF Situacoes, ChavesDe, Donos
<1>2. Situacoes' = Situacoes /\ ChavesDe' = ChavesDe /\ Donos' = Donos
  BY <1>1, NoteRows
<1> QED BY <1>2 DEF Nota!emissaoVars

(* Calls let go of documents, and nothing is written. *)
LEMMA Released ==
  ASSUME perturbada' \subseteq perturbada, refeita' = refeita,
         \A e \in Docs :
           Situacoes'[e] = Situacoes[e] /\ ChavesDe'[e] = ChavesDe[e]
             /\ Donos'[e] \in {Donos[e], {}}
  PROVE  Nota!Solta
<1>1. /\ Situacoes' = [e \in Docs |-> Situacoes'[e]]
      /\ ChavesDe' = [e \in Docs |-> ChavesDe'[e]]
      /\ Donos' = [e \in Docs |-> Donos'[e]]
  BY DEF Situacoes, ChavesDe, Donos
<1>2. Situacoes' = Situacoes /\ ChavesDe' = ChavesDe
  BY <1>1, NoteRows
<1> QED BY <1>1, <1>2 DEF Nota!Solta

-----------------------------------------------------------------------------
(* Steps of the queue as steps of a note *)

(* The first draft puts the note in the queue; a second one takes it back there, and  *)
(* from the call that had it.                                                 *)
LEMMA DraftQueues ==
  ASSUME FiscalInv, NEW d \in Docs, QueueNfce(d)
  PROVE  Nota!Enfileira(d) \/ Nota!Refaz(d)
<1> DEFINE perdida == {e \in {d} : \E s \in Chamadas :
                         chamada[s].op \in Awaiting /\ chamada[s].doc = e}
<1>1. /\ doc' = [doc EXCEPT ![d] = DraftDocument]
      /\ fila' = [fila EXCEPT ![d] = DraftQueueRow] /\ chamada' = chamada /\ Livre
      /\ perturbada' = perturbada \cup perdida /\ refeita' = refeita \cup perdida
  BY DEF QueueNfce, SaveDraft, UpsertDocument, UpsertQueue
<1>2. doc \in [Docs -> DocRow] /\ fila \in [Docs -> FilaRow] /\ Chaves /\ Levadas
  BY DEF FiscalInv, FiscalTypeOK
<1>3. DraftDocument.status = "DRAFT" /\ DraftDocument.chave = "SEM_CHAVE"
  BY DEF DraftDocument
<1>4. doc'[d].status = "DRAFT" /\ doc'[d].chave = "SEM_CHAVE"
  BY <1>1, <1>2, <1>3
<1>a. perdida = {} \/ \E s \in Chamadas : chamada[s].op \in Awaiting /\ chamada[s].doc = d
  OBVIOUS
<1>5. \/ /\ perdida = {}
         /\ \A s \in Chamadas : chamada[s].op \in Awaiting => chamada[s].doc # d
      \/ perdida = {d}
  OBVIOUS
<1> HIDE DEF perdida
<1>6. \A e \in Docs : e # d => (e \in perturbada' <=> e \in perturbada)
  BY <1>1, <1>5
<1>7. \A e \in Docs : e # d => Donos'[e] = Donos[e]
  <2>1. ASSUME NEW e \in Docs, e # d, NEW t \in Chamadas
        PROVE  Posse(t)' /\ chamada'[t].doc = e <=> Posse(t) /\ chamada[t].doc = e
    BY <1>1, <1>6, <2>1 DEF Posse
  <2> QED BY <2>1 DEF Donos
<1>8. Situacoes'[d] = "FILA" /\ ChavesDe'[d] = "SEM_CHAVE"
  BY <1>4 DEF Situacoes, SituacaoDe, ChavesDe
<1>9. \A e \in Docs : e # d => Situacoes'[e] = Situacoes[e] /\ ChavesDe'[e] = ChavesDe[e]
  BY <1>1, <1>2, SameRowSameNote
<1>10. /\ Situacoes' = [Situacoes EXCEPT ![d] = Situacoes'[d]]
       /\ ChavesDe' = [ChavesDe EXCEPT ![d] = ChavesDe'[d]]
       /\ Donos' = [Donos EXCEPT ![d] = Donos'[d]]
  BY <1>7, <1>9, ChangedAt
<1>11. Donos'[d] = {}
  <2>1. \A s \in Chamadas :
          chamada'[s].op \in {"TOMADO", "EMISSAO", "CONSULTA_CICLO"}
            /\ chamada'[s].doc = d => d \in perturbada'
    BY <1>1, <1>5 DEF Livre, Awaiting
  <2> QED BY <2>1 DEF Donos, Posse
<1>12. CASE doc[d].status = "AUSENTE"
  <2>1. \A s \in Chamadas : Posse(s) => chamada[s].doc # d
    BY <1>2, <1>12 DEF Levadas, Posse, ComDoc, Awaiting
  <2>2. Donos[d] = {} /\ ChavesDe[d] = "SEM_CHAVE"
    BY <1>2, <1>12, <2>1 DEF Donos, ChavesDe, Chaves
  <2>3. perdida = {}
    BY <1>a, <1>2, <1>12 DEF Levadas, ComDoc
  <2>4. Situacoes[d] = "NENHUMA"
    BY <1>12, NoteAt, Situations
  <2>5. ChavesDe' = ChavesDe /\ Donos' = Donos
    BY <1>8, <1>10, <1>11, <2>2, NoteRows
  <2>6. Nota!Enfileira(d)
    BY <1>1, <1>8, <1>10, <2>3, <2>4, <2>5 DEF Nota!Enfileira
  <2> QED BY <2>6
<1>13. CASE doc[d].status # "AUSENTE"
  <2>1. Situacoes[d] # "NENHUMA"
    BY <1>13, NoteAt, Situations
  <2>2. perdida = {} => Donos[d] = {}
    BY <1>1, <1>5 DEF Donos, Posse, Livre, Awaiting
  <2>3. \/ Donos[d] = {} /\ perturbada' = perturbada /\ refeita' = refeita
        \/ perturbada' = perturbada \cup {d} /\ refeita' = refeita \cup {d}
    BY <1>1, <1>5, <2>2
  <2>4. Nota!Refaz(d)
    BY <1>8, <1>10, <1>11, <2>1, <2>3 DEF Nota!Refaz
  <2> QED BY <2>4
<1> QED BY <1>12, <1>13

(* A claim by a cycle within its lease takes the note; any other claim is not   *)
(* seen.                                                                      *)
LEMMA ClaimTakes ==
  ASSUME FiscalInv, FiscalInv', NEW s \in Ciclos, ClaimNext(s)
  PROVE  Nota!EmissaoNext \/ UNCHANGED Nota!emissaoVars
<1>1. /\ FiscalTypeOK /\ RowsAgree /\ Arrendadas /\ s \in Chamadas
      /\ chamada[s].op = "PROXIMO" /\ ~Posse(s)
      /\ doc' = doc /\ perturbada' = perturbada /\ refeita' = refeita
  BY DEF FiscalInv, ClaimNext, Chamadas, Posse
<1>2. CASE NoneReady(chamada[s].idade) /\ chamada' = [chamada EXCEPT ![s] = Ociosa]
             /\ fila' = fila
  <2>1. /\ chamada'[s] = Ociosa
        /\ \A t \in Chamadas : t # s => chamada'[t] = chamada[t]
    BY <1>1, <1>2 DEF FiscalTypeOK
  <2>2. ~Posse(s)' /\ \A t \in Chamadas : t # s => (Posse(t)' <=> Posse(t))
    BY <1>1, <2>1, IdleCall DEF Posse
  <2>3. \A e \in Docs : Donos'[e] = Donos[e]
    BY <1>1, <2>1, <2>2 DEF Donos
  <2>4. \A e \in Docs : Situacoes'[e] = Situacoes[e] /\ ChavesDe'[e] = ChavesDe[e]
    BY <1>1, <1>2, SameRowSameNote
  <2> QED BY <1>1, <2>3, <2>4, SameNotes
<1>3. ASSUME NEW d \in Docs, Oldest(d, chamada[s].idade),
             chamada' = [chamada EXCEPT
               ![s].op = "TOMADO", ![s].doc = d, ![s].status = doc[d].status,
               ![s].chave = KeyFor(doc[d]), ![s].restam = @ - 1],
             fila' = [fila EXCEPT ![d].lease = Lease - chamada[s].idade]
      PROVE  Nota!EmissaoNext \/ UNCHANGED Nota!emissaoVars
  <2>1. /\ chamada'[s].op = "TOMADO" /\ chamada'[s].doc = d
        /\ \A t \in Chamadas : t # s => chamada'[t] = chamada[t]
    <3>1. chamada \in [Chamadas -> Chamada] /\ chamada[s] \in Chamada
      BY <1>1 DEF FiscalTypeOK
    <3> QED BY <1>1, <1>3, <3>1 DEF Chamada
  <2>2. \A t \in Chamadas : t # s => (Posse(t)' <=> Posse(t))
    BY <1>1, <2>1 DEF Posse
  <2>3. \A e \in Docs : fila'[e].retry = fila[e].retry
    <3>1. fila \in [Docs -> FilaRow] /\ fila[d] \in FilaRow
      BY <1>1 DEF FiscalTypeOK
    <3> QED BY <1>3, <3>1 DEF FilaRow
  <2>4. \A e \in Docs : Situacoes'[e] = Situacoes[e] /\ ChavesDe'[e] = ChavesDe[e]
    BY <1>1, <2>3 DEF Situacoes, SituacaoDe, ChavesDe
  <2>5. \A e \in Docs : e # d => Donos'[e] = Donos[e]
    BY <1>1, <2>1, <2>2 DEF Donos
  <2>6. CASE Posse(s)'
    <3>1. Arrendadas'
      BY DEF FiscalInv
    <3>2. \A t \in Chamadas : Posse(t) => chamada[t].doc # d
      BY <1>1, <2>1, <2>2, <2>6, <3>1 DEF Arrendadas
    <3>3. Donos[d] = {} /\ Donos'[d] = {s}
      BY <1>1, <2>1, <2>2, <2>6, <3>2 DEF Donos
    <3>4. d \notin perturbada
      BY <1>1, <2>1, <2>6 DEF Posse
    <3>5. Situacoes[d] \in {"FILA", "CONTINGENCIA"}
      <4>1. /\ doc[d].status \notin {"AUSENTE", "AUTHORIZED"}
            /\ doc[d].status = "REJECTED" => fila[d].retry # SemData
        BY <1>1, <1>3 DEF Oldest, Ready, Claimable, RowsAgree
      <4> QED BY <4>1, NoteAt, Situations DEF Situacao
    <3>6. /\ Situacoes' = [Situacoes EXCEPT ![d] = Situacoes'[d]]
          /\ ChavesDe' = [ChavesDe EXCEPT ![d] = ChavesDe'[d]]
          /\ Donos' = [Donos EXCEPT ![d] = Donos'[d]]
      BY <2>4, <2>5, ChangedAt
    <3>7. Situacoes' = Situacoes /\ ChavesDe' = ChavesDe
      BY <2>4, <3>6, NoteRows
    <3>8. Nota!Toma(d)
      BY <1>1, <3>3, <3>4, <3>5, <3>6, <3>7 DEF Nota!Toma
    <3> QED BY <3>8 DEF Nota!EmissaoNext
  <2>7. CASE ~Posse(s)'
    <3>1. \A e \in Docs : Donos'[e] = Donos[e]
      BY <1>1, <2>1, <2>2, <2>7 DEF Donos
    <3> QED BY <1>1, <2>4, <3>1, SameNotes
  <2> QED BY <2>6, <2>7
<1> QED BY <1>1, <1>2, <1>3 DEF ClaimNext

(* Signing and sending leave the note with the call that took it. *)
LEMMA SendIsQuiet ==
  ASSUME FiscalInv, NEW s \in Ciclos, Send(s)
  PROVE  UNCHANGED Nota!emissaoVars
<1>1. /\ FiscalTypeOK /\ RowsAgree /\ Levadas /\ Tomadas
      /\ s \in Chamadas /\ chamada[s].op = "TOMADO" /\ Sign(s)
      /\ perturbada' = perturbada /\ refeita' = refeita
  BY DEF FiscalInv, Send, Chamadas
<1>2. PICK d \in Docs : d = chamada[s].doc
  BY <1>1 DEF Levadas, ComDoc
<1>3. /\ chamada'[s].op \in {"EMISSAO", "CONSULTA_CICLO"}
      /\ chamada'[s].doc = d /\ chamada'[s].idade = chamada[s].idade
      /\ \A t \in Chamadas : t # s => chamada'[t] = chamada[t]
  <2> DEFINE o == IF chamada[s].status = "CONTINGENCY" /\ HasAccessKey(chamada[s].doc)
                    THEN "CONSULTA_CICLO" ELSE "EMISSAO"
             c == [chamada[s] EXCEPT !.status = "AUSENTE", !.op = o]
  <2>1. chamada' = [chamada EXCEPT ![s] = c]
    BY DEF Send
  <2>2. o \in {"EMISSAO", "CONSULTA_CICLO"}
    OBVIOUS
  <2>3. chamada \in [Chamadas -> Chamada] /\ chamada[s] \in Chamada
    BY <1>1 DEF FiscalTypeOK
  <2> HIDE DEF o
  <2>4. c.op = o /\ c.doc = chamada[s].doc /\ c.idade = chamada[s].idade
    BY <2>3 DEF Chamada
  <2> HIDE DEF c
  <2> QED BY <1>1, <1>2, <2>1, <2>2, <2>3, <2>4
<1>4. \A t \in Chamadas : (Posse(t)' <=> Posse(t)) /\ chamada'[t].doc = chamada[t].doc
  BY <1>1, <1>2, <1>3 DEF Posse
<1>5. \A e \in Docs : Donos'[e] = Donos[e]
  BY <1>4 DEF Donos
<1>6. \A e \in Docs : e # d => Situacoes'[e] = Situacoes[e] /\ ChavesDe'[e] = ChavesDe[e]
  <2>1. \A e \in Docs : e # d => doc'[e] = doc[e] /\ fila'[e] = fila[e]
    BY <1>1, <1>2 DEF FiscalTypeOK, Sign, AppendState
  <2> QED BY <2>1, SameRowSameNote
<1>7. Situacoes'[d] = Situacoes[d] /\ ChavesDe'[d] = ChavesDe[d]
  <2>1. /\ chamada[s].status = doc[d].status
        /\ doc[d].status = "REJECTED" => fila[d].retry # SemData
        /\ doc \in [Docs -> DocRow] /\ doc[d] \in DocRow
    BY <1>1, <1>2 DEF Tomadas, FiscalTypeOK
  <2>2. CASE doc[d].status \in {"DRAFT", "REJECTED"}
    <3>1. doc' = [doc EXCEPT ![d] = [doc[d] EXCEPT !.status = "SIGNED"]]
      BY <1>1, <1>2, <2>1, <2>2 DEF Sign, AppendState
    <3>2. doc'[d].status = "SIGNED" /\ doc'[d].chave = doc[d].chave
      BY <2>1, <3>1 DEF DocRow
    <3>3. SituacaoDe(d) = "FILA"
      BY <2>1, <2>2, Situations DEF Situacao
    <3>4. Situacoes'[d] = "FILA"
      BY <3>2 DEF Situacoes, SituacaoDe
    <3> QED BY <3>2, <3>3, <3>4 DEF Situacoes, ChavesDe
  <2>3. CASE doc[d].status \notin {"DRAFT", "REJECTED"}
    <3>1. doc' = doc /\ fila' = fila
      BY <1>1, <1>2, <2>1, <2>3 DEF Sign
    <3> QED BY <3>1, SameRowSameNote
  <2> QED BY <2>2, <2>3
<1> QED BY <1>1, <1>5, <1>6, <1>7, SameNotes

(* An answer settles the note of the call that has it, or puts the note in      *)
(* doubt; either way nothing of it is taken back.                              *)
LEMMA AnswerSettles ==
  ASSUME FiscalInv, FiscalInv', Mantidos, Livre,
         NEW s \in Chamadas, chamada[s].op \in Awaiting,
         NEW resposta, NEW r, NEW q, Responde(s, resposta, r, q)
  PROVE  Nota!EmissaoNext
<1>1. /\ FiscalTypeOK /\ RowsAgree /\ Levadas /\ Arrendadas
      /\ FiscalTypeOK' /\ RowsAgree' /\ Arrendadas'
  BY DEF FiscalInv
<1>2. PICK d \in Docs : d = chamada[s].doc
  BY <1>1 DEF Levadas, ComDoc
<1>3. /\ doc' = [doc EXCEPT ![d] = r] /\ fila' = [fila EXCEPT ![d] = q]
      /\ chamada' = [chamada EXCEPT ![s] = Seguinte(@)]
      /\ perturbada' = IF chamada[s].idade >= Lease \/ chamada[s].op = "CONSULTA"
                         THEN perturbada \cup {d} ELSE perturbada
      /\ refeita' = refeita
  BY <1>2 DEF Responde, AppendState, Anota
<1>4. /\ chamada'[s].op \in {"OCIOSA", "PROXIMO"}
      /\ \A t \in Chamadas : t # s => chamada'[t] = chamada[t]
  <2>1. chamada[s] \in Chamada /\ chamada \in [Chamadas -> Chamada]
    BY <1>1 DEF FiscalTypeOK
  <2> QED BY <1>3, <2>1, TurnTypes
<1>5. ~Posse(s)'
  BY <1>4 DEF Posse
<1>6. \A e \in Docs : e # d => (e \in perturbada' <=> e \in perturbada)
  BY <1>3
<1>7. \A e \in Docs : e # d => Donos'[e] = Donos[e]
  <2>1. ASSUME NEW e \in Docs, e # d, NEW t \in Chamadas
        PROVE  Posse(t)' /\ chamada'[t].doc = e <=> Posse(t) /\ chamada[t].doc = e
    <3>1. CASE t = s
      BY <1>2, <1>5, <2>1, <3>1
    <3>2. CASE t # s
      <4>1. chamada'[t] = chamada[t]
        BY <1>4, <3>2
      <4> QED BY <1>6, <2>1, <4>1 DEF Posse
    <3> QED BY <3>1, <3>2
  <2> QED BY <2>1 DEF Donos
<1>8. \A e \in Docs : e # d => Situacoes'[e] = Situacoes[e] /\ ChavesDe'[e] = ChavesDe[e]
  <2>1. \A e \in Docs : e # d => doc'[e] = doc[e] /\ fila'[e] = fila[e]
    BY <1>1, <1>3 DEF FiscalTypeOK
  <2> QED BY <2>1, SameRowSameNote
<1>9. /\ Situacoes' = [Situacoes EXCEPT ![d] = Situacoes'[d]]
      /\ ChavesDe' = [ChavesDe EXCEPT ![d] = ChavesDe'[d]]
      /\ Donos' = [Donos EXCEPT ![d] = Donos'[d]]
  BY <1>7, <1>8, ChangedAt
<1>10. doc[d].status # "AUSENTE" /\ doc'[d].status # "AUSENTE"
  <2>1. doc[d].status # "AUSENTE"
    BY <1>1, <1>2 DEF Levadas, ComDoc
  <2> QED BY <2>1 DEF Mantidos, Mantido
<1>11. Situacoes[d] # "NENHUMA"
  BY <1>10, NoteAt, Situations
<1>12. /\ Situacoes'[d] \in Situacao \ {"NENHUMA"}
       /\ Situacoes'[d] \in {"AUTORIZADA", "CONTINGENCIA"} =>
            doc'[d].status \in {"AUTHORIZED", "CONTINGENCY"}
  BY <1>10, Zenon DEF Situacoes, SituacaoDe, Situacao
<1>13. d \notin refeita =>
         /\ ChavesDe[d] # "SEM_CHAVE" => ChavesDe'[d] = ChavesDe[d]
         /\ Situacoes'[d] \in {"AUTORIZADA", "CONTINGENCIA"} => ChavesDe'[d] # "SEM_CHAVE"
  <2>1. ChavesDe[d] = doc[d].chave /\ ChavesDe'[d] = doc'[d].chave
    BY DEF ChavesDe
  <2>2. d \notin refeita /\ doc[d].chave # "SEM_CHAVE" => doc'[d].chave = doc[d].chave
    BY DEF Mantidos, Mantido
  <2>3. d \notin refeita /\ doc'[d].status \in {"AUTHORIZED", "CONTINGENCY"} =>
          doc'[d].chave # "SEM_CHAVE"
    BY <1>1, <1>3 DEF RowsAgree
  <2> QED BY <1>12, <2>1, <2>2, <2>3
<1>14. Nota!Chaveada(d)
  BY <1>9, <1>13 DEF Nota!Chaveada
<1>15. CASE Posse(s)
  <2>1. Donos[d] = {s} /\ doc[d].status # "AUTHORIZED" /\ d \notin perturbada
    BY <1>1, <1>2, <1>15, OneOwner DEF Arrendadas, Posse
  <2>2. Situacoes[d] # "AUTORIZADA"
    BY <2>1, NoteAt, Situations
  <2>3. perturbada' = perturbada
    <3>1. chamada[s].idade < Lease /\ chamada[s].op # "CONSULTA"
      BY <1>15 DEF Posse
    <3>2. ~(chamada[s].idade >= Lease)
      BY <1>1, <3>1, CallFields, Numbers
    <3> QED BY <1>3, <3>1, <3>2
  <2>4. Donos'[d] = {}
    <3>1. ASSUME NEW t \in Chamadas, Posse(t)', chamada'[t].doc = d
          PROVE  FALSE
      <4>1. t # s /\ chamada'[t] = chamada[t]
        BY <1>4, <1>5, <3>1
      <4>2. Posse(t)
        BY <2>3, <3>1, <4>1 DEF Posse
      <4> QED BY <1>1, <1>2, <1>15, <3>1, <4>1, <4>2 DEF Arrendadas
    <3> QED BY <3>1 DEF Donos
  <2>5. Nota!Responde(d)
    BY <1>3, <1>9, <1>12, <1>14, <2>1, <2>2, <2>3, <2>4 DEF Nota!Responde
  <2> QED BY <2>5 DEF Nota!EmissaoNext
<1>16. CASE ~Posse(s)
  <2>1. d \in perturbada'
    BY <1>1, <1>2, <1>3, <1>16, CallFields, Numbers DEF Posse, Awaiting
  <2>2. perturbada' = perturbada \cup {d}
    BY <1>3, <2>1
  <2>3. Donos'[d] = {}
    BY <2>1 DEF Donos, Posse
  <2>4. Nota!Contradiz(d)
    BY <1>3, <1>9, <1>11, <1>12, <1>14, <2>2, <2>3 DEF Nota!Contradiz
  <2> QED BY <2>4 DEF Nota!EmissaoNext
<1> QED BY <1>15, <1>16

(* A call ends, or asks on: it keeps the note it has or lets go of it. *)
LEMMA CallLetsGo ==
  ASSUME FiscalInv, NEW s \in Chamadas, doc' = doc, fila' = fila,
         perturbada' = perturbada, refeita' = refeita,
         \A t \in Chamadas : t # s => chamada'[t] = chamada[t],
         Posse(s)' => Posse(s) /\ chamada'[s].doc = chamada[s].doc
  PROVE  Nota!EmissaoNext \/ UNCHANGED Nota!emissaoVars
<1>1. \A e \in Docs : Situacoes'[e] = Situacoes[e] /\ ChavesDe'[e] = ChavesDe[e]
  BY SameRowSameNote
<1>2. \A t \in Chamadas : t # s => (Posse(t)' <=> Posse(t))
  BY DEF Posse
<1>3. ASSUME NEW e \in Docs PROVE Donos'[e] \in {Donos[e], {}}
  <2>1. CASE Posse(s) /\ chamada[s].doc = e
    <3>1. Donos[e] = {s}
      BY <2>1, OneOwner
    <3>2. \A t \in Chamadas : t # s => ~(Posse(t) /\ chamada[t].doc = e)
      BY <3>1, NoteAt
    <3>3. Donos'[e] \subseteq {s}
      BY <1>2, <3>2 DEF Donos
    <3> QED BY <3>1, <3>3
  <2>2. CASE ~(Posse(s) /\ chamada[s].doc = e)
    <3>1. \A t \in Chamadas :
            Posse(t)' /\ chamada'[t].doc = e <=> Posse(t) /\ chamada[t].doc = e
      BY <1>2, <2>2
    <3> QED BY <3>1 DEF Donos
  <2> QED BY <2>1, <2>2
<1>4. Nota!Solta
  BY <1>1, <1>3, Released
<1> QED BY <1>4 DEF Nota!EmissaoNext

LEMMA QuietCallSteps ==
  ASSUME FiscalInv,
         \/ \E s \in Ciclos : Comeca(s)
         \/ \E s \in Consultas, d \in Consultados : QueryStatus(s, d)
         \/ \E s \in Chamadas : NotFoundResend(s) \/ Abandon(s)
  PROVE  Nota!EmissaoNext \/ UNCHANGED Nota!emissaoVars
<1>1. chamada \in [Chamadas -> Chamada]
  BY DEF FiscalInv, FiscalTypeOK
<1>2. ASSUME NEW s \in Ciclos, Comeca(s)
      PROVE  Nota!EmissaoNext \/ UNCHANGED Nota!emissaoVars
  <2>1. /\ s \in Chamadas /\ chamada[s] \in Chamada
        /\ chamada' = [chamada EXCEPT ![s].op = "PROXIMO", ![s].restam = Limit]
        /\ doc' = doc /\ fila' = fila /\ perturbada' = perturbada /\ refeita' = refeita
    BY <1>1, <1>2 DEF Comeca, Chamadas
  <2>2. /\ chamada'[s].op = "PROXIMO"
        /\ \A t \in Chamadas : t # s => chamada'[t] = chamada[t]
    BY <1>1, <2>1 DEF Chamada
  <2>3. ~Posse(s)'
    BY <2>2 DEF Posse
  <2> QED BY <2>1, <2>2, <2>3, CallLetsGo
<1>3. ASSUME NEW s \in Consultas, NEW d \in Consultados, QueryStatus(s, d)
      PROVE  Nota!EmissaoNext \/ UNCHANGED Nota!emissaoVars
  <2> DEFINE c == [Ociosa EXCEPT !.op = "CONSULTA", !.doc = d, !.status = doc[d].status,
                                 !.chave = doc[d].chave]
  <2>1. /\ s \in Chamadas /\ chamada' = [chamada EXCEPT ![s] = c]
        /\ doc' = doc /\ fila' = fila /\ perturbada' = perturbada /\ refeita' = refeita
    BY <1>3 DEF QueryStatus, Chamadas
  <2>2. c.op = "CONSULTA"
    BY DEF Ociosa
  <2> HIDE DEF c
  <2>3. /\ chamada'[s].op = "CONSULTA"
        /\ \A t \in Chamadas : t # s => chamada'[t] = chamada[t]
    BY <1>1, <2>1, <2>2
  <2>4. ~Posse(s)'
    BY <2>3 DEF Posse
  <2> QED BY <2>1, <2>3, <2>4, CallLetsGo
<1>4. ASSUME NEW s \in Chamadas, Abandon(s)
      PROVE  Nota!EmissaoNext \/ UNCHANGED Nota!emissaoVars
  <2>1. /\ chamada' = [chamada EXCEPT ![s] = Ociosa]
        /\ doc' = doc /\ fila' = fila /\ perturbada' = perturbada /\ refeita' = refeita
    BY <1>4 DEF Abandon
  <2>2. /\ chamada'[s].op = "OCIOSA"
        /\ \A t \in Chamadas : t # s => chamada'[t] = chamada[t]
    BY <1>1, <2>1, IdleCall
  <2>3. ~Posse(s)'
    BY <2>2 DEF Posse
  <2> QED BY <2>1, <2>2, <2>3, CallLetsGo
<1>5. ASSUME NEW s \in Chamadas, NotFoundResend(s)
      PROVE  Nota!EmissaoNext \/ UNCHANGED Nota!emissaoVars
  <2>1. /\ chamada[s] \in Chamada /\ chamada[s].op = "CONSULTA_CICLO"
        /\ chamada' = [chamada EXCEPT ![s].op = "EMISSAO"]
        /\ doc' = doc /\ fila' = fila /\ perturbada' = perturbada /\ refeita' = refeita
    BY <1>1, <1>5 DEF NotFoundResend
  <2>2. /\ chamada'[s].doc = chamada[s].doc /\ chamada'[s].idade = chamada[s].idade
        /\ \A t \in Chamadas : t # s => chamada'[t] = chamada[t]
    BY <1>1, <2>1 DEF Chamada
  <2>3. Posse(s)' => Posse(s) /\ chamada'[s].doc = chamada[s].doc
    BY <2>1, <2>2 DEF Posse
  <2> QED BY <2>1, <2>2, <2>3, CallLetsGo
<1> QED BY <1>2, <1>3, <1>4, <1>5

LEMMA CrashReleases ==
  ASSUME FiscalInv, Crash
  PROVE  Nota!Solta
<1>1. /\ \A s \in Chamadas : chamada'[s] = Ociosa
      /\ doc' = doc /\ fila' = fila /\ perturbada' \subseteq perturbada
      /\ refeita' = refeita
  BY DEF Crash
<1>2. \A s \in Chamadas : ~Posse(s)'
  BY <1>1, IdleCall DEF Posse
<1>3. \A e \in Docs : Donos'[e] = {}
  BY <1>2 DEF Donos
<1>4. \A e \in Docs : Situacoes'[e] = Situacoes[e] /\ ChavesDe'[e] = ChavesDe[e]
  BY <1>1, SameRowSameNote
<1> QED BY <1>1, <1>3, <1>4, Released

(* A period later some leases have passed, and some doubts are over; no call    *)
(* comes to have a note thereby, and no date becomes null.                     *)
LEMMA TickReleases ==
  ASSUME FiscalInv, Tick
  PROVE  Nota!Solta
<1>1. /\ doc' = doc /\ refeita' = refeita
      /\ fila' = [d \in Docs |-> [fila[d] EXCEPT !.lease = Passa(@), !.retry = Passa(@)]]
      /\ chamada' = [s \in Chamadas |->
           IF chamada[s] = Ociosa THEN Ociosa ELSE [chamada[s] EXCEPT !.idade = @ + 1]]
      /\ perturbada' = {d \in perturbada : \E s \in Chamadas : chamada[s].doc = d}
      /\ FiscalTypeOK /\ Levadas
  BY DEF Tick, FiscalInv
<1>2. ASSUME NEW d \in Docs
      PROVE  fila'[d].retry = SemData <=> fila[d].retry = SemData
  <2>1. fila[d] \in FilaRow /\ fila[d].retry \in SemData..Retry
    BY <1>1, RowFields
  <2>2. fila'[d].retry = Passa(fila[d].retry)
    BY <1>1, <2>1 DEF FilaRow
  <2> QED BY <2>1, <2>2, Numbers DEF Passa, SemData
<1>3. \A e \in Docs : Situacoes'[e] = Situacoes[e] /\ ChavesDe'[e] = ChavesDe[e]
  BY <1>1, <1>2 DEF Situacoes, SituacaoDe, ChavesDe
<1>4. ASSUME NEW t \in Chamadas, Posse(t)'
      PROVE  Posse(t) /\ chamada'[t].doc = chamada[t].doc
  <2>1. chamada[t] \in Chamada /\ chamada[t].idade \in Nat
    <3>1. chamada[t] \in Chamada /\ chamada[t].idade \in 0..MaxIdade
      BY <1>1, CallFields
    <3> QED BY <3>1, Numbers
  <2>2. chamada[t] # Ociosa
    BY <1>1, <1>4, IdleCall DEF Posse
  <2>3. chamada'[t] = [chamada[t] EXCEPT !.idade = chamada[t].idade + 1]
    BY <1>1, <2>2
  <2>4. /\ chamada'[t].op = chamada[t].op /\ chamada'[t].doc = chamada[t].doc
        /\ chamada'[t].idade = chamada[t].idade + 1
    BY <2>1, <2>3 DEF Chamada
  <2>5. chamada[t].doc \notin perturbada /\ chamada[t].idade + 1 < Lease
    <3>1. chamada[t].doc \notin perturbada' /\ chamada'[t].idade < Lease
      BY <1>4, <2>4 DEF Posse
    <3>2. chamada[t].doc \in perturbada => chamada[t].doc \in perturbada'
      BY <1>1
    <3> QED BY <2>4, <3>1, <3>2
  <2>6. chamada[t].idade < Lease
    BY <2>1, <2>5, Numbers
  <2> QED BY <1>4, <2>4, <2>5, <2>6 DEF Posse
<1>5. ASSUME NEW e \in Docs PROVE Donos'[e] \in {Donos[e], {}}
  <2>1. Donos'[e] \subseteq Donos[e]
    BY <1>4 DEF Donos
  <2>2. CASE Donos'[e] # {}
    <3>1. PICK t \in Chamadas : Posse(t) /\ chamada[t].doc = e /\ t \in Donos'[e]
      BY <2>1, <2>2, NoteAt
    <3>2. Donos[e] = {t}
      BY <3>1, OneOwner
    <3> QED BY <2>1, <3>1, <3>2
  <2> QED BY <2>2
<1> QED BY <1>1, <1>3, <1>5, Released

LEMMA NoteStep ==
  FiscalInv /\ [FiscalNext]_fiscalVars => [Nota!EmissaoNext]_(Nota!emissaoVars)
<1> SUFFICES ASSUME FiscalInv, [FiscalNext]_fiscalVars
             PROVE  Nota!EmissaoNext \/ UNCHANGED Nota!emissaoVars
  OBVIOUS
<1>1. FiscalNext => FiscalInv'
  BY FiscalInductive
<1>2. ASSUME NEW d \in Docs, QueueNfce(d)
      PROVE  Nota!EmissaoNext
  BY <1>2, DraftQueues DEF Nota!EmissaoNext
<1>3. CASE Worker \/ \E s \in Ciclos : Reprocess(s)
  <2>1. \E s \in Ciclos : Comeca(s)
    BY <1>3 DEF Worker, Reprocess
  <2> QED BY <2>1, QuietCallSteps
<1>4. ASSUME NEW s \in Ciclos, FiscalNext, ClaimNext(s) \/ Send(s)
      PROVE  Nota!EmissaoNext \/ UNCHANGED Nota!emissaoVars
  BY <1>1, <1>4, ClaimTakes, SendIsQuiet
<1>5. ASSUME NEW s \in Consultas, NEW d \in Consultados, QueryStatus(s, d)
      PROVE  Nota!EmissaoNext \/ UNCHANGED Nota!emissaoVars
  BY <1>5, QuietCallSteps
<1>6. ASSUME NEW s \in Chamadas, FiscalNext, Answer(s)
      PROVE  Nota!EmissaoNext \/ UNCHANGED Nota!emissaoVars
  <2>1. /\ Livre /\ FiscalInv' /\ Mantidos
    BY <1>6, AnswersKeep DEF Answer
  <2>2. CASE NotFoundResend(s) \/ Abandon(s)
    BY <2>2, QuietCallSteps
  <2>3. CASE \/ ApplyAuthorized(s) \/ ApplyRejected(s) \/ ApplyPending(s)
             \/ EnterContingency(s) \/ QueryUnsettled(s)
    <3>1. chamada[s].op \in Awaiting
      BY <2>3 DEF ApplyAuthorized, ApplyRejected, ApplyRejectedWith,
         ApplyPending, EnterContingency, QueryUnsettled, Awaiting
    <3>2. PICK resposta, r, q : Responde(s, resposta, r, q)
      BY <2>3, Zenon DEF ApplyAuthorized, ApplyRejected, ApplyRejectedWith,
         ApplyPending, EnterContingency, QueryUnsettled
    <3> QED BY <2>1, <3>1, <3>2, AnswerSettles
  <2> QED BY <1>6, <2>2, <2>3 DEF Answer
<1>7. CASE Crash
  BY <1>7, CrashReleases DEF Nota!EmissaoNext
<1>8. CASE Tick
  BY <1>8, TickReleases DEF Nota!EmissaoNext
<1>9. CASE UNCHANGED fiscalVars
  <2>1. \A e \in Docs :
          Situacoes'[e] = Situacoes[e] /\ ChavesDe'[e] = ChavesDe[e]
            /\ Donos'[e] = Donos[e]
    BY <1>9, SameRowSameNote DEF fiscalVars, Donos, Posse
  <2> QED BY <1>9, <2>1, SameNotes DEF fiscalVars
<1> QED BY <1>2, <1>3, <1>4, <1>5, <1>6, <1>7, <1>8, <1>9 DEF FiscalNext

\* Leases, overlapping cycles, late answers, repeated drafts and crashes implement a note
\* that is issued by one call at a time: only the answer to the call that took it
\* changes it, and it is taken only while it waits; but for notes that are asked for
\* again, and notes in doubt, on which a late answer, a status query or a second draft
\* under a call has come.
THEOREM FiscalImplementsEmissao == FiscalSpec => OneCallIssuesANote
<1>1. FiscalInit => Nota!EmissaoInit
  <2> SUFFICES ASSUME FiscalInit PROVE Nota!EmissaoInit
    OBVIOUS
  <2>1. /\ \A d \in Docs : doc[d].status = "AUSENTE" /\ doc[d].chave = "SEM_CHAVE"
        /\ \A s \in Chamadas : chamada[s].op = "OCIOSA"
        /\ perturbada = {} /\ refeita = {}
    BY DEF FiscalInit, DraftDocument, Ociosa
  <2>2. \A d \in Docs : SituacaoDe(d) = "NENHUMA"
    BY <2>1, Situations
  <2>3. \A s \in Chamadas : ~Posse(s)
    BY <2>1 DEF Posse
  <2> QED BY <2>1, <2>2, <2>3 DEF Nota!EmissaoInit, Situacoes, ChavesDe, Donos
<1> QED BY <1>1, NoteStep, FiscalInvariant, PTL
    DEF FiscalSpec, OneCallIssuesANote, Nota!EmissaoSpec
=============================================================================
