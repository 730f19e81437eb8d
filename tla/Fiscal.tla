------------------------------- MODULE Fiscal -------------------------------
(***************************************************************************)
(* The fiscal queue: FiscalService, its two tables and the provider behind   *)
(* NsFiscalProviderLike.                                                    *)
(*                                                                         *)
(* The main process runs one piece of JavaScript at a time.  A cycle of     *)
(* processQueue runs without interruption from one answer of the provider   *)
(* to its next call, and gives way to timers, IPC calls and other cycles     *)
(* only while it awaits an answer.  Each database call is a transaction of   *)
(* its own, so the process may die between any two of them.                  *)
(*                                                                         *)
(* Time advances in periods of 30 s, in each of which the worker's timer     *)
(* fires `Pulsos' times.  `lease' and `retry' hold the periods left until    *)
(* lease_expires_at and next_retry_at, and go below zero when the date has  *)
(* passed: a cycle compares them with `asOf', the time at which it began,   *)
(* which is `idade' periods ago.  The provider shipped with the code        *)
(* answers at once; the interface allows an answer that is late, an         *)
(* exception, or no answer.                                                 *)
(***************************************************************************)
EXTENDS Integers

CONSTANTS
  NumDocs,      \* fiscal documents, numbered in the order of created_at
  NumCiclos,    \* calls of processQueue that may be under way at once
  Consultas,    \* calls of queryStatusByAccessKey that may be under way at once
  Consultados,  \* documents that somebody asks about by access key
  Repetidos,    \* documents that somebody queues again with the same ids
  Lease,        \* periods a claim lasts: 30 s
  Retry,        \* periods the provider asks to wait: 60 s
  MaxIdade,     \* periods that a call of the provider may take
  Limit,        \* documents that one cycle takes
  Pulsos,       \* times the worker's timer fires in a period
  Esperas,      \* when a rejected document may be sent again
  Respostas     \* the answers the provider may give, for each document

Docs == 1..NumDocs
Ciclos == 1..NumCiclos
SemDoc == 0

\* What the provider may answer to an issue, and to a query by access key.
IssueResult == {"AUTHORIZED", "PENDING", "REJECTED", "CONTINGENCY_REQUIRED"}
QueryResult == {"AUTHORIZED", "PENDING", "REJECTED", "NOT_FOUND"}

ASSUME FiscalAssumption ==
  /\ {NumDocs, NumCiclos, Lease, Retry, MaxIdade, Limit, Pulsos} \subseteq Nat \ {0}
  /\ Ciclos \cap Consultas = {}
  /\ Consultados \subseteq Docs /\ Repetidos \subseteq Docs
  /\ Esperas \subseteq {"NUNCA", "JA", "DEPOIS"}
  /\ Respostas \in [Docs -> SUBSET (IssueResult \cup QueryResult)]

VARIABLES
  doc,         \* fiscal_documents, by document
  fila,        \* fiscal_queue, by document
  chamada,     \* the asynchronous calls under way
  pulso,       \* how often the timer of the worker is still due in this period
  perturbada,  \* history: documents with a late answer, a status query or a
               \* second draft since they were last left alone
  refeita      \* history: documents drafted again while a call was about them

fiscalVars == <<doc, fila, chamada, pulso, perturbada, refeita>>

-----------------------------------------------------------------------------
(* Rows and calls *)

Status ==
  {"DRAFT", "SIGNED", "SENT", "AUTHORIZED", "CONTINGENCY", "REJECTED"}

EmissionMode == {"NORMAL", "CONTINGENCY_OFFLINE"}

\* The access key carries tpEmis; otherwise it depends on the document alone.
AccessKey == {"SEM_CHAVE", "tpEmis1", "tpEmis9"}

\* A null next_retry_at: it has passed for every cycle.
SemData == -(MaxIdade + 1)

\* A lease that is null, or that has passed for every cycle: one and the same.
SemLease == -MaxIdade

DocRow == [status: Status \cup {"AUSENTE"}, chave: AccessKey,
           modo: EmissionMode, xml: BOOLEAN]

FilaRow == [status: Status \cup {"AUSENTE"}, chave: AccessKey,
            modo: EmissionMode, lease: SemLease..Lease, retry: SemData..Retry]

\* What a call does next: take a document, send it, or wait for the answer to an
\* issue, to the query of a document in contingency, or to a status query.
Chamada == [op: {"OCIOSA", "PROXIMO", "TOMADO", "EMISSAO", "CONSULTA_CICLO",
                 "CONSULTA"},
            doc: Docs \cup {SemDoc}, status: Status \cup {"AUSENTE"},
            chave: AccessKey, idade: 0..MaxIdade, restam: 0..Limit]

Ociosa == [op |-> "OCIOSA", doc |-> SemDoc, status |-> "AUSENTE",
           chave |-> "SEM_CHAVE", idade |-> 0, restam |-> 0]

Chamadas == Ciclos \cup Consultas

Awaiting == {"EMISSAO", "CONSULTA_CICLO", "CONSULTA"}

\* While a call runs JavaScript nothing else does.
Livre == \A s \in Chamadas : chamada[s].op \in Awaiting \cup {"OCIOSA"}

\* The call looks for its next document, or ends when all its turns are used.
Seguinte(c) ==
  IF c.op = "CONSULTA" \/ c.restam = 0 THEN Ociosa
  ELSE [Ociosa EXCEPT !.op = "PROXIMO", !.idade = c.idade, !.restam = c.restam]

-----------------------------------------------------------------------------
(* fiscal_queue: claimNextReady *)

Claimable(d) ==
  \/ fila[d].status \in {"DRAFT", "SIGNED", "SENT", "CONTINGENCY"}
  \/ fila[d].status = "REJECTED" /\ fila[d].retry # SemData

\* Mutation: the lease of another cycle is not looked at.
ReadyMutant(d, idade) == Claimable(d) /\ fila[d].retry <= -idade

\* Ready for a cycle that began `idade' periods ago: both dates <= asOf.
Ready(d, idade) ==
  /\ Claimable(d)
  /\ fila[d].retry <= -idade
  /\ fila[d].lease <= -idade

\* ORDER BY created_at LIMIT 1.
Oldest(d, idade) == Ready(d, idade) /\ \A e \in Docs : e < d => ~Ready(e, idade)

NoneReady(idade) == \A d \in Docs : ~Ready(d, idade)

-----------------------------------------------------------------------------
(* fiscal_documents and fiscal_queue *)

\* queueNfce: what the rows of a draft hold.
DraftDocument ==
  [status |-> "DRAFT", chave |-> "SEM_CHAVE", modo |-> "NORMAL", xml |-> FALSE]

DraftQueueRow ==
  [status |-> "DRAFT", chave |-> "SEM_CHAVE", modo |-> "NORMAL",
   lease |-> SemLease, retry |-> SemData]

UpsertDocument(d, row) == doc' = [doc EXCEPT ![d] = row]

UpsertQueue(d, row) == fila' = [fila EXCEPT ![d] = row]

\* Both rows in one transaction.
SaveDraft(d) == UpsertDocument(d, DraftDocument) /\ UpsertQueue(d, DraftQueueRow)

\* Both rows in one transaction; a column that is not given keeps its value.
AppendState(d, row, queueRow) ==
  /\ doc' = [doc EXCEPT ![d] = row]
  /\ fila' = [fila EXCEPT ![d] = queueRow]

\* findDocumentByAccessKey finds the documents that have a key.
HasAccessKey(d) == doc[d].chave # "SEM_CHAVE"

-----------------------------------------------------------------------------
(* Drafts and cycles *)

\* queueNfce.  A checkout and IPC bring the next document; IPC may also repeat the
\* ids of one that exists, whatever has become of it and whichever calls are about
\* it: saveDraft upserts, and both rows are those of a draft again.
QueueNfce(d) ==
  /\ Livre
  /\ IF doc[d].status = "AUSENTE"
       THEN \A e \in Docs : e < d => doc[e].status # "AUSENTE"
       ELSE d \in Repetidos
  /\ SaveDraft(d)
  /\ LET perdida == {e \in {d} : \E s \in Chamadas :
                        chamada[s].op \in Awaiting /\ chamada[s].doc = e}
     IN /\ perturbada' = perturbada \cup perdida
        /\ refeita' = refeita \cup perdida
  /\ UNCHANGED <<chamada, pulso>>

\* A cycle begins; which of the free places it takes does not matter.
Comeca(s) ==
  /\ Livre
  /\ chamada[s] = Ociosa
  /\ \A t \in Ciclos : t < s => chamada[t] # Ociosa
  /\ chamada' = [chamada EXCEPT ![s].op = "PROXIMO", ![s].restam = Limit]
  /\ UNCHANGED <<doc, fila, perturbada, refeita>>

\* The timer of the worker.  With every one of Ciclos under way it waits for the
\* end of one: the bound on calls that overlap.
Worker ==
  /\ pulso > 0
  /\ pulso' = pulso - 1
  /\ \E s \in Ciclos : Comeca(s)

\* fiscal.reprocess over IPC, at any time; when nothing is ready it does nothing.
Reprocess(s) == ~NoneReady(0) /\ Comeca(s) /\ UNCHANGED pulso

\* Mutation: the key follows the mode of the document.
KeyForMutant(row) ==
  IF row.modo = "CONTINGENCY_OFFLINE" THEN "tpEmis9" ELSE "tpEmis1"

\* The key a request carries: the key of the document, or the one that
\* buildNsAccessKey makes for the mode it is sent in.
KeyFor(row) ==
  IF row.chave # "SEM_CHAVE" THEN row.chave
  ELSE IF row.status = "CONTINGENCY" \/ row.modo = "CONTINGENCY_OFFLINE"
         THEN "tpEmis9" ELSE "tpEmis1"

\* The oldest ready document is claimed and read; its lease counts from the time
\* at which the cycle began, whatever the cycle has waited for since.
ClaimNext(s) ==
  /\ chamada[s].op = "PROXIMO"
  /\ \/ \E d \in Docs :
          /\ Oldest(d, chamada[s].idade)
          /\ chamada' = [chamada EXCEPT
               ![s].op = "TOMADO", ![s].doc = d, ![s].status = doc[d].status,
               ![s].chave = KeyFor(doc[d]), ![s].restam = @ - 1]
          /\ fila' = [fila EXCEPT ![d].lease = Lease - chamada[s].idade]
     \/ /\ NoneReady(chamada[s].idade)
        /\ chamada' = [chamada EXCEPT ![s] = Ociosa]
        /\ UNCHANGED fila
  /\ UNCHANGED <<doc, pulso, perturbada, refeita>>

\* Mutation: the lease of the claim is cleared.
SignMutant(s) ==
  LET d == chamada[s].doc
  IN IF chamada[s].status \in {"DRAFT", "REJECTED"}
       THEN AppendState(d, [doc[d] EXCEPT !.status = "SIGNED"],
                           [fila[d] EXCEPT !.status = "SIGNED", !.lease = SemLease])
       ELSE UNCHANGED <<doc, fila>>

\* #appendSignedState.
Sign(s) ==
  LET d == chamada[s].doc
  IN IF chamada[s].status \in {"DRAFT", "REJECTED"}
       THEN AppendState(d, [doc[d] EXCEPT !.status = "SIGNED"],
                           [fila[d] EXCEPT !.status = "SIGNED",
                                           !.lease = Lease - chamada[s].idade])
       ELSE UNCHANGED <<doc, fila>>

\* A document in contingency is looked up by its key, or sent again at once if
\* it has none; any other one is signed if it is new or was rejected, and issued.
Send(s) ==
  /\ chamada[s].op = "TOMADO"
  /\ chamada' = [chamada EXCEPT ![s] =
       [@ EXCEPT !.status = "AUSENTE",
                 !.op = IF chamada[s].status = "CONTINGENCY"
                             /\ HasAccessKey(chamada[s].doc)
                          THEN "CONSULTA_CICLO" ELSE "EMISSAO"]]
  /\ Sign(s)
  /\ UNCHANGED <<pulso, perturbada, refeita>>

\* queryStatusByAccessKey over IPC: the document and its status are read before
\* the answer is awaited.
QueryStatus(s, d) ==
  /\ Livre
  /\ chamada[s] = Ociosa
  /\ HasAccessKey(d)
  /\ chamada' = [chamada EXCEPT ![s] =
       [Ociosa EXCEPT !.op = "CONSULTA", !.doc = d, !.status = doc[d].status,
                      !.chave = doc[d].chave]]
  /\ UNCHANGED <<doc, fila, pulso, perturbada, refeita>>

-----------------------------------------------------------------------------
(* Answers of the provider *)

\* A late answer, or one to a status query, reaches a document whose lease the
\* call does not hold.
Anota(s) ==
  perturbada' =
    IF chamada[s].idade >= Lease \/ chamada[s].op = "CONSULTA"
      THEN perturbada \cup {chamada[s].doc}
      ELSE perturbada

Responde(s, resposta, row, queueRow) ==
  /\ resposta \in Respostas[chamada[s].doc]
  /\ AppendState(chamada[s].doc, row, queueRow)
  /\ chamada' = [chamada EXCEPT ![s] = Seguinte(@)]
  /\ Anota(s)
  /\ UNCHANGED <<pulso, refeita>>

\* #applyAuthorizedState: the XML is stored and both dates are cleared.
ApplyAuthorized(s) ==
  LET d == chamada[s].doc  k == chamada[s].chave
  IN /\ chamada[s].op \in Awaiting
     /\ Responde(s, "AUTHORIZED",
          [doc[d] EXCEPT !.status = "AUTHORIZED", !.chave = k, !.xml = TRUE],
          [fila[d] EXCEPT !.status = "AUTHORIZED", !.chave = k,
                          !.lease = SemLease, !.retry = SemData])

\* When a rejected document is due again, seen from the present.
RetryAt(espera, idade) ==
  CASE espera = "NUNCA"  -> SemData
    [] espera = "JA"     -> -idade
    [] espera = "DEPOIS" -> Retry - idade

\* #applyRejectedState.
ApplyRejectedWith(s, espera) ==
  LET d == chamada[s].doc
  IN /\ chamada[s].op \in Awaiting
     /\ Responde(s, "REJECTED",
          [doc[d] EXCEPT !.status = "REJECTED"],
          [fila[d] EXCEPT !.status = "REJECTED", !.lease = SemLease,
                          !.retry = RetryAt(espera, chamada[s].idade)])

ApplyRejected(s) == \E espera \in Esperas : ApplyRejectedWith(s, espera)

\* #applyPendingState: the provider has the document and will answer later.
ApplyPending(s) ==
  LET d == chamada[s].doc
  IN /\ chamada[s].op \in {"EMISSAO", "CONSULTA_CICLO"}
     /\ Responde(s, "PENDING",
          [doc[d] EXCEPT !.status = "SENT"],
          [fila[d] EXCEPT !.status = "SENT", !.lease = SemLease,
                          !.retry = Retry - chamada[s].idade])

\* Mutation: the mode of the queue row is not updated.
EnterContingencyMutant(s) ==
  LET d == chamada[s].doc  k == chamada[s].chave
  IN /\ chamada[s].op = "EMISSAO"
     /\ Responde(s, "CONTINGENCY_REQUIRED",
          [doc[d] EXCEPT !.status = "CONTINGENCY", !.chave = k],
          [fila[d] EXCEPT !.status = "CONTINGENCY", !.chave = k,
                          !.modo = "CONTINGENCY_OFFLINE", !.lease = SemLease,
                          !.retry = Retry - chamada[s].idade])

\* #enterContingency: the DANFE is written and printed, and the document keeps
\* its key for the resend.
EnterContingency(s) ==
  LET d == chamada[s].doc  k == chamada[s].chave
  IN /\ chamada[s].op = "EMISSAO"
     /\ Responde(s, "CONTINGENCY_REQUIRED",
          [doc[d] EXCEPT !.status = "CONTINGENCY", !.chave = k,
                         !.modo = "CONTINGENCY_OFFLINE"],
          [fila[d] EXCEPT !.status = "CONTINGENCY", !.chave = k,
                          !.modo = "CONTINGENCY_OFFLINE", !.lease = SemLease,
                          !.retry = Retry - chamada[s].idade])

\* #reprocessContingency: the provider does not know the key, and the document is
\* sent again, in contingency.
NotFoundResend(s) ==
  /\ chamada[s].op = "CONSULTA_CICLO"
  /\ "NOT_FOUND" \in Respostas[chamada[s].doc]
  /\ chamada' = [chamada EXCEPT ![s].op = "EMISSAO"]
  /\ UNCHANGED <<doc, fila, pulso, perturbada, refeita>>

\* Mutation: the kind of the answer is written as the status.
QueryUnsettledMutant(s) ==
  LET d == chamada[s].doc
  IN /\ chamada[s].op = "CONSULTA"
     /\ \E resposta \in {"PENDING", "NOT_FOUND"} :
          Responde(s, resposta,
            [doc[d] EXCEPT !.status = resposta],
            [fila[d] EXCEPT !.status = resposta, !.lease = SemLease,
                            !.retry = Retry - chamada[s].idade])

\* #handleStatusQueryResult, PENDING and NOT_FOUND: the status read before the
\* await is written back, and the lease is cleared.
QueryUnsettled(s) ==
  LET d == chamada[s].doc
  IN /\ chamada[s].op = "CONSULTA"
     /\ \E resposta \in {"PENDING", "NOT_FOUND"} :
          Responde(s, resposta,
            [doc[d] EXCEPT !.status = chamada[s].status],
            [fila[d] EXCEPT !.status = chamada[s].status, !.lease = SemLease,
                            !.retry = Retry - chamada[s].idade])

\* The provider throws or never answers, or writing the XML or the DANFE fails:
\* the rest of the cycle is given up and the document keeps its lease.
Abandon(s) ==
  /\ chamada[s].op \in Awaiting
  /\ chamada' = [chamada EXCEPT ![s] = Ociosa]
  /\ UNCHANGED <<doc, fila, pulso, perturbada, refeita>>

Answer(s) ==
  /\ Livre
  /\ \/ ApplyAuthorized(s) \/ ApplyRejected(s) \/ ApplyPending(s)
     \/ EnterContingency(s) \/ NotFoundResend(s) \/ QueryUnsettled(s)
     \/ Abandon(s)

-----------------------------------------------------------------------------
(* Time and crashes *)

\* The process ends and starts again: calls are lost, rows are kept.
Crash ==
  /\ \E s \in Chamadas : chamada[s] # Ociosa
  /\ chamada' = [s \in Chamadas |-> Ociosa]
  /\ pulso' = 0
  /\ perturbada' = {}
  /\ UNCHANGED <<doc, fila, refeita>>

\* One period later for a date, which stays null when it is null.
Passa(data) == IF data > -MaxIdade THEN data - 1 ELSE data

\* A period of the timer: the worker has begun the cycle of the one before, and
\* an answer that comes at all comes within MaxIdade periods.
Tick ==
  /\ Livre /\ pulso = 0
  /\ \A s \in Chamadas : chamada[s].idade < MaxIdade
  /\ pulso' = Pulsos
  /\ fila' = [d \in Docs |->
       [fila[d] EXCEPT !.lease = Passa(@), !.retry = Passa(@)]]
  /\ chamada' = [s \in Chamadas |->
       IF chamada[s] = Ociosa THEN Ociosa ELSE [chamada[s] EXCEPT !.idade = @ + 1]]
  /\ perturbada' = {d \in perturbada : \E s \in Chamadas : chamada[s].doc = d}
  /\ UNCHANGED <<doc, refeita>>

FiscalInit ==
  /\ doc = [d \in Docs |-> [DraftDocument EXCEPT !.status = "AUSENTE"]]
  /\ fila = [d \in Docs |-> [DraftQueueRow EXCEPT !.status = "AUSENTE"]]
  /\ chamada = [s \in Chamadas |-> Ociosa]
  /\ pulso = 0
  /\ perturbada = {}
  /\ refeita = {}

\* What a cycle and an answer do once the timer has fired.
Passo ==
  \/ \E s \in Ciclos : ClaimNext(s) \/ Send(s)
  \/ \E s \in Chamadas : Answer(s)

FiscalNext ==
  \/ \E d \in Docs : QueueNfce(d)
  \/ Worker
  \/ \E s \in Ciclos : Reprocess(s) \/ ClaimNext(s) \/ Send(s)
  \/ \E s \in Consultas, d \in Consultados : QueryStatus(s, d)
  \/ \E s \in Chamadas : Answer(s)
  \/ Crash
  \/ Tick

\* The timer fires, JavaScript runs to its next await, and a call that is under
\* way is answered, throws, or is given up for lost.
Fairness ==
  /\ WF_fiscalVars(Tick)
  /\ WF_fiscalVars(Worker)
  /\ \A s \in Ciclos : WF_fiscalVars(ClaimNext(s) \/ Send(s))
  /\ \A s \in Chamadas : WF_fiscalVars(Answer(s))

FiscalSpec == FiscalInit /\ [][FiscalNext]_fiscalVars /\ Fairness

-----------------------------------------------------------------------------
(* Properties *)

FiscalTypeOK ==
  /\ doc \in [Docs -> DocRow]
  /\ fila \in [Docs -> FilaRow]
  /\ chamada \in [Chamadas -> Chamada]
  /\ pulso \in 0..Pulsos
  /\ perturbada \subseteq Docs /\ refeita \subseteq Docs

\* Late answers, stale status queries and repeated drafts write over each other, but
\* the columns stay together: the queue row repeats the document, a key comes with
\* an XML or with the contingency and not otherwise, an authorised document has its
\* XML and one in contingency is OFFLINE.  The last two fail for one sort of
\* document: it was drafted again while a call was about it, and a status query
\* that was under way wrote back the status it had read.
RowsAgree ==
  \A d \in Docs :
    /\ fila[d].status = doc[d].status
    /\ fila[d].chave = doc[d].chave
    /\ fila[d].modo = doc[d].modo
    /\ doc[d].chave = "SEM_CHAVE" <=> ~doc[d].xml /\ doc[d].modo = "NORMAL"
    /\ d \notin refeita =>
         /\ doc[d].status = "AUTHORIZED" => doc[d].xml
         /\ doc[d].status = "CONTINGENCY" => doc[d].modo = "CONTINGENCY_OFFLINE"

\* What was told to the fisco or to the customer is taken back by nothing that is
\* answered late, asked again or lost in a crash: a document keeps its XML and the
\* contingency it was issued in, and is never a draft again.  Only a repeated
\* queueNfce takes all of it back, at once.  The key is kept too, unless the document
\* was drafted again under a call, which may answer with the key it was sent with.
IssuedIsKept ==
  [][\A d \in Docs :
       \/ QueueNfce(d)
       \/ /\ doc[d].chave # "SEM_CHAVE" /\ d \notin refeita =>
               doc'[d].chave = doc[d].chave
          /\ doc[d].xml => doc'[d].xml
          /\ doc[d].modo = "CONTINGENCY_OFFLINE" =>
               doc'[d].modo = "CONTINGENCY_OFFLINE"
          /\ doc'[d].status \in {"AUSENTE", "DRAFT"} =>
               doc[d].status = doc'[d].status]_fiscalVars

\* An authorised document stays authorised, however many cycles and crashes follow.
\* Four things alone change it, because they write without looking at the row: a
\* repeated queueNfce; and, since a moment at which no call was about it, an answer
\* after the lease of its claim, the answer to a status query, and any answer after
\* it was drafted again under a call.
AuthorizedIsFinal ==
  [][\A d \in Docs :
       doc[d].status = "AUTHORIZED" /\ d \notin perturbada' =>
         doc'[d].status = "AUTHORIZED" \/ QueueNfce(d)]_fiscalVars

\* Once the process stays up, every document that waits in the queue is taken by a
\* cycle or settled, though older documents fail, time out or are given up again
\* and again: the lease of a failed document is what lets the younger one through.
\* Three things defeat it, and are excluded here: as many older documents as the
\* timer fires in the time of a lease, whose calls for ever throw (so fewer may, and
\* that they are the oldest of all is the worst case); a provider that for ever
\* rejects a document to be sent again at once; and somebody who for ever queues
\* older documents again.  It also takes an answer that comes sooner than the retry
\* it asks for, Retry > MaxIdade: a retry that is due when the answer is written is
\* one at once.  (`Crash => Passo': a call given up, or a cycle that finds nothing,
\* looks like a crash of a process that has nothing else under way.)
QueueIsServed ==
  <>[][/\ Crash => Passo
       /\ \A d \in Docs : ~QueueNfce(d)
       /\ \A s \in Chamadas :
            /\ ~ApplyRejectedWith(s, "JA")
            /\ Abandon(s) => chamada[s].doc < Pulsos * Lease]_fiscalVars =>
    \A d \in Docs :
      Claimable(d) ~> (~Claimable(d) \/ \E s \in Chamadas : chamada[s].doc = d)

\* A document as the abstract specification sees it.
Situacao == {"NENHUMA", "FILA", "AUTORIZADA", "CONTINGENCIA", "RECUSADA"}

SituacaoDe(d) ==
  CASE doc[d].status = "AUSENTE"     -> "NENHUMA"
    [] doc[d].status = "AUTHORIZED"  -> "AUTORIZADA"
    [] doc[d].status = "CONTINGENCY" -> "CONTINGENCIA"
    [] doc[d].status = "REJECTED" /\ fila[d].retry = SemData -> "RECUSADA"
    [] OTHER -> "FILA"

\* The call of a cycle whose lease has not passed, on a document left alone.
Posse(s) ==
  /\ chamada[s].op \in {"TOMADO", "EMISSAO", "CONSULTA_CICLO"}
  /\ chamada[s].doc \notin perturbada
  /\ chamada[s].idade < Lease

Situacoes == [d \in Docs |-> SituacaoDe(d)]

ChavesDe == [d \in Docs |-> doc[d].chave]

Donos == [d \in Docs |-> {s \in Chamadas : Posse(s) /\ chamada[s].doc = d}]

Nota == INSTANCE Emissao
  WITH Notas <- Docs, SemChave <- "SEM_CHAVE", NaFila <- {"FILA", "CONTINGENCIA"},
       situacao <- Situacoes, chave <- ChavesDe, dono <- Donos, duvida <- perturbada

\* Whatever overlaps, is answered late, is queued again or dies: a document that
\* waits is taken by one call at a time, and only the answer to that call changes it.
\* A late answer, a status query or a second draft under a call puts it in doubt;
\* until the calls about it have ended it is then seen with no call at all, and what
\* they answer may change it back.
OneCallIssuesANote == Nota!EmissaoSpec
=============================================================================
