----------------------------- MODULE PrintSpool -----------------------------
(***************************************************************************)
(* The print spool: PrintSpoolService, the table print_jobs and the thermal  *)
(* printer driver.                                                         *)
(*                                                                         *)
(* A cycle of processPendingJobs is synchronous: no timer and no IPC call   *)
(* interrupts it.  But each database call is a transaction of its own and    *)
(* the paper leaves the printer between two of them, so the process may die   *)
(* after any step; then the claim is found by its lease.                     *)
(*                                                                         *)
(* Time advances in periods of the worker's timer (15 s); `lease' and `retry' *)
(* hold the periods left until lease_expires_at and next_retry_at, zero when  *)
(* the date is null or has passed.                                          *)
(***************************************************************************)
EXTENDS Integers, FiniteSetsExt

CONSTANTS
  NumJobs,        \* jobs, numbered in the order of created_at
  Setores,
  Impressoras,
  Rota,           \* the printer of a sector, or SemImpressora
  SemImpressora,
  Lease,          \* periods a claim lasts: 45 s
  Minuto,         \* periods in a minute
  MaxAttempts,    \* MAX_AUTOMATIC_ATTEMPTS
  Limit,          \* jobs that one cycle takes
  MaxPedidos,     \* bound: requests to reprocess a job, of all jobs together
  Antigos,        \* bound: jobs that were printed before, the first ones
  Ilegiveis       \* jobs whose ticket may fail to be rendered or written

Jobs == 1..NumJobs
NoJob == 0

ASSUME PrintAssumption ==
  /\ {NumJobs, Lease, Minuto, MaxAttempts, Limit} \subseteq Nat \ {0}
  /\ MaxPedidos \in Nat
  /\ Antigos \in 0..NumJobs
  /\ SemImpressora \notin Impressoras
  /\ Rota \in [Setores -> Impressoras \cup {SemImpressora}]

VARIABLES
  jobs,        \* print_jobs
  papel,       \* history: jobs whose ticket has left the printer
  pedidos,     \* history: requests to reprocess the job
  repetir,     \* history: jobs that may be printed once more, asked for again or
               \* printed and not recorded as printed
  ciclo,       \* the cycle under way
  pulso        \* the timer of the worker is due

printVars == <<jobs, papel, pedidos, repetir, ciclo, pulso>>

-----------------------------------------------------------------------------
(* Rows, queries and statements of print_jobs *)

PrintJobStatus ==
  {"QUEUED", "PRINTING", "WAITING_PRINTER", "NEEDS_ATTENTION", "DONE"}

\* `original' and `sequencia' are the dedup key of a second copy.
PrintJobRecord ==
  [status: PrintJobStatus \cup {"AUSENTE"},
   impressora: Impressoras \cup {SemImpressora},
   attempts: Nat, secondCopyCount: 0..NumJobs,
   original: Jobs \cup {NoJob}, sequencia: 0..NumJobs,
   lease: 0..Lease, retry: 0..(15 * Minuto)]

NovoJob(impressora) ==
  [status |-> "QUEUED", impressora |-> impressora, attempts |-> 0,
   secondCopyCount |-> 0, original |-> NoJob, sequencia |-> 0,
   lease |-> 0, retry |-> 0]

\* The next id: print_job_id is a fresh UUID.
Proximo(j) ==
  /\ jobs[j].status = "AUSENTE"
  /\ \A i \in Jobs : i < j => jobs[i].status # "AUSENTE"

ResolvePrinterTarget(setor) == Rota[setor]

\* enqueue: the row goes in, unless another one has its dedup key.
SameDedupKey(a, b) ==
  a.original # NoJob /\ a.original = b.original /\ a.sequencia = b.sequencia

EnqueueRow(table, j, row) ==
  IF \E i \in Jobs : SameDedupKey(table[i], row) THEN table
  ELSE [table EXCEPT ![j] = row]

\* Mutation: a job that needs attention is taken up again like one that waits.
ReadyMutant(j) ==
  \/ jobs[j].status \in {"QUEUED", "WAITING_PRINTER", "NEEDS_ATTENTION"} /\ jobs[j].retry = 0
  \/ jobs[j].status = "PRINTING" /\ jobs[j].lease = 0

\* A PRINTING row is looked at again when its lease has passed.
Ready(j) ==
  \/ jobs[j].status \in {"QUEUED", "WAITING_PRINTER"} /\ jobs[j].retry = 0
  \/ jobs[j].status = "PRINTING" /\ jobs[j].lease = 0

Oldest(j) == Ready(j) /\ \A i \in Jobs : i < j => ~Ready(i)

\* registerAttempt: both dates are written, null unless they are given.
RegisterAttempt(j, status, increment, retry) ==
  jobs' = [jobs EXCEPT ![j].status = status, ![j].attempts = @ + increment,
                       ![j].retry = retry, ![j].lease = 0]

-----------------------------------------------------------------------------
(* The cycle *)

Ocioso == [op |-> "OCIOSO", job |-> NoJob, online |-> {}, restam |-> 0]

Ciclo == [op: {"OCIOSO", "PROXIMO", "TOMADO", "IMPRESSO"}, job: Jobs \cup {NoJob},
          online: SUBSET Impressoras, restam: 0..Limit]

Livre == ciclo = Ocioso

\* Mutation: the limit of the loop is not looked at.
SeguinteMutant == [ciclo EXCEPT !.op = "PROXIMO", !.job = NoJob]

\* The loop of processPendingJobs: the next turn, or the end.
Seguinte ==
  IF ciclo.restam = 0 THEN Ocioso
  ELSE [ciclo EXCEPT !.op = "PROXIMO", !.job = NoJob]

\* processPendingJobs: the printers are listed once, at the beginning.
BeginCycle ==
  /\ Livre
  /\ \E online \in SUBSET Impressoras :
       ciclo' = [op |-> "PROXIMO", job |-> NoJob, online |-> online, restam |-> Limit]
  /\ UNCHANGED <<jobs, papel, pedidos, repetir>>

\* The timer.
Worker == pulso /\ pulso' = FALSE /\ BeginCycle

\* print.processQueue over IPC, at any time; it does nothing when nothing is ready.
ProcessQueue == (\E j \in Jobs : Ready(j)) /\ BeginCycle /\ UNCHANGED pulso

\* Mutation: the claim keeps no lease.
ClaimNextMutant ==
  /\ ciclo.op = "PROXIMO"
  /\ \/ \E j \in Jobs :
          /\ Oldest(j)
          /\ jobs' = [jobs EXCEPT ![j].status = "PRINTING", ![j].lease = 0]
          /\ ciclo' = [ciclo EXCEPT !.op = "TOMADO", !.job = j, !.restam = @ - 1]
     \/ /\ \A j \in Jobs : ~Ready(j)
        /\ ciclo' = Ocioso
        /\ UNCHANGED jobs
  /\ UNCHANGED <<papel, pedidos, repetir, pulso>>

\* claimNextReady: the oldest ready job is marked PRINTING under a lease.
ClaimNext ==
  /\ ciclo.op = "PROXIMO"
  /\ \/ \E j \in Jobs :
          /\ Oldest(j)
          /\ jobs' = [jobs EXCEPT ![j].status = "PRINTING", ![j].lease = Lease]
          /\ ciclo' = [ciclo EXCEPT !.op = "TOMADO", !.job = j, !.restam = @ - 1]
     \/ /\ \A j \in Jobs : ~Ready(j)
        /\ ciclo' = Ocioso
        /\ UNCHANGED jobs
  /\ UNCHANGED <<papel, pedidos, repetir, pulso>>

\* A job whose sector had no printer when it was enqueued needs attention.
NoRoute ==
  /\ ciclo.op = "TOMADO"
  /\ jobs[ciclo.job].impressora = SemImpressora
  /\ RegisterAttempt(ciclo.job, "NEEDS_ATTENTION", 1, 0)
  /\ ciclo' = Seguinte
  /\ UNCHANGED <<papel, pedidos, repetir, pulso>>

\* computeRetryAt, from the attempts before this one.
ComputeRetryAt(attempts) == Min({15, Max({1, attempts + 1})}) * Minuto

\* Mutation: the attempt that failed is not counted in the comparison, `<='
\* for `<'.
HandleDriverFailureMutant(retryable) ==
  LET j == ciclo.job
  IN IF retryable /\ jobs[j].attempts + 1 <= MaxAttempts
       THEN RegisterAttempt(j, "WAITING_PRINTER", 1, ComputeRetryAt(jobs[j].attempts))
       ELSE RegisterAttempt(j, "NEEDS_ATTENTION", 1, 0)

\* #handleDriverFailure: a retry in some minutes, or NEEDS_ATTENTION.
HandleDriverFailure(retryable) ==
  LET j == ciclo.job
  IN IF retryable /\ jobs[j].attempts + 1 < MaxAttempts
       THEN RegisterAttempt(j, "WAITING_PRINTER", 1, ComputeRetryAt(jobs[j].attempts))
       ELSE RegisterAttempt(j, "NEEDS_ATTENTION", 1, 0)

\* The printer was not in the list, or offline.
PrinterOffline ==
  /\ ciclo.op = "TOMADO"
  /\ jobs[ciclo.job].impressora \in Impressoras \ ciclo.online
  /\ HandleDriverFailure(TRUE)
  /\ ciclo' = Seguinte
  /\ UNCHANGED <<papel, pedidos, repetir, pulso>>

\* printText fails: offline, not found, driver (retryable) or out of paper (not).
PrintFails ==
  /\ ciclo.op = "TOMADO"
  /\ jobs[ciclo.job].impressora \in ciclo.online
  /\ \E retryable \in BOOLEAN : HandleDriverFailure(retryable)
  /\ ciclo' = Seguinte
  /\ UNCHANGED <<papel, pedidos, repetir, pulso>>

\* Mutation: the outcome is recorded before the ticket is printed.
PrintTextMutant ==
  /\ ciclo.op = "TOMADO"
  /\ jobs[ciclo.job].impressora \in ciclo.online
  /\ RegisterAttempt(ciclo.job, "DONE", 1, 0)
  /\ ciclo' = [ciclo EXCEPT !.op = "IMPRESSO"]
  /\ UNCHANGED <<papel, pedidos, repetir, pulso>>

\* printText succeeds: the ticket is on paper and nothing is recorded yet.
PrintText ==
  /\ ciclo.op = "TOMADO"
  /\ jobs[ciclo.job].impressora \in ciclo.online
  /\ papel' = papel \cup {ciclo.job}
  /\ repetir' = repetir \ {ciclo.job}
  /\ ciclo' = [ciclo EXCEPT !.op = "IMPRESSO"]
  /\ UNCHANGED <<jobs, pedidos, pulso>>

RecordDone ==
  /\ ciclo.op = "IMPRESSO"
  /\ RegisterAttempt(ciclo.job, "DONE", 1, 0)
  /\ ciclo' = Seguinte
  /\ UNCHANGED <<papel, pedidos, repetir, pulso>>

\* #renderTicket or writeFileSync throws: the cycle is given up, the job stays
\* PRINTING, its attempts are not counted.
TicketFails ==
  /\ ciclo.op = "TOMADO"
  /\ jobs[ciclo.job].impressora \in ciclo.online
  /\ ciclo.job \in Ilegiveis
  /\ ciclo' = Ocioso
  /\ UNCHANGED <<jobs, papel, pedidos, repetir, pulso>>

-----------------------------------------------------------------------------
(* Calls *)

\* One ticket of enqueueProductionTickets (module Pdv has the batch and its keys).
EnqueueTicket(j, setor) ==
  /\ Livre /\ Proximo(j)
  /\ jobs' = EnqueueRow(jobs, j, NovoJob(ResolvePrinterTarget(setor)))
  /\ UNCHANGED <<papel, pedidos, repetir, ciclo, pulso>>

\* Mutation: the original is not updated.
CreateSecondCopyMutant(table, j, original) ==
  EnqueueRow(table, j,
    [NovoJob(table[original].impressora) EXCEPT
       !.original = original, !.sequencia = table[original].secondCopyCount + 1])

\* createSecondCopy: a new job with the printer of the original, and one more copy
\* counted there.
CreateSecondCopy(table, j, original) ==
  [EnqueueRow(table, j,
     [NovoJob(table[original].impressora) EXCEPT
        !.original = original, !.sequencia = table[original].secondCopyCount + 1])
   EXCEPT ![original].secondCopyCount = @ + 1]

ReprintSecondCopy(j, original) ==
  /\ Livre /\ Proximo(j)
  /\ jobs[original].status # "AUSENTE"
  /\ jobs' = CreateSecondCopy(jobs, j, original)
  /\ UNCHANGED <<papel, pedidos, repetir, ciclo, pulso>>

\* reprocessJob: whatever its status, DONE too, the job itself is queued again, with
\* its attempts and without a mark.
ReprocessJob(j) ==
  /\ Livre
  /\ jobs[j].status # "AUSENTE"
  /\ MapThenSumSet(LAMBDA i : pedidos[i], Jobs) < MaxPedidos
  /\ RegisterAttempt(j, "QUEUED", 0, 0)
  /\ pedidos' = [pedidos EXCEPT ![j] = @ + 1]
  /\ repetir' = repetir \cup {j}
  /\ UNCHANGED <<papel, ciclo, pulso>>

-----------------------------------------------------------------------------
(* Crashes and time *)

\* The process dies and starts again, or a statement throws in the cycle.
Crash ==
  /\ ~Livre
  /\ ciclo' = Ocioso
  /\ repetir' = IF ciclo.op = "IMPRESSO" THEN repetir \cup {ciclo.job} ELSE repetir
  /\ pulso' = FALSE
  /\ UNCHANGED <<jobs, papel, pedidos>>

Passa(periodos) == Max({periodos - 1, 0})

Tick ==
  /\ Livre /\ ~pulso
  /\ pulso' = TRUE
  /\ jobs' = [j \in Jobs |-> [jobs[j] EXCEPT !.lease = Passa(@), !.retry = Passa(@)]]
  /\ UNCHANGED <<papel, pedidos, repetir, ciclo>>

\* A job that a printer printed at the first try.
JobImpresso(impressora) ==
  [NovoJob(impressora) EXCEPT !.status = "DONE", !.attempts = 1]

\* The table holds the jobs of the days before.
PrintInit ==
  /\ \E impressora \in [1..Antigos -> Impressoras] :
       jobs = [j \in Jobs |-> IF j <= Antigos THEN JobImpresso(impressora[j])
                              ELSE [NovoJob(SemImpressora) EXCEPT !.status = "AUSENTE"]]
  /\ papel = 1..Antigos
  /\ pedidos = [j \in Jobs |-> 0]
  /\ repetir = {}
  /\ ciclo = Ocioso
  /\ pulso = FALSE

\* What the cycle does once it has begun.
Passo ==
  \/ ClaimNext \/ NoRoute \/ PrinterOffline \/ PrintFails \/ PrintText
  \/ RecordDone \/ TicketFails

PrintNext ==
  \/ \E j \in Jobs, setor \in Setores : EnqueueTicket(j, setor)
  \/ \E j, original \in Jobs : ReprintSecondCopy(j, original)
  \/ \E j \in Jobs : ReprocessJob(j)
  \/ Worker \/ ProcessQueue \/ Passo
  \/ Crash \/ Tick

\* The timer fires, the worker answers it, and a cycle runs to its end.
Fairness == WF_printVars(Tick) /\ WF_printVars(Worker) /\ WF_printVars(Passo)

PrintSpec == PrintInit /\ [][PrintNext]_printVars /\ Fairness

-----------------------------------------------------------------------------
(* Properties *)

PrintTypeOK ==
  /\ jobs \in [Jobs -> PrintJobRecord]
  /\ papel \subseteq Jobs
  /\ pedidos \in [Jobs -> Nat]
  /\ repetir \subseteq Jobs
  /\ ciclo \in Ciclo
  /\ pulso \in BOOLEAN

\* The table and the paper agree over failures, crashes and requests: a job
\* recorded as printed is on paper, and one that neither a request nor a cut record
\* lets be printed again is on paper only if it is recorded, or being recorded.
PaperMatchesStatus ==
  \A j \in Jobs :
    /\ jobs[j].status = "DONE" => j \in papel
    /\ j \notin repetir =>
         (j \in papel <=>
            jobs[j].status = "DONE" \/ (ciclo.op = "IMPRESSO" /\ ciclo.job = j))

\* The spool stops by itself: a job that waits for its printer has tries left, and
\* no job has more recorded tries than three and one for every request, however
\* crashes, retries and requests are mixed.  A try that an abort or a crash cuts off
\* is not recorded: those have no limit.
RetriesStop ==
  \A j \in Jobs :
    /\ jobs[j].status = "WAITING_PRINTER" => jobs[j].attempts \in 1..(MaxAttempts - 1)
    /\ jobs[j].status \in {"QUEUED", "PRINTING"} =>
         jobs[j].attempts < MaxAttempts + pedidos[j]
    /\ jobs[j].attempts <= MaxAttempts + pedidos[j]

\* Every second copy is a job of its own, numbered one after the other, and the
\* original counts them all: no request is swallowed by the dedup key of another.
SecondCopiesCounted ==
  \A o \in Jobs :
    /\ \A n \in 1..jobs[o].secondCopyCount :
         \E j \in Jobs : jobs[j].original = o /\ jobs[j].sequencia = n
    /\ \A i, j \in Jobs :
         jobs[i].original = o /\ jobs[j].original = o =>
           /\ jobs[i].sequencia \in 1..jobs[o].secondCopyCount
           /\ jobs[i].sequencia = jobs[j].sequencia => i = j

Unsettled(j) == jobs[j].status \in {"QUEUED", "PRINTING", "WAITING_PRINTER"}

\* Jobs before j that may abort the cycle that takes them.
Travados(j) == {i \in Ilegiveis : i < j}

\* Once the process stays up and nobody asks for a job again, every job ends on
\* paper or in front of a human, whatever the printers do, though older ones abort
\* every cycle that takes them: their leases let the others through.  So it is only
\* while fewer older jobs abort than a lease has cycles; as many, one ready again
\* after the other, keep the younger ones waiting for ever.  Nor does it hold of the
\* jobs that abort: they are never given up.
EveryJobEnds ==
  <>[][/\ Crash => Passo
       /\ \A j \in Jobs : ~ReprocessJob(j)]_printVars =>
    \A j \in Jobs \ Ilegiveis :
      Cardinality(Travados(j)) < Lease => (Unsettled(j) ~> ~Unsettled(j))

\* A job as a ticket: on paper and not yet recorded, recorded, given up, or waiting.
EstadoDe(j) ==
  CASE jobs[j].status = "AUSENTE"         -> "NENHUM"
    [] jobs[j].status = "DONE"            -> "FEITO"
    [] jobs[j].status = "NEEDS_ATTENTION" -> "ATENCAO"
    [] OTHER -> IF ciclo.op = "IMPRESSO" /\ ciclo.job = j THEN "PAPEL" ELSE "ESPERA"

Estados == [j \in Jobs |-> EstadoDe(j)]

Ticket == INSTANCE Impressao
  WITH Tickets <- Jobs, estado <- Estados

\* Claims, leases, retries, overlapping requests and crashes come down to a ticket
\* that is printed while it waits, once, and then recorded.  What is recorded or
\* given up is taken up again only at somebody's request.  Every request and every
\* crash that cuts a record off lets out one more paper and no second.  The paper of
\* a request is the ticket itself once more: docs/DOMAIN.md has reprocessing
\* idempotent (272) and a reprint a new and marked job (273, 320-321), which is true
\* of reprintSecondCopy and not of reprocessJob.
EachTicketOnce == Ticket!ImpressaoSpec
=============================================================================
