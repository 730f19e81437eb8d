---------------------------- MODULE PrintProofs ----------------------------
(***************************************************************************)
(* Theorems about the print spool, for any number of jobs, sectors and       *)
(* printers, any lease, any limit of attempts and of jobs in a cycle, and    *)
(* whichever tickets cannot be rendered.                                    *)
(***************************************************************************)
EXTENDS PrintSpool, TLAPS

-----------------------------------------------------------------------------
(* The invariant *)

\* The rows are created in order, and each second copy creates one.
EmOrdem ==
  \E k \in 0..NumJobs :
    /\ \A j \in Jobs : jobs[j].status # "AUSENTE" <=> j <= k
    /\ \A j \in Jobs : jobs[j].secondCopyCount <= k

\* A row that is not there yet has nothing in it.
Vazias ==
  \A j \in Jobs : jobs[j].status = "AUSENTE" =>
    /\ jobs[j].original = NoJob /\ jobs[j].secondCopyCount = 0
    /\ jobs[j].attempts = 0

\* The job that a cycle holds is PRINTING, and no call comes between.
CicloInv ==
  /\ ciclo.op = "PROXIMO" => ciclo.restam > 0
  /\ ciclo.op \in {"TOMADO", "IMPRESSO"} =>
       ciclo.job \in Jobs /\ jobs[ciclo.job].status = "PRINTING"
  /\ ciclo.op = "IMPRESSO" => ciclo.job \in papel

PrintInv ==
  /\ PrintTypeOK /\ EmOrdem /\ Vazias /\ CicloInv
  /\ PaperMatchesStatus /\ RetriesStop /\ SecondCopiesCounted

-----------------------------------------------------------------------------
(* Numbers and rows *)

LEMMA MinOfTwo ==
  ASSUME NEW a \in Nat, NEW b \in Nat
  PROVE  Min({a, b}) = IF a <= b THEN a ELSE b
<1> DEFINE m == IF a <= b THEN a ELSE b
<1>1. m \in {a, b} /\ \A y \in {a, b} : m <= y
  OBVIOUS
<1>2. \A x \in {a, b} : (\A y \in {a, b} : x <= y) => x = m
  OBVIOUS
<1> HIDE DEF m
<1>3. Min({a, b}) = m
  BY <1>1, <1>2 DEF Min
<1> QED BY <1>3 DEF m

LEMMA MaxOfTwo ==
  ASSUME NEW a \in Nat, NEW b \in Nat
  PROVE  Max({a, b}) = IF a >= b THEN a ELSE b
<1> DEFINE m == IF a >= b THEN a ELSE b
<1>1. m \in {a, b} /\ \A y \in {a, b} : m >= y
  OBVIOUS
<1>2. \A x \in {a, b} : (\A y \in {a, b} : x >= y) => x = m
  OBVIOUS
<1> HIDE DEF m
<1>3. Max({a, b}) = m
  BY <1>1, <1>2 DEF Max
<1> QED BY <1>3 DEF m

LEMMA Numbers ==
  /\ NumJobs \in Nat \ {0} /\ Lease \in Nat \ {0} /\ Minuto \in Nat \ {0}
  /\ MaxAttempts \in Nat \ {0} /\ Limit \in Nat \ {0} /\ MaxPedidos \in Nat
BY PrintAssumption

(* The wait before a retry is at most a quarter of an hour. *)
LEMMA RetryBound ==
  ASSUME NEW n \in Nat
  PROVE  ComputeRetryAt(n) \in 0..(15 * Minuto)
<1>1. Max({1, n + 1}) = n + 1
  BY MaxOfTwo
<1>2. Min({15, n + 1}) \in 0..15
  BY MinOfTwo
<1>3. \A m \in 0..15 : m * Minuto \in 0..(15 * Minuto)
  BY Numbers
<1> QED BY <1>1, <1>2, <1>3 DEF ComputeRetryAt

LEMMA Elapses ==
  ASSUME NEW n \in Nat
  PROVE  Passa(n) \in Nat /\ Passa(n) <= n
<1>1. CASE n = 0
  <2>1. {n - 1, 0} = {0, -1}
    BY <1>1
  <2>2. Max({0, -1}) = 0
    BY DEF Max
  <2> QED BY <1>1, <2>1, <2>2 DEF Passa
<1>2. CASE n # 0
  <2>1. n - 1 \in Nat /\ n - 1 <= n
    BY <1>2
  <2> QED BY <2>1, MaxOfTwo DEF Passa
<1> QED BY <1>1, <1>2

LEMMA JobFields ==
  ASSUME PrintTypeOK, NEW j \in Jobs
  PROVE  /\ jobs[j] \in PrintJobRecord
         /\ jobs[j].status \in PrintJobStatus \cup {"AUSENTE"}
         /\ jobs[j].impressora \in Impressoras \cup {SemImpressora}
         /\ jobs[j].attempts \in Nat /\ jobs[j].secondCopyCount \in 0..NumJobs
         /\ jobs[j].original \in Jobs \cup {NoJob} /\ jobs[j].sequencia \in 0..NumJobs
         /\ jobs[j].lease \in 0..Lease /\ jobs[j].retry \in 0..(15 * Minuto)
<1>1. jobs[j] \in PrintJobRecord
  BY DEF PrintTypeOK
<1> QED BY <1>1 DEF PrintJobRecord

(* What registerAttempt writes. *)
LEMMA AttemptEffect ==
  ASSUME PrintTypeOK, NEW j \in Jobs, NEW status \in PrintJobStatus,
         NEW increment \in {0, 1}, NEW retry \in 0..(15 * Minuto),
         RegisterAttempt(j, status, increment, retry)
  PROVE  /\ jobs' \in [Jobs -> PrintJobRecord]
         /\ jobs'[j].status = status /\ jobs'[j].attempts = jobs[j].attempts + increment
         /\ jobs'[j].original = jobs[j].original
         /\ jobs'[j].sequencia = jobs[j].sequencia
         /\ jobs'[j].secondCopyCount = jobs[j].secondCopyCount
         /\ \A i \in Jobs : i # j => jobs'[i] = jobs[i]
<1> DEFINE r == [jobs[j] EXCEPT !.status = status, !.attempts = @ + increment,
                                !.retry = retry, !.lease = 0]
<1>1. jobs' = [jobs EXCEPT ![j] = r] /\ jobs \in [Jobs -> PrintJobRecord]
  BY DEF RegisterAttempt, PrintTypeOK
<1>2. /\ jobs[j] \in PrintJobRecord /\ jobs[j].attempts + increment \in Nat
      /\ 0 \in 0..Lease
  BY JobFields, Numbers
<1>3. /\ r \in PrintJobRecord
      /\ r.status = status /\ r.attempts = jobs[j].attempts + increment
      /\ r.original = jobs[j].original /\ r.sequencia = jobs[j].sequencia
      /\ r.secondCopyCount = jobs[j].secondCopyCount
  BY <1>2 DEF PrintJobRecord
<1> HIDE DEF r
<1>4. jobs' \in [Jobs -> PrintJobRecord] /\ jobs'[j] = r
  BY <1>1, <1>3
<1>5. \A i \in Jobs : i # j => jobs'[i] = jobs[i]
  BY <1>1
<1> QED BY <1>3, <1>4, <1>5

-----------------------------------------------------------------------------
(* Steps that create no row *)

MesmasCopias ==
  \A i \in Jobs :
    /\ jobs'[i].original = jobs[i].original
    /\ jobs'[i].sequencia = jobs[i].sequencia
    /\ jobs'[i].secondCopyCount = jobs[i].secondCopyCount
    /\ jobs'[i].status = "AUSENTE" <=> jobs[i].status = "AUSENTE"
    /\ jobs[i].status = "AUSENTE" => jobs'[i].attempts = jobs[i].attempts

LEMMA CopiesStay ==
  ASSUME PrintInv, MesmasCopias
  PROVE  EmOrdem' /\ Vazias' /\ SecondCopiesCounted'
<1>1. EmOrdem'
  <2>1. PICK k \in 0..NumJobs :
          /\ \A j \in Jobs : jobs[j].status # "AUSENTE" <=> j <= k
          /\ \A j \in Jobs : jobs[j].secondCopyCount <= k
    BY DEF PrintInv, EmOrdem
  <2>2. /\ \A j \in Jobs : jobs'[j].status # "AUSENTE" <=> j <= k
        /\ \A j \in Jobs : jobs'[j].secondCopyCount <= k
    BY <2>1 DEF MesmasCopias
  <2> QED BY <2>2 DEF EmOrdem
<1>2. Vazias'
  BY DEF PrintInv, MesmasCopias, Vazias
<1>3. SecondCopiesCounted'
  <2>1. ASSUME NEW o \in Jobs
        PROVE  /\ \A n \in 1..jobs'[o].secondCopyCount :
                    \E j \in Jobs : jobs'[j].original = o /\ jobs'[j].sequencia = n
               /\ \A i, j \in Jobs :
                    jobs'[i].original = o /\ jobs'[j].original = o =>
                      /\ jobs'[i].sequencia \in 1..jobs'[o].secondCopyCount
                      /\ jobs'[i].sequencia = jobs'[j].sequencia => i = j
    <3>1. jobs'[o].secondCopyCount = jobs[o].secondCopyCount
      BY DEF MesmasCopias
    <3>2. /\ \A n \in 1..jobs[o].secondCopyCount :
               \E j \in Jobs : jobs[j].original = o /\ jobs[j].sequencia = n
          /\ \A i, j \in Jobs :
               jobs[i].original = o /\ jobs[j].original = o =>
                 /\ jobs[i].sequencia \in 1..jobs[o].secondCopyCount
                 /\ jobs[i].sequencia = jobs[j].sequencia => i = j
      BY DEF PrintInv, SecondCopiesCounted
    <3> QED BY <3>1, <3>2 DEF MesmasCopias
  <2> QED BY <2>1 DEF SecondCopiesCounted
<1> QED BY <1>1, <1>2, <1>3

LEMMA TurnTypes ==
  ASSUME PrintTypeOK
  PROVE  /\ Seguinte \in Ciclo /\ Seguinte.op \in {"OCIOSO", "PROXIMO"}
         /\ Seguinte.op = "PROXIMO" => Seguinte.restam > 0
         /\ Ocioso \in Ciclo /\ Ocioso.op = "OCIOSO" /\ Ocioso.job = NoJob
<1>1. Ocioso \in Ciclo /\ Ocioso.op = "OCIOSO" /\ Ocioso.job = NoJob
  BY Numbers DEF Ocioso, Ciclo
<1>2. ciclo \in Ciclo /\ Limit \in Nat
  BY Numbers DEF PrintTypeOK
<1>3. CASE ciclo.restam = 0
  BY <1>1, <1>3 DEF Seguinte
<1>4. CASE ciclo.restam # 0
  <2>1. Seguinte = [ciclo EXCEPT !.op = "PROXIMO", !.job = NoJob]
    BY <1>4 DEF Seguinte
  <2>2. ciclo.restam \in 0..Limit
    BY <1>2 DEF Ciclo
  <2>3. ciclo.restam > 0
    BY <1>2, <1>4, <2>2
  <2>4. /\ Seguinte \in Ciclo /\ Seguinte.op = "PROXIMO"
        /\ Seguinte.restam = ciclo.restam
    BY <1>2, <2>1 DEF Ciclo
  <2> QED BY <1>1, <2>3, <2>4
<1> QED BY <1>1, <1>3, <1>4

(* The outcome of the job that the cycle holds is recorded, and the cycle goes  *)
(* on.                                                                        *)
LEMMA OutcomeKeeps ==
  ASSUME PrintInv, ciclo.op \in {"TOMADO", "IMPRESSO"},
         NEW status \in {"WAITING_PRINTER", "NEEDS_ATTENTION", "DONE"},
         NEW retry \in 0..(15 * Minuto),
         RegisterAttempt(ciclo.job, status, 1, retry),
         status = "DONE" <=> ciclo.op = "IMPRESSO",
         status = "WAITING_PRINTER" => jobs[ciclo.job].attempts + 1 < MaxAttempts,
         ciclo' = Seguinte, UNCHANGED <<papel, pedidos, repetir, pulso>>
  PROVE  PrintInv'
<1>1. /\ PrintTypeOK /\ CicloInv /\ PaperMatchesStatus /\ RetriesStop
      /\ papel' = papel /\ pedidos' = pedidos /\ repetir' = repetir /\ pulso' = pulso
  BY DEF PrintInv
<1> DEFINE h == ciclo.job
<1>2. h \in Jobs /\ jobs[h].status = "PRINTING" /\ jobs[h].attempts \in Nat
  BY <1>1, JobFields DEF CicloInv
<1>3. PICK j \in Jobs : j = h
  BY <1>2
<1>4. /\ jobs' \in [Jobs -> PrintJobRecord]
      /\ jobs'[j].status = status /\ jobs'[j].attempts = jobs[j].attempts + 1
      /\ jobs'[j].original = jobs[j].original
      /\ jobs'[j].sequencia = jobs[j].sequencia
      /\ jobs'[j].secondCopyCount = jobs[j].secondCopyCount
      /\ \A i \in Jobs : i # j => jobs'[i] = jobs[i]
  <2>1. RegisterAttempt(j, status, 1, retry) /\ status \in PrintJobStatus
    BY <1>3 DEF PrintJobStatus
  <2> QED BY <1>1, <2>1, AttemptEffect
<1>5. /\ ciclo' \in Ciclo /\ ciclo'.op \in {"OCIOSO", "PROXIMO"}
      /\ ciclo'.op = "PROXIMO" => ciclo'.restam > 0
  BY <1>1, TurnTypes
<1>6. MesmasCopias
  BY <1>2, <1>3, <1>4 DEF MesmasCopias
<1>7. PrintTypeOK'
  BY <1>1, <1>4, <1>5 DEF PrintTypeOK
<1>8. CicloInv'
  BY <1>5 DEF CicloInv
<1>9. PaperMatchesStatus'
  <2>1. ASSUME NEW i \in Jobs
        PROVE  /\ jobs'[i].status = "DONE" => i \in papel'
               /\ i \notin repetir' =>
                    (i \in papel' <=> jobs'[i].status = "DONE"
                                       \/ (ciclo'.op = "IMPRESSO" /\ ciclo'.job = i))
    <3>1. CASE i = j
      BY <1>1, <1>2, <1>3, <1>4, <1>5, <3>1 DEF PaperMatchesStatus, CicloInv
    <3>2. CASE i # j
      BY <1>1, <1>3, <1>4, <1>5, <3>2 DEF PaperMatchesStatus
    <3> QED BY <3>1, <3>2
  <2> QED BY <2>1 DEF PaperMatchesStatus
<1>10. RetriesStop'
  <2>1. ASSUME NEW i \in Jobs
        PROVE  /\ jobs'[i].status = "WAITING_PRINTER" =>
                    jobs'[i].attempts \in 1..(MaxAttempts - 1)
               /\ jobs'[i].status \in {"QUEUED", "PRINTING"} =>
                    jobs'[i].attempts < MaxAttempts + pedidos'[i]
               /\ jobs'[i].attempts <= MaxAttempts + pedidos'[i]
    <3>1. CASE i = j
      <4>1. jobs[j].attempts < MaxAttempts + pedidos[j] /\ pedidos[j] \in Nat
            /\ jobs[j].attempts \in Nat
        BY <1>1, <1>2, <1>3 DEF RetriesStop, PrintTypeOK
      <4>2. status = "WAITING_PRINTER" => jobs[j].attempts + 1 < MaxAttempts
        BY <1>3
      <4> QED BY <1>1, <1>4, <3>1, <4>1, <4>2, Numbers
    <3>2. CASE i # j
      BY <1>1, <1>4, <3>2 DEF RetriesStop
    <3> QED BY <3>1, <3>2
  <2> QED BY <2>1 DEF RetriesStop
<1> QED BY <1>6, <1>7, <1>8, <1>9, <1>10, CopiesStay DEF PrintInv

(* A step that touches no row and gives up or begins a cycle, or changes the    *)
(* timer.                                                                     *)
LEMMA CycleKeeps ==
  ASSUME PrintInv, jobs' = jobs, papel' = papel, pedidos' = pedidos,
         ciclo' \in Ciclo, ciclo'.op \in {"OCIOSO", "PROXIMO"},
         ciclo'.op = "PROXIMO" => ciclo'.restam > 0,
         pulso' \in BOOLEAN, repetir' \in SUBSET Jobs,
         repetir \subseteq repetir',
         ciclo.op = "IMPRESSO" => ciclo.job \in repetir'
  PROVE  PrintInv'
<1>1. /\ PrintTypeOK /\ CicloInv /\ PaperMatchesStatus /\ RetriesStop
  BY DEF PrintInv
<1>2. MesmasCopias
  BY DEF MesmasCopias
<1>3. PrintTypeOK'
  BY <1>1 DEF PrintTypeOK
<1>4. CicloInv' /\ RetriesStop'
  BY <1>1 DEF CicloInv, RetriesStop
<1>5. PaperMatchesStatus'
  BY <1>1 DEF PaperMatchesStatus
<1> QED BY <1>2, <1>3, <1>4, <1>5, CopiesStay DEF PrintInv

-----------------------------------------------------------------------------
(* One lemma per action *)

LEMMA BeginKeeps ==
  ASSUME PrintInv, BeginCycle, pulso' \in BOOLEAN
  PROVE  PrintInv'
<1>1. PICK online \in SUBSET Impressoras :
        ciclo' = [op |-> "PROXIMO", job |-> NoJob, online |-> online, restam |-> Limit]
  BY DEF BeginCycle
<1>2. ciclo' \in Ciclo /\ ciclo'.op = "PROXIMO" /\ ciclo'.restam > 0
  BY <1>1, Numbers DEF Ciclo
<1>3. /\ jobs' = jobs /\ papel' = papel /\ pedidos' = pedidos /\ repetir' = repetir
      /\ ciclo.op = "OCIOSO" /\ repetir \in SUBSET Jobs
  BY DEF BeginCycle, Livre, Ocioso, PrintInv, PrintTypeOK
<1> QED BY <1>2, <1>3, CycleKeeps

LEMMA ClaimKeeps ==
  ASSUME PrintInv, ClaimNext
  PROVE  PrintInv'
<1>1. /\ PrintTypeOK /\ CicloInv /\ PaperMatchesStatus /\ RetriesStop
      /\ papel' = papel /\ pedidos' = pedidos /\ repetir' = repetir /\ pulso' = pulso
      /\ ciclo.op = "PROXIMO" /\ ciclo \in Ciclo /\ ciclo.restam > 0
      /\ pulso \in BOOLEAN /\ repetir \in SUBSET Jobs
  BY DEF PrintInv, ClaimNext, CicloInv, PrintTypeOK
<1>2. CASE ciclo' = Ocioso /\ UNCHANGED jobs
  BY <1>1, <1>2, TurnTypes, CycleKeeps
<1>3. ASSUME NEW j \in Jobs, Oldest(j),
             jobs' = [jobs EXCEPT ![j].status = "PRINTING", ![j].lease = Lease],
             ciclo' = [ciclo EXCEPT !.op = "TOMADO", !.job = j, !.restam = @ - 1]
      PROVE  PrintInv'
  <2> DEFINE r == [jobs[j] EXCEPT !.status = "PRINTING", !.lease = Lease]
  <2>1. jobs' = [jobs EXCEPT ![j] = r]
    BY <1>3
  <2>2. jobs[j] \in PrintJobRecord /\ Lease \in 0..Lease /\ jobs \in [Jobs -> PrintJobRecord]
    BY <1>1, JobFields, Numbers DEF PrintTypeOK
  <2>3. /\ r \in PrintJobRecord /\ r.status = "PRINTING" /\ r.attempts = jobs[j].attempts
        /\ r.original = jobs[j].original /\ r.sequencia = jobs[j].sequencia
        /\ r.secondCopyCount = jobs[j].secondCopyCount
    BY <2>2 DEF PrintJobRecord, PrintJobStatus
  <2> HIDE DEF r
  <2>4. /\ jobs' \in [Jobs -> PrintJobRecord] /\ jobs'[j] = r
        /\ \A i \in Jobs : i # j => jobs'[i] = jobs[i]
    BY <2>1, <2>2, <2>3
  <2>5. jobs[j].status \in {"QUEUED", "WAITING_PRINTER", "PRINTING"}
    BY <1>3 DEF Oldest, Ready
  <2>6. ciclo' \in Ciclo /\ ciclo'.op = "TOMADO" /\ ciclo'.job = j
    <3>1. ciclo.restam - 1 \in 0..Limit
      BY <1>1, Numbers DEF Ciclo
    <3> QED BY <1>1, <1>3, <3>1 DEF Ciclo
  <2>7. MesmasCopias
    BY <2>3, <2>4, <2>5 DEF MesmasCopias
  <2>8. PrintTypeOK'
    BY <1>1, <2>4, <2>6 DEF PrintTypeOK
  <2>9. CicloInv'
    BY <2>3, <2>4, <2>6 DEF CicloInv
  <2>10. PaperMatchesStatus'
    <3>1. ASSUME NEW i \in Jobs
          PROVE  /\ jobs'[i].status = "DONE" => i \in papel'
                 /\ i \notin repetir' =>
                      (i \in papel' <=> jobs'[i].status = "DONE"
                                         \/ (ciclo'.op = "IMPRESSO" /\ ciclo'.job = i))
      <4>1. CASE i = j
        BY <1>1, <2>3, <2>4, <2>5, <2>6, <4>1 DEF PaperMatchesStatus
      <4>2. CASE i # j
        BY <1>1, <2>4, <2>6, <4>2 DEF PaperMatchesStatus
      <4> QED BY <4>1, <4>2
    <3> QED BY <3>1 DEF PaperMatchesStatus
  <2>11. RetriesStop'
    <3>1. ASSUME NEW i \in Jobs
          PROVE  /\ jobs'[i].status = "WAITING_PRINTER" =>
                      jobs'[i].attempts \in 1..(MaxAttempts - 1)
                 /\ jobs'[i].status \in {"QUEUED", "PRINTING"} =>
                      jobs'[i].attempts < MaxAttempts + pedidos'[i]
                 /\ jobs'[i].attempts <= MaxAttempts + pedidos'[i]
      <4>1. CASE i = j
        <5>1. /\ jobs[j].status = "WAITING_PRINTER" =>
                   jobs[j].attempts \in 1..(MaxAttempts - 1)
              /\ jobs[j].status \in {"QUEUED", "PRINTING"} =>
                   jobs[j].attempts < MaxAttempts + pedidos[j]
              /\ jobs[j].attempts \in Nat /\ pedidos[j] \in Nat
          BY <1>1, JobFields DEF RetriesStop, PrintTypeOK
        <5>2. jobs[j].attempts < MaxAttempts + pedidos[j]
          BY <2>5, <5>1, Numbers
        <5> QED BY <1>1, <2>3, <2>4, <4>1, <5>1, <5>2, Numbers
      <4>2. CASE i # j
        BY <1>1, <2>4, <4>2 DEF RetriesStop
      <4> QED BY <4>1, <4>2
    <3> QED BY <3>1 DEF RetriesStop
  <2> QED BY <2>7, <2>8, <2>9, <2>10, <2>11, CopiesStay DEF PrintInv
<1> QED BY <1>2, <1>3 DEF ClaimNext

LEMMA NoRouteKeeps ==
  ASSUME PrintInv, NoRoute
  PROVE  PrintInv'
<1>1. /\ ciclo.op = "TOMADO" /\ RegisterAttempt(ciclo.job, "NEEDS_ATTENTION", 1, 0)
      /\ ciclo' = Seguinte /\ UNCHANGED <<papel, pedidos, repetir, pulso>>
  BY DEF NoRoute
<1>2. 0 \in 0..(15 * Minuto)
  BY Numbers
<1> QED BY <1>1, <1>2, OutcomeKeeps

LEMMA FailureKeeps ==
  ASSUME PrintInv, ciclo.op = "TOMADO", NEW retryable \in BOOLEAN,
         HandleDriverFailure(retryable), ciclo' = Seguinte,
         UNCHANGED <<papel, pedidos, repetir, pulso>>
  PROVE  PrintInv'
<1>1. ciclo.job \in Jobs /\ jobs[ciclo.job].attempts \in Nat
  BY JobFields DEF PrintInv, CicloInv
<1>2. ComputeRetryAt(jobs[ciclo.job].attempts) \in 0..(15 * Minuto) /\ 0 \in 0..(15 * Minuto)
  BY <1>1, RetryBound, Numbers
<1>3. CASE retryable /\ jobs[ciclo.job].attempts + 1 < MaxAttempts
  <2>1. RegisterAttempt(ciclo.job, "WAITING_PRINTER", 1,
                        ComputeRetryAt(jobs[ciclo.job].attempts))
    BY <1>3 DEF HandleDriverFailure
  <2> QED BY <1>2, <1>3, <2>1, OutcomeKeeps
<1>4. CASE ~(retryable /\ jobs[ciclo.job].attempts + 1 < MaxAttempts)
  <2>1. RegisterAttempt(ciclo.job, "NEEDS_ATTENTION", 1, 0)
    BY <1>4 DEF HandleDriverFailure
  <2> QED BY <1>2, <2>1, OutcomeKeeps
<1> QED BY <1>3, <1>4

LEMMA PrintKeeps ==
  ASSUME PrintInv, PrintText
  PROVE  PrintInv'
<1>1. /\ PrintTypeOK /\ CicloInv /\ PaperMatchesStatus /\ RetriesStop
      /\ ciclo.op = "TOMADO" /\ ciclo \in Ciclo
      /\ papel' = papel \cup {ciclo.job} /\ repetir' = repetir \ {ciclo.job}
      /\ ciclo' = [ciclo EXCEPT !.op = "IMPRESSO"]
      /\ jobs' = jobs /\ pedidos' = pedidos /\ pulso' = pulso
  BY DEF PrintInv, PrintText, PrintTypeOK
<1>2. PICK j \in Jobs : j = ciclo.job
  BY <1>1 DEF CicloInv
<1>3. jobs[j].status = "PRINTING"
  BY <1>1, <1>2 DEF CicloInv
<1>4. /\ papel' \in SUBSET Jobs /\ repetir' \in SUBSET Jobs /\ j \in papel'
      /\ \A i \in Jobs : i # j => (i \in papel' <=> i \in papel)
                                   /\ (i \in repetir' <=> i \in repetir)
  BY <1>1, <1>2 DEF PrintTypeOK
<1>5. ciclo' \in Ciclo /\ ciclo'.op = "IMPRESSO" /\ ciclo'.job = j
  BY <1>1, <1>2 DEF Ciclo
<1>6. MesmasCopias
  BY <1>1 DEF MesmasCopias
<1>7. PrintTypeOK'
  BY <1>1, <1>4, <1>5 DEF PrintTypeOK
<1>8. CicloInv'
  BY <1>1, <1>3, <1>4, <1>5 DEF CicloInv
<1>9. PaperMatchesStatus'
  <2>1. ASSUME NEW i \in Jobs
        PROVE  /\ jobs'[i].status = "DONE" => i \in papel'
               /\ i \notin repetir' =>
                    (i \in papel' <=> jobs'[i].status = "DONE"
                                       \/ (ciclo'.op = "IMPRESSO" /\ ciclo'.job = i))
    <3>1. CASE i = j
      BY <1>4, <1>5, <3>1
    <3>2. CASE i # j
      BY <1>1, <1>2, <1>4, <1>5, <3>2 DEF PaperMatchesStatus
    <3> QED BY <3>1, <3>2
  <2> QED BY <2>1 DEF PaperMatchesStatus
<1>10. RetriesStop'
  BY <1>1 DEF RetriesStop
<1> QED BY <1>6, <1>7, <1>8, <1>9, <1>10, CopiesStay DEF PrintInv

LEMMA DoneKeeps ==
  ASSUME PrintInv, RecordDone
  PROVE  PrintInv'
<1>1. /\ ciclo.op = "IMPRESSO" /\ RegisterAttempt(ciclo.job, "DONE", 1, 0)
      /\ ciclo' = Seguinte /\ UNCHANGED <<papel, pedidos, repetir, pulso>>
  BY DEF RecordDone
<1>2. 0 \in 0..(15 * Minuto)
  BY Numbers
<1> QED BY <1>1, <1>2, OutcomeKeeps

LEMMA TicketFailsKeeps ==
  ASSUME PrintInv, TicketFails
  PROVE  PrintInv'
<1>1. /\ jobs' = jobs /\ papel' = papel /\ pedidos' = pedidos /\ repetir' = repetir
      /\ ciclo' = Ocioso /\ ciclo.op = "TOMADO" /\ pulso' = pulso
      /\ PrintTypeOK /\ pulso \in BOOLEAN /\ repetir \in SUBSET Jobs
  BY DEF TicketFails, PrintInv, PrintTypeOK
<1> QED BY <1>1, TurnTypes, CycleKeeps

LEMMA CrashKeeps ==
  ASSUME PrintInv, Crash
  PROVE  PrintInv'
<1>1. /\ jobs' = jobs /\ papel' = papel /\ pedidos' = pedidos
      /\ repetir' = IF ciclo.op = "IMPRESSO" THEN repetir \cup {ciclo.job} ELSE repetir
      /\ ciclo' = Ocioso /\ pulso' = FALSE
      /\ PrintTypeOK /\ repetir \in SUBSET Jobs
      /\ ciclo.op = "IMPRESSO" => ciclo.job \in Jobs
  BY DEF Crash, PrintInv, PrintTypeOK, CicloInv
<1>2. /\ repetir' \in SUBSET Jobs /\ repetir \subseteq repetir'
      /\ ciclo.op = "IMPRESSO" => ciclo.job \in repetir'
  BY <1>1
<1> QED BY <1>1, <1>2, TurnTypes, CycleKeeps

(* Time changes the two dates and nothing else of a row. *)
LEMMA TickKeeps ==
  ASSUME PrintInv, Tick
  PROVE  PrintInv'
<1>1. /\ PrintTypeOK /\ PaperMatchesStatus /\ RetriesStop
      /\ papel' = papel /\ pedidos' = pedidos /\ repetir' = repetir /\ ciclo' = ciclo
      /\ pulso' = TRUE /\ ciclo.op = "OCIOSO"
      /\ jobs' = [j \in Jobs |-> [jobs[j] EXCEPT !.lease = Passa(@), !.retry = Passa(@)]]
  BY DEF PrintInv, Tick, Livre, Ocioso
<1>2. ASSUME NEW j \in Jobs
      PROVE  /\ jobs'[j] \in PrintJobRecord
             /\ jobs'[j].status = jobs[j].status /\ jobs'[j].attempts = jobs[j].attempts
             /\ jobs'[j].original = jobs[j].original
             /\ jobs'[j].sequencia = jobs[j].sequencia
             /\ jobs'[j].secondCopyCount = jobs[j].secondCopyCount
  <2> DEFINE l == Passa(jobs[j].lease)
             t == Passa(jobs[j].retry)
  <2>1. jobs'[j] = [jobs[j] EXCEPT !.lease = l, !.retry = t]
    BY <1>1
  <2>2. /\ jobs[j] \in PrintJobRecord /\ jobs[j].lease \in 0..Lease
        /\ jobs[j].retry \in 0..(15 * Minuto) /\ Lease \in Nat /\ Minuto \in Nat
    BY <1>1, JobFields, Numbers
  <2>3. l \in 0..Lease
    <3>1. jobs[j].lease \in Nat /\ jobs[j].lease <= Lease
      BY <2>2
    <3>2. l \in Nat /\ l <= jobs[j].lease
      BY <3>1, Elapses
    <3> HIDE DEF l
    <3> QED BY <2>2, <3>1, <3>2
  <2>4. t \in 0..(15 * Minuto)
    <3>1. jobs[j].retry \in Nat /\ jobs[j].retry <= 15 * Minuto
      BY <2>2
    <3>2. t \in Nat /\ t <= jobs[j].retry
      BY <3>1, Elapses
    <3> HIDE DEF t
    <3> QED BY <2>2, <3>1, <3>2
  <2> HIDE DEF l, t
  <2> QED BY <2>1, <2>2, <2>3, <2>4 DEF PrintJobRecord
<1>3. jobs' \in [Jobs -> PrintJobRecord]
  <2>1. DOMAIN jobs' = Jobs /\ jobs' = [j \in Jobs |-> jobs'[j]]
    BY <1>1
  <2> QED BY <1>2, <2>1
<1>4. MesmasCopias
  BY <1>2 DEF MesmasCopias
<1>5. PrintTypeOK'
  BY <1>1, <1>3 DEF PrintTypeOK
<1>6. CicloInv'
  BY <1>1 DEF CicloInv
<1>7. PaperMatchesStatus'
  BY <1>1, <1>2 DEF PaperMatchesStatus
<1>8. RetriesStop'
  BY <1>1, <1>2 DEF RetriesStop
<1> QED BY <1>4, <1>5, <1>6, <1>7, <1>8, CopiesStay DEF PrintInv

LEMMA ReprocessKeeps ==
  ASSUME PrintInv, NEW j \in Jobs, ReprocessJob(j)
  PROVE  PrintInv'
<1>1. /\ PrintTypeOK /\ PaperMatchesStatus /\ RetriesStop
      /\ ciclo.op = "OCIOSO" /\ jobs[j].status # "AUSENTE"
      /\ RegisterAttempt(j, "QUEUED", 0, 0)
      /\ pedidos' = [pedidos EXCEPT ![j] = @ + 1]
      /\ papel' = papel /\ repetir' = repetir \cup {j} /\ ciclo' = ciclo
      /\ pulso' = pulso
  BY DEF PrintInv, ReprocessJob, Livre, Ocioso
<1>2. /\ jobs' \in [Jobs -> PrintJobRecord]
      /\ jobs'[j].status = "QUEUED" /\ jobs'[j].attempts = jobs[j].attempts + 0
      /\ jobs'[j].original = jobs[j].original
      /\ jobs'[j].sequencia = jobs[j].sequencia
      /\ jobs'[j].secondCopyCount = jobs[j].secondCopyCount
      /\ \A i \in Jobs : i # j => jobs'[i] = jobs[i]
  <2>1. 0 \in 0..(15 * Minuto) /\ "QUEUED" \in PrintJobStatus
    BY Numbers DEF PrintJobStatus
  <2> QED BY <1>1, <2>1, AttemptEffect
<1>3. /\ pedidos' \in [Jobs -> Nat] /\ pedidos[j] \in Nat /\ pedidos'[j] = pedidos[j] + 1
      /\ \A i \in Jobs : i # j => pedidos'[i] = pedidos[i]
      /\ jobs[j].attempts \in Nat
  BY <1>1, JobFields DEF PrintTypeOK
<1>4. MesmasCopias
  BY <1>1, <1>2 DEF MesmasCopias
<1>5. PrintTypeOK'
  BY <1>1, <1>2, <1>3 DEF PrintTypeOK
<1>6. CicloInv'
  BY <1>1 DEF CicloInv
<1>7. PaperMatchesStatus'
  <2>1. ASSUME NEW i \in Jobs
        PROVE  /\ jobs'[i].status = "DONE" => i \in papel'
               /\ i \notin repetir' =>
                    (i \in papel' <=> jobs'[i].status = "DONE"
                                       \/ (ciclo'.op = "IMPRESSO" /\ ciclo'.job = i))
    <3>1. CASE i = j
      BY <1>1, <1>2, <3>1
    <3>2. CASE i # j
      BY <1>1, <1>2, <3>2 DEF PaperMatchesStatus
    <3> QED BY <3>1, <3>2
  <2> QED BY <2>1 DEF PaperMatchesStatus
<1>8. RetriesStop'
  <2>1. ASSUME NEW i \in Jobs
        PROVE  /\ jobs'[i].status = "WAITING_PRINTER" =>
                    jobs'[i].attempts \in 1..(MaxAttempts - 1)
               /\ jobs'[i].status \in {"QUEUED", "PRINTING"} =>
                    jobs'[i].attempts < MaxAttempts + pedidos'[i]
               /\ jobs'[i].attempts <= MaxAttempts + pedidos'[i]
    <3>1. CASE i = j
      <4>1. jobs[j].attempts <= MaxAttempts + pedidos[j]
        BY <1>1 DEF RetriesStop
      <4>2. jobs[j].attempts + 0 < MaxAttempts + (pedidos[j] + 1)
        BY <1>3, <4>1, Numbers
      <4> QED BY <1>2, <1>3, <3>1, <4>2, Numbers
    <3>2. CASE i # j
      BY <1>1, <1>2, <1>3, <3>2 DEF RetriesStop
    <3> QED BY <3>1, <3>2
  <2> QED BY <2>1 DEF RetriesStop
<1> QED BY <1>4, <1>5, <1>6, <1>7, <1>8, CopiesStay DEF PrintInv

-----------------------------------------------------------------------------
(* Steps that create a row *)

(* The next id is the one after the rows there are. *)
LEMMA NextRow ==
  ASSUME PrintInv, NEW j \in Jobs, Proximo(j)
  PROVE  /\ j - 1 \in 0..NumJobs /\ j \in 1..NumJobs
         /\ \A i \in Jobs : jobs[i].status # "AUSENTE" <=> i <= j - 1
         /\ \A i \in Jobs : jobs[i].secondCopyCount <= j - 1
<1>1. PICK k \in 0..NumJobs :
        /\ \A i \in Jobs : jobs[i].status # "AUSENTE" <=> i <= k
        /\ \A i \in Jobs : jobs[i].secondCopyCount <= k
  BY DEF PrintInv, EmOrdem
<1>2. j \in 1..NumJobs /\ k \in Nat /\ NumJobs \in Nat
  BY Numbers DEF Jobs
<1>3. j > k
  BY <1>1, <1>2 DEF Proximo
<1>4. ~(j > k + 1)
  <2>1. SUFFICES ASSUME j > k + 1 PROVE FALSE
    OBVIOUS
  <2>2. k + 1 \in Jobs /\ k + 1 < j
    BY <1>2, <2>1 DEF Jobs
  <2>3. jobs[k + 1].status # "AUSENTE"
    BY <2>2 DEF Proximo
  <2>4. k + 1 <= k
    BY <1>1, <2>2, <2>3
  <2> QED BY <1>2, <2>4
<1>5. j - 1 = k
  BY <1>2, <1>3, <1>4
<1> QED BY <1>1, <1>2, <1>5

LEMMA RowCreated ==
  ASSUME PrintInv, Livre, NEW j \in Jobs, Proximo(j), jobs' \in [Jobs -> PrintJobRecord],
         jobs'[j].status = "QUEUED", jobs'[j].attempts = 0, jobs'[j].secondCopyCount = 0,
         \A i \in Jobs \ {j} :
           /\ jobs'[i].status = jobs[i].status /\ jobs'[i].attempts = jobs[i].attempts
           /\ jobs'[i].original = jobs[i].original
           /\ jobs'[i].sequencia = jobs[i].sequencia
           /\ jobs'[i].secondCopyCount <= jobs[i].secondCopyCount + 1
           /\ jobs[i].status = "AUSENTE" =>
                jobs'[i].secondCopyCount = jobs[i].secondCopyCount,
         UNCHANGED <<papel, pedidos, repetir, ciclo, pulso>>,
         SecondCopiesCounted'
  PROVE  PrintInv'
<1>1. /\ PrintTypeOK /\ Vazias /\ PaperMatchesStatus /\ RetriesStop
      /\ papel' = papel /\ pedidos' = pedidos /\ repetir' = repetir /\ ciclo' = ciclo
      /\ pulso' = pulso /\ ciclo.op = "OCIOSO" /\ jobs[j].status = "AUSENTE"
  BY DEF PrintInv, Livre, Ocioso, Proximo
<1>2. /\ j - 1 \in 0..NumJobs /\ j \in 1..NumJobs
      /\ \A i \in Jobs : jobs[i].status # "AUSENTE" <=> i <= j - 1
      /\ \A i \in Jobs : jobs[i].secondCopyCount <= j - 1
  BY NextRow
<1>3. EmOrdem'
  <2>1. j \in 0..NumJobs
    BY <1>2
  <2>2. ASSUME NEW i \in Jobs
        PROVE  (jobs'[i].status # "AUSENTE" <=> i <= j) /\ jobs'[i].secondCopyCount <= j
    <3>1. CASE i = j
      BY <1>2, <3>1
    <3>2. CASE i # j
      <4>1. i \in 1..NumJobs /\ NumJobs \in Nat /\ jobs[i].secondCopyCount \in 0..NumJobs
            /\ jobs'[i].secondCopyCount \in 0..NumJobs
        <5>1. jobs'[i] \in PrintJobRecord
          OBVIOUS
        <5> QED BY <1>1, <5>1, JobFields, Numbers DEF Jobs, PrintJobRecord
      <4>2. jobs'[i].status # "AUSENTE" <=> i <= j - 1
        BY <1>2, <3>2
      <4>3. jobs'[i].secondCopyCount <= jobs[i].secondCopyCount + 1
            /\ jobs[i].secondCopyCount <= j - 1
        BY <1>2, <3>2
      <4>4. i <= j - 1 <=> i <= j
        BY <1>2, <3>2, <4>1
      <4>5. jobs'[i].secondCopyCount <= j
        BY <1>2, <4>1, <4>3
      <4> QED BY <4>2, <4>4, <4>5
    <3> QED BY <3>1, <3>2
  <2> QED BY <2>1, <2>2 DEF EmOrdem
<1>4. Vazias'
  <2>1. ASSUME NEW i \in Jobs, jobs'[i].status = "AUSENTE"
        PROVE  /\ jobs'[i].original = NoJob /\ jobs'[i].secondCopyCount = 0
               /\ jobs'[i].attempts = 0
    BY <1>1, <2>1 DEF Vazias
  <2> QED BY <2>1 DEF Vazias
<1>5. PrintTypeOK' /\ CicloInv'
  BY <1>1 DEF PrintTypeOK, CicloInv
<1>6. PaperMatchesStatus'
  <2>1. ASSUME NEW i \in Jobs
        PROVE  /\ jobs'[i].status = "DONE" => i \in papel'
               /\ i \notin repetir' =>
                    (i \in papel' <=> jobs'[i].status = "DONE"
                                       \/ (ciclo'.op = "IMPRESSO" /\ ciclo'.job = i))
    <3>1. CASE i = j
      BY <1>1, <3>1 DEF PaperMatchesStatus
    <3>2. CASE i # j
      BY <1>1, <3>2 DEF PaperMatchesStatus
    <3> QED BY <3>1, <3>2
  <2> QED BY <2>1 DEF PaperMatchesStatus
<1>7. RetriesStop'
  <2>1. ASSUME NEW i \in Jobs
        PROVE  /\ jobs'[i].status = "WAITING_PRINTER" =>
                    jobs'[i].attempts \in 1..(MaxAttempts - 1)
               /\ jobs'[i].status \in {"QUEUED", "PRINTING"} =>
                    jobs'[i].attempts < MaxAttempts + pedidos'[i]
               /\ jobs'[i].attempts <= MaxAttempts + pedidos'[i]
    <3>1. CASE i = j
      <4>1. pedidos[j] \in Nat
        BY <1>1 DEF PrintTypeOK
      <4> QED BY <1>1, <3>1, <4>1, Numbers
    <3>2. CASE i # j
      BY <1>1, <3>2 DEF RetriesStop
    <3> QED BY <3>1, <3>2
  <2> QED BY <2>1 DEF RetriesStop
<1> QED BY <1>3, <1>4, <1>5, <1>6, <1>7 DEF PrintInv

LEMMA NewJobFields ==
  ASSUME NEW p \in Impressoras \cup {SemImpressora}
  PROVE  /\ NovoJob(p) \in PrintJobRecord
         /\ NovoJob(p).status = "QUEUED" /\ NovoJob(p).attempts = 0
         /\ NovoJob(p).secondCopyCount = 0 /\ NovoJob(p).original = NoJob
BY Numbers DEF NovoJob, PrintJobRecord, PrintJobStatus

(* Nothing is yet a copy of a row that is not there. *)
LEMMA NoCopyYet ==
  ASSUME PrintInv, NEW j \in Jobs, jobs[j].status = "AUSENTE"
  PROVE  jobs[j].secondCopyCount = 0 /\ \A i \in Jobs : jobs[i].original # j
<1>1. jobs[j].secondCopyCount = 0
  BY DEF PrintInv, Vazias
<1>2. ASSUME NEW i \in Jobs, jobs[i].original = j
      PROVE  FALSE
  <2>1. jobs[i].sequencia \in 1..jobs[j].secondCopyCount
    BY <1>2 DEF PrintInv, SecondCopiesCounted
  <2> QED BY <1>1, <2>1
<1> QED BY <1>1, <1>2


LEMMA EnqueueTicketKeeps ==
  ASSUME PrintInv, NEW j \in Jobs, NEW setor \in Setores, EnqueueTicket(j, setor)
  PROVE  PrintInv'
<1> DEFINE row == NovoJob(ResolvePrinterTarget(setor))
<1>1. /\ row \in PrintJobRecord /\ row.status = "QUEUED" /\ row.attempts = 0
      /\ row.secondCopyCount = 0 /\ row.original = NoJob
  <2>1. ResolvePrinterTarget(setor) \in Impressoras \cup {SemImpressora}
    BY PrintAssumption DEF ResolvePrinterTarget
  <2> QED BY <2>1, NewJobFields
<1> HIDE DEF row
<1>2. ~\E i \in Jobs : SameDedupKey(jobs[i], row)
  BY <1>1 DEF SameDedupKey
<1>3. /\ Livre /\ Proximo(j) /\ jobs[j].status = "AUSENTE"
      /\ jobs' = EnqueueRow(jobs, j, row)
      /\ UNCHANGED <<papel, pedidos, repetir, ciclo, pulso>>
  BY DEF EnqueueTicket, Proximo, row
<1>4. jobs' = [jobs EXCEPT ![j] = row] /\ jobs \in [Jobs -> PrintJobRecord]
  BY <1>2, <1>3 DEF EnqueueRow, PrintInv, PrintTypeOK
<1>5. /\ jobs' \in [Jobs -> PrintJobRecord] /\ jobs'[j] = row
      /\ \A i \in Jobs : i # j => jobs'[i] = jobs[i]
  BY <1>1, <1>4
<1>6. jobs[j].secondCopyCount = 0 /\ \A i \in Jobs : jobs[i].original # j
  BY <1>3, NoCopyYet
<1>7. SecondCopiesCounted'
  <2>1. ASSUME NEW o \in Jobs
        PROVE  /\ \A n \in 1..jobs'[o].secondCopyCount :
                    \E i \in Jobs : jobs'[i].original = o /\ jobs'[i].sequencia = n
               /\ \A i, l \in Jobs :
                    jobs'[i].original = o /\ jobs'[l].original = o =>
                      /\ jobs'[i].sequencia \in 1..jobs'[o].secondCopyCount
                      /\ jobs'[i].sequencia = jobs'[l].sequencia => i = l
    <3>1. \A i \in Jobs : jobs'[i].original = o => i # j /\ jobs[i].original = o
      BY <1>1, <1>5 DEF NoJob, Jobs
    <3>2. /\ \A n \in 1..jobs[o].secondCopyCount :
               \E i \in Jobs : jobs[i].original = o /\ jobs[i].sequencia = n
          /\ \A i, l \in Jobs :
               jobs[i].original = o /\ jobs[l].original = o =>
                 /\ jobs[i].sequencia \in 1..jobs[o].secondCopyCount
                 /\ jobs[i].sequencia = jobs[l].sequencia => i = l
      BY DEF PrintInv, SecondCopiesCounted
    <3>3. CASE o = j
      <4>1. \A i \in Jobs : jobs'[i].original # o
        BY <1>6, <3>1, <3>3
      <4>2. jobs'[o].secondCopyCount = 0
        BY <1>1, <1>5, <3>3
      <4> QED BY <4>1, <4>2
    <3>4. CASE o # j
      <4>1. jobs'[o] = jobs[o]
        BY <1>5, <3>4
      <4>2. ASSUME NEW n \in 1..jobs'[o].secondCopyCount
            PROVE  \E i \in Jobs : jobs'[i].original = o /\ jobs'[i].sequencia = n
        <5>1. PICK i \in Jobs : jobs[i].original = o /\ jobs[i].sequencia = n
          BY <3>2, <4>1
        <5>2. jobs[j].original # o
          BY <1>3 DEF PrintInv, Vazias, NoJob, Jobs
        <5> QED BY <1>5, <5>1, <5>2
      <4> QED BY <1>5, <3>1, <3>2, <4>1, <4>2
    <3> QED BY <3>3, <3>4
  <2> QED BY <2>1 DEF SecondCopiesCounted
<1>8. /\ jobs'[j].status = "QUEUED" /\ jobs'[j].attempts = 0 /\ jobs'[j].secondCopyCount = 0
      /\ \A i \in Jobs \ {j} :
           /\ jobs'[i].status = jobs[i].status /\ jobs'[i].attempts = jobs[i].attempts
           /\ jobs'[i].original = jobs[i].original
           /\ jobs'[i].sequencia = jobs[i].sequencia
           /\ jobs'[i].secondCopyCount <= jobs[i].secondCopyCount + 1
           /\ jobs[i].status = "AUSENTE" =>
                jobs'[i].secondCopyCount = jobs[i].secondCopyCount
  <2>1. \A i \in Jobs : jobs[i].secondCopyCount \in 0..NumJobs
    BY JobFields DEF PrintInv
  <2>2. \A n \in 0..NumJobs : n <= n + 1
    BY Numbers
  <2> QED BY <1>1, <1>5, <2>1, <2>2
<1> QED BY <1>3, <1>5, <1>7, <1>8, RowCreated

(* The new copy takes the number after the last one, so its dedup key is free. *)
LEMMA ReprintKeeps ==
  ASSUME PrintInv, NEW j \in Jobs, NEW o \in Jobs, ReprintSecondCopy(j, o)
  PROVE  PrintInv'
<1> DEFINE c == jobs[o].secondCopyCount
           row == [NovoJob(jobs[o].impressora) EXCEPT !.original = o, !.sequencia = c + 1]
<1>1. /\ PrintTypeOK /\ jobs \in [Jobs -> PrintJobRecord]
      /\ Livre /\ Proximo(j) /\ jobs[j].status = "AUSENTE"
      /\ jobs[o].status # "AUSENTE" /\ o # j
      /\ jobs' = [EnqueueRow(jobs, j, row) EXCEPT ![o].secondCopyCount = @ + 1]
      /\ UNCHANGED <<papel, pedidos, repetir, ciclo, pulso>>
  BY DEF ReprintSecondCopy, Proximo, CreateSecondCopy, PrintInv, PrintTypeOK
<1>2. c \in Nat /\ c + 1 \in 0..NumJobs
  <2>1. c \in 0..NumJobs /\ NumJobs \in Nat
    BY <1>1, JobFields, Numbers
  <2>2. j \in 1..NumJobs /\ c <= j - 1
    BY <1>1, NextRow
  <2> QED BY <2>1, <2>2
<1>3. /\ row \in PrintJobRecord /\ row.status = "QUEUED" /\ row.attempts = 0
      /\ row.secondCopyCount = 0 /\ row.original = o /\ row.sequencia = c + 1
  <2> DEFINE base == NovoJob(jobs[o].impressora)
  <2>1. /\ base \in PrintJobRecord /\ base.status = "QUEUED" /\ base.attempts = 0
        /\ base.secondCopyCount = 0
    BY <1>1, JobFields, NewJobFields
  <2> HIDE DEF base
  <2>2. row = [base EXCEPT !.original = o, !.sequencia = c + 1]
    BY DEF base
  <2> HIDE DEF c, row
  <2> QED BY <1>2, <2>1, <2>2 DEF PrintJobRecord
<1>4. /\ \A n \in 1..c : \E i \in Jobs : jobs[i].original = o /\ jobs[i].sequencia = n
      /\ \A i, l \in Jobs :
           jobs[i].original = o /\ jobs[l].original = o =>
             /\ jobs[i].sequencia \in 1..c
             /\ jobs[i].sequencia = jobs[l].sequencia => i = l
  BY DEF PrintInv, SecondCopiesCounted
<1> DEFINE velho == [jobs[o] EXCEPT !.secondCopyCount = c + 1]
<1>5. /\ velho \in PrintJobRecord /\ velho.secondCopyCount = c + 1
      /\ velho.status = jobs[o].status /\ velho.attempts = jobs[o].attempts
      /\ velho.original = jobs[o].original /\ velho.sequencia = jobs[o].sequencia
  <2>1. jobs[o] \in PrintJobRecord
    BY <1>1
  <2> HIDE DEF c
  <2> QED BY <1>2, <2>1 DEF PrintJobRecord
<1>6. ~\E i \in Jobs : SameDedupKey(jobs[i], row)
  <2>1. ASSUME NEW i \in Jobs, jobs[i].original = o, jobs[i].sequencia = c + 1
        PROVE  FALSE
    <3>1. c + 1 \in 1..c
      BY <1>4, <2>1
    <3> HIDE DEF c
    <3> QED BY <1>2, <3>1
  <2> QED BY <1>3, <2>1 DEF SameDedupKey
<1>7. jobs' = [[jobs EXCEPT ![j] = row] EXCEPT ![o] = velho]
  <2>1. EnqueueRow(jobs, j, row) = [jobs EXCEPT ![j] = row]
    BY <1>6 DEF EnqueueRow
  <2>2. [jobs EXCEPT ![j] = row][o] = jobs[o]
    BY <1>1
  <2> QED BY <1>1, <2>1, <2>2
<1> HIDE DEF c, row, velho
<1>8. /\ jobs' \in [Jobs -> PrintJobRecord] /\ jobs'[j] = row /\ jobs'[o] = velho
      /\ \A i \in Jobs : i # j /\ i # o => jobs'[i] = jobs[i]
  <2> DEFINE meio == [jobs EXCEPT ![j] = row]
  <2>1. j \in Jobs /\ o \in Jobs /\ j # o /\ jobs \in [Jobs -> PrintJobRecord]
    BY <1>1
  <2>2. /\ meio \in [Jobs -> PrintJobRecord] /\ meio[j] = row
        /\ \A i \in Jobs : i # j => meio[i] = jobs[i]
    BY <1>3, <2>1
  <2>3. jobs' = [meio EXCEPT ![o] = velho]
    BY <1>7
  <2> HIDE DEF meio
  <2>4. /\ jobs' \in [Jobs -> PrintJobRecord] /\ jobs'[o] = velho
        /\ \A i \in Jobs : i # o => jobs'[i] = meio[i]
    BY <1>5, <2>1, <2>2, <2>3
  <2> QED BY <2>1, <2>2, <2>4
<1>9. jobs[j].secondCopyCount = 0 /\ \A i \in Jobs : jobs[i].original # j
  BY <1>1, NoCopyYet
<1>10. SecondCopiesCounted'
  <2>1. ASSUME NEW x \in Jobs
        PROVE  /\ \A n \in 1..jobs'[x].secondCopyCount :
                    \E i \in Jobs : jobs'[i].original = x /\ jobs'[i].sequencia = n
               /\ \A i, l \in Jobs :
                    jobs'[i].original = x /\ jobs'[l].original = x =>
                      /\ jobs'[i].sequencia \in 1..jobs'[x].secondCopyCount
                      /\ jobs'[i].sequencia = jobs'[l].sequencia => i = l
    <3>1. /\ \A i \in Jobs : i # j => jobs'[i].original = jobs[i].original
                                        /\ jobs'[i].sequencia = jobs[i].sequencia
          /\ jobs'[j].original = o /\ jobs'[j].sequencia = c + 1
          /\ jobs[j].original # x
      <4>1. jobs[j].original = NoJob
        BY <1>1 DEF PrintInv, Vazias
      <4> QED BY <1>3, <1>5, <1>8, <4>1 DEF NoJob, Jobs
    <3>2. CASE x = j
      <4>1. \A i \in Jobs : jobs'[i].original # x
        BY <1>1, <1>9, <3>1, <3>2
      <4>2. jobs'[x].secondCopyCount = 0
        BY <1>3, <1>8, <3>2
      <4> QED BY <4>1, <4>2
    <3>3. CASE x = o
      <4>1. jobs'[x].secondCopyCount = c + 1 /\ x # j
        BY <1>1, <1>5, <1>8, <3>3
      <4>2. \A n \in 1..(c + 1) : n \in 1..c \/ n = c + 1
        BY <1>2
      <4>3. \A n \in 1..c : n \in 1..(c + 1) /\ n # c + 1
        BY <1>2
      <4>4. c + 1 \in 1..(c + 1)
        BY <1>2
      <4>5. ASSUME NEW n \in 1..(c + 1)
            PROVE  \E i \in Jobs : jobs'[i].original = x /\ jobs'[i].sequencia = n
        <5>1. CASE n = c + 1
          BY <3>1, <3>3, <5>1
        <5>2. CASE n \in 1..c
          <6>1. PICK i \in Jobs : jobs[i].original = o /\ jobs[i].sequencia = n
            BY <1>4, <5>2
          <6> QED BY <3>1, <3>3, <6>1
        <5> QED BY <4>2, <5>1, <5>2
      <4>6. ASSUME NEW i \in Jobs, NEW l \in Jobs,
                   jobs'[i].original = x, jobs'[l].original = x
            PROVE  /\ jobs'[i].sequencia \in 1..(c + 1)
                   /\ jobs'[i].sequencia = jobs'[l].sequencia => i = l
        <5>1. \A m \in Jobs \ {j} : jobs'[m].original = x =>
                jobs[m].original = o /\ jobs[m].sequencia \in 1..c
          BY <1>4, <3>1, <3>3
        <5>2. CASE i = j
          <6>1. l # j => jobs'[l].sequencia # c + 1
            BY <3>1, <4>3, <4>6, <5>1
          <6> QED BY <3>1, <4>4, <5>2, <6>1
        <5>3. CASE i # j
          <6>1. jobs'[i].sequencia = jobs[i].sequencia /\ jobs[i].sequencia \in 1..c
                /\ jobs[i].original = o
            BY <3>1, <4>6, <5>1, <5>3
          <6>2. l # j => jobs'[l].sequencia = jobs[l].sequencia /\ jobs[l].original = o
            BY <3>1, <4>6, <5>1
          <6>3. l = j => jobs'[l].sequencia # jobs'[i].sequencia
            BY <3>1, <4>3, <6>1
          <6> QED BY <1>4, <4>3, <6>1, <6>2, <6>3
        <5> QED BY <5>2, <5>3
      <4> QED BY <4>1, <4>5, <4>6
    <3>4. CASE x # j /\ x # o
      <4>1. jobs'[x] = jobs[x]
        BY <1>8, <3>4
      <4>2. /\ \A n \in 1..jobs[x].secondCopyCount :
                 \E i \in Jobs : jobs[i].original = x /\ jobs[i].sequencia = n
            /\ \A i, l \in Jobs :
                 jobs[i].original = x /\ jobs[l].original = x =>
                   /\ jobs[i].sequencia \in 1..jobs[x].secondCopyCount
                   /\ jobs[i].sequencia = jobs[l].sequencia => i = l
        BY DEF PrintInv, SecondCopiesCounted
      <4>3. \A i \in Jobs : jobs'[i].original = x <=> i # j /\ jobs[i].original = x
        BY <3>1, <3>4
      <4>4. \A i \in Jobs : jobs[i].original = x => i # j
        BY <3>1
      <4> QED BY <3>1, <4>1, <4>2, <4>3, <4>4
    <3> QED BY <3>2, <3>3, <3>4
  <2> QED BY <2>1 DEF SecondCopiesCounted
<1>11. /\ jobs'[j].status = "QUEUED" /\ jobs'[j].attempts = 0 /\ jobs'[j].secondCopyCount = 0
       /\ \A i \in Jobs \ {j} :
            /\ jobs'[i].status = jobs[i].status /\ jobs'[i].attempts = jobs[i].attempts
            /\ jobs'[i].original = jobs[i].original
            /\ jobs'[i].sequencia = jobs[i].sequencia
            /\ jobs'[i].secondCopyCount <= jobs[i].secondCopyCount + 1
            /\ jobs[i].status = "AUSENTE" =>
                 jobs'[i].secondCopyCount = jobs[i].secondCopyCount
  <2>1. \A i \in Jobs : jobs[i].secondCopyCount \in 0..NumJobs
    BY <1>1, JobFields
  <2>2. \A n \in 0..NumJobs : n <= n + 1
    BY Numbers
  <2>3. c + 1 <= jobs[o].secondCopyCount + 1
    BY <1>2 DEF c
  <2>4. \A i \in Jobs \ {j, o} : jobs'[i] = jobs[i]
    BY <1>8
  <2> QED BY <1>1, <1>3, <1>5, <1>8, <2>1, <2>2, <2>3, <2>4
<1> QED BY <1>1, <1>8, <1>10, <1>11, RowCreated


-----------------------------------------------------------------------------
(* The theorems *)

(* The rows at the start: the jobs of the days before, and the rows to come. *)
LEMMA FirstRows ==
  ASSUME PrintInit, NEW j \in Jobs
  PROVE  /\ jobs \in [Jobs -> PrintJobRecord]
         /\ jobs[j].status = IF j <= Antigos THEN "DONE" ELSE "AUSENTE"
         /\ jobs[j].attempts = IF j <= Antigos THEN 1 ELSE 0
         /\ jobs[j].secondCopyCount = 0 /\ jobs[j].original = NoJob
<1>1. ASSUME NEW p \in Impressoras
      PROVE  /\ JobImpresso(p) \in PrintJobRecord /\ JobImpresso(p).status = "DONE"
             /\ JobImpresso(p).attempts = 1 /\ JobImpresso(p).secondCopyCount = 0
             /\ JobImpresso(p).original = NoJob
  <2> DEFINE base == NovoJob(p)
  <2>1. /\ base \in PrintJobRecord /\ base.attempts = 0
        /\ base.secondCopyCount = 0 /\ base.original = NoJob
    BY <1>1, NewJobFields
  <2> HIDE DEF base
  <2> DEFINE r == JobImpresso(p)
  <2>2. r = [base EXCEPT !.status = "DONE", !.attempts = 1]
    BY DEF base, JobImpresso
  <2>3. "DONE" \in PrintJobStatus \cup {"AUSENTE"} /\ 1 \in Nat
    BY DEF PrintJobStatus
  <2> HIDE DEF r
  <2>4. r \in PrintJobRecord
    BY <2>1, <2>2, <2>3 DEF PrintJobRecord
  <2>5. /\ r.status = "DONE" /\ r.attempts = 1
        /\ r.secondCopyCount = base.secondCopyCount /\ r.original = base.original
    BY <2>1, <2>2 DEF PrintJobRecord
  <2> QED BY <2>1, <2>4, <2>5 DEF r
<1> DEFINE vazio == [NovoJob(SemImpressora) EXCEPT !.status = "AUSENTE"]
<1>2. /\ vazio \in PrintJobRecord /\ vazio.status = "AUSENTE" /\ vazio.attempts = 0
      /\ vazio.secondCopyCount = 0 /\ vazio.original = NoJob
  <2> DEFINE base == NovoJob(SemImpressora)
  <2>1. /\ base \in PrintJobRecord /\ base.attempts = 0
        /\ base.secondCopyCount = 0 /\ base.original = NoJob
    BY NewJobFields
  <2> HIDE DEF base
  <2>2. vazio = [base EXCEPT !.status = "AUSENTE"]
    BY DEF base
  <2> HIDE DEF vazio
  <2> QED BY <2>1, <2>2 DEF PrintJobRecord
<1>3. PICK impressora \in [1..Antigos -> Impressoras] :
        jobs = [i \in Jobs |-> IF i <= Antigos THEN JobImpresso(impressora[i]) ELSE vazio]
  BY DEF PrintInit
<1> HIDE DEF vazio
<1>4. \A i \in Jobs : i <= Antigos => impressora[i] \in Impressoras
  BY Numbers, <1>3 DEF Jobs
<1>5. \A i \in Jobs : jobs[i] \in PrintJobRecord
  BY <1>1, <1>2, <1>3, <1>4
<1>6. jobs \in [Jobs -> PrintJobRecord]
  BY <1>3, <1>5
<1>7. CASE j <= Antigos
  <2>1. jobs[j] = JobImpresso(impressora[j]) /\ impressora[j] \in Impressoras
    BY <1>3, <1>4, <1>7
  <2> QED BY <1>1, <1>6, <1>7, <2>1
<1>8. CASE ~(j <= Antigos)
  <2>1. jobs[j] = vazio
    BY <1>3, <1>8
  <2> QED BY <1>2, <1>6, <1>8, <2>1
<1> QED BY <1>7, <1>8

LEMMA PrintStarts ==
  ASSUME PrintInit
  PROVE  PrintInv
<1>1. ciclo \in Ciclo /\ ciclo.op = "OCIOSO"
  BY Numbers DEF PrintInit, Ocioso, Ciclo
<1>2. /\ papel = 1..Antigos /\ pedidos = [j \in Jobs |-> 0] /\ repetir = {}
      /\ pulso = FALSE /\ Antigos \in 0..NumJobs /\ NumJobs \in Nat \ {0}
  BY PrintAssumption DEF PrintInit
<1>3. PrintTypeOK
  <2>1. jobs \in [Jobs -> PrintJobRecord]
    <3>1. 1 \in Jobs
      BY <1>2 DEF Jobs
    <3> QED BY <3>1, FirstRows
  <2>2. papel \subseteq Jobs /\ pedidos \in [Jobs -> Nat]
    BY <1>2 DEF Jobs
  <2> QED BY <1>1, <1>2, <2>1, <2>2 DEF PrintTypeOK
<1>4. EmOrdem
  <2>1. \A j \in Jobs : jobs[j].status # "AUSENTE" <=> j <= Antigos
    BY FirstRows
  <2>2. \A j \in Jobs : jobs[j].secondCopyCount <= Antigos
    BY <1>2, FirstRows
  <2> QED BY <1>2, <2>1, <2>2 DEF EmOrdem
<1>5. Vazias
  BY FirstRows DEF Vazias
<1>6. CicloInv
  BY <1>1 DEF CicloInv
<1>7. PaperMatchesStatus
  <2>1. ASSUME NEW j \in Jobs
        PROVE  (j \in papel <=> j <= Antigos) /\ (jobs[j].status = "DONE" <=> j <= Antigos)
    <3>1. j \in papel <=> j <= Antigos
      BY <1>2 DEF Jobs
    <3> QED BY <3>1, FirstRows
  <2> QED BY <1>1, <2>1 DEF PaperMatchesStatus
<1>8. RetriesStop
  <2>1. ASSUME NEW j \in Jobs
        PROVE  /\ jobs[j].status \notin {"WAITING_PRINTER", "QUEUED", "PRINTING"}
               /\ jobs[j].attempts \in {0, 1} /\ pedidos[j] = 0
    BY <1>2, FirstRows
  <2>2. \A j \in Jobs : jobs[j].attempts <= MaxAttempts + pedidos[j]
    BY <2>1, Numbers
  <2> QED BY <2>1, <2>2 DEF RetriesStop
<1>9. SecondCopiesCounted
  <2>1. \A o, j \in Jobs : jobs[j].original # o /\ jobs[j].secondCopyCount = 0
    BY FirstRows DEF NoJob, Jobs
  <2> QED BY <2>1 DEF SecondCopiesCounted
<1> QED BY <1>3, <1>4, <1>5, <1>6, <1>7, <1>8, <1>9 DEF PrintInv

LEMMA PrintStutters ==
  ASSUME PrintInv, UNCHANGED printVars
  PROVE  PrintInv'
BY DEF printVars, PrintInv, PrintTypeOK, EmOrdem, Vazias, CicloInv, PaperMatchesStatus,
       RetriesStop, SecondCopiesCounted

LEMMA StepKeeps ==
  ASSUME PrintInv, Passo
  PROVE  PrintInv'
<1>1. CASE ClaimNext
  BY <1>1, ClaimKeeps
<1>2. CASE NoRoute
  BY <1>2, NoRouteKeeps
<1>3. CASE PrinterOffline
  <2>1. ciclo.op = "TOMADO" /\ HandleDriverFailure(TRUE) /\ ciclo' = Seguinte
        /\ UNCHANGED <<papel, pedidos, repetir, pulso>>
    BY <1>3 DEF PrinterOffline
  <2>2. TRUE \in BOOLEAN
    OBVIOUS
  <2> QED BY <2>1, <2>2, FailureKeeps
<1>4. CASE PrintFails
  <2>1. PICK retryable \in BOOLEAN : HandleDriverFailure(retryable)
    BY <1>4 DEF PrintFails
  <2>2. ciclo.op = "TOMADO" /\ ciclo' = Seguinte
        /\ UNCHANGED <<papel, pedidos, repetir, pulso>>
    BY <1>4 DEF PrintFails
  <2> QED BY <2>1, <2>2, FailureKeeps
<1>5. CASE PrintText
  BY <1>5, PrintKeeps
<1>6. CASE RecordDone
  BY <1>6, DoneKeeps
<1>7. CASE TicketFails
  BY <1>7, TicketFailsKeeps
<1> QED BY <1>1, <1>2, <1>3, <1>4, <1>5, <1>6, <1>7 DEF Passo

LEMMA PrintInductive ==
  ASSUME PrintInv, [PrintNext]_printVars
  PROVE  PrintInv'
<1>1. ASSUME NEW j \in Jobs, NEW setor \in Setores, EnqueueTicket(j, setor)
      PROVE  PrintInv'
  BY <1>1, EnqueueTicketKeeps
<1>2. ASSUME NEW j \in Jobs, NEW o \in Jobs, ReprintSecondCopy(j, o)
      PROVE  PrintInv'
  BY <1>2, ReprintKeeps
<1>3. ASSUME NEW j \in Jobs, ReprocessJob(j)
      PROVE  PrintInv'
  BY <1>3, ReprocessKeeps
<1>4. CASE Worker
  <2>1. BeginCycle /\ pulso' \in BOOLEAN
    BY <1>4 DEF Worker
  <2> QED BY <2>1, BeginKeeps
<1>5. CASE ProcessQueue
  <2>1. BeginCycle /\ pulso' \in BOOLEAN
    BY <1>5 DEF ProcessQueue, PrintInv, PrintTypeOK
  <2> QED BY <2>1, BeginKeeps
<1>6. CASE Passo
  BY <1>6, StepKeeps
<1>7. CASE Crash
  BY <1>7, CrashKeeps
<1>8. CASE Tick
  BY <1>8, TickKeeps
<1>9. CASE UNCHANGED printVars
  BY <1>9, PrintStutters
<1> QED BY <1>1, <1>2, <1>3, <1>4, <1>5, <1>6, <1>7, <1>8, <1>9 DEF PrintNext

LEMMA PrintInvariant == PrintSpec => []PrintInv
<1>1. PrintInit => PrintInv
  BY PrintStarts
<1>2. PrintInv /\ [PrintNext]_printVars => PrintInv'
  BY PrintInductive
<1> QED BY <1>1, <1>2, PTL DEF PrintSpec

\* The rows of print_jobs, the cycle and the history keep their types.
THEOREM PrintTypeCorrect == PrintSpec => []PrintTypeOK
<1>1. PrintInv => PrintTypeOK
  BY DEF PrintInv
<1> QED BY <1>1, PrintInvariant, PTL

\* Whatever dies, fails or is asked again, and however many jobs there are: what
\* the table says was printed is on paper, and what is on paper is recorded, or just
\* being recorded, or may be printed once more because somebody asked or the record
\* was cut off.
THEOREM PrintedOnce == PrintSpec => []PaperMatchesStatus
<1>1. PrintInv => PaperMatchesStatus
  BY DEF PrintInv
<1> QED BY <1>1, PrintInvariant, PTL

\* The attempts that the table counts are bounded by MAX_AUTOMATIC_ATTEMPTS and
\* the requests of the operator; the tries that an abort cuts off are not counted.
THEOREM AttemptsAreBounded == PrintSpec => []RetriesStop
<1>1. PrintInv => RetriesStop
  BY DEF PrintInv
<1> QED BY <1>1, PrintInvariant, PTL

\* createSecondCopy never loses a copy to the dedup key of another: its number is
\* always the next one, and the original counts exactly the copies there are.
THEOREM CopiesAreCounted == PrintSpec => []SecondCopiesCounted
<1>1. PrintInv => SecondCopiesCounted
  BY DEF PrintInv
<1> QED BY <1>1, PrintInvariant, PTL

-----------------------------------------------------------------------------
(* Jobs as tickets *)

NoPapel(j) == ciclo.op = "IMPRESSO" /\ ciclo.job = j

LEMMA TicketRows ==
  Estados = [j \in Jobs |-> Estados[j]]
BY DEF Estados

LEMMA TicketAt ==
  ASSUME NEW j \in Jobs
  PROVE  /\ jobs[j].status = "AUSENTE" => Estados[j] = "NENHUM"
         /\ jobs[j].status = "DONE" => Estados[j] = "FEITO"
         /\ jobs[j].status = "NEEDS_ATTENTION" => Estados[j] = "ATENCAO"
         /\ jobs[j].status \in {"QUEUED", "PRINTING", "WAITING_PRINTER"} =>
              Estados[j] = IF NoPapel(j) THEN "PAPEL" ELSE "ESPERA"
BY DEF Estados, EstadoDe, NoPapel

LEMMA TicketThen ==
  ASSUME NEW j \in Jobs
  PROVE  /\ jobs'[j].status = "AUSENTE" => Estados'[j] = "NENHUM"
         /\ jobs'[j].status = "DONE" => Estados'[j] = "FEITO"
         /\ jobs'[j].status = "NEEDS_ATTENTION" => Estados'[j] = "ATENCAO"
         /\ jobs'[j].status \in {"QUEUED", "PRINTING", "WAITING_PRINTER"} =>
              Estados'[j] = IF NoPapel(j)' THEN "PAPEL" ELSE "ESPERA"
BY DEF Estados, EstadoDe, NoPapel

LEMMA SameTicket ==
  ASSUME NEW j \in Jobs, jobs'[j].status = jobs[j].status, NoPapel(j)' <=> NoPapel(j)
  PROVE  Estados'[j] = Estados[j]
BY DEF Estados, EstadoDe, NoPapel

(* One ticket goes from one state to another. *)
LEMMA TicketMoves ==
  ASSUME NEW j \in Jobs, NEW de, NEW para, Estados[j] = de, Estados'[j] = para,
         \A i \in Jobs : i # j => Estados'[i] = Estados[i]
  PROVE  Ticket!Passa(j, de, para)
<1>1. Estados' = [i \in Jobs |-> Estados'[i]]
  BY DEF Estados
<1> QED BY <1>1, TicketRows DEF Ticket!Passa

LEMMA TicketsStay ==
  ASSUME \A i \in Jobs : Estados'[i] = Estados[i],
         papel' = papel, pedidos' = pedidos, repetir' = repetir
  PROVE  UNCHANGED Ticket!impressaoVars
<1>1. Estados' = [i \in Jobs |-> Estados'[i]]
  BY DEF Estados
<1>2. Estados' = Estados
  BY <1>1, TicketRows
<1> QED BY <1>2 DEF Ticket!impressaoVars

(* What the attempt of the job in hand comes to: recorded, given up, or waiting *)
(* as before.                                                                 *)
LEMMA OutcomeRecords ==
  ASSUME PrintInv, ciclo.op \in {"TOMADO", "IMPRESSO"},
         NEW status \in {"WAITING_PRINTER", "NEEDS_ATTENTION", "DONE"},
         NEW retry \in 0..(15 * Minuto),
         RegisterAttempt(ciclo.job, status, 1, retry),
         status = "DONE" <=> ciclo.op = "IMPRESSO",
         ciclo' = Seguinte, UNCHANGED <<papel, pedidos, repetir, pulso>>
  PROVE  Ticket!ImpressaoNext \/ UNCHANGED Ticket!impressaoVars
<1>1. PrintTypeOK /\ CicloInv
  BY DEF PrintInv
<1>2. PICK j \in Jobs : j = ciclo.job
  BY <1>1 DEF CicloInv
<1>3. jobs[j].status = "PRINTING"
  BY <1>1, <1>2 DEF CicloInv
<1>4. jobs'[j].status = status /\ \A i \in Jobs : i # j => jobs'[i] = jobs[i]
  <2>1. RegisterAttempt(j, status, 1, retry) /\ status \in PrintJobStatus
    BY <1>2 DEF PrintJobStatus
  <2> QED BY <1>1, <2>1, AttemptEffect
<1>5. \A i \in Jobs : ~NoPapel(i)'
  <2>1. Seguinte.op # "IMPRESSO"
    BY <1>1, TurnTypes
  <2> QED BY <2>1 DEF NoPapel
<1>6. \A i \in Jobs : i # j => ~NoPapel(i)
  BY <1>2 DEF NoPapel
<1>7. \A i \in Jobs : i # j => Estados'[i] = Estados[i]
  BY <1>4, <1>5, <1>6, SameTicket
<1>8. papel' = papel /\ repetir' = repetir
  OBVIOUS
<1>9. CASE status = "WAITING_PRINTER"
  <2>1. ~NoPapel(j)
    BY <1>9 DEF NoPapel
  <2>2. Estados[j] = "ESPERA" /\ Estados'[j] = "ESPERA"
    BY <1>3, <1>4, <1>5, <1>9, <2>1, TicketAt, TicketThen
  <2> QED BY <1>7, <2>2, TicketsStay
<1>10. CASE status = "NEEDS_ATTENTION"
  <2>1. ~NoPapel(j)
    BY <1>10 DEF NoPapel
  <2>2. Estados[j] = "ESPERA" /\ Estados'[j] = "ATENCAO"
    BY <1>3, <1>4, <1>10, <2>1, TicketAt, TicketThen
  <2>3. Ticket!Desiste(j)
    BY <1>7, <1>8, <2>2, TicketMoves DEF Ticket!Desiste
  <2> QED BY <2>3 DEF Ticket!ImpressaoNext
<1>11. CASE status = "DONE"
  <2>1. NoPapel(j)
    BY <1>2, <1>11 DEF NoPapel
  <2>2. Estados[j] = "PAPEL" /\ Estados'[j] = "FEITO"
    BY <1>3, <1>4, <1>11, <2>1, TicketAt, TicketThen
  <2>3. Ticket!Registra(j)
    BY <1>7, <1>8, <2>2, TicketMoves DEF Ticket!Registra
  <2> QED BY <2>3 DEF Ticket!ImpressaoNext
<1> QED BY <1>9, <1>10, <1>11

LEMMA FailureRecords ==
  ASSUME PrintInv, ciclo.op = "TOMADO", NEW retryable \in BOOLEAN,
         HandleDriverFailure(retryable), ciclo' = Seguinte,
         UNCHANGED <<papel, pedidos, repetir, pulso>>
  PROVE  Ticket!ImpressaoNext \/ UNCHANGED Ticket!impressaoVars
<1>1. ciclo.job \in Jobs /\ jobs[ciclo.job].attempts \in Nat
  BY JobFields DEF PrintInv, CicloInv
<1>2. ComputeRetryAt(jobs[ciclo.job].attempts) \in 0..(15 * Minuto) /\ 0 \in 0..(15 * Minuto)
  BY <1>1, RetryBound, Numbers
<1>3. CASE retryable /\ jobs[ciclo.job].attempts + 1 < MaxAttempts
  <2>1. RegisterAttempt(ciclo.job, "WAITING_PRINTER", 1,
                        ComputeRetryAt(jobs[ciclo.job].attempts))
    BY <1>3 DEF HandleDriverFailure
  <2> QED BY <1>2, <2>1, OutcomeRecords
<1>4. CASE ~(retryable /\ jobs[ciclo.job].attempts + 1 < MaxAttempts)
  <2>1. RegisterAttempt(ciclo.job, "NEEDS_ATTENTION", 1, 0)
    BY <1>4 DEF HandleDriverFailure
  <2> QED BY <1>2, <2>1, OutcomeRecords
<1> QED BY <1>3, <1>4

(* The job that is printed waits, and has no paper yet unless it may be printed  *)
(* again: this is where PaperMatchesStatus is needed.                          *)
LEMMA PrintPrints ==
  ASSUME PrintInv, PrintText
  PROVE  Ticket!ImpressaoNext
<1>1. /\ PrintTypeOK /\ CicloInv /\ PaperMatchesStatus
      /\ ciclo.op = "TOMADO" /\ ciclo \in Ciclo
      /\ papel' = papel \cup {ciclo.job} /\ repetir' = repetir \ {ciclo.job}
      /\ ciclo' = [ciclo EXCEPT !.op = "IMPRESSO"] /\ jobs' = jobs
  BY DEF PrintInv, PrintText, PrintTypeOK
<1>2. PICK j \in Jobs : j = ciclo.job
  BY <1>1 DEF CicloInv
<1>3. jobs[j].status = "PRINTING"
  BY <1>1, <1>2 DEF CicloInv
<1>4. ciclo'.op = "IMPRESSO" /\ ciclo'.job = j
  BY <1>1, <1>2 DEF Ciclo
<1>5. NoPapel(j)' /\ \A i \in Jobs : ~NoPapel(i) /\ (i # j => ~NoPapel(i)')
  BY <1>1, <1>4 DEF NoPapel
<1>6. Estados[j] = "ESPERA" /\ Estados'[j] = "PAPEL"
  BY <1>1, <1>3, <1>5, TicketAt, TicketThen
<1>7. \A i \in Jobs : i # j => Estados'[i] = Estados[i]
  BY <1>1, <1>5, SameTicket
<1>8. j \notin papel \/ j \in repetir
  BY <1>1, <1>3 DEF PaperMatchesStatus
<1>9. papel' = papel \cup {j} /\ repetir' = repetir \ {j}
  BY <1>1, <1>2
<1>10. Ticket!Imprime(j)
  BY <1>6, <1>7, <1>8, <1>9, TicketMoves DEF Ticket!Imprime
<1> QED BY <1>10 DEF Ticket!ImpressaoNext

(* No paper is left unrecorded, and no ticket gets another state. *)
LEMMA QuietStep ==
  ASSUME \A i \in Jobs : ~NoPapel(i) /\ ~NoPapel(i)',
         \A i \in Jobs : \/ jobs'[i].status = jobs[i].status
                         \/ {jobs[i].status, jobs'[i].status} \subseteq
                              {"QUEUED", "PRINTING", "WAITING_PRINTER"},
         papel' = papel, pedidos' = pedidos, repetir' = repetir
  PROVE  UNCHANGED Ticket!impressaoVars
<1>1. ASSUME NEW i \in Jobs
      PROVE  Estados'[i] = Estados[i]
  <2>1. CASE jobs'[i].status = jobs[i].status
    <3>1. NoPapel(i)' <=> NoPapel(i)
      OBVIOUS
    <3> QED BY <2>1, <3>1, SameTicket
  <2>2. CASE {jobs[i].status, jobs'[i].status} \subseteq
               {"QUEUED", "PRINTING", "WAITING_PRINTER"}
    <3>1. Estados[i] = "ESPERA" /\ Estados'[i] = "ESPERA"
      BY <2>2, TicketAt, TicketThen
    <3> QED BY <3>1
  <2> QED BY <2>1, <2>2
<1> QED BY <1>1, TicketsStay

LEMMA BeginPrints ==
  ASSUME PrintInv, BeginCycle
  PROVE  UNCHANGED Ticket!impressaoVars
<1>1. /\ ciclo.op = "OCIOSO" /\ ciclo'.op = "PROXIMO"
      /\ jobs' = jobs /\ papel' = papel /\ pedidos' = pedidos /\ repetir' = repetir
  BY DEF BeginCycle, Livre, Ocioso
<1>2. \A i \in Jobs : ~NoPapel(i) /\ ~NoPapel(i)'
  BY <1>1 DEF NoPapel
<1>3. \A i \in Jobs : jobs'[i].status = jobs[i].status
  BY <1>1
<1> QED BY <1>1, <1>2, <1>3, QuietStep

LEMMA ClaimPrints ==
  ASSUME PrintInv, ClaimNext
  PROVE  UNCHANGED Ticket!impressaoVars
<1>1. /\ PrintTypeOK /\ ciclo.op = "PROXIMO" /\ ciclo \in Ciclo
      /\ jobs \in [Jobs -> PrintJobRecord]
      /\ papel' = papel /\ pedidos' = pedidos /\ repetir' = repetir
  BY DEF PrintInv, ClaimNext, PrintTypeOK
<1>2. \A i \in Jobs : ~NoPapel(i)
  BY <1>1 DEF NoPapel
<1>3. CASE ciclo' = Ocioso /\ UNCHANGED jobs
  <2>1. \A i \in Jobs : ~NoPapel(i)'
    BY <1>3 DEF NoPapel, Ocioso
  <2>2. \A i \in Jobs : jobs'[i].status = jobs[i].status
    BY <1>3
  <2> QED BY <1>1, <1>2, <2>1, <2>2, QuietStep
<1>4. ASSUME NEW j \in Jobs, Oldest(j),
             jobs' = [jobs EXCEPT ![j].status = "PRINTING", ![j].lease = Lease],
             ciclo' = [ciclo EXCEPT !.op = "TOMADO", !.job = j, !.restam = @ - 1]
      PROVE  UNCHANGED Ticket!impressaoVars
  <2> DEFINE r == [jobs[j] EXCEPT !.status = "PRINTING", !.lease = Lease]
  <2>1. jobs' = [jobs EXCEPT ![j] = r]
    BY <1>1, <1>4
  <2>2. r.status = "PRINTING"
    <3>1. jobs[j] \in PrintJobRecord
      BY <1>1
    <3> QED BY <3>1 DEF PrintJobRecord
  <2>3. jobs[j].status \in {"QUEUED", "PRINTING", "WAITING_PRINTER"}
    BY <1>4 DEF Oldest, Ready
  <2>4. ciclo'.op = "TOMADO"
    BY <1>1, <1>4 DEF Ciclo
  <2> HIDE DEF r
  <2>5. jobs'[j].status = "PRINTING" /\ \A i \in Jobs : i # j => jobs'[i] = jobs[i]
    BY <1>1, <2>1, <2>2
  <2>6. \A i \in Jobs : ~NoPapel(i)'
    BY <2>4 DEF NoPapel
  <2>7. \A i \in Jobs : \/ jobs'[i].status = jobs[i].status
                        \/ {jobs[i].status, jobs'[i].status} \subseteq
                             {"QUEUED", "PRINTING", "WAITING_PRINTER"}
    BY <2>3, <2>5
  <2> QED BY <1>1, <1>2, <2>6, <2>7, QuietStep
<1> QED BY <1>3, <1>4 DEF ClaimNext

LEMMA TicketFailsPrints ==
  ASSUME PrintInv, TicketFails
  PROVE  UNCHANGED Ticket!impressaoVars
<1>1. /\ ciclo.op = "TOMADO" /\ ciclo'.op = "OCIOSO"
      /\ jobs' = jobs /\ papel' = papel /\ pedidos' = pedidos /\ repetir' = repetir
  BY DEF TicketFails, Ocioso
<1>2. \A i \in Jobs : ~NoPapel(i) /\ ~NoPapel(i)'
  BY <1>1 DEF NoPapel
<1>3. \A i \in Jobs : jobs'[i].status = jobs[i].status
  BY <1>1
<1> QED BY <1>1, <1>2, <1>3, QuietStep

LEMMA TickPrints ==
  ASSUME PrintInv, Tick
  PROVE  UNCHANGED Ticket!impressaoVars
<1>1. /\ PrintTypeOK /\ ciclo.op = "OCIOSO" /\ ciclo' = ciclo
      /\ papel' = papel /\ pedidos' = pedidos /\ repetir' = repetir
      /\ jobs' = [j \in Jobs |-> [jobs[j] EXCEPT !.lease = Passa(@), !.retry = Passa(@)]]
  BY DEF PrintInv, Tick, Livre, Ocioso
<1>2. \A i \in Jobs : ~NoPapel(i) /\ ~NoPapel(i)'
  BY <1>1 DEF NoPapel
<1>3. ASSUME NEW i \in Jobs
      PROVE  jobs'[i].status = jobs[i].status
  <2>1. jobs[i] \in PrintJobRecord
    BY <1>1, JobFields
  <2>2. jobs'[i] = [jobs[i] EXCEPT !.lease = Passa(@), !.retry = Passa(@)]
    BY <1>1
  <2> QED BY <2>1, <2>2 DEF PrintJobRecord
<1> QED BY <1>1, <1>2, <1>3, QuietStep

(* The process dies: a paper that is not recorded yet makes its ticket one that  *)
(* may be printed again.                                                      *)
LEMMA CrashPrints ==
  ASSUME PrintInv, Crash
  PROVE  Ticket!ImpressaoNext \/ UNCHANGED Ticket!impressaoVars
<1>1. /\ PrintTypeOK /\ CicloInv /\ ciclo'.op = "OCIOSO"
      /\ jobs' = jobs /\ papel' = papel /\ pedidos' = pedidos
      /\ repetir' = IF ciclo.op = "IMPRESSO" THEN repetir \cup {ciclo.job} ELSE repetir
  BY DEF PrintInv, Crash, Ocioso
<1>2. \A i \in Jobs : ~NoPapel(i)' /\ jobs'[i].status = jobs[i].status
  BY <1>1 DEF NoPapel
<1>3. CASE ciclo.op # "IMPRESSO"
  <2>1. \A i \in Jobs : ~NoPapel(i)
    BY <1>3 DEF NoPapel
  <2>2. repetir' = repetir
    BY <1>1, <1>3
  <2> QED BY <1>1, <1>2, <2>1, <2>2, QuietStep
<1>4. CASE ciclo.op = "IMPRESSO"
  <2>1. PICK j \in Jobs : j = ciclo.job
    BY <1>1, <1>4 DEF CicloInv
  <2>2. jobs[j].status = "PRINTING" /\ NoPapel(j) /\ \A i \in Jobs : i # j => ~NoPapel(i)
    BY <1>1, <1>4, <2>1 DEF CicloInv, NoPapel
  <2>3. Estados[j] = "PAPEL" /\ Estados'[j] = "ESPERA"
    BY <1>2, <2>2, TicketAt, TicketThen
  <2>4. \A i \in Jobs : i # j => Estados'[i] = Estados[i]
    BY <1>2, <2>2, SameTicket
  <2>5. repetir' = repetir \cup {j}
    BY <1>1, <1>4, <2>1
  <2>6. Ticket!Corta(j)
    BY <1>1, <2>3, <2>4, <2>5, TicketMoves DEF Ticket!Corta
  <2> QED BY <2>6 DEF Ticket!ImpressaoNext
<1> QED BY <1>3, <1>4

(* A request to print again takes the ticket up whatever has become of it. *)
LEMMA ReprocessPrints ==
  ASSUME PrintInv, NEW j \in Jobs, ReprocessJob(j)
  PROVE  Ticket!ImpressaoNext
<1>1. /\ PrintTypeOK /\ ciclo.op = "OCIOSO" /\ ciclo' = ciclo
      /\ jobs[j].status # "AUSENTE" /\ RegisterAttempt(j, "QUEUED", 0, 0)
      /\ papel' = papel /\ repetir' = repetir \cup {j}
  BY DEF PrintInv, PrintTypeOK, ReprocessJob, Livre, Ocioso
<1>2. \A i \in Jobs : ~NoPapel(i) /\ ~NoPapel(i)'
  BY <1>1 DEF NoPapel
<1>3. jobs'[j].status = "QUEUED" /\ \A i \in Jobs : i # j => jobs'[i] = jobs[i]
  <2>1. "QUEUED" \in PrintJobStatus /\ 0 \in {0, 1} /\ 0 \in 0..(15 * Minuto)
    BY Numbers DEF PrintJobStatus
  <2> QED BY <1>1, <2>1, AttemptEffect
<1>4. Estados[j] \in {"ESPERA", "FEITO", "ATENCAO"} /\ Estados'[j] = "ESPERA"
  <2>1. jobs[j].status \in PrintJobStatus \cup {"AUSENTE"}
    BY <1>1, JobFields
  <2> QED BY <1>1, <1>2, <1>3, <2>1, TicketAt, TicketThen DEF PrintJobStatus
<1>5. \A i \in Jobs : i # j => Estados'[i] = Estados[i]
  BY <1>2, <1>3, SameTicket
<1>6. Ticket!Passa(j, Estados[j], "ESPERA")
  BY <1>4, <1>5, TicketMoves
<1>7. Ticket!Pede(j)
  BY <1>1, <1>4, <1>6 DEF Ticket!Pede
<1> QED BY <1>7 DEF Ticket!ImpressaoNext

(* At most one row is created, and no other one gets another status. *)
LEMMA RowIsATicket ==
  ASSUME NEW j \in Jobs, jobs[j].status = "AUSENTE", ciclo.op = "OCIOSO",
         jobs'[j].status \in {"AUSENTE", "QUEUED"},
         \A i \in Jobs : i # j => jobs'[i].status = jobs[i].status,
         UNCHANGED <<papel, pedidos, repetir, ciclo, pulso>>
  PROVE  Ticket!ImpressaoNext \/ UNCHANGED Ticket!impressaoVars
<1>1. \A i \in Jobs : ~NoPapel(i) /\ ~NoPapel(i)'
  BY DEF NoPapel
<1>2. \A i \in Jobs : i # j => Estados'[i] = Estados[i]
  BY <1>1, SameTicket
<1>3. CASE jobs'[j].status = "AUSENTE"
  <2>1. Estados'[j] = Estados[j]
    BY <1>1, <1>3, SameTicket
  <2> QED BY <1>2, <2>1, TicketsStay
<1>4. CASE jobs'[j].status = "QUEUED"
  <2>1. Estados[j] = "NENHUM" /\ Estados'[j] = "ESPERA"
    BY <1>1, <1>4, TicketAt, TicketThen
  <2>2. Ticket!Cria(j)
    BY <1>2, <2>1, TicketMoves DEF Ticket!Cria
  <2> QED BY <2>2 DEF Ticket!ImpressaoNext
<1> QED BY <1>3, <1>4

LEMMA EnqueuePrints ==
  ASSUME PrintInv, NEW j \in Jobs, NEW setor \in Setores, EnqueueTicket(j, setor)
  PROVE  Ticket!ImpressaoNext \/ UNCHANGED Ticket!impressaoVars
<1> DEFINE row == NovoJob(ResolvePrinterTarget(setor))
<1>1. /\ jobs \in [Jobs -> PrintJobRecord] /\ ciclo.op = "OCIOSO"
      /\ jobs[j].status = "AUSENTE" /\ jobs' = EnqueueRow(jobs, j, row)
      /\ UNCHANGED <<papel, pedidos, repetir, ciclo, pulso>>
  BY DEF PrintInv, PrintTypeOK, EnqueueTicket, Proximo, Livre, Ocioso
<1>2. row.status = "QUEUED"
  BY DEF NovoJob
<1> HIDE DEF row
<1>3. jobs' = jobs \/ jobs' = [jobs EXCEPT ![j] = row]
  BY <1>1 DEF EnqueueRow
<1>4. /\ jobs'[j].status \in {"AUSENTE", "QUEUED"}
      /\ \A i \in Jobs : i # j => jobs'[i].status = jobs[i].status
  BY <1>1, <1>2, <1>3
<1> QED BY <1>1, <1>4, RowIsATicket

LEMMA ReprintPrints ==
  ASSUME PrintInv, NEW j \in Jobs, NEW o \in Jobs, ReprintSecondCopy(j, o)
  PROVE  Ticket!ImpressaoNext \/ UNCHANGED Ticket!impressaoVars
<1> DEFINE row == [NovoJob(jobs[o].impressora) EXCEPT
                     !.original = o, !.sequencia = jobs[o].secondCopyCount + 1]
           meio == EnqueueRow(jobs, j, row)
<1>1. /\ PrintTypeOK /\ jobs \in [Jobs -> PrintJobRecord] /\ ciclo.op = "OCIOSO"
      /\ jobs[j].status = "AUSENTE" /\ o # j
      /\ jobs' = [meio EXCEPT ![o].secondCopyCount = @ + 1]
      /\ UNCHANGED <<papel, pedidos, repetir, ciclo, pulso>>
  BY DEF PrintInv, PrintTypeOK, ReprintSecondCopy, CreateSecondCopy, Proximo, Livre, Ocioso
<1>2. row.status = "QUEUED"
  BY DEF NovoJob
<1> HIDE DEF row
<1>3. meio = jobs \/ meio = [jobs EXCEPT ![j] = row]
  BY DEF EnqueueRow
<1>4. /\ DOMAIN meio = Jobs /\ meio[j].status \in {"AUSENTE", "QUEUED"}
      /\ \A i \in Jobs : i # j => meio[i] = jobs[i]
  BY <1>1, <1>2, <1>3
<1> HIDE DEF meio
<1> DEFINE velho == [jobs[o] EXCEPT !.secondCopyCount = @ + 1]
<1>5. velho.status = jobs[o].status
  <2>1. jobs[o] \in PrintJobRecord
    BY <1>1
  <2> QED BY <2>1 DEF PrintJobRecord
<1>6. jobs' = [meio EXCEPT ![o] = velho]
  <2>1. jobs' = [meio EXCEPT ![o] = [meio[o] EXCEPT !.secondCopyCount = @ + 1]]
    BY <1>1
  <2> QED BY <1>1, <1>4, <2>1
<1> HIDE DEF velho
<1>7. jobs'[o] = velho /\ \A i \in Jobs : i # o => jobs'[i] = meio[i]
  BY <1>4, <1>6
<1>8. /\ jobs'[j].status \in {"AUSENTE", "QUEUED"}
      /\ \A i \in Jobs : i # j => jobs'[i].status = jobs[i].status
  BY <1>1, <1>4, <1>5, <1>7
<1> QED BY <1>1, <1>8, RowIsATicket

-----------------------------------------------------------------------------
(* The spool as its tickets *)

LEMMA TicketsStart ==
  ASSUME PrintInit
  PROVE  Ticket!ImpressaoInit
<1>1. ASSUME NEW j \in Jobs
      PROVE  /\ Estados[j] \in {"NENHUM", "FEITO"}
             /\ Estados[j] = "FEITO" <=> j <= Antigos
  BY FirstRows, TicketAt
<1>2. Estados \in [Jobs -> {"NENHUM", "FEITO"}]
  BY <1>1, TicketRows
<1>3. papel = {j \in Jobs : Estados[j] = "FEITO"}
  <2>1. papel = 1..Antigos /\ Antigos \in 0..NumJobs /\ NumJobs \in Nat
    BY PrintAssumption DEF PrintInit
  <2>2. 1..Antigos = {j \in Jobs : j <= Antigos}
    BY <2>1 DEF Jobs
  <2> QED BY <1>1, <2>1, <2>2
<1>4. repetir = {}
  BY DEF PrintInit
<1> QED BY <1>2, <1>3, <1>4 DEF Ticket!ImpressaoInit

LEMMA CycleStepPrints ==
  ASSUME PrintInv, Passo
  PROVE  Ticket!ImpressaoNext \/ UNCHANGED Ticket!impressaoVars
<1>0. 0 \in 0..(15 * Minuto)
  BY Numbers
<1>1. CASE ClaimNext
  BY <1>1, ClaimPrints
<1>2. CASE NoRoute
  <2>1. /\ ciclo.op \in {"TOMADO", "IMPRESSO"} /\ ciclo.op # "IMPRESSO"
        /\ RegisterAttempt(ciclo.job, "NEEDS_ATTENTION", 1, 0) /\ ciclo' = Seguinte
        /\ UNCHANGED <<papel, pedidos, repetir, pulso>>
    BY <1>2 DEF NoRoute
  <2> QED BY <1>0, <2>1, OutcomeRecords
<1>3. CASE PrinterOffline
  <2>1. ciclo.op = "TOMADO" /\ HandleDriverFailure(TRUE) /\ ciclo' = Seguinte
        /\ UNCHANGED <<papel, pedidos, repetir, pulso>>
    BY <1>3 DEF PrinterOffline
  <2>2. TRUE \in BOOLEAN
    OBVIOUS
  <2> QED BY <2>1, <2>2, FailureRecords
<1>4. CASE PrintFails
  <2>1. PICK retryable \in BOOLEAN : HandleDriverFailure(retryable)
    BY <1>4 DEF PrintFails
  <2>2. ciclo.op = "TOMADO" /\ ciclo' = Seguinte
        /\ UNCHANGED <<papel, pedidos, repetir, pulso>>
    BY <1>4 DEF PrintFails
  <2> QED BY <2>1, <2>2, FailureRecords
<1>5. CASE PrintText
  BY <1>5, PrintPrints
<1>6. CASE RecordDone
  <2>1. /\ ciclo.op \in {"TOMADO", "IMPRESSO"} /\ ciclo.op = "IMPRESSO"
        /\ RegisterAttempt(ciclo.job, "DONE", 1, 0) /\ ciclo' = Seguinte
        /\ UNCHANGED <<papel, pedidos, repetir, pulso>>
    BY <1>6 DEF RecordDone
  <2> QED BY <1>0, <2>1, OutcomeRecords
<1>7. CASE TicketFails
  BY <1>7, TicketFailsPrints
<1> QED BY <1>1, <1>2, <1>3, <1>4, <1>5, <1>6, <1>7 DEF Passo

LEMMA StepPrints ==
  ASSUME PrintInv, [PrintNext]_printVars
  PROVE  [Ticket!ImpressaoNext]_(Ticket!impressaoVars)
<1>1. ASSUME NEW j \in Jobs, NEW setor \in Setores, EnqueueTicket(j, setor)
      PROVE  Ticket!ImpressaoNext \/ UNCHANGED Ticket!impressaoVars
  BY <1>1, EnqueuePrints
<1>2. ASSUME NEW j \in Jobs, NEW o \in Jobs, ReprintSecondCopy(j, o)
      PROVE  Ticket!ImpressaoNext \/ UNCHANGED Ticket!impressaoVars
  BY <1>2, ReprintPrints
<1>3. ASSUME NEW j \in Jobs, ReprocessJob(j)
      PROVE  Ticket!ImpressaoNext
  BY <1>3, ReprocessPrints
<1>4. CASE Worker \/ ProcessQueue
  <2>1. BeginCycle
    BY <1>4 DEF Worker, ProcessQueue
  <2> QED BY <2>1, BeginPrints
<1>5. CASE Passo
  BY <1>5, CycleStepPrints
<1>6. CASE Crash
  BY <1>6, CrashPrints
<1>7. CASE Tick
  BY <1>7, TickPrints
<1>8. CASE UNCHANGED printVars
  <2>1. UNCHANGED <<jobs, papel, pedidos, repetir, ciclo>>
    BY <1>8 DEF printVars
  <2>2. \A i \in Jobs : (NoPapel(i)' <=> NoPapel(i)) /\ jobs'[i].status = jobs[i].status
    BY <2>1 DEF NoPapel
  <2>3. \A i \in Jobs : Estados'[i] = Estados[i]
    BY <2>2, SameTicket
  <2> QED BY <2>1, <2>3, TicketsStay
<1> QED BY <1>1, <1>2, <1>3, <1>4, <1>5, <1>6, <1>7, <1>8 DEF PrintNext

\* The table, its claims and leases, the cycles that a crash cuts off and the requests
\* of the operator implement a ticket that is printed once: it is printed while it
\* waits, then recorded, and what is recorded or given up changes only on request.
\* A request or a cut record lets out one more paper each, and nothing else does.
THEOREM SpoolImplementsImpressao == PrintSpec => EachTicketOnce
<1>1. PrintInit => Ticket!ImpressaoInit
  BY TicketsStart
<1>2. PrintInv /\ [PrintNext]_printVars => [Ticket!ImpressaoNext]_(Ticket!impressaoVars)
  BY StepPrints
<1> QED BY <1>1, <1>2, PrintInvariant, PTL DEF PrintSpec, EachTicketOnce, Ticket!ImpressaoSpec
=============================================================================
