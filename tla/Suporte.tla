------------------------------ MODULE Suporte -------------------------------
(***************************************************************************)
(* The database file, the files beside it, and the calls that replace them: *)
(* the start of the application with its migrations and seed, the first-run *)
(* setup, backup and restore (ElectronDatabaseService, migrations, seed,    *)
(* FirstRunSetupService, OperationalSupportService).                        *)
(*                                                                         *)
(* Each of these calls is one synchronous stretch of the main process, so   *)
(* nothing runs between its steps but a crash or an exception of the file   *)
(* system: `tarefa' is the call under way and its next step.  A file is     *)
(* written in two steps, and a directory file by file.                      *)
(*                                                                         *)
(* The operations of Banco are those of the other services.  Some store a   *)
(* file before their transaction (the XML that a provider authorised, when   *)
(* its answer arrives), and one, the first-run setup, writes the runtime     *)
(* configuration after it.                                                  *)
(***************************************************************************)
EXTENDS Banco

CONSTANTS
  ComArquivo,   \* operations that store a file before they write their rows
  Instalacao,   \* the operation of the first-run setup
  Versoes,      \* migrations shipped with the application
  Copias,       \* backup directories
  SemCopia

ASSUME SuporteAssumption ==
  /\ ComArquivo \subseteq Ops
  /\ Instalacao \in Ops \ ComArquivo
  /\ Versoes \in Nat \ {0}
  /\ SemCopia \notin Copias

VARIABLES
  arquivo,     \* the database file
  esquema,     \* the migrations applied in it, whether the seed is there, and the
               \* backups whose event it has
  anexos,      \* the files of spool and fiscal directories, by operation
  config,      \* runtime-config.json
  copias,      \* the backup directories
  processo,    \* the application
  cliente,     \* whether ElectronDatabaseService has a client
  servicos,    \* whether the client that the services hold is open
  tarefa,      \* the call that moves files, and its next step
  pendentes,   \* operations that await an answer of the provider
  trocando     \* history: the copy whose restore was begun and has not ended well

arquivosVars == <<arquivo, esquema, anexos, config>>
processoVars == <<processo, cliente, servicos, pendentes>>
suporteVars == <<bancoVars, arquivosVars, copias, processoVars, tarefa, trocando>>

\* A file is absent, partly written, or whole.
Arquivo == {"AUSENTE", "PARCIAL", "INTEIRO"}

\* PENDENTE: there is a file and it does not say that the setup was completed.
Config == {"AUSENTE", "TRUNCADA", "PENDENTE", "COMPLETA"}

Esquema == [versao: 0..Versoes, semeado: BOOLEAN, avisos: SUBSET Copias]

Vazio == [versao |-> 0, semeado |-> FALSE, avisos |-> {}]

\* History: `limpa', the copy was not taken after a restore that broke; `fiel', it
\* is as createBackup left it when it ended, not decayed or written over since.
Copia ==
  [manifesto: Arquivo, banco: Arquivo, linhas: SUBSET Linhas, esquema: Esquema,
   anexos: SUBSET ComArquivo, config: Config, limpa: BOOLEAN, fiel: BOOLEAN]

CopiaVazia ==
  [manifesto |-> "AUSENTE", banco |-> "AUSENTE", linhas |-> {}, esquema |-> Vazio,
   anexos |-> {}, config |-> "AUSENTE", limpa |-> TRUE, fiel |-> FALSE]

SemTarefa == [tipo |-> "NENHUMA", passo |-> "", copia |-> SemCopia, op |-> SemOp]

Tarefa ==
  [tipo: {"NENHUMA", "INICIO", "SETUP", "XML", "BACKUP", "RESTORE"},
   passo: {"", "migra", "transacao", "config", "grava", "linhas", "banco", "anexos",
           "manifesto", "remove", "esvazia", "inicia"},
   copia: Copias \cup {SemCopia}, op: Ops \cup {SemOp}]

\* The main thread is idle in a running application.
Livre == processo = "PRONTO" /\ tarefa = SemTarefa /\ ~EmChamada

Passo(tipo, passo) == tarefa.tipo = tipo /\ tarefa.passo = passo

Segue(passo) == tarefa' = [tarefa EXCEPT !.passo = passo]

Inicia(tipo, passo, c, o) ==
  tarefa' = [tipo |-> tipo, passo |-> passo, copia |-> c, op |-> o]

-----------------------------------------------------------------------------
(* The start: open, migrate, seed *)

\* ElectronDatabaseService.start opens the file, and SQLite creates it when it is
\* absent or empty.  A file that was cut short does not open.
Start ==
  /\ processo = "PARADO"
  /\ processo' = "INICIANDO"
  /\ arquivo' = "INTEIRO"
  /\ \/ arquivo = "INTEIRO" /\ UNCHANGED <<bancoVars, esquema>>
     \/ /\ arquivo # "INTEIRO"
        /\ disco' = {} /\ visivel' = {} /\ confirmadas' = {}
        /\ esquema' = Vazio
        /\ UNCHANGED <<depth, quadros, pilha, chamada>>
  /\ Inicia("INICIO", "migra", SemCopia, SemOp)
  /\ UNCHANGED <<anexos, config, copias, cliente, servicos, pendentes, trocando>>

Iniciando == Passo("INICIO", "migra") \/ Passo("RESTORE", "inicia")

\* migrateUp: each pending migration in a transaction of its own.
MigrateUp ==
  /\ Iniciando
  /\ esquema.versao < Versoes
  /\ esquema' = [esquema EXCEPT !.versao = @ + 1]
  /\ UNCHANGED <<bancoVars, arquivo, anexos, config, copias, processoVars, tarefa,
                 trocando>>

\* Mutation: the client is opened without migrating it.
SeedInitialFoundationIfEmptyMutant ==
  /\ Iniciando
  /\ esquema' = [esquema EXCEPT !.semeado = TRUE]
  /\ UNCHANGED <<disco, visivel, depth, quadros, pilha, chamada, confirmadas>>

\* seedInitialFoundationIfEmpty: only what has no row yet, in one transaction.
SeedInitialFoundationIfEmpty ==
  /\ Iniciando
  /\ esquema.versao = Versoes
  /\ esquema' = [esquema EXCEPT !.semeado = TRUE]
  /\ UNCHANGED <<disco, visivel, depth, quadros, pilha, chamada, confirmadas>>

\* The application is ready: every service is built on the client.
Ready ==
  /\ tarefa.tipo = "INICIO"
  /\ SeedInitialFoundationIfEmpty
  /\ processo' = "PRONTO"
  /\ cliente' = "ABERTO"
  /\ servicos' = "ABERTO"
  /\ tarefa' = SemTarefa
  /\ UNCHANGED <<arquivo, anexos, config, copias, pendentes, trocando>>

\* The operator quits (before-quit), or the process dies at any step.
Stop ==
  /\ processo # "PARADO"
  /\ LoseConnection
  /\ processo' = "PARADO"
  /\ cliente' = "NULO"
  /\ servicos' = "FECHADO"
  /\ tarefa' = SemTarefa
  /\ pendentes' = {}
  /\ UNCHANGED <<arquivosVars, copias, trocando>>

-----------------------------------------------------------------------------
(* Operations of the services *)

\* A service call: its rows are its only effect, and it is not repeated.
ServiceCall(o) ==
  /\ Livre /\ servicos = "ABERTO"
  /\ o \notin ComArquivo \cup {Instalacao}
  /\ LinhasDe(o, Partes) \cap disco = {}
  /\ BeginTransaction(o) \/ BeginFails(o)
  /\ UNCHANGED <<arquivosVars, copias, processoVars, tarefa, trocando>>

\* A document is sent to the provider, and the main thread goes on.
IssueDocument(o) ==
  /\ Livre /\ servicos = "ABERTO"
  /\ o \in ComArquivo \ pendentes
  /\ LinhasDe(o, Partes) \cap disco = {}
  /\ pendentes' = pendentes \cup {o}
  /\ UNCHANGED <<bancoVars, arquivosVars, copias, processo, cliente, servicos, tarefa,
                 trocando>>

\* The answer: storeAuthorizedXml writes the file, and appendState the rows. A
\* restore may have closed the services' client since the question.
StoreAuthorizedXml(o) ==
  /\ Livre
  /\ o \in pendentes
  /\ pendentes' = pendentes \ {o}
  /\ anexos' = anexos \cup {o}
  /\ Inicia("XML", "linhas", SemCopia, o)
  /\ UNCHANGED <<bancoVars, arquivo, esquema, config, copias, processo, cliente,
                 servicos, trocando>>

ApplyAuthorizedState ==
  /\ Passo("XML", "linhas")
  /\ \/ servicos = "ABERTO" /\ BeginTransaction(tarefa.op)
     \/ servicos = "ABERTO" /\ BeginFails(tarefa.op)
     \/ servicos = "FECHADO" /\ UNCHANGED bancoVars
  /\ tarefa' = SemTarefa
  /\ UNCHANGED <<arquivosVars, copias, processoVars, trocando>>

\* completeFirstRun, which may be called again: the transaction of seed, routes
\* and event, then the configuration.
CompleteFirstRun ==
  /\ Livre /\ servicos = "ABERTO"
  /\ \/ BeginTransaction(Instalacao) /\ Inicia("SETUP", "transacao", SemCopia, Instalacao)
     \/ BeginFails(Instalacao) /\ UNCHANGED tarefa
  /\ UNCHANGED <<arquivosVars, copias, processoVars, trocando>>

\* A call inside its transaction; the setup goes on when its own returns.
TransactionStep ==
  /\ InTransaction
  /\ IF tarefa.tipo = "SETUP" /\ chamada'.op = SemOp
       THEN IF chamada.lanca THEN tarefa' = SemTarefa ELSE Segue("config")
       ELSE UNCHANGED tarefa
  /\ UNCHANGED <<arquivosVars, copias, processoVars, trocando>>

\* #readConfig throws on a file that was cut short; #writeConfig cuts the file and
\* writes it again.
WriteConfig ==
  /\ Passo("SETUP", "config")
  /\ IF config = "TRUNCADA"
       THEN tarefa' = SemTarefa /\ UNCHANGED config
       ELSE config' = "TRUNCADA" /\ Segue("grava")
  /\ UNCHANGED <<bancoVars, arquivo, esquema, anexos, copias, processoVars, trocando>>

WriteConfigEnds ==
  /\ Passo("SETUP", "grava")
  /\ config' = "COMPLETA"
  /\ tarefa' = SemTarefa
  /\ UNCHANGED <<bancoVars, arquivo, esquema, anexos, copias, processoVars, trocando>>

\* updateBrandLogo writes the configuration again, once the setup is complete.
UpdateBrandLogo ==
  /\ Livre
  /\ config = "COMPLETA"
  /\ Inicia("SETUP", "config", SemCopia, SemOp)
  /\ UNCHANGED <<bancoVars, arquivosVars, copias, processoVars, trocando>>

-----------------------------------------------------------------------------
(* Backup *)

\* The copy under way, with one of its fields changed.
NaCopia(c, nova) == copias' = [copias EXCEPT ![c] = nova]

\* createBackup writes an event and moves the log into the file, with the client
\* of ElectronDatabaseService.  Directory and event are named after requestedAt, so
\* a second call of that name throws on the event, unless a file without it has
\* taken the place of the database: then the directory is written over.
CreateBackup(c) ==
  /\ Livre
  /\ cliente = "ABERTO"
  /\ c \notin esquema.avisos
  /\ esquema' = [esquema EXCEPT !.avisos = @ \cup {c}]
  /\ NaCopia(c, [copias[c] EXCEPT !.limpa = trocando = SemCopia, !.fiel = FALSE])
  /\ Inicia("BACKUP", "banco", c, SemOp)
  /\ UNCHANGED <<bancoVars, arquivo, anexos, config, processoVars, trocando>>

CopyDatabase ==
  /\ Passo("BACKUP", "banco")
  /\ LET c == tarefa.copia IN
     IF copias[c].banco # "PARCIAL"
       THEN NaCopia(c, [copias[c] EXCEPT !.banco = "PARCIAL"]) /\ UNCHANGED tarefa
       ELSE /\ NaCopia(c, [copias[c] EXCEPT !.banco = "INTEIRO", !.linhas = disco,
                                           !.esquema = esquema])
            /\ Segue("config")
  /\ UNCHANGED <<bancoVars, arquivosVars, processoVars, trocando>>

\* Without a configuration one is made up that says nothing of the setup; one
\* that was cut short throws, and the backup ends without a manifest of its own.
ExportConfig ==
  /\ Passo("BACKUP", "config")
  /\ LET c == tarefa.copia IN
     \/ /\ config = "TRUNCADA"
        /\ tarefa' = SemTarefa /\ UNCHANGED copias
     \/ /\ config # "TRUNCADA" /\ copias[c].config # "TRUNCADA"
        /\ NaCopia(c, [copias[c] EXCEPT !.config = "TRUNCADA"]) /\ UNCHANGED tarefa
     \/ /\ config # "TRUNCADA" /\ copias[c].config = "TRUNCADA"
        /\ NaCopia(c, [copias[c] EXCEPT
              !.config = IF config = "AUSENTE" THEN "PENDENTE" ELSE config])
        /\ Segue("anexos")
  /\ UNCHANGED <<bancoVars, arquivosVars, processoVars, trocando>>

CopyDirectories ==
  /\ Passo("BACKUP", "anexos")
  /\ LET c == tarefa.copia
         faltam == anexos \ copias[c].anexos
     IN \/ \E a \in faltam :
             /\ NaCopia(c, [copias[c] EXCEPT !.anexos = @ \cup {a}])
             /\ UNCHANGED tarefa
        \/ faltam = {} /\ Segue("manifesto") /\ UNCHANGED copias
  /\ UNCHANGED <<bancoVars, arquivosVars, processoVars, trocando>>

WriteManifest ==
  /\ Passo("BACKUP", "manifesto")
  /\ LET c == tarefa.copia IN
     IF copias[c].manifesto # "PARCIAL"
       THEN NaCopia(c, [copias[c] EXCEPT !.manifesto = "PARCIAL"]) /\ UNCHANGED tarefa
       ELSE /\ NaCopia(c, [copias[c] EXCEPT !.manifesto = "INTEIRO", !.fiel = TRUE])
            /\ tarefa' = SemTarefa
  /\ UNCHANGED <<bancoVars, arquivosVars, processoVars, trocando>>

\* The medium of a backup decays between two calls.  The code can tell when the
\* whole directory is gone, an artifact of the manifest is missing (the database
\* stands for them all) or the database is damaged.  It cannot tell when a file in
\* one of the directories is missing, or the configuration is cut short.  (Bound:
\* once after each backup, since no property counts on the copy any more.)
Decay(c) ==
  /\ Livre
  /\ copias[c].fiel
  /\ \E estragada \in
          {CopiaVazia, [copias[c] EXCEPT !.config = "TRUNCADA"]}
          \cup {[copias[c] EXCEPT !.banco = estado] : estado \in {"AUSENTE", "PARCIAL"}}
          \cup {[copias[c] EXCEPT !.anexos = @ \ {a}] : a \in copias[c].anexos} :
       NaCopia(c, [estragada EXCEPT !.fiel = FALSE])
  /\ UNCHANGED <<bancoVars, arquivosVars, processoVars, tarefa, trocando>>

-----------------------------------------------------------------------------
(* Restore *)

\* validateBackupManifest, which listBackups asks as well: the manifest can be
\* read, and every artifact that it lists is there.
Restorable(c) ==
  /\ copias[c].manifesto = "INTEIRO"
  /\ copias[c].banco # "AUSENTE"

\* Mutation: the database in the backup is not checked.
IntegrityCheckMutant(c) == TRUE

\* #validateBackupDatabaseIntegrity, on a copy in a temporary directory.
IntegrityCheck(c) == copias[c].banco = "INTEIRO"

\* The connection is closed before anything is touched; the services keep it.
RestoreBackup(c) ==
  /\ Livre
  /\ Restorable(c)
  /\ cliente = "ABERTO"
  /\ IntegrityCheck(c)
  /\ LoseConnection
  /\ cliente' = "NULO"
  /\ servicos' = "FECHADO"
  /\ Inicia("RESTORE", "remove", c, SemOp)
  /\ UNCHANGED <<arquivosVars, copias, processo, pendentes, trocando>>

\* The content of the file, as a connection that opens it finds it.
Conteudo(linhas) ==
  /\ disco' = linhas
  /\ visivel' = linhas
  /\ confirmadas' = {o \in Ops : LinhasDe(o, Partes) \subseteq linhas}
  /\ UNCHANGED <<depth, quadros, pilha, chamada>>

RemoveDatabase ==
  /\ Passo("RESTORE", "remove")
  /\ arquivo' = "AUSENTE"
  /\ Conteudo({})
  /\ esquema' = Vazio
  /\ trocando' = tarefa.copia
  /\ Segue("esvazia")
  /\ UNCHANGED <<anexos, config, copias, processoVars>>

EmptyDirectories ==
  /\ Passo("RESTORE", "esvazia")
  /\ \/ \E a \in anexos : anexos' = anexos \ {a} /\ UNCHANGED tarefa
     \/ anexos = {} /\ Segue("banco") /\ UNCHANGED anexos
  /\ UNCHANGED <<bancoVars, arquivo, esquema, config, copias, processoVars, trocando>>

RestoreDatabase ==
  /\ Passo("RESTORE", "banco")
  /\ IF arquivo = "AUSENTE"
       THEN arquivo' = "PARCIAL" /\ UNCHANGED <<bancoVars, esquema, tarefa>>
       ELSE /\ arquivo' = copias[tarefa.copia].banco
            /\ Conteudo(copias[tarefa.copia].linhas)
            /\ esquema' = copias[tarefa.copia].esquema
            /\ Segue("config")
  /\ UNCHANGED <<anexos, config, copias, processoVars, trocando>>

RestoreConfig ==
  /\ Passo("RESTORE", "config")
  /\ config' = "TRUNCADA"
  /\ Segue("grava")
  /\ UNCHANGED <<bancoVars, arquivo, esquema, anexos, copias, processoVars, trocando>>

RestoreConfigEnds ==
  /\ Passo("RESTORE", "grava")
  /\ config' = copias[tarefa.copia].config
  /\ Segue("anexos")
  /\ UNCHANGED <<bancoVars, arquivo, esquema, anexos, copias, processoVars, trocando>>

RestoreDirectories ==
  /\ Passo("RESTORE", "anexos")
  /\ LET faltam == copias[tarefa.copia].anexos \ anexos
     IN \/ \E a \in faltam : anexos' = anexos \cup {a} /\ UNCHANGED tarefa
        \/ faltam = {} /\ Segue("inicia") /\ UNCHANGED anexos
  /\ UNCHANGED <<bancoVars, arquivo, esquema, config, copias, processoVars, trocando>>

\* start() on the restored file, a last integrity check and an event.  Whoever
\* asked is told to restart: the services still hold the client that was closed.
\* The call ends well too when the copy lacks files that nobody looked for.
RestoreCompleted ==
  /\ Passo("RESTORE", "inicia")
  /\ arquivo = "INTEIRO"
  /\ SeedInitialFoundationIfEmpty
  /\ cliente' = "ABERTO"
  /\ trocando' = IF copias[tarefa.copia].limpa /\ copias[tarefa.copia].fiel
                   THEN SemCopia ELSE trocando
  /\ tarefa' = SemTarefa
  /\ UNCHANGED <<arquivo, anexos, config, copias, processo, servicos, pendentes>>

\* start() has its client before the seed: when the seed, the last integrity check or
\* the event throws, a restore ends with a client and may be asked for again.
ClientIsLeft ==
  /\ Passo("RESTORE", "inicia")
  /\ arquivo = "INTEIRO" /\ esquema.versao = Versoes
  /\ \E semeado \in {esquema.semeado, TRUE} : esquema' = [esquema EXCEPT !.semeado = semeado]
  /\ cliente' = "ABERTO"

\* The file system or a migration throws: the call ends where it is, and the
\* start of the application fails.
TaskFails ==
  /\ tarefa.tipo \in {"INICIO", "SETUP", "BACKUP", "RESTORE"}
  /\ ~EmChamada
  /\ tarefa' = SemTarefa
  /\ processo' = IF tarefa.tipo = "INICIO" THEN "PARADO" ELSE processo
  /\ ClientIsLeft \/ UNCHANGED <<esquema, cliente>>
  /\ UNCHANGED <<bancoVars, arquivo, anexos, config, copias, servicos, pendentes, trocando>>

-----------------------------------------------------------------------------

\* A computer without an installation, or one whose application was updated, with
\* a backup of the old version.
SuporteInit ==
  /\ BancoInit
  /\ \/ /\ arquivo = "AUSENTE" /\ esquema = Vazio
        /\ copias = [c \in Copias |-> CopiaVazia]
     \/ \E c \in Copias :
          LET antigo == [versao |-> 1, semeado |-> TRUE, avisos |-> {c}] IN
          /\ arquivo = "INTEIRO" /\ esquema = antigo
          /\ copias = [k \in Copias |-> IF k = c
                        THEN [CopiaVazia EXCEPT
                                !.manifesto = "INTEIRO", !.banco = "INTEIRO",
                                !.esquema = antigo, !.config = "PENDENTE", !.fiel = TRUE]
                        ELSE CopiaVazia]
  /\ anexos = {}
  /\ config = "AUSENTE"
  /\ processo = "PARADO"
  /\ cliente = "NULO"
  /\ servicos = "FECHADO"
  /\ tarefa = SemTarefa
  /\ pendentes = {}
  /\ trocando = SemCopia

SuporteNext ==
  \/ Start \/ MigrateUp \/ Ready \/ Stop
  \/ \E o \in Ops : ServiceCall(o)
  \/ \E o \in ComArquivo : IssueDocument(o) \/ StoreAuthorizedXml(o)
  \/ ApplyAuthorizedState \/ TransactionStep
  \/ CompleteFirstRun \/ WriteConfig \/ WriteConfigEnds \/ UpdateBrandLogo
  \/ \E c \in Copias : CreateBackup(c) \/ Decay(c) \/ RestoreBackup(c)
  \/ CopyDatabase \/ ExportConfig \/ CopyDirectories \/ WriteManifest
  \/ RemoveDatabase \/ EmptyDirectories \/ RestoreDatabase \/ RestoreConfig
  \/ RestoreConfigEnds \/ RestoreDirectories \/ RestoreCompleted
  \/ TaskFails

SuporteSpec == SuporteInit /\ [][SuporteNext]_suporteVars

-----------------------------------------------------------------------------
(* Properties *)

SuporteTypeOK ==
  /\ disco \subseteq Linhas /\ visivel \subseteq Linhas
  /\ depth \in 0..(Niveis + 1)
  /\ quadros \in Seq(0..Niveis) /\ pilha \in Seq(SUBSET Linhas)
  /\ chamada \in [op: Ops \cup {SemOp}, feitas: 0..Partes, lanca: BOOLEAN]
  /\ confirmadas \subseteq Ops
  /\ arquivo \in Arquivo /\ esquema \in Esquema
  /\ anexos \subseteq ComArquivo /\ config \in Config
  /\ copias \in [Copias -> Copia]
  /\ processo \in {"PARADO", "INICIANDO", "PRONTO"}
  /\ cliente \in {"NULO", "ABERTO"} /\ servicos \in {"FECHADO", "ABERTO"}
  /\ tarefa \in Tarefa
  /\ pendentes \subseteq ComArquivo
  /\ trocando \in Copias \cup {SemCopia}

\* What an operation returned for stays in the file, whatever crashes, failed
\* transactions, restarts and backups follow, until a restore replaces the file;
\* and the services only ever work on a file that has every migration and the seed.
ConfirmedIsKept ==
  /\ \A o \in confirmadas : LinhasDe(o, Partes) \subseteq disco
  /\ servicos = "ABERTO" =>
       /\ arquivo = "INTEIRO"
       /\ esquema.versao = Versoes /\ esquema.semeado

\* Every row that speaks of a file has it.
Lastreadas(linhas, arquivos) ==
  \A o \in ComArquivo : LinhasDe(o, Partes) \cap linhas # {} => o \in arquivos

\* Nothing is ever lost without a way back.  Outside a restore that broke, the
\* database is whole, its rows have their files, and a configuration that says
\* the setup was completed has the rows of the setup.  A restore reads from a copy
\* with a manifest and a whole database, and no restore or backup harms another
\* copy; and a copy that was completed, outside a restore that broke, holds a state
\* that can be gone back to.
\*
\* Decay and a backup written over an older one are not undone, and one sort of
\* decay goes unseen: validateBackupManifest looks for the directories and not
\* for the files in them, so a restore from a copy that lost a file ends as if
\* well, and the rows lack it.  Such a restore counts here as one that broke.
Recoverable ==
  /\ trocando = SemCopia =>
       /\ arquivo # "PARCIAL"
       /\ arquivo = "AUSENTE" => processo = "PARADO" /\ confirmadas = {}
       /\ Lastreadas(disco, anexos)
       /\ config = "COMPLETA" => LinhasDe(Instalacao, Partes) \subseteq disco
  /\ tarefa.tipo = "RESTORE" =>
       copias[tarefa.copia].manifesto = "INTEIRO" /\ copias[tarefa.copia].banco = "INTEIRO"
  /\ \A c \in Copias :
       copias[c].fiel =>
         /\ copias[c].manifesto = "INTEIRO" /\ copias[c].banco = "INTEIRO"
         /\ copias[c].limpa =>
              /\ Lastreadas(copias[c].linhas, copias[c].anexos)
              /\ \A o \in Ops : Inteira(copias[c].linhas, o)
              /\ copias[c].config # "TRUNCADA"

\* What a copy holds, once its database is written.
Guardado == [c \in Copias |-> IF copias[c].banco = "INTEIRO" THEN {copias[c].linhas} ELSE {}]

Acervo == INSTANCE Registro
  WITH linhas <- disco, retornadas <- confirmadas, emUso <- (servicos = "ABERTO"),
       guardadas <- Guardado, emTroca <- trocando

\* Every step stores one operation that returns, takes or loses a copy, replaces the
\* content by that of a copy while no service uses it, or does none of these: an
\* operation that throws leaves nothing, at whatever depth and in whatever state of
\* the depth counter; a restore ends with the content of its copy or is still open.
StoreIsOneRegister == Acervo!RegistroSpec
=============================================================================
