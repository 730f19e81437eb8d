----------------------------- MODULE Operadores -----------------------------
(***************************************************************************)
(* The operators, the session of the desktop terminal and the sessions of   *)
(* the waiters' phones (OperatorAuthService, OperatorRepository,            *)
(* WaiterSessionStore).                                                    *)
(*                                                                         *)
(* The operators and the terminal's row are in the database and outlive the *)
(* application; the phones' sessions are in its memory.  A phone's session  *)
(* copies the operator's role when it is created and is looked at again     *)
(* only for its age, counted here in hours.                                *)
(***************************************************************************)
EXTENDS Naturals, FiniteSets

CONSTANTS
  OpIds,        \* operators that may ever exist
  Pins,         \* PINs, as their hashes
  Celulares,    \* phones, one session each at a time
  Ttl,          \* life of a phone's session, in hours
  SemOp,
  SemPin

ASSUME OperadoresAssumption ==
  /\ Ttl \in Nat
  /\ SemOp \notin OpIds
  /\ SemPin \notin Pins

VARIABLES
  operadores,   \* the rows of operators
  terminal,     \* the operator of the row pdv-main of operator_sessions
  celulares,    \* the sessions of the phones
  inativo       \* history: hours since each operator was deactivated

operadoresVars == <<operadores, terminal, celulares, inativo>>

Role == {"GERENTE", "CAIXA", "GARCOM"}

Operador == [ativo: BOOLEAN, papel: Role, pin: Pins]

\* A row that does not exist yet.
SemRegistro == [ativo |-> FALSE, papel |-> "GARCOM", pin |-> SemPin]

Existe(o) == operadores[o] # SemRegistro

\* An hour more than the life of a session is as old as it gets.
Horas == 0..Ttl + 1

WaiterSession == [op: OpIds, papel: Role, idade: Horas]

SemSessao == [op |-> SemOp, papel |-> "GARCOM", idade |-> 0]

ListActive == {o \in OpIds : operadores[o].ativo}

FindActiveByPin(p) == {o \in ListActive : operadores[o].pin = p}

-----------------------------------------------------------------------------
(* The terminal *)

\* login: the session row of the terminal is replaced.
Login(p) ==
  \E o \in FindActiveByPin(p) :
    /\ terminal' = o
    /\ UNCHANGED <<operadores, celulares, inativo>>

LogoutTerminal ==
  /\ terminal' = SemOp
  /\ UNCHANGED <<operadores, celulares, inativo>>

\* A row that is new takes the first id never used.
Novato == CHOOSE o \in OpIds : ~Existe(o)

\* Mutation: a blank PIN is taken for no change even where there is no row.
SaveOperatorMutant(o, p, papel, ativo) ==
  LET pin == IF p = SemPin THEN operadores[o].pin ELSE p
  IN /\ \A outro \in OpIds \ {o} : Existe(outro) => operadores[outro].pin # pin
     /\ operadores' = [operadores EXCEPT
          ![o] = [ativo |-> ativo, papel |-> papel, pin |-> pin]]
     /\ inativo' = [inativo EXCEPT ![o] = IF ativo THEN 0 ELSE @]
     /\ UNCHANGED <<terminal, celulares>>

\* saveOperator: an active operator needs a PIN that no other row has, not even
\* an inactive one; a deactivation keeps the PIN of the row.
SaveOperator(o, p, papel, ativo) ==
  LET pin == IF p = SemPin THEN operadores[o].pin ELSE p
  IN /\ ativo => p # SemPin
     /\ \A outro \in OpIds \ {o} : operadores[outro].pin # pin
     /\ operadores' = [operadores EXCEPT
          ![o] = [ativo |-> ativo, papel |-> papel, pin |-> pin]]
     /\ inativo' = [inativo EXCEPT ![o] = IF ativo THEN 0 ELSE @]
     /\ UNCHANGED <<terminal, celulares>>

-----------------------------------------------------------------------------
(* The phones *)

\* POST /auth: the row waiter-mobile, which every phone shares and nothing
\* reads, is left out.
WaiterAuth(t, p) ==
  \E o \in FindActiveByPin(p) :
    /\ celulares' = [celulares EXCEPT
         ![t] = [op |-> o, papel |-> operadores[o].papel, idade |-> 0]]
    /\ UNCHANGED <<operadores, terminal, inativo>>

\* Mutation: the age of the session is not looked at.
AcceptsMutant(t) == celulares[t] # SemSessao

\* WaiterSessionStore.get answers the session.
Accepts(t) == celulares[t] # SemSessao /\ celulares[t].idade <= Ttl

\* A request with an expired session is refused and deletes it.
WaiterExpired(t) ==
  /\ celulares[t] # SemSessao
  /\ ~Accepts(t)
  /\ celulares' = [celulares EXCEPT ![t] = SemSessao]
  /\ UNCHANGED <<operadores, terminal, inativo>>

Mais(h) == IF h > Ttl THEN h ELSE h + 1

\* An hour goes by.
Hora ==
  /\ celulares' = [t \in Celulares |->
       IF celulares[t] = SemSessao THEN SemSessao
         ELSE [celulares[t] EXCEPT !.idade = Mais(@)]]
  /\ inativo' = [o \in OpIds |->
       IF operadores[o].ativo \/ ~Existe(o) THEN 0 ELSE Mais(inativo[o])]
  /\ celulares' # celulares \/ inativo' # inativo
  /\ UNCHANGED <<operadores, terminal>>

\* The application stops: the phones' sessions are gone.
ForgetPhones ==
  /\ celulares' = [t \in Celulares |-> SemSessao]
  /\ UNCHANGED <<operadores, terminal, inativo>>

OperadoresTypeOK ==
  /\ operadores \in [OpIds -> Operador \cup {SemRegistro}]
  /\ terminal \in OpIds \cup {SemOp}
  /\ celulares \in [Celulares -> WaiterSession \cup {SemSessao}]
  /\ inativo \in [OpIds -> Horas]

\* Deactivating a waiter does not end the sessions of the phone, and nothing
\* looks at the operator again; but no request is accepted in the name of an
\* operator who has been inactive for longer than a session lives.
TurnEnds ==
  \A t \in Celulares : Accepts(t) => inativo[celulares[t].op] <= Ttl
=============================================================================
