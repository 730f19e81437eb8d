---------------------------- MODULE SuporteProofs ----------------------------
(***************************************************************************)
(* Theorems about transactions and about the calls that replace the file,   *)
(* for any operations, any number of writes in each, any depth of nesting,   *)
(* any backups and any number of migrations.                                *)
(***************************************************************************)
EXTENDS Suporte, SequenceTheorems, TLAPS

-----------------------------------------------------------------------------
(* The invariant of the transactions *)

BancoTipos ==
  /\ disco \in SUBSET Linhas
  /\ visivel \in SUBSET Linhas
  /\ depth \in Nat
  /\ quadros \in Seq(Nat)
  /\ pilha \in Seq(SUBSET Linhas)
  /\ chamada \in [op: Ops \cup {SemOp}, feitas: 0..Partes, lanca: BOOLEAN]

\* Each call read one more than the one around it, the outermost 0 or, when a
\* BEGIN failed before, 1.
Profundidades ==
  /\ Len(quadros) > 0 /\ Len(quadros) <= Niveis
  /\ quadros[1] \in {0, 1}
  /\ \A i \in 1..Len(quadros) : quadros[i] = quadros[1] + i - 1
  /\ IF chamada.op \in Proprias
       THEN Len(quadros) = 1 /\ quadros[1] = 0 /\ depth \in {0, 1}
       ELSE depth = quadros[Len(quadros)] + 1

\* What is open in SQLite goes back, in the end, to what is committed.
Abertas ==
  /\ pilha # <<>> => Len(pilha) = Len(quadros) /\ pilha[1] = disco
  /\ pilha = <<>> => chamada.lanca /\ visivel = disco
  /\ ~chamada.lanca => visivel = disco \cup LinhasDe(chamada.op, chamada.feitas)

BancoInv ==
  /\ BancoTipos
  /\ AllOrNothing
  /\ EmChamada => Profundidades /\ Abertas
  /\ ~EmChamada => chamada = Ociosa
  /\ NothingLeftOpen

-----------------------------------------------------------------------------
(* Sequences and rows *)

(* All but the last element. *)
LEMMA FrontFacts ==
  ASSUME NEW S, NEW s \in Seq(S), Len(s) > 0
  PROVE  /\ Front(s) \in Seq(S)
         /\ Len(Front(s)) = Len(s) - 1
         /\ \A i \in 1..(Len(s) - 1) : Front(s)[i] = s[i]
<1> DEFINE n == Len(s) - 1
           f == SubSeq(s, 1, n)
<1>1. n \in Nat /\ \A i \in 1..n : s[i] \in S
  OBVIOUS
<1>2. f \in Seq(S) /\ \A i \in 1..n : f[i] = s[i]
  OBVIOUS
<1>3. Len(f) = IF 1 <= n THEN n - 1 + 1 ELSE 0
  <2> HIDE DEF n
  <2> QED BY <1>1, SubSeqProperties
<1>4. Front(s) = f
  BY DEF Front
<1> HIDE DEF f
<1>5. Len(f) = n
  <2> HIDE DEF n
  <2> QED BY <1>1, <1>3
<1> QED BY <1>2, <1>4, <1>5

(* One more element. *)
LEMMA AppendFacts ==
  ASSUME NEW S, NEW s \in Seq(S), NEW x \in S
  PROVE  /\ Append(s, x) \in Seq(S)
         /\ Len(Append(s, x)) = Len(s) + 1
         /\ \A i \in 1..Len(s) : Append(s, x)[i] = s[i]
         /\ Append(s, x)[Len(s) + 1] = x
OBVIOUS

(* The rows of an operation are rows, and one write adds the next of them. *)
LEMMA RowsOfOperation ==
  ASSUME NEW o \in Ops, NEW n \in 0..Partes
  PROVE  /\ LinhasDe(o, n) \subseteq Linhas
         /\ LinhasDe(o, 0) = {}
         /\ n < Partes => <<o, n + 1>> \in Linhas
         /\ n < Partes => LinhasDe(o, n) \cup {<<o, n + 1>>} = LinhasDe(o, n + 1)
<1>1. Partes \in Nat
  BY BancoAssumption
<1>2. n \in Nat /\ n <= Partes
  BY <1>1
<1>3. \A i \in 1..n : i \in 1..Partes
  BY <1>1, <1>2
<1>4. LinhasDe(o, n) \subseteq Linhas
  BY <1>3 DEF LinhasDe, Linhas
<1>5. LinhasDe(o, 0) = {}
  BY DEF LinhasDe
<1>6. ASSUME n < Partes
      PROVE  n + 1 \in 1..Partes /\ 1..(n + 1) = (1..n) \cup {n + 1}
  BY <1>1, <1>2, <1>6
<1>7. ASSUME n < Partes
      PROVE  LinhasDe(o, n) \cup {<<o, n + 1>>} = LinhasDe(o, n + 1)
  BY <1>6, <1>7 DEF LinhasDe
<1>8. ASSUME n < Partes
      PROVE  <<o, n + 1>> \in Linhas
  BY <1>6, <1>8 DEF Linhas
<1> QED BY <1>4, <1>5, <1>7, <1>8

(* All rows of one operation, and none of another, come in with its commit. *)
LEMMA WholeCommit ==
  ASSUME NEW rows \in SUBSET Linhas, NEW o \in Ops, NEW d \in Ops, Inteira(rows, d)
  PROVE  Inteira(rows \cup LinhasDe(o, Partes), d)
<1>1. CASE d = o
  BY <1>1 DEF Inteira
<1>2. CASE d # o
  <2>1. LinhasDe(d, Partes) \cap LinhasDe(o, Partes) = {}
    BY <1>2 DEF LinhasDe
  <2> QED BY <2>1 DEF Inteira
<1> QED BY <1>1, <1>2

(* No rows at all are whole. *)
LEMMA WholeEmpty == \A o \in Ops : Inteira({}, o)
BY DEF Inteira

-----------------------------------------------------------------------------
(* One step of a transaction *)

(* The fields of the call under way. *)
LEMMA CallFields ==
  ASSUME BancoTipos
  PROVE  /\ chamada.op \in Ops \cup {SemOp}
         /\ chamada.feitas \in 0..Partes
         /\ chamada.lanca \in BOOLEAN
         /\ EmChamada => chamada.op \in Ops
         /\ Len(quadros) \in Nat /\ Len(pilha) \in Nat
BY DEF BancoTipos, EmChamada

LEMMA BeginKeeps ==
  ASSUME BancoInv, NEW o \in Ops, BeginTransaction(o)
  PROVE  BancoInv'
<1>1. /\ quadros = <<>> /\ pilha = <<>> /\ visivel = disco /\ depth \in {0, 1}
      /\ BancoTipos /\ AllOrNothing
  BY DEF BancoInv, BeginTransaction, NothingLeftOpen, BancoTipos
<1>2. /\ chamada' = [op |-> o, feitas |-> 0, lanca |-> FALSE]
      /\ disco' = disco /\ visivel' = visivel
  BY DEF BeginTransaction, Ociosa
<1>3. /\ pilha' = <<disco>>
      /\ quadros' = <<IF o \in Proprias THEN 0 ELSE depth>>
      /\ depth' = IF o \in Proprias THEN depth ELSE depth + 1
  <2>1. pilha' = Append(pilha, visivel)
    BY DEF BeginTransaction, Empilha
  <2>2. /\ quadros' = Append(quadros, IF o \in Proprias THEN 0 ELSE depth)
        /\ depth' = IF o \in Proprias THEN depth ELSE depth + 1
    BY DEF BeginTransaction, Empilha
  <2> QED BY <1>1, <2>1, <2>2
<1>4. o # SemOp /\ Partes \in Nat
  BY BancoAssumption
<1>5. EmChamada'
  BY <1>2, <1>4 DEF EmChamada
<1>6. BancoTipos'
  BY <1>1, <1>2, <1>3, <1>4 DEF BancoTipos
<1>7. AllOrNothing'
  BY <1>1, <1>2 DEF AllOrNothing, Inteira
<1>8. Profundidades'
  <2>1. Len(quadros') = 1 /\ quadros'[1] = IF o \in Proprias THEN 0 ELSE depth
    BY <1>3
  <2>2. chamada'.op = o
    BY <1>2
  <2>3. \A i \in 1..Len(quadros') : quadros'[i] = quadros'[1] + i - 1
    BY <1>1, <2>1
  <2>4. Len(quadros') > 0 /\ Len(quadros') <= Niveis
    BY <2>1, BancoAssumption
  <2> QED BY <1>1, <1>3, <2>1, <2>2, <2>3, <2>4 DEF Profundidades
<1>9. Abertas'
  <2>1. pilha' # <<>> /\ Len(pilha') = Len(quadros') /\ pilha'[1] = disco'
    BY <1>2, <1>3
  <2>2. chamada'.op = o /\ chamada'.feitas = 0
    BY <1>2
  <2>3. LinhasDe(chamada'.op, chamada'.feitas) = {}
    BY <2>2 DEF LinhasDe
  <2>4. visivel' = disco' \cup LinhasDe(chamada'.op, chamada'.feitas)
    BY <1>1, <1>2, <2>3
  <2>5. /\ pilha' # <<>> => Len(pilha') = Len(quadros') /\ pilha'[1] = disco'
        /\ pilha' = <<>> => chamada'.lanca /\ visivel' = disco'
        /\ ~chamada'.lanca =>
             visivel' = disco' \cup LinhasDe(chamada'.op, chamada'.feitas)
    BY <2>1, <2>4
  <2> QED BY <2>5, Zenon DEF Abertas, LinhasDe
<1> QED BY <1>5, <1>6, <1>7, <1>8, <1>9 DEF BancoInv, NothingLeftOpen

LEMMA BeginFailsKeeps ==
  ASSUME BancoInv, NEW o \in Ops, BeginFails(o)
  PROVE  BancoInv'
<1>1. /\ ~EmChamada /\ depth' \in {0, 1}
      /\ disco' = disco /\ visivel' = visivel /\ quadros' = quadros
      /\ pilha' = pilha /\ chamada' = chamada
  BY DEF BancoInv, BeginFails, NothingLeftOpen, BancoTipos
<1> QED BY <1>1 DEF BancoInv, BancoTipos, AllOrNothing, Inteira, EmChamada, NothingLeftOpen

LEMMA NestKeeps ==
  ASSUME BancoInv, NestTransaction
  PROVE  BancoInv'
<1>1. /\ EmChamada /\ ~chamada.lanca /\ chamada.op \notin Proprias
      /\ BancoTipos /\ AllOrNothing /\ Profundidades /\ Abertas
      /\ quadros' = Append(quadros, depth) /\ pilha' = Append(pilha, visivel)
      /\ depth' = depth + 1 /\ Len(quadros) < Niveis
      /\ disco' = disco /\ visivel' = visivel /\ chamada' = chamada
  BY DEF BancoInv, NestTransaction, Empilha
<1>2. /\ depth \in Nat /\ quadros \in Seq(Nat) /\ pilha \in Seq(SUBSET Linhas)
      /\ visivel \in SUBSET Linhas
  BY <1>1 DEF BancoTipos
<1>3. /\ quadros' \in Seq(Nat) /\ Len(quadros') = Len(quadros) + 1
      /\ \A i \in 1..Len(quadros) : quadros'[i] = quadros[i]
      /\ quadros'[Len(quadros) + 1] = depth
  BY <1>1, <1>2, AppendFacts
<1>4. /\ pilha' \in Seq(SUBSET Linhas) /\ Len(pilha') = Len(pilha) + 1
      /\ \A i \in 1..Len(pilha) : pilha'[i] = pilha[i]
  BY <1>1, <1>2, AppendFacts
<1>5. /\ Len(quadros) \in Nat /\ Len(quadros) > 0 /\ quadros[1] \in {0, 1}
      /\ depth = quadros[Len(quadros)] + 1
      /\ \A i \in 1..Len(quadros) : quadros[i] = quadros[1] + i - 1
  BY <1>1, <1>2 DEF Profundidades
<1>6. pilha # <<>> /\ Len(pilha) = Len(quadros) /\ pilha[1] = disco
  BY <1>1 DEF Abertas
<1>7. EmChamada' /\ BancoTipos' /\ AllOrNothing'
  <2>1. EmChamada'
    BY <1>1 DEF EmChamada
  <2>2. depth' \in Nat
    BY <1>1, <1>2
  <2>3. BancoTipos'
    BY <1>1, <1>3, <1>4, <2>2 DEF BancoTipos
  <2>4. AllOrNothing'
    BY <1>1 DEF AllOrNothing, Inteira, LinhasDe
  <2> QED BY <2>1, <2>3, <2>4
<1>8. Profundidades'
  <2>1. quadros'[1] = quadros[1] /\ Len(quadros') > 0 /\ Len(quadros') <= Niveis
    BY <1>1, <1>3, <1>5, BancoAssumption
  <2>2. ASSUME NEW i \in 1..Len(quadros')
        PROVE  quadros'[i] = quadros'[1] + i - 1
    <3>1. CASE i \in 1..Len(quadros)
      BY <1>3, <1>5, <2>1, <3>1
    <3>2. CASE i = Len(quadros) + 1
      BY <1>3, <1>5, <2>1, <3>2
    <3> QED BY <1>3, <1>5, <3>1, <3>2
  <2>3. depth' = quadros'[Len(quadros')] + 1
    BY <1>1, <1>3
  <2>4. chamada'.op \notin Proprias /\ quadros'[1] \in {0, 1}
    BY <1>1, <1>5, <2>1
  <2> QED BY <2>1, <2>2, <2>3, <2>4 DEF Profundidades
<1>9. Abertas'
  <2>1. 1 \in 1..Len(pilha) /\ Len(pilha') > 0
    BY <1>4, <1>5, <1>6
  <2>2. pilha' # <<>>
    BY <2>1
  <2>3. pilha'[1] = disco'
    BY <1>1, <1>4, <1>6, <2>1
  <2>4. Len(pilha') = Len(quadros')
    BY <1>3, <1>4, <1>6
  <2>5. visivel' = disco' \cup LinhasDe(chamada'.op, chamada'.feitas)
    BY <1>1 DEF Abertas
  <2>6. /\ pilha' # <<>> => Len(pilha') = Len(quadros') /\ pilha'[1] = disco'
        /\ pilha' = <<>> => chamada'.lanca /\ visivel' = disco'
        /\ ~chamada'.lanca =>
             visivel' = disco' \cup LinhasDe(chamada'.op, chamada'.feitas)
    BY <2>2, <2>3, <2>4, <2>5
  <2> QED BY <2>6, Zenon DEF Abertas, LinhasDe
<1> QED BY <1>7, <1>8, <1>9 DEF BancoInv, NothingLeftOpen

LEMMA WriteKeeps ==
  ASSUME BancoInv, WriteRow
  PROVE  BancoInv'
<1>1. /\ EmChamada /\ ~chamada.lanca /\ chamada.feitas < Partes
      /\ BancoTipos /\ AllOrNothing /\ Profundidades /\ Abertas
      /\ visivel' = visivel \cup {<<chamada.op, chamada.feitas + 1>>}
      /\ chamada' = [chamada EXCEPT !.feitas = @ + 1]
      /\ disco' = disco /\ depth' = depth /\ quadros' = quadros /\ pilha' = pilha
  BY DEF BancoInv, WriteRow
<1>2. /\ chamada.op \in Ops /\ chamada.feitas \in 0..Partes
      /\ chamada.lanca \in BOOLEAN /\ Partes \in Nat
      /\ chamada \in [op: Ops \cup {SemOp}, feitas: 0..Partes, lanca: BOOLEAN]
  BY <1>1, CallFields, BancoAssumption DEF BancoTipos
<1>3. /\ chamada'.op = chamada.op /\ chamada'.lanca = chamada.lanca
      /\ chamada'.feitas = chamada.feitas + 1
  BY <1>1, <1>2
<1>4. chamada.feitas + 1 \in 0..Partes
  BY <1>1, <1>2
<1>5. chamada' \in [op: Ops \cup {SemOp}, feitas: 0..Partes, lanca: BOOLEAN]
  BY <1>1, <1>2, <1>4
<1>6. /\ <<chamada.op, chamada.feitas + 1>> \in Linhas
      /\ LinhasDe(chamada.op, chamada.feitas) \cup {<<chamada.op, chamada.feitas + 1>>}
           = LinhasDe(chamada.op, chamada.feitas + 1)
  BY <1>1, <1>2, RowsOfOperation
<1>7. visivel = disco \cup LinhasDe(chamada.op, chamada.feitas) /\ pilha # <<>>
  BY <1>1 DEF Abertas
<1>8. visivel' = disco \cup LinhasDe(chamada.op, chamada.feitas + 1)
  BY <1>1, <1>6, <1>7
<1>9. EmChamada'
  BY <1>1, <1>3 DEF EmChamada
<1>10. BancoTipos'
  BY <1>1, <1>5, <1>6 DEF BancoTipos
<1>11. AllOrNothing'
  BY <1>1 DEF AllOrNothing, Inteira, LinhasDe
<1>12. Profundidades'
  BY <1>1, <1>3 DEF Profundidades
<1>13. Abertas'
  <2>1. /\ pilha' # <<>> => Len(pilha') = Len(quadros') /\ pilha'[1] = disco'
        /\ pilha' = <<>> => chamada'.lanca /\ visivel' = disco'
    BY <1>1, <1>7 DEF Abertas
  <2>2. visivel' = disco' \cup LinhasDe(chamada'.op, chamada'.feitas)
    BY <1>1, <1>3, <1>8
  <2> QED BY <2>1, <2>2, Zenon DEF Abertas, LinhasDe
<1> QED BY <1>9, <1>10, <1>11, <1>12, <1>13 DEF BancoInv, NothingLeftOpen

LEMMA ThrowKeeps ==
  ASSUME BancoInv, ThrowInCallback
  PROVE  BancoInv'
<1>1. /\ EmChamada /\ BancoTipos /\ AllOrNothing /\ Profundidades /\ Abertas
      /\ chamada' = [chamada EXCEPT !.lanca = TRUE]
      /\ disco' = disco /\ depth' = depth /\ quadros' = quadros
      /\ \/ visivel' = visivel /\ pilha' = pilha
         \/ visivel' = disco /\ pilha' = <<>>
  BY DEF BancoInv, ThrowInCallback
<1>2. /\ chamada' \in [op: Ops \cup {SemOp}, feitas: 0..Partes, lanca: BOOLEAN]
      /\ chamada'.op = chamada.op /\ chamada'.lanca
  BY <1>1 DEF BancoTipos
<1>3. EmChamada'
  BY <1>1, <1>2 DEF EmChamada
<1>4. BancoTipos'
  <2>1. CASE visivel' = visivel /\ pilha' = pilha
    BY <1>1, <1>2, <2>1 DEF BancoTipos
  <2>2. CASE visivel' = disco /\ pilha' = <<>>
    BY <1>1, <1>2, <2>2 DEF BancoTipos
  <2> QED BY <1>1, <2>1, <2>2
<1>5. AllOrNothing'
  BY <1>1 DEF AllOrNothing, Inteira, LinhasDe
<1>6. Profundidades'
  BY <1>1, <1>2 DEF Profundidades
<1>7. Abertas'
  <2>1. /\ pilha' # <<>> => Len(pilha') = Len(quadros') /\ pilha'[1] = disco'
        /\ pilha' = <<>> => visivel' = disco'
    BY <1>1 DEF Abertas
  <2> QED BY <1>2, <2>1, Zenon DEF Abertas, LinhasDe
<1> QED BY <1>3, <1>4, <1>5, <1>6, <1>7 DEF BancoInv, NothingLeftOpen

(* The call that read depth 0 is the only one on the stack. *)
LEMMA OutermostReadZero ==
  ASSUME BancoTipos, Profundidades, Last(quadros) = 0
  PROVE  Len(quadros) = 1
<1>1. Len(quadros) \in Nat /\ Len(quadros) > 0 /\ quadros[1] \in {0, 1}
  BY DEF BancoTipos, Profundidades
<1>2. Last(quadros) = quadros[1] + Len(quadros) - 1
  BY <1>1 DEF Profundidades, Last
<1>3. quadros[1] + Len(quadros) - 1 = 0
  BY <1>2
<1>4. \A a \in {0, 1}, n \in Nat : n > 0 /\ a + n - 1 = 0 => n = 1
  OBVIOUS
<1> QED BY <1>1, <1>3, <1>4

(* What is left of the stack when the innermost call returns to its caller. *)
LEMMA InnerEnds ==
  ASSUME BancoTipos, Profundidades, RestoreDepth, Len(quadros) # 1,
         chamada' \in [op: Ops \cup {SemOp}, feitas: 0..Partes, lanca: BOOLEAN],
         chamada'.op = chamada.op
  PROVE  /\ Profundidades' /\ Last(quadros) # 0
         /\ quadros' \in Seq(Nat) /\ depth' \in Nat
         /\ Len(quadros') = Len(quadros) - 1 /\ Len(quadros) > 1
<1>1. /\ Len(quadros) \in Nat /\ Len(quadros) > 1 /\ quadros[1] \in {0, 1}
      /\ quadros \in Seq(Nat) /\ chamada.op \notin Proprias
      /\ \A i \in 1..Len(quadros) : quadros[i] = quadros[1] + i - 1
  <2>1. quadros \in Seq(Nat) /\ Len(quadros) \in Nat
    BY DEF BancoTipos
  <2>2. /\ Len(quadros) > 0 /\ quadros[1] \in {0, 1}
        /\ \A i \in 1..Len(quadros) : quadros[i] = quadros[1] + i - 1
        /\ chamada.op \notin Proprias
    BY DEF Profundidades
  <2>3. \A n \in Nat : n > 0 /\ n # 1 => n > 1
    OBVIOUS
  <2>4. Len(quadros) > 1
    BY <2>1, <2>2, <2>3
  <2> QED BY <2>1, <2>2, <2>4
<1>2. depth' = Last(quadros) /\ quadros' = Front(quadros)
  BY <1>1 DEF RestoreDepth
<1>3. /\ quadros' \in Seq(Nat) /\ Len(quadros') = Len(quadros) - 1
      /\ \A i \in 1..(Len(quadros) - 1) : quadros'[i] = quadros[i]
  BY <1>1, <1>2, FrontFacts
<1>4. Last(quadros) = quadros[1] + Len(quadros) - 1
  BY <1>1 DEF Last
<1>5. quadros'[1] = quadros[1]
  BY <1>1, <1>3
<1>6. ASSUME NEW i \in 1..Len(quadros')
      PROVE  quadros'[i] = quadros'[1] + i - 1
  BY <1>1, <1>3, <1>5, <1>6
<1>7. quadros'[Len(quadros')] = quadros[1] + (Len(quadros) - 1) - 1
  BY <1>1, <1>3, <1>5, <1>6
<1>8. depth' = quadros'[Len(quadros')] + 1
  BY <1>1, <1>2, <1>4, <1>7
<1>9. Len(quadros') > 0 /\ Len(quadros') <= Niveis
  <2>1. Len(quadros) <= Niveis /\ Niveis \in Nat
    BY BancoAssumption DEF Profundidades
  <2> QED BY <1>1, <1>3, <2>1
<1>10. Profundidades'
  BY <1>1, <1>5, <1>6, <1>8, <1>9 DEF Profundidades
<1>11. Last(quadros) # 0 /\ depth' \in Nat
  BY <1>1, <1>2, <1>4
<1> QED BY <1>1, <1>3, <1>10, <1>11

(* The stack is empty when the outermost call ends. *)
LEMMA OuterEnds ==
  ASSUME BancoTipos, Profundidades, RestoreDepth, Len(quadros) = 1
  PROVE  quadros' = <<>> /\ depth' \in {0, 1}
<1>1. quadros \in Seq(Nat) /\ quadros[1] \in {0, 1} /\ Last(quadros) = quadros[1]
  BY DEF BancoTipos, Profundidades, Last
<1>2. quadros' \in Seq(Nat) /\ Len(quadros') = 0
  <2>1. quadros' = Front(quadros)
    BY DEF RestoreDepth
  <2>2. Len(quadros) > 0 /\ Len(quadros) - 1 = 0
    OBVIOUS
  <2>3. Front(quadros) \in Seq(Nat) /\ Len(Front(quadros)) = Len(quadros) - 1
    BY <1>1, <2>2, FrontFacts
  <2> QED BY <2>1, <2>2, <2>3
<1>3. depth' \in {0, 1}
  <2>1. CASE chamada.op \in Proprias
    BY <2>1 DEF RestoreDepth, Profundidades
  <2>2. CASE chamada.op \notin Proprias
    BY <1>1, <2>2 DEF RestoreDepth
  <2> QED BY <2>1, <2>2
<1> QED BY <1>2, <1>3

(* What is left of the stack of SQLite when a savepoint is released. *)
LEMMA SavepointEnds ==
  ASSUME NEW S, NEW s \in Seq(S), Len(s) > 1
  PROVE  Front(s) \in Seq(S) /\ Len(Front(s)) = Len(s) - 1 /\ Front(s)[1] = s[1]
         /\ Front(s) # <<>>
<1>1. Len(s) \in Nat /\ 1 \in 1..(Len(s) - 1) /\ Len(s) > 0
  OBVIOUS
<1>2. /\ Front(s) \in Seq(S) /\ Len(Front(s)) = Len(s) - 1
      /\ \A i \in 1..(Len(s) - 1) : Front(s)[i] = s[i]
  BY <1>1, FrontFacts
<1>3. Front(s)[1] = s[1] /\ Len(Front(s)) > 0
  BY <1>1, <1>2
<1>4. Front(s) # <<>>
  BY <1>3
<1> QED BY <1>2, <1>3, <1>4

(* An idle connection with nothing open, whose rows are whole. *)
LEMMA IdleIsFine ==
  ASSUME BancoAssumption, chamada' = Ociosa, disco' \in SUBSET Linhas, visivel' = disco',
         pilha' = <<>>, quadros' = <<>>, depth' \in {0, 1},
         \A d \in Ops : Inteira(disco', d)
  PROVE  BancoInv'
<1>1. Ociosa \in [op: Ops \cup {SemOp}, feitas: 0..Partes, lanca: BOOLEAN]
  BY DEF Ociosa, BancoAssumption
<1>2. ~EmChamada'
  BY DEF EmChamada, Ociosa
<1>3. /\ visivel' \in SUBSET Linhas /\ depth' \in Nat
      /\ pilha' \in Seq(SUBSET Linhas) /\ quadros' \in Seq(Nat)
      /\ chamada' \in [op: Ops \cup {SemOp}, feitas: 0..Partes, lanca: BOOLEAN]
  BY <1>1
<1>4. BancoTipos'
  BY <1>3 DEF BancoTipos
<1>5. AllOrNothing'
  BY DEF AllOrNothing, Inteira, LinhasDe
<1>6. NothingLeftOpen'
  BY DEF NothingLeftOpen
<1>7. chamada' = Ociosa'
  BY DEF Ociosa
<1> QED BY <1>2, <1>4, <1>5, <1>6, <1>7 DEF BancoInv

LEMMA ReturnKeeps ==
  ASSUME BancoInv, ReturnFromCallback
  PROVE  BancoInv'
<1>1. /\ EmChamada /\ ~chamada.lanca
      /\ BancoTipos /\ AllOrNothing /\ Profundidades /\ Abertas
      /\ Len(quadros) = 1 => chamada.feitas = Partes
      /\ IF Last(quadros) = 0 THEN disco' = visivel /\ pilha' = <<>> ELSE Release(visivel)
      /\ RestoreDepth
      /\ chamada' = IF Len(quadros) = 1 THEN Ociosa ELSE chamada
      /\ visivel' = visivel
  BY DEF BancoInv, ReturnFromCallback
<1>2. /\ chamada.op \in Ops /\ Partes \in Nat
      /\ disco \in SUBSET Linhas /\ visivel \in SUBSET Linhas
      /\ pilha \in Seq(SUBSET Linhas) /\ Len(pilha) \in Nat
      /\ chamada \in [op: Ops \cup {SemOp}, feitas: 0..Partes, lanca: BOOLEAN]
  BY <1>1, CallFields, BancoAssumption DEF BancoTipos
<1>3. /\ pilha # <<>> /\ Len(pilha) = Len(quadros) /\ pilha[1] = disco
      /\ visivel = disco \cup LinhasDe(chamada.op, chamada.feitas)
  BY <1>1 DEF Abertas
<1>4. CASE Len(quadros) = 1
  <2>1. quadros' = <<>> /\ depth' \in {0, 1}
    BY <1>1, <1>4, OuterEnds
  <2>2. disco' = visivel
    BY <1>1, <1>3, <1>4 DEF Release
  <2>3. Len(pilha) > 0 /\ Len(pilha) - 1 = 0
    BY <1>3, <1>4
  <2>4. Front(pilha) \in Seq(SUBSET Linhas) /\ Len(Front(pilha)) = Len(pilha) - 1
    BY <1>2, <2>3, FrontFacts
  <2>5. Front(pilha) = <<>>
    BY <2>3, <2>4
  <2>6. pilha' = <<>>
    BY <1>1, <2>5 DEF Release
  <2>7. visivel = disco \cup LinhasDe(chamada.op, Partes)
    BY <1>1, <1>3, <1>4
  <2>8. \A d \in Ops : Inteira(disco', d)
    BY <1>1, <1>2, <2>2, <2>7, WholeCommit DEF AllOrNothing
  <2> QED BY <1>1, <1>2, <1>4, <2>1, <2>2, <2>6, <2>8, IdleIsFine, BancoAssumption
<1>5. CASE Len(quadros) # 1
  <2>1. chamada' = chamada
    BY <1>1, <1>5
  <2>2. /\ Profundidades' /\ Last(quadros) # 0
        /\ quadros' \in Seq(Nat) /\ depth' \in Nat
        /\ Len(quadros') = Len(quadros) - 1 /\ Len(quadros) > 1
    BY <1>1, <1>2, <1>5, <2>1, InnerEnds
  <2>3. disco' = disco /\ pilha' = Front(pilha)
    BY <1>1, <1>3, <1>5, <2>2 DEF Release
  <2>4. Len(pilha) > 1
    BY <1>3, <2>2
  <2>5. /\ pilha' \in Seq(SUBSET Linhas) /\ Len(pilha') = Len(pilha) - 1
        /\ pilha'[1] = disco' /\ pilha' # <<>>
    BY <1>2, <1>3, <2>3, <2>4, SavepointEnds
  <2>6. BancoTipos'
    BY <1>1, <1>2, <2>1, <2>2, <2>3, <2>5 DEF BancoTipos
  <2>7. EmChamada' /\ AllOrNothing'
    BY <1>1, <2>1, <2>3 DEF EmChamada, AllOrNothing, Inteira, LinhasDe
  <2>8. Abertas'
    <3>1. Len(pilha') = Len(quadros')
      BY <1>3, <2>2, <2>5
    <3>2. visivel' = disco' \cup LinhasDe(chamada'.op, chamada'.feitas)
      BY <1>1, <1>3, <2>1, <2>3
    <3> QED BY <2>5, <3>1, <3>2, Zenon DEF Abertas, LinhasDe
  <2> QED BY <2>2, <2>6, <2>7, <2>8 DEF BancoInv, NothingLeftOpen
<1> QED BY <1>4, <1>5

LEMMA UnwindKeeps ==
  ASSUME BancoInv, Unwind
  PROVE  BancoInv'
<1>1. /\ EmChamada /\ chamada.lanca
      /\ BancoTipos /\ AllOrNothing /\ Profundidades /\ Abertas
      /\ IF pilha = <<>>
           THEN UNCHANGED <<disco, visivel, pilha>>
           ELSE IF Last(quadros) = 0
             THEN visivel' = disco /\ pilha' = <<>> /\ UNCHANGED disco
             ELSE visivel' = Last(pilha) /\ Release(Last(pilha))
      /\ RestoreDepth
      /\ chamada' = IF Len(quadros) = 1 THEN Ociosa ELSE chamada
  BY DEF BancoInv, Unwind
<1>2. /\ disco \in SUBSET Linhas /\ visivel \in SUBSET Linhas
      /\ pilha \in Seq(SUBSET Linhas) /\ Len(pilha) \in Nat
      /\ chamada \in [op: Ops \cup {SemOp}, feitas: 0..Partes, lanca: BOOLEAN]
  BY <1>1, CallFields DEF BancoTipos
<1>3. /\ pilha # <<>> => Len(pilha) = Len(quadros) /\ pilha[1] = disco
      /\ pilha = <<>> => visivel = disco
  BY <1>1 DEF Abertas
<1>4. CASE Len(quadros) = 1
  <2>1. quadros' = <<>> /\ depth' \in {0, 1}
    BY <1>1, <1>4, OuterEnds
  <2>2. disco' = disco /\ visivel' = disco /\ pilha' = <<>>
    <3>1. CASE pilha = <<>>
      BY <1>1, <1>3, <3>1
    <3>2. CASE pilha # <<>> /\ Last(quadros) = 0
      BY <1>1, <3>2
    <3>3. CASE pilha # <<>> /\ Last(quadros) # 0
      <4>1. Len(pilha) = 1 /\ pilha[1] = disco
        BY <1>3, <1>4, <3>3
      <4>2. Last(pilha) = disco
        BY <4>1 DEF Last
      <4>3. visivel' = disco /\ disco' = disco /\ pilha' = Front(pilha)
        BY <1>1, <3>3, <4>1, <4>2 DEF Release
      <4>4. Len(pilha) > 0 /\ Len(pilha) - 1 = 0
        BY <4>1
      <4>5. Front(pilha) \in Seq(SUBSET Linhas) /\ Len(Front(pilha)) = Len(pilha) - 1
        BY <1>2, <4>4, FrontFacts
      <4>6. Front(pilha) = <<>>
        BY <4>4, <4>5
      <4> QED BY <4>3, <4>6
    <3> QED BY <3>1, <3>2, <3>3
  <2>3. \A d \in Ops : Inteira(disco', d)
    BY <1>1, <2>2 DEF AllOrNothing
  <2> QED BY <1>1, <1>2, <1>4, <2>1, <2>2, <2>3, IdleIsFine, BancoAssumption
<1>5. CASE Len(quadros) # 1
  <2>1. chamada' = chamada
    BY <1>1, <1>5
  <2>2. /\ Profundidades' /\ Last(quadros) # 0
        /\ quadros' \in Seq(Nat) /\ depth' \in Nat
        /\ Len(quadros') = Len(quadros) - 1 /\ Len(quadros) > 1
    BY <1>1, <1>2, <1>5, <2>1, InnerEnds
  <2>3. /\ disco' = disco /\ visivel' \in SUBSET Linhas
        /\ pilha' \in Seq(SUBSET Linhas)
        /\ pilha' # <<>> => Len(pilha') = Len(quadros') /\ pilha'[1] = disco'
        /\ pilha' = <<>> => visivel' = disco'
    <3>1. CASE pilha = <<>>
      BY <1>1, <1>2, <1>3, <3>1
    <3>2. CASE pilha # <<>>
      <4>1. Len(pilha) = Len(quadros) /\ pilha[1] = disco /\ Len(pilha) > 1
        BY <1>3, <2>2, <3>2
      <4>2. /\ disco' = disco /\ visivel' = Last(pilha) /\ pilha' = Front(pilha)
        BY <1>1, <1>5, <2>2, <3>2, <4>1 DEF Release
      <4>3. Last(pilha) \in SUBSET Linhas
        BY <1>2, <4>1 DEF Last
      <4>4. /\ pilha' \in Seq(SUBSET Linhas) /\ Len(pilha') = Len(pilha) - 1
            /\ pilha'[1] = disco' /\ pilha' # <<>>
        BY <1>2, <4>1, <4>2, SavepointEnds
      <4>5. Len(pilha') = Len(quadros')
        BY <2>2, <4>1, <4>4
      <4> QED BY <4>2, <4>3, <4>4, <4>5
    <3> QED BY <3>1, <3>2
  <2>4. BancoTipos'
    BY <1>1, <1>2, <2>1, <2>2, <2>3 DEF BancoTipos
  <2>5. EmChamada' /\ AllOrNothing' /\ chamada'.lanca
    BY <1>1, <2>1, <2>3 DEF EmChamada, AllOrNothing, Inteira, LinhasDe
  <2>6. Abertas'
    BY <2>3, <2>5, Zenon DEF Abertas, LinhasDe
  <2> QED BY <2>2, <2>4, <2>5, <2>6 DEF BancoInv, NothingLeftOpen
<1> QED BY <1>4, <1>5

(* The end of the process, and the close of the connection before a restore. *)
LEMMA LoseKeeps ==
  ASSUME BancoInv, LoseConnection
  PROVE  BancoInv'
<1>1. /\ visivel' = disco /\ disco' = disco /\ depth' = 0 /\ quadros' = <<>>
      /\ pilha' = <<>> /\ chamada' = Ociosa
  BY DEF LoseConnection
<1>2. disco \in SUBSET Linhas /\ \A d \in Ops : Inteira(disco', d)
  BY <1>1 DEF BancoInv, BancoTipos, AllOrNothing
<1> QED BY <1>1, <1>2, IdleIsFine, BancoAssumption

LEMMA TransactionKeeps ==
  ASSUME BancoInv, InTransaction
  PROVE  BancoInv'
BY NestKeeps, WriteKeeps, ReturnKeeps, ThrowKeeps, UnwindKeeps DEF InTransaction

LEMMA StutterKeeps ==
  ASSUME BancoInv, UNCHANGED bancoVars
  PROVE  BancoInv'
BY DEF bancoVars, BancoInv, BancoTipos, AllOrNothing, Inteira, LinhasDe, EmChamada, Profundidades,
       Abertas, Ociosa, NothingLeftOpen

-----------------------------------------------------------------------------
(* What returned stays *)

Guardadas ==
  confirmadas \in SUBSET Ops /\ \A o \in confirmadas : LinhasDe(o, Partes) \subseteq disco

(* What a step of a transaction does to the committed rows. *)
LEMMA TransactionEffect ==
  ASSUME BancoInv, InTransaction
  PROVE  /\ EmChamada /\ chamada.op \in Ops
         /\ disco \subseteq disco'
         /\ disco' \subseteq disco \cup LinhasDe(chamada.op, Partes)
         /\ chamada'.op \in {chamada.op, SemOp}
         /\ chamada'.op = SemOp /\ ~chamada.lanca => LinhasDe(chamada.op, Partes) \subseteq disco'
         /\ \/ confirmadas' = confirmadas
            \/ /\ confirmadas' = confirmadas \cup {chamada.op}
               /\ LinhasDe(chamada.op, Partes) \subseteq disco'
<1>1. /\ EmChamada /\ BancoTipos /\ Profundidades /\ Abertas
      /\ chamada.op \in Ops /\ chamada.op # SemOp /\ Ociosa.op = SemOp
  <2>1. EmChamada
    BY DEF InTransaction, NestTransaction, WriteRow, ReturnFromCallback, ThrowInCallback, Unwind
  <2> QED BY <2>1, CallFields DEF BancoInv, Ociosa, EmChamada
<1>2. CASE NestTransaction \/ WriteRow \/ ThrowInCallback
  <2>1. disco' = disco /\ confirmadas' = confirmadas
    BY <1>2 DEF NestTransaction, WriteRow, ThrowInCallback
  <2>2. chamada'.op = chamada.op
    BY <1>1, <1>2 DEF NestTransaction, WriteRow, ThrowInCallback, BancoTipos
  <2> QED BY <1>1, <2>1, <2>2
<1>3. CASE ReturnFromCallback
  <2>1. /\ ~chamada.lanca
        /\ Len(quadros) = 1 => chamada.feitas = Partes
        /\ chamada' = IF Len(quadros) = 1 THEN Ociosa ELSE chamada
        /\ confirmadas' =
             IF Len(quadros) = 1 THEN confirmadas \cup {chamada.op} ELSE confirmadas
        /\ IF Last(quadros) = 0 THEN disco' = visivel /\ pilha' = <<>> ELSE Release(visivel)
    BY <1>3 DEF ReturnFromCallback
  <2>2. /\ visivel = disco \cup LinhasDe(chamada.op, chamada.feitas)
        /\ pilha # <<>> /\ Len(pilha) = Len(quadros)
    BY <1>1, <2>1 DEF Abertas
  <2>3. chamada.feitas \in 0..Partes /\ Partes \in Nat
    BY <1>1, CallFields, BancoAssumption
  <2>4. LinhasDe(chamada.op, chamada.feitas) \subseteq LinhasDe(chamada.op, Partes)
    <3>1. 1..chamada.feitas \subseteq 1..Partes
      BY <2>3
    <3> QED BY <3>1 DEF LinhasDe
  <2>5. disco' = visivel \/ disco' = disco
    BY <2>1 DEF Release
  <2>6. disco \subseteq disco' /\ disco' \subseteq disco \cup LinhasDe(chamada.op, Partes)
    BY <2>2, <2>4, <2>5
  <2>7. CASE Len(quadros) = 1
    <3>1. disco' = visivel
      BY <2>1, <2>2, <2>7 DEF Release
    <3>2. LinhasDe(chamada.op, Partes) \subseteq disco'
      BY <2>1, <2>2, <2>7, <3>1
    <3> QED BY <1>1, <2>1, <2>6, <2>7, <3>2
  <2>8. CASE Len(quadros) # 1
    BY <1>1, <2>1, <2>6, <2>8
  <2> QED BY <2>7, <2>8
<1>4. CASE Unwind
  <2>1. /\ confirmadas' = confirmadas /\ chamada.lanca
        /\ chamada' = IF Len(quadros) = 1 THEN Ociosa ELSE chamada
        /\ IF pilha = <<>>
             THEN UNCHANGED <<disco, visivel, pilha>>
             ELSE IF Last(quadros) = 0
               THEN visivel' = disco /\ pilha' = <<>> /\ UNCHANGED disco
               ELSE visivel' = Last(pilha) /\ Release(Last(pilha))
    BY <1>4 DEF Unwind
  <2>2. disco' = disco
    <3>1. CASE pilha = <<>> \/ Last(quadros) = 0
      BY <2>1, <3>1
    <3>2. CASE pilha # <<>> /\ Last(quadros) # 0 /\ Len(pilha) # 1
      BY <2>1, <3>2 DEF Release
    <3>3. CASE pilha # <<>> /\ Last(quadros) # 0 /\ Len(pilha) = 1
      <4>1. Last(pilha) = disco
        BY <1>1, <3>3 DEF Abertas, Last
      <4> QED BY <2>1, <3>3, <4>1 DEF Release
    <3> QED BY <3>1, <3>2, <3>3
  <2> QED BY <1>1, <2>1, <2>2
<1> QED BY <1>2, <1>3, <1>4 DEF InTransaction

LEMMA CommitsOnlyAdd ==
  ASSUME BancoInv, Guardadas, InTransaction
  PROVE  Guardadas'
BY TransactionEffect DEF Guardadas, LinhasDe

LEMMA OtherStepsKeepCommits ==
  ASSUME Guardadas, UNCHANGED <<disco, confirmadas>>
  PROVE  Guardadas'
BY DEF Guardadas, LinhasDe

-----------------------------------------------------------------------------
(* The database alone *)

LEMMA BancoInitInv == BancoInit => BancoInv /\ Guardadas
<1> SUFFICES ASSUME BancoInit PROVE BancoInv /\ Guardadas
  OBVIOUS
<1>1. Ociosa \in [op: Ops \cup {SemOp}, feitas: 0..Partes, lanca: BOOLEAN]
  BY BancoAssumption DEF Ociosa
<1>2. ~EmChamada /\ chamada = Ociosa
  BY DEF BancoInit, EmChamada, Ociosa
<1>3. BancoTipos
  BY <1>1 DEF BancoInit, BancoTipos
<1>4. AllOrNothing
  BY WholeEmpty DEF BancoInit, AllOrNothing
<1>5. NothingLeftOpen /\ Guardadas
  BY DEF BancoInit, NothingLeftOpen, Guardadas
<1> QED BY <1>2, <1>3, <1>4, <1>5 DEF BancoInv

LEMMA BancoInductive == BancoInv /\ [BancoNext]_bancoVars => BancoInv'
<1> SUFFICES ASSUME BancoInv, [BancoNext]_bancoVars PROVE BancoInv'
  OBVIOUS
<1>1. CASE \E o \in Ops : BeginTransaction(o) \/ BeginFails(o)
  BY <1>1, BeginKeeps, BeginFailsKeeps
<1>2. CASE InTransaction
  BY <1>2, TransactionKeeps
<1>3. CASE LoseConnection
  BY <1>3, LoseKeeps
<1>4. CASE UNCHANGED bancoVars
  BY <1>4, StutterKeeps
<1> QED BY <1>1, <1>2, <1>3, <1>4 DEF BancoNext

(* executeTransaction commits all the writes of an operation or none, and      *)
(* leaves nothing open, however deep the calls nest, whichever statement        *)
(* throws, and also after a BEGIN that failed has left the depth at 1.         *)
THEOREM TransactionsAreAtomic == BancoSpec => [](AllOrNothing /\ NothingLeftOpen)
<1>1. BancoInit => BancoInv
  BY BancoInitInv
<1>2. BancoInv /\ [BancoNext]_bancoVars => BancoInv'
  BY BancoInductive
<1>3. BancoInv => AllOrNothing /\ NothingLeftOpen
  BY DEF BancoInv
<1> QED BY <1>1, <1>2, <1>3, PTL DEF BancoSpec

-----------------------------------------------------------------------------
(* The invariant of the calls that replace the file *)

SuporteTipos ==
  /\ arquivo \in Arquivo /\ esquema \in Esquema
  /\ anexos \in SUBSET ComArquivo /\ config \in Config
  /\ copias \in [Copias -> Copia]
  /\ processo \in {"PARADO", "INICIANDO", "PRONTO"}
  /\ cliente \in {"NULO", "ABERTO"} /\ servicos \in {"FECHADO", "ABERTO"}
  /\ tarefa \in Tarefa
  /\ pendentes \in SUBSET ComArquivo
  /\ trocando \in Copias \cup {SemCopia}

\* Which call may be under way with which other part of the state.
TarefaInv ==
  /\ EmChamada =>
       processo = "PRONTO" /\ servicos = "ABERTO" /\ tarefa.tipo \in {"NENHUMA", "SETUP"}
  /\ EmChamada /\ tarefa.tipo = "SETUP" =>
       tarefa.passo = "transacao" /\ chamada.op = Instalacao
  /\ tarefa.tipo = "XML" => processo = "PRONTO" /\ tarefa.op \in ComArquivo
  /\ tarefa.tipo \in {"BACKUP", "RESTORE"} => tarefa.copia \in Copias
  /\ tarefa.tipo \in {"INICIO", "RESTORE"} => servicos = "FECHADO"
  /\ tarefa.tipo = "INICIO" => arquivo = "INTEIRO" /\ processo = "INICIANDO"
  /\ processo # "PRONTO" => servicos = "FECHADO"
  /\ arquivo = "AUSENTE" => disco = {}
  /\ servicos = "ABERTO" =>
       arquivo = "INTEIRO" /\ esquema.versao = Versoes /\ esquema.semeado

Completa(linhas, cfg) == cfg = "COMPLETA" => LinhasDe(Instalacao, Partes) \subseteq linhas

\* A state that can be gone back to.
BoaCopia(k) ==
  /\ Lastreadas(k.linhas, k.anexos)
  /\ k.config # "TRUNCADA"
  /\ Completa(k.linhas, k.config)

\* What a copy can be counted on for: always whole operations, and more once it is
\* complete and as long as it stays as it was left.
Cumpre(k) ==
  /\ \A o \in Ops : Inteira(k.linhas, o)
  /\ k.fiel => k.manifesto = "INTEIRO" /\ k.banco = "INTEIRO"
  /\ k.fiel /\ k.limpa => BoaCopia(k)

CopiasInv == \A c \in Copias : Cumpre(copias[c])

\* The application in a state that no restore has broken.
Saudavel ==
  /\ arquivo # "PARCIAL"
  /\ arquivo = "AUSENTE" => processo = "PARADO" /\ confirmadas = {}
  /\ Lastreadas(disco, anexos)
  /\ Completa(disco, config)
  /\ EmChamada /\ chamada.op \in ComArquivo => chamada.op \in anexos
  /\ tarefa.tipo = "XML" => tarefa.op \in anexos
  /\ tarefa.tipo = "SETUP" /\ tarefa.passo \in {"config", "grava"} =>
       LinhasDe(Instalacao, Partes) \subseteq disco

Trocada(c) == copias[c].manifesto = "INTEIRO" /\ copias[c].banco = "INTEIRO"

\* A backup under way, by its next step.
BackupInv ==
  tarefa.tipo = "BACKUP" =>
    LET k == copias[tarefa.copia] IN
    /\ ~k.fiel
    /\ k.limpa => trocando = SemCopia
    /\ tarefa.passo \in {"banco", "config", "anexos", "manifesto"}
    /\ tarefa.passo # "banco" => k.linhas = disco /\ k.banco = "INTEIRO"
    /\ tarefa.passo \in {"anexos", "manifesto"} =>
         k.config # "TRUNCADA" /\ (k.config = "COMPLETA" => config = "COMPLETA")
    /\ tarefa.passo = "manifesto" => anexos \subseteq k.anexos

\* A restore under way, by its next step.
RestoreInv ==
  tarefa.tipo = "RESTORE" =>
    LET k == copias[tarefa.copia] IN
    /\ Trocada(tarefa.copia)
    /\ tarefa.passo # "remove" => trocando = tarefa.copia
    /\ tarefa.passo \in {"config", "grava", "anexos", "inicia"} => disco = k.linhas
    /\ tarefa.passo \in {"anexos", "inicia"} => config = k.config
    /\ tarefa.passo = "inicia" => k.anexos \subseteq anexos

RecInv ==
  /\ trocando = SemCopia => Saudavel
  /\ CopiasInv /\ BackupInv /\ RestoreInv

SuporteInv ==
  BancoInv /\ Guardadas /\ SuporteTipos /\ TarefaInv /\ RecInv

-----------------------------------------------------------------------------
(* What the pieces of an action do *)

Passos == {"", "migra", "transacao", "config", "grava", "linhas", "banco", "anexos",
           "manifesto", "remove", "esvazia", "inicia"}

LEMMA NoTask ==
  /\ SemTarefa \in Tarefa /\ SemTarefa.tipo = "NENHUMA" /\ SemTarefa.passo = ""
BY DEF SemTarefa, Tarefa

LEMMA TaskFields ==
  ASSUME tarefa \in Tarefa
  PROVE  /\ tarefa.tipo \in {"NENHUMA", "INICIO", "SETUP", "XML", "BACKUP", "RESTORE"}
         /\ tarefa.passo \in Passos
         /\ tarefa.copia \in Copias \cup {SemCopia} /\ tarefa.op \in Ops \cup {SemOp}
BY DEF Tarefa, Passos

LEMMA NextStep ==
  ASSUME tarefa \in Tarefa, NEW p \in Passos, Segue(p)
  PROVE  /\ tarefa' \in Tarefa
         /\ tarefa'.tipo = tarefa.tipo /\ tarefa'.passo = p
         /\ tarefa'.copia = tarefa.copia /\ tarefa'.op = tarefa.op
BY DEF Segue, Tarefa, Passos

LEMMA NewTask ==
  ASSUME NEW t \in {"NENHUMA", "INICIO", "SETUP", "XML", "BACKUP", "RESTORE"},
         NEW p \in Passos, NEW c \in Copias \cup {SemCopia}, NEW o \in Ops \cup {SemOp},
         Inicia(t, p, c, o)
  PROVE  /\ tarefa' \in Tarefa
         /\ tarefa'.tipo = t /\ tarefa'.passo = p /\ tarefa'.copia = c /\ tarefa'.op = o
BY DEF Inicia, Tarefa, Passos

LEMMA CopyChanges ==
  ASSUME copias \in [Copias -> Copia], NEW c \in Copias, NEW k \in Copia, NaCopia(c, k)
  PROVE  /\ copias' \in [Copias -> Copia] /\ copias'[c] = k
         /\ \A d \in Copias : d # c => copias'[d] = copias[d]
BY DEF NaCopia

LEMMA CopyFields ==
  ASSUME NEW k \in Copia
  PROVE  /\ k.manifesto \in Arquivo /\ k.banco \in Arquivo
         /\ k.linhas \in SUBSET Linhas /\ k.esquema \in Esquema
         /\ k.anexos \in SUBSET ComArquivo /\ k.config \in Config
         /\ k.limpa \in BOOLEAN /\ k.fiel \in BOOLEAN
BY DEF Copia

LEMMA EmptyCopy ==
  /\ Vazio \in Esquema /\ CopiaVazia \in Copia
  /\ CopiaVazia.manifesto = "AUSENTE" /\ CopiaVazia.banco = "AUSENTE"
  /\ CopiaVazia.linhas = {} /\ CopiaVazia.config = "AUSENTE" /\ CopiaVazia.fiel = FALSE
<1>1. Vazio \in Esquema
  BY SuporteAssumption DEF Vazio, Esquema
<1>2. CopiaVazia \in Copia
  BY <1>1 DEF CopiaVazia, Copia, Arquivo, Config
<1> QED BY <1>1, <1>2 DEF CopiaVazia

(* A step that is none of the database. *)
LEMMA DatabaseSame ==
  ASSUME BancoInv, Guardadas, UNCHANGED bancoVars
  PROVE  /\ BancoInv' /\ Guardadas' /\ (EmChamada' <=> EmChamada)
         /\ disco' = disco /\ chamada' = chamada /\ confirmadas' = confirmadas
<1>1. BancoInv'
  BY StutterKeeps
<1>2. disco' = disco /\ chamada' = chamada /\ confirmadas' = confirmadas
  BY DEF bancoVars
<1> QED BY <1>1, <1>2 DEF Guardadas, LinhasDe, EmChamada

(* A connection that opens another file. *)
LEMMA DatabaseReplaced ==
  ASSUME BancoInv, ~EmChamada, NEW linhas \in SUBSET Linhas,
         \A o \in Ops : Inteira(linhas, o), Conteudo(linhas)
  PROVE  BancoInv' /\ Guardadas' /\ ~EmChamada' /\ disco' = linhas
<1>1. /\ chamada = Ociosa /\ pilha = <<>> /\ quadros = <<>> /\ depth \in {0, 1}
  BY DEF BancoInv, NothingLeftOpen, BancoTipos
<1>2. /\ disco' = linhas /\ visivel' = linhas /\ depth' = depth /\ quadros' = quadros
      /\ pilha' = pilha /\ chamada' = chamada
      /\ confirmadas' = {o \in Ops : LinhasDe(o, Partes) \subseteq linhas}
  BY DEF Conteudo
<1>3. BancoInv'
  BY <1>1, <1>2, IdleIsFine, BancoAssumption
<1>4. Guardadas'
  BY <1>2 DEF Guardadas, LinhasDe
<1>5. ~EmChamada'
  BY <1>2 DEF EmChamada
<1> QED BY <1>2, <1>3, <1>4, <1>5

LEMMA DatabaseClosed ==
  ASSUME BancoInv, Guardadas, LoseConnection
  PROVE  /\ BancoInv' /\ Guardadas' /\ ~EmChamada'
         /\ disco' = disco /\ confirmadas' = confirmadas
<1>1. disco' = disco /\ confirmadas' = confirmadas /\ chamada' = Ociosa
  BY DEF LoseConnection
<1> QED BY <1>1, LoseKeeps, OtherStepsKeepCommits DEF EmChamada, Ociosa

LEMMA DatabaseCalled ==
  ASSUME BancoInv, Guardadas, NEW o \in Ops, BeginTransaction(o) \/ BeginFails(o)
  PROVE  /\ BancoInv' /\ Guardadas'
         /\ disco' = disco /\ confirmadas' = confirmadas
         /\ EmChamada' => chamada'.op = o
         /\ BeginFails(o) => ~EmChamada'
<1>1. CASE BeginTransaction(o)
  <2>1. disco' = disco /\ confirmadas' = confirmadas /\ chamada'.op = o
    BY <1>1 DEF BeginTransaction, Ociosa
  <2>2. o # SemOp /\ ~EmChamada
    BY <1>1, BancoAssumption DEF BeginTransaction
  <2>3. BeginFails(o) => chamada' = chamada
    BY DEF BeginFails
  <2> QED BY <1>1, <2>1, <2>2, <2>3, BeginKeeps, OtherStepsKeepCommits DEF EmChamada
<1>2. CASE BeginFails(o)
  <2>1. disco' = disco /\ confirmadas' = confirmadas /\ chamada' = chamada /\ ~EmChamada
    BY <1>2 DEF BeginFails
  <2> QED BY <1>2, <2>1, BeginFailsKeeps, OtherStepsKeepCommits DEF EmChamada
<1> QED BY <1>1, <1>2

LEMMA DatabaseInTransaction ==
  ASSUME BancoInv, Guardadas, InTransaction
  PROVE  BancoInv' /\ Guardadas'
BY TransactionKeeps, CommitsOnlyAdd

-----------------------------------------------------------------------------
(* One lemma per group of actions *)

(* A call ends; the client and the schema may have changed meanwhile, if no    *)
(* service is in use.                                                         *)
LEMMA CallEnds ==
  ASSUME SuporteInv, tarefa' = SemTarefa,
         UNCHANGED <<bancoVars, arquivo, anexos, config, copias, servicos, pendentes,
                     trocando>>,
         processo' = processo \/ (processo' = "PARADO" /\ servicos = "FECHADO"),
         cliente' \in {"NULO", "ABERTO"}, esquema' \in Esquema,
         esquema' = esquema \/ servicos = "FECHADO"
  PROVE  SuporteInv'
<1>1. /\ BancoInv /\ Guardadas /\ SuporteTipos /\ TarefaInv /\ RecInv
      /\ arquivo' = arquivo /\ anexos' = anexos /\ config' = config
      /\ copias' = copias /\ servicos' = servicos /\ pendentes' = pendentes
      /\ trocando' = trocando
  BY DEF SuporteInv
<1>2. /\ BancoInv' /\ Guardadas' /\ (EmChamada' <=> EmChamada)
      /\ disco' = disco /\ chamada' = chamada /\ confirmadas' = confirmadas
  BY <1>1, DatabaseSame
<1>3. tarefa' \in Tarefa /\ tarefa'.tipo = "NENHUMA"
  BY NoTask
<1>4. SuporteTipos'
  BY <1>1, <1>3 DEF SuporteTipos
<1>5. TarefaInv'
  BY <1>1, <1>2, <1>3 DEF TarefaInv
<1>6. trocando = SemCopia => Saudavel'
  BY <1>1, <1>2, <1>3 DEF RecInv, Saudavel
<1>7. CopiasInv' /\ BackupInv' /\ RestoreInv'
  BY <1>1, <1>3 DEF RecInv, CopiasInv, BackupInv, RestoreInv
<1> QED BY <1>1, <1>2, <1>4, <1>5, <1>6, <1>7 DEF SuporteInv, RecInv

(* A call ends and changes nothing else. *)
LEMMA EndsKeep ==
  ASSUME SuporteInv, tarefa' = SemTarefa,
         UNCHANGED <<bancoVars, arquivosVars, copias, cliente, servicos, pendentes, trocando>>,
         processo' = processo \/ (processo' = "PARADO" /\ servicos = "FECHADO")
  PROVE  SuporteInv'
<1>1. /\ UNCHANGED <<bancoVars, arquivo, anexos, config, copias, servicos, pendentes,
                     trocando>>
      /\ cliente' = cliente /\ esquema' = esquema
  BY DEF arquivosVars
<1>2. cliente \in {"NULO", "ABERTO"} /\ esquema \in Esquema
  BY DEF SuporteInv, SuporteTipos
<1> QED BY <1>1, <1>2, CallEnds

(* The schema as the client that is left behind has it.                       *)
LEMMA ClientLeft ==
  ASSUME esquema \in Esquema, ClientIsLeft
  PROVE  esquema' \in Esquema /\ cliente' = "ABERTO" /\ tarefa.tipo = "RESTORE"
BY DEF ClientIsLeft, Passo, Esquema

LEMMA TaskFailsKeeps ==
  ASSUME SuporteInv, TaskFails
  PROVE  SuporteInv'
<1>1. /\ tarefa' = SemTarefa
      /\ UNCHANGED <<bancoVars, arquivo, anexos, config, copias, servicos, pendentes,
                     trocando>>
      /\ processo' = IF tarefa.tipo = "INICIO" THEN "PARADO" ELSE processo
      /\ ClientIsLeft \/ (esquema' = esquema /\ cliente' = cliente)
  BY Zenon DEF TaskFails
<1>2. /\ tarefa.tipo \in {"INICIO", "RESTORE"} => servicos = "FECHADO"
      /\ esquema \in Esquema /\ cliente \in {"NULO", "ABERTO"}
  BY DEF SuporteInv, TarefaInv, SuporteTipos
<1>3. processo' = processo \/ (processo' = "PARADO" /\ servicos = "FECHADO")
  BY <1>1, <1>2
<1>4. CASE ClientIsLeft
  <2>1. esquema' \in Esquema /\ cliente' = "ABERTO" /\ tarefa.tipo = "RESTORE"
    BY <1>2, <1>4, ClientLeft
  <2>2. servicos = "FECHADO"
    BY <1>2, <2>1
  <2>3. cliente' \in {"NULO", "ABERTO"}
    BY <2>1
  <2> QED BY <1>1, <1>3, <2>1, <2>2, <2>3, CallEnds, Zenon
<1>5. CASE esquema' = esquema /\ cliente' = cliente
  BY <1>1, <1>2, <1>3, <1>5, CallEnds
<1> QED BY <1>1, <1>4, <1>5

LEMMA StartKeeps ==
  ASSUME SuporteInv, Start
  PROVE  SuporteInv'
<1>1. /\ BancoInv /\ Guardadas /\ SuporteTipos /\ TarefaInv /\ RecInv
      /\ processo = "PARADO" /\ processo' = "INICIANDO" /\ arquivo' = "INTEIRO"
      /\ anexos' = anexos /\ config' = config /\ copias' = copias /\ servicos' = servicos
      /\ pendentes' = pendentes /\ cliente' = cliente /\ trocando' = trocando
  BY DEF SuporteInv, Start
<1>2. ~EmChamada /\ servicos = "FECHADO"
  BY <1>1 DEF TarefaInv
<1>3. tarefa' \in Tarefa /\ tarefa'.tipo = "INICIO" /\ tarefa'.passo = "migra"
  BY NewTask DEF Start, Passos
<1>4. /\ BancoInv' /\ Guardadas' /\ ~EmChamada'
      /\ disco' = disco \/ disco' = {}
      /\ esquema' = esquema \/ esquema' = Vazio
      /\ arquivo = "AUSENTE" => disco' = {}
  <2>1. CASE UNCHANGED <<bancoVars, esquema>>
    BY <1>1, <1>2, <2>1, DatabaseSame DEF TarefaInv
  <2>2. CASE /\ disco' = {} /\ visivel' = {} /\ confirmadas' = {}
             /\ esquema' = Vazio /\ UNCHANGED <<depth, quadros, pilha, chamada>>
    <3>1. /\ chamada = Ociosa /\ pilha = <<>> /\ quadros = <<>> /\ depth \in {0, 1}
      BY <1>1, <1>2 DEF BancoInv, NothingLeftOpen, BancoTipos
    <3>2. BancoInv'
      BY <2>2, <3>1, WholeEmpty, IdleIsFine, BancoAssumption
    <3>3. Guardadas' /\ ~EmChamada'
      BY <1>2, <2>2 DEF Guardadas, EmChamada
    <3> QED BY <2>2, <3>2, <3>3
  <2> QED BY <1>1, <2>1, <2>2 DEF Start
<1>5. SuporteTipos'
  <2>1. Vazio \in Esquema
    BY EmptyCopy
  <2> QED BY <1>1, <1>3, <1>4, <2>1 DEF SuporteTipos, Arquivo
<1>6. TarefaInv'
  BY <1>1, <1>2, <1>3, <1>4 DEF TarefaInv
<1>7. trocando = SemCopia => Saudavel'
  <2>1. LinhasDe(Instalacao, Partes) # {}
    <3>1. 1 \in 1..Partes
      BY BancoAssumption
    <3>2. <<Instalacao, 1>> \in LinhasDe(Instalacao, Partes)
      BY <3>1 DEF LinhasDe
    <3> QED BY <3>2
  <2>2. Lastreadas({}, anexos)
    BY DEF Lastreadas
  <2>3. ASSUME trocando = SemCopia
        PROVE  Lastreadas(disco', anexos) /\ Completa(disco', config)
    <3>1. CASE disco' = disco
      BY <1>1, <2>3, <3>1 DEF RecInv, Saudavel
    <3>2. CASE disco' # disco
      <4>1. arquivo # "INTEIRO"
        BY <3>2 DEF Start, bancoVars
      <4>2. arquivo = "AUSENTE"
        BY <1>1, <2>3, <4>1 DEF RecInv, Saudavel, SuporteTipos, Arquivo
      <4>3. disco = {}
        BY <1>1, <4>2 DEF TarefaInv
      <4> QED BY <1>4, <3>2, <4>2, <4>3
    <3> QED BY <3>1, <3>2
  <2> QED BY <1>1, <1>3, <1>4, <2>3 DEF Saudavel
<1>8. CopiasInv' /\ BackupInv' /\ RestoreInv'
  BY <1>1, <1>3 DEF RecInv, CopiasInv, BackupInv, RestoreInv, Trocada
<1> QED BY <1>1, <1>4, <1>5, <1>6, <1>7, <1>8 DEF SuporteInv, RecInv

LEMMA MigrateKeeps ==
  ASSUME SuporteInv, MigrateUp
  PROVE  SuporteInv'
<1>1. /\ BancoInv /\ Guardadas /\ SuporteTipos /\ TarefaInv /\ RecInv
      /\ arquivo' = arquivo /\ anexos' = anexos /\ config' = config /\ copias' = copias
      /\ processo' = processo /\ cliente' = cliente /\ servicos' = servicos
      /\ pendentes' = pendentes /\ tarefa' = tarefa /\ trocando' = trocando
      /\ UNCHANGED bancoVars
  BY DEF SuporteInv, MigrateUp, processoVars
<1>2. tarefa.tipo \in {"INICIO", "RESTORE"}
  BY DEF MigrateUp, Iniciando, Passo
<1>3. /\ BancoInv' /\ Guardadas' /\ (EmChamada' <=> EmChamada)
      /\ disco' = disco /\ chamada' = chamada /\ confirmadas' = confirmadas
  BY <1>1, DatabaseSame
<1>4. esquema' \in Esquema
  <2>1. esquema \in Esquema /\ esquema.versao < Versoes /\ Versoes \in Nat
        /\ esquema' = [esquema EXCEPT !.versao = @ + 1]
    BY <1>1, SuporteAssumption DEF SuporteTipos, MigrateUp
  <2>2. esquema.versao + 1 \in 0..Versoes
    BY <2>1 DEF Esquema
  <2> QED BY <2>1, <2>2 DEF Esquema
<1>5. SuporteTipos'
  BY <1>1, <1>4 DEF SuporteTipos
<1>6. TarefaInv'
  BY <1>1, <1>2, <1>3 DEF TarefaInv
<1>7. trocando = SemCopia => Saudavel'
  BY <1>1, <1>3 DEF RecInv, Saudavel
<1>8. CopiasInv' /\ BackupInv' /\ RestoreInv'
  BY <1>1, <1>3 DEF RecInv, CopiasInv, BackupInv, RestoreInv, Trocada
<1> QED BY <1>1, <1>3, <1>5, <1>6, <1>7, <1>8 DEF SuporteInv, RecInv

(* The seed leaves every migration and itself in the file. *)
LEMMA SeedEffect ==
  ASSUME BancoInv, Guardadas, esquema \in Esquema, SeedInitialFoundationIfEmpty
  PROVE  /\ BancoInv' /\ Guardadas' /\ (EmChamada' <=> EmChamada)
         /\ disco' = disco /\ chamada' = chamada /\ confirmadas' = confirmadas
         /\ esquema' \in Esquema /\ esquema'.versao = Versoes /\ esquema'.semeado
<1>1. UNCHANGED bancoVars
  BY DEF SeedInitialFoundationIfEmpty, bancoVars
<1>2. esquema.versao = Versoes /\ esquema' = [esquema EXCEPT !.semeado = TRUE]
  BY DEF SeedInitialFoundationIfEmpty
<1>3. esquema' \in Esquema /\ esquema'.versao = Versoes /\ esquema'.semeado
  BY <1>2 DEF Esquema
<1> QED BY <1>1, <1>2, <1>3, DatabaseSame

LEMMA ReadyKeeps ==
  ASSUME SuporteInv, Ready
  PROVE  SuporteInv'
<1>1. /\ BancoInv /\ Guardadas /\ SuporteTipos /\ TarefaInv /\ RecInv
      /\ tarefa.tipo = "INICIO" /\ SeedInitialFoundationIfEmpty
      /\ processo' = "PRONTO" /\ cliente' = "ABERTO" /\ servicos' = "ABERTO"
      /\ tarefa' = SemTarefa
      /\ arquivo' = arquivo /\ anexos' = anexos /\ config' = config /\ copias' = copias
      /\ pendentes' = pendentes /\ trocando' = trocando
  BY DEF SuporteInv, Ready
<1>2. /\ BancoInv' /\ Guardadas' /\ (EmChamada' <=> EmChamada)
      /\ disco' = disco /\ chamada' = chamada /\ confirmadas' = confirmadas
      /\ esquema' \in Esquema /\ esquema'.versao = Versoes /\ esquema'.semeado
  BY <1>1, SeedEffect DEF SuporteTipos
<1>3. tarefa' \in Tarefa /\ tarefa'.tipo = "NENHUMA"
  BY <1>1, NoTask
<1>4. arquivo = "INTEIRO" /\ ~EmChamada
  BY <1>1 DEF TarefaInv
<1>5. SuporteTipos'
  BY <1>1, <1>2, <1>3 DEF SuporteTipos
<1>6. TarefaInv'
  BY <1>1, <1>2, <1>3, <1>4 DEF TarefaInv
<1>7. trocando = SemCopia => Saudavel'
  BY <1>1, <1>2, <1>3, <1>4 DEF RecInv, Saudavel
<1>8. CopiasInv' /\ BackupInv' /\ RestoreInv'
  BY <1>1, <1>3 DEF RecInv, CopiasInv, BackupInv, RestoreInv, Trocada
<1> QED BY <1>1, <1>2, <1>5, <1>6, <1>7, <1>8 DEF SuporteInv, RecInv

LEMMA StopKeeps ==
  ASSUME SuporteInv, Stop
  PROVE  SuporteInv'
<1>1. /\ BancoInv /\ Guardadas /\ SuporteTipos /\ TarefaInv /\ RecInv
      /\ LoseConnection /\ processo' = "PARADO" /\ cliente' = "NULO"
      /\ servicos' = "FECHADO" /\ tarefa' = SemTarefa /\ pendentes' = {}
      /\ arquivo' = arquivo /\ esquema' = esquema /\ anexos' = anexos /\ config' = config
      /\ copias' = copias /\ trocando' = trocando
  BY DEF SuporteInv, Stop, arquivosVars
<1>2. /\ BancoInv' /\ Guardadas' /\ ~EmChamada'
      /\ disco' = disco /\ confirmadas' = confirmadas
  BY <1>1, DatabaseClosed
<1>3. tarefa' \in Tarefa /\ tarefa'.tipo = "NENHUMA"
  BY <1>1, NoTask
<1>4. SuporteTipos'
  BY <1>1, <1>3 DEF SuporteTipos
<1>5. TarefaInv'
  BY <1>1, <1>2, <1>3 DEF TarefaInv
<1>6. trocando = SemCopia => Saudavel'
  BY <1>1, <1>2, <1>3 DEF RecInv, Saudavel
<1>7. CopiasInv' /\ BackupInv' /\ RestoreInv'
  BY <1>1, <1>3 DEF RecInv, CopiasInv, BackupInv, RestoreInv, Trocada
<1> QED BY <1>1, <1>2, <1>4, <1>5, <1>6, <1>7 DEF SuporteInv, RecInv

LEMMA ServiceCallKeeps ==
  ASSUME SuporteInv, NEW o \in Ops, ServiceCall(o)
  PROVE  SuporteInv'
<1>1. /\ BancoInv /\ Guardadas /\ SuporteTipos /\ TarefaInv /\ RecInv
      /\ Livre /\ servicos = "ABERTO" /\ o \notin ComArquivo
      /\ BeginTransaction(o) \/ BeginFails(o)
      /\ arquivo' = arquivo /\ esquema' = esquema /\ anexos' = anexos /\ config' = config
      /\ copias' = copias /\ processo' = processo /\ cliente' = cliente
      /\ servicos' = servicos /\ pendentes' = pendentes /\ tarefa' = tarefa
      /\ trocando' = trocando
  BY DEF SuporteInv, ServiceCall, arquivosVars, processoVars
<1>2. /\ BancoInv' /\ Guardadas' /\ (EmChamada' => chamada'.op = o)
      /\ disco' = disco /\ confirmadas' = confirmadas
  BY <1>1, DatabaseCalled
<1>3. processo = "PRONTO" /\ tarefa.tipo = "NENHUMA"
  BY <1>1, NoTask DEF Livre
<1>4. SuporteTipos'
  BY <1>1 DEF SuporteTipos
<1>5. TarefaInv'
  BY <1>1, <1>2, <1>3 DEF TarefaInv
<1>6. trocando = SemCopia => Saudavel'
  BY <1>1, <1>2, <1>3 DEF RecInv, Saudavel
<1>7. CopiasInv' /\ BackupInv' /\ RestoreInv'
  BY <1>1, <1>3 DEF RecInv, CopiasInv, BackupInv, RestoreInv, Trocada
<1> QED BY <1>1, <1>2, <1>4, <1>5, <1>6, <1>7 DEF SuporteInv, RecInv

LEMMA IssueKeeps ==
  ASSUME SuporteInv, NEW o \in ComArquivo, IssueDocument(o)
  PROVE  SuporteInv'
<1>1. /\ BancoInv /\ Guardadas /\ SuporteTipos /\ TarefaInv /\ RecInv
      /\ UNCHANGED bancoVars
      /\ arquivo' = arquivo /\ esquema' = esquema /\ anexos' = anexos /\ config' = config
      /\ copias' = copias /\ processo' = processo /\ cliente' = cliente
      /\ servicos' = servicos /\ pendentes' = pendentes \cup {o} /\ tarefa' = tarefa
      /\ trocando' = trocando
  BY DEF SuporteInv, IssueDocument, arquivosVars
<1>2. /\ BancoInv' /\ Guardadas' /\ (EmChamada' <=> EmChamada)
      /\ disco' = disco /\ chamada' = chamada /\ confirmadas' = confirmadas
  BY <1>1, DatabaseSame
<1>3. SuporteTipos'
  BY <1>1 DEF SuporteTipos
<1>4. TarefaInv'
  BY <1>1, <1>2 DEF TarefaInv
<1>5. trocando = SemCopia => Saudavel'
  BY <1>1, <1>2 DEF RecInv, Saudavel
<1>6. CopiasInv' /\ BackupInv' /\ RestoreInv'
  BY <1>1, <1>2 DEF RecInv, CopiasInv, BackupInv, RestoreInv, Trocada
<1> QED BY <1>1, <1>2, <1>3, <1>4, <1>5, <1>6 DEF SuporteInv, RecInv

LEMMA StoreXmlKeeps ==
  ASSUME SuporteInv, NEW o \in ComArquivo, StoreAuthorizedXml(o)
  PROVE  SuporteInv'
<1>1. /\ BancoInv /\ Guardadas /\ SuporteTipos /\ TarefaInv /\ RecInv
      /\ Livre /\ UNCHANGED bancoVars
      /\ arquivo' = arquivo /\ esquema' = esquema /\ anexos' = anexos \cup {o}
      /\ config' = config /\ copias' = copias /\ processo' = processo
      /\ cliente' = cliente /\ servicos' = servicos /\ pendentes' = pendentes \ {o}
      /\ trocando' = trocando
  BY DEF SuporteInv, StoreAuthorizedXml
<1>2. /\ BancoInv' /\ Guardadas' /\ (EmChamada' <=> EmChamada)
      /\ disco' = disco /\ chamada' = chamada /\ confirmadas' = confirmadas
  BY <1>1, DatabaseSame
<1>3. processo = "PRONTO" /\ ~EmChamada
  BY <1>1 DEF Livre
<1>4. tarefa' \in Tarefa /\ tarefa'.tipo = "XML" /\ tarefa'.op = o
  <2>1. o \in Ops
    BY SuporteAssumption
  <2> QED BY <2>1, NewTask DEF StoreAuthorizedXml, Passos
<1>5. SuporteTipos'
  BY <1>1, <1>4 DEF SuporteTipos
<1>6. TarefaInv'
  BY <1>1, <1>2, <1>3, <1>4 DEF TarefaInv
<1>7. trocando = SemCopia => Saudavel'
  <2>1. Lastreadas(disco, anexos) => Lastreadas(disco, anexos \cup {o})
    BY DEF Lastreadas
  <2> QED BY <1>1, <1>2, <1>3, <1>4, <2>1 DEF RecInv, Saudavel
<1>8. CopiasInv' /\ BackupInv' /\ RestoreInv'
  BY <1>1, <1>4 DEF RecInv, CopiasInv, BackupInv, RestoreInv, Trocada
<1> QED BY <1>1, <1>2, <1>5, <1>6, <1>7, <1>8 DEF SuporteInv, RecInv

LEMMA ApplyStateKeeps ==
  ASSUME SuporteInv, ApplyAuthorizedState
  PROVE  SuporteInv'
<1>1. /\ BancoInv /\ Guardadas /\ SuporteTipos /\ TarefaInv /\ RecInv
      /\ tarefa.tipo = "XML" /\ tarefa' = SemTarefa
      /\ UNCHANGED <<arquivosVars, copias, processoVars, trocando>>
      /\ \/ servicos = "ABERTO" /\ BeginTransaction(tarefa.op)
         \/ servicos = "ABERTO" /\ BeginFails(tarefa.op)
         \/ servicos = "FECHADO" /\ UNCHANGED bancoVars
  BY DEF SuporteInv, ApplyAuthorizedState, Passo
<1>2. /\ arquivo' = arquivo /\ esquema' = esquema /\ anexos' = anexos /\ config' = config
      /\ copias' = copias /\ processo' = processo /\ cliente' = cliente
      /\ servicos' = servicos /\ pendentes' = pendentes /\ trocando' = trocando
  BY <1>1 DEF arquivosVars, processoVars
<1>3. CASE UNCHANGED bancoVars
  BY <1>1, <1>2, <1>3, EndsKeep, Zenon DEF arquivosVars
<1>4. CASE servicos = "ABERTO" /\ (BeginTransaction(tarefa.op) \/ BeginFails(tarefa.op))
  <2>1. tarefa.op \in ComArquivo /\ tarefa.op \in Ops /\ processo = "PRONTO"
    BY <1>1, SuporteAssumption DEF TarefaInv
  <2>2. /\ BancoInv' /\ Guardadas' /\ (EmChamada' => chamada'.op = tarefa.op)
        /\ disco' = disco /\ confirmadas' = confirmadas
    BY <1>1, <1>4, <2>1, DatabaseCalled
  <2>3. tarefa' \in Tarefa /\ tarefa'.tipo = "NENHUMA"
    BY <1>1, NoTask
  <2>4. SuporteTipos'
    BY <1>1, <1>2, <2>3 DEF SuporteTipos
  <2>5. TarefaInv'
    BY <1>1, <1>2, <1>4, <2>1, <2>2, <2>3 DEF TarefaInv
  <2>6. trocando = SemCopia => Saudavel'
    BY <1>1, <1>2, <2>1, <2>2, <2>3 DEF RecInv, Saudavel
  <2>7. CopiasInv' /\ BackupInv' /\ RestoreInv'
    BY <1>1, <1>2, <2>3 DEF RecInv, CopiasInv, BackupInv, RestoreInv, Trocada
  <2> QED BY <1>2, <2>2, <2>4, <2>5, <2>6, <2>7 DEF SuporteInv, RecInv
<1> QED BY <1>1, <1>3, <1>4

LEMMA FirstRunKeeps ==
  ASSUME SuporteInv, CompleteFirstRun
  PROVE  SuporteInv'
<1>1. /\ BancoInv /\ Guardadas /\ SuporteTipos /\ TarefaInv /\ RecInv
      /\ Livre /\ servicos = "ABERTO"
      /\ arquivo' = arquivo /\ esquema' = esquema /\ anexos' = anexos /\ config' = config
      /\ copias' = copias /\ processo' = processo /\ cliente' = cliente
      /\ servicos' = servicos /\ pendentes' = pendentes /\ trocando' = trocando
      /\ \/ BeginTransaction(Instalacao)
            /\ Inicia("SETUP", "transacao", SemCopia, Instalacao)
         \/ BeginFails(Instalacao) /\ tarefa' = tarefa
  BY DEF SuporteInv, CompleteFirstRun, arquivosVars, processoVars
<1>2. Instalacao \in Ops /\ Instalacao \notin ComArquivo
  BY SuporteAssumption
<1>3. /\ BancoInv' /\ Guardadas' /\ (EmChamada' => chamada'.op = Instalacao)
      /\ disco' = disco /\ confirmadas' = confirmadas
      /\ BeginFails(Instalacao) => ~EmChamada'
  BY <1>1, <1>2, DatabaseCalled
<1>4. processo = "PRONTO" /\ tarefa.tipo = "NENHUMA" /\ tarefa \in Tarefa
  BY <1>1, NoTask DEF Livre
<1>5. /\ tarefa' \in Tarefa
      /\ \/ tarefa'.tipo = "SETUP" /\ tarefa'.passo = "transacao"
         \/ tarefa'.tipo = "NENHUMA" /\ ~EmChamada'
  <2>1. CASE Inicia("SETUP", "transacao", SemCopia, Instalacao)
    BY <1>2, <2>1, NewTask DEF Passos
  <2>2. CASE BeginFails(Instalacao) /\ tarefa' = tarefa
    BY <1>3, <1>4, <2>2
  <2> QED BY <1>1, <2>1, <2>2
<1>6. SuporteTipos'
  BY <1>1, <1>5 DEF SuporteTipos
<1>7. TarefaInv'
  BY <1>1, <1>3, <1>4, <1>5 DEF TarefaInv
<1>8. trocando = SemCopia => Saudavel'
  BY <1>1, <1>2, <1>3, <1>4, <1>5 DEF RecInv, Saudavel
<1>9. CopiasInv' /\ BackupInv' /\ RestoreInv'
  BY <1>1, <1>5 DEF RecInv, CopiasInv, BackupInv, RestoreInv, Trocada
<1> QED BY <1>1, <1>3, <1>6, <1>7, <1>8, <1>9 DEF SuporteInv, RecInv

LEMMA TransactionStepKeeps ==
  ASSUME SuporteInv, TransactionStep
  PROVE  SuporteInv'
<1>1. /\ BancoInv /\ Guardadas /\ SuporteTipos /\ TarefaInv /\ RecInv
      /\ InTransaction
      /\ IF tarefa.tipo = "SETUP" /\ chamada'.op = SemOp
           THEN IF chamada.lanca THEN tarefa' = SemTarefa ELSE Segue("config")
           ELSE UNCHANGED tarefa
      /\ arquivo' = arquivo /\ esquema' = esquema /\ anexos' = anexos /\ config' = config
      /\ copias' = copias /\ processo' = processo /\ cliente' = cliente
      /\ servicos' = servicos /\ pendentes' = pendentes /\ trocando' = trocando
  BY DEF SuporteInv, TransactionStep, arquivosVars, processoVars
<1>2. /\ EmChamada /\ chamada.op \in Ops
      /\ disco \subseteq disco'
      /\ disco' \subseteq disco \cup LinhasDe(chamada.op, Partes)
      /\ chamada'.op \in {chamada.op, SemOp}
      /\ chamada'.op = SemOp /\ ~chamada.lanca => LinhasDe(chamada.op, Partes) \subseteq disco'
  BY <1>1, TransactionEffect
<1>3. BancoInv' /\ Guardadas'
  BY <1>1, DatabaseInTransaction
<1>4. /\ processo = "PRONTO" /\ servicos = "ABERTO" /\ arquivo = "INTEIRO"
      /\ tarefa.tipo \in {"NENHUMA", "SETUP"}
      /\ tarefa.tipo = "SETUP" => tarefa.passo = "transacao" /\ chamada.op = Instalacao
      /\ tarefa \in Tarefa
  BY <1>1, <1>2 DEF TarefaInv, SuporteTipos
<1>5. EmChamada' => chamada'.op = chamada.op
  BY <1>2 DEF EmChamada
<1>6. /\ tarefa' \in Tarefa
      /\ \/ tarefa' = tarefa /\ (EmChamada' \/ tarefa.tipo = "NENHUMA")
         \/ tarefa'.tipo = "NENHUMA" /\ ~EmChamada'
         \/ /\ tarefa'.tipo = "SETUP" /\ tarefa'.passo = "config" /\ ~EmChamada'
            /\ LinhasDe(Instalacao, Partes) \subseteq disco'
  <2>1. CASE ~(tarefa.tipo = "SETUP" /\ chamada'.op = SemOp)
    BY <1>1, <1>4, <2>1 DEF EmChamada
  <2>2. CASE tarefa.tipo = "SETUP" /\ chamada'.op = SemOp /\ chamada.lanca
    <3>1. tarefa' = SemTarefa /\ ~EmChamada'
      BY <1>1, <2>2 DEF EmChamada
    <3> QED BY <3>1, NoTask
  <2>3. CASE tarefa.tipo = "SETUP" /\ chamada'.op = SemOp /\ ~chamada.lanca
    <3>1. Segue("config") /\ ~EmChamada' /\ LinhasDe(Instalacao, Partes) \subseteq disco'
      BY <1>1, <1>2, <1>4, <2>3 DEF EmChamada
    <3>2. "config" \in Passos
      BY DEF Passos
    <3> QED BY <1>4, <2>3, <3>1, <3>2, NextStep
  <2> QED BY <2>1, <2>2, <2>3
<1>7. SuporteTipos'
  BY <1>1, <1>6 DEF SuporteTipos
<1>8. TarefaInv'
  BY <1>1, <1>4, <1>5, <1>6 DEF TarefaInv
<1>9. trocando = SemCopia => Saudavel'
  <2>1. ASSUME trocando = SemCopia
        PROVE  Lastreadas(disco', anexos) /\ Completa(disco', config)
    <3>1. /\ Lastreadas(disco, anexos) /\ Completa(disco, config)
          /\ chamada.op \in ComArquivo => chamada.op \in anexos
      BY <1>1, <1>2, <2>1 DEF RecInv, Saudavel
    <3>2. ASSUME NEW o \in ComArquivo, LinhasDe(o, Partes) \cap disco' # {}
          PROVE  o \in anexos
      <4>1. CASE o = chamada.op
        BY <3>1, <4>1
      <4>2. CASE o # chamada.op
        <5>1. LinhasDe(o, Partes) \cap LinhasDe(chamada.op, Partes) = {}
          BY <4>2 DEF LinhasDe
        <5>2. LinhasDe(o, Partes) \cap disco # {}
          BY <1>2, <3>2, <5>1
        <5> QED BY <3>1, <5>2 DEF Lastreadas
      <4> QED BY <4>1, <4>2
    <3> QED BY <1>2, <3>1, <3>2 DEF Lastreadas, Completa
  <2>2. ASSUME trocando = SemCopia
        PROVE  EmChamada' /\ chamada'.op \in ComArquivo => chamada'.op \in anexos
    BY <1>1, <1>2, <1>5, <2>2 DEF RecInv, Saudavel
  <2> QED BY <1>1, <1>4, <1>6, <2>1, <2>2 DEF Saudavel
<1>10. CopiasInv' /\ BackupInv' /\ RestoreInv'
  <2>1. tarefa'.tipo \notin {"BACKUP", "RESTORE"}
    BY <1>4, <1>6
  <2> QED BY <1>1, <2>1 DEF RecInv, CopiasInv, BackupInv, RestoreInv, Trocada
<1> QED BY <1>1, <1>3, <1>7, <1>8, <1>9, <1>10 DEF SuporteInv, RecInv

LEMMA WriteConfigKeeps ==
  ASSUME SuporteInv, WriteConfig
  PROVE  SuporteInv'
<1>1. /\ BancoInv /\ Guardadas /\ SuporteTipos /\ TarefaInv /\ RecInv
      /\ UNCHANGED bancoVars
      /\ tarefa.tipo = "SETUP" /\ tarefa.passo = "config"
      /\ arquivo' = arquivo /\ esquema' = esquema /\ anexos' = anexos
      /\ copias' = copias /\ processo' = processo /\ cliente' = cliente
      /\ servicos' = servicos /\ pendentes' = pendentes /\ trocando' = trocando
      /\ \/ tarefa' = SemTarefa /\ config' = config
         \/ config' = "TRUNCADA" /\ Segue("grava")
  BY DEF SuporteInv, WriteConfig, processoVars, Passo
<1>2. /\ BancoInv' /\ Guardadas' /\ (EmChamada' <=> EmChamada)
      /\ disco' = disco /\ chamada' = chamada /\ confirmadas' = confirmadas
  BY <1>1, DatabaseSame
<1>3. CASE tarefa' = SemTarefa /\ config' = config
  BY <1>1, <1>3, EndsKeep, Zenon DEF arquivosVars
<1>4. CASE config' = "TRUNCADA" /\ Segue("grava")
  <2>1. tarefa \in Tarefa /\ "grava" \in Passos
    BY <1>1 DEF SuporteTipos, Passos
  <2>2. tarefa' \in Tarefa /\ tarefa'.tipo = "SETUP" /\ tarefa'.passo = "grava"
    BY <1>1, <1>4, <2>1, NextStep
  <2>3. ~EmChamada
    BY <1>1 DEF TarefaInv
  <2>4. SuporteTipos'
    BY <1>1, <1>4, <2>2 DEF SuporteTipos, Config
  <2>5. TarefaInv'
    BY <1>1, <1>2, <2>2, <2>3 DEF TarefaInv
  <2>6. trocando = SemCopia => Saudavel'
    BY <1>1, <1>2, <1>4, <2>2 DEF RecInv, Saudavel, Completa
  <2>7. CopiasInv' /\ BackupInv' /\ RestoreInv'
    BY <1>1, <2>2 DEF RecInv, CopiasInv, BackupInv, RestoreInv, Trocada
  <2> QED BY <1>1, <1>2, <2>4, <2>5, <2>6, <2>7 DEF SuporteInv, RecInv
<1> QED BY <1>1, <1>3, <1>4

LEMMA WriteConfigEndsKeeps ==
  ASSUME SuporteInv, WriteConfigEnds
  PROVE  SuporteInv'
<1>1. /\ BancoInv /\ Guardadas /\ SuporteTipos /\ TarefaInv /\ RecInv
      /\ UNCHANGED bancoVars
      /\ tarefa.tipo = "SETUP" /\ tarefa.passo = "grava" /\ tarefa' = SemTarefa
      /\ arquivo' = arquivo /\ esquema' = esquema /\ anexos' = anexos
      /\ config' = "COMPLETA" /\ copias' = copias /\ processo' = processo
      /\ cliente' = cliente /\ servicos' = servicos /\ pendentes' = pendentes
      /\ trocando' = trocando
  BY DEF SuporteInv, WriteConfigEnds, processoVars, Passo
<1>2. /\ BancoInv' /\ Guardadas' /\ (EmChamada' <=> EmChamada)
      /\ disco' = disco /\ chamada' = chamada /\ confirmadas' = confirmadas
  BY <1>1, DatabaseSame
<1>3. tarefa' \in Tarefa /\ tarefa'.tipo = "NENHUMA"
  BY <1>1, NoTask
<1>4. SuporteTipos'
  BY <1>1, <1>3 DEF SuporteTipos, Config
<1>5. TarefaInv'
  BY <1>1, <1>2, <1>3 DEF TarefaInv
<1>6. trocando = SemCopia => Saudavel'
  BY <1>1, <1>2, <1>3 DEF RecInv, Saudavel, Completa
<1>7. CopiasInv' /\ BackupInv' /\ RestoreInv'
  BY <1>1, <1>3 DEF RecInv, CopiasInv, BackupInv, RestoreInv, Trocada
<1> QED BY <1>1, <1>2, <1>4, <1>5, <1>6, <1>7 DEF SuporteInv, RecInv

LEMMA BrandLogoKeeps ==
  ASSUME SuporteInv, UpdateBrandLogo
  PROVE  SuporteInv'
<1>1. /\ BancoInv /\ Guardadas /\ SuporteTipos /\ TarefaInv /\ RecInv
      /\ UNCHANGED bancoVars /\ Livre /\ config = "COMPLETA"
      /\ arquivo' = arquivo /\ esquema' = esquema /\ anexos' = anexos
      /\ config' = config /\ copias' = copias /\ processo' = processo
      /\ cliente' = cliente /\ servicos' = servicos /\ pendentes' = pendentes
      /\ trocando' = trocando
  BY DEF SuporteInv, UpdateBrandLogo, arquivosVars, processoVars
<1>2. /\ BancoInv' /\ Guardadas' /\ (EmChamada' <=> EmChamada)
      /\ disco' = disco /\ chamada' = chamada /\ confirmadas' = confirmadas
  BY <1>1, DatabaseSame
<1>3. ~EmChamada /\ processo = "PRONTO"
  BY <1>1 DEF Livre
<1>4. tarefa' \in Tarefa /\ tarefa'.tipo = "SETUP" /\ tarefa'.passo = "config"
  BY NewTask DEF UpdateBrandLogo, Passos
<1>5. SuporteTipos'
  BY <1>1, <1>4 DEF SuporteTipos
<1>6. TarefaInv'
  BY <1>1, <1>2, <1>3, <1>4 DEF TarefaInv
<1>7. trocando = SemCopia => Saudavel'
  BY <1>1, <1>2, <1>3, <1>4 DEF RecInv, Saudavel, Completa
<1>8. CopiasInv' /\ BackupInv' /\ RestoreInv'
  BY <1>1, <1>4 DEF RecInv, CopiasInv, BackupInv, RestoreInv, Trocada
<1> QED BY <1>1, <1>2, <1>5, <1>6, <1>7, <1>8 DEF SuporteInv, RecInv

-----------------------------------------------------------------------------
(* Backup *)

(* A step that changes nothing but one copy, what comes next and which events   *)
(* of backups the database has.                                               *)
LEMMA CopyChangeKeeps ==
  ASSUME SuporteInv, NEW c \in Copias, NEW k \in Copia,
         ~EmChamada, NaCopia(c, k), Cumpre(k),
         UNCHANGED <<bancoVars, arquivo, anexos, config, processoVars, trocando>>,
         esquema' \in Esquema, esquema'.versao = esquema.versao,
         esquema'.semeado = esquema.semeado,
         tarefa' \in Tarefa, tarefa'.tipo \in {"NENHUMA", "BACKUP"},
         tarefa'.tipo = "BACKUP" => tarefa'.copia \in Copias,
         BackupInv'
  PROVE  SuporteInv'
<1>1. /\ BancoInv /\ Guardadas /\ SuporteTipos /\ TarefaInv /\ RecInv
      /\ arquivo' = arquivo /\ anexos' = anexos
      /\ config' = config /\ processo' = processo
      /\ cliente' = cliente /\ servicos' = servicos /\ pendentes' = pendentes
      /\ trocando' = trocando
  BY DEF SuporteInv, processoVars
<1>2. /\ BancoInv' /\ Guardadas' /\ (EmChamada' <=> EmChamada)
      /\ disco' = disco /\ chamada' = chamada /\ confirmadas' = confirmadas
  BY <1>1, DatabaseSame
<1>3. /\ copias' \in [Copias -> Copia] /\ copias'[c] = k
      /\ \A d \in Copias : d # c => copias'[d] = copias[d]
  BY <1>1, CopyChanges DEF SuporteTipos
<1>4. SuporteTipos'
  BY <1>1, <1>3 DEF SuporteTipos
<1>5. TarefaInv'
  BY <1>1, <1>2 DEF TarefaInv
<1>6. trocando = SemCopia => Saudavel'
  BY <1>1, <1>2 DEF RecInv, Saudavel
<1>7. CopiasInv'
  <2>1. ASSUME NEW d \in Copias
        PROVE  Cumpre(copias'[d])
    <3>1. CASE d = c
      BY <1>3, <3>1
    <3>2. CASE d # c
      BY <1>1, <1>3, <3>2 DEF RecInv, CopiasInv
    <3> QED BY <3>1, <3>2
  <2> QED BY <2>1 DEF CopiasInv
<1>8. RestoreInv'
  BY DEF RestoreInv
<1> QED BY <1>1, <1>2, <1>4, <1>5, <1>6, <1>7, <1>8 DEF SuporteInv, RecInv

LEMMA CopyingKeeps ==
  ASSUME SuporteInv, NEW c \in Copias, NEW k \in Copia,
         ~EmChamada, NaCopia(c, k), Cumpre(k),
         UNCHANGED <<bancoVars, arquivosVars, processoVars, trocando>>,
         tarefa' \in Tarefa, tarefa'.tipo \in {"NENHUMA", "BACKUP"},
         tarefa'.tipo = "BACKUP" => tarefa'.copia \in Copias,
         BackupInv'
  PROVE  SuporteInv'
<1>1. /\ UNCHANGED <<bancoVars, arquivo, anexos, config, processoVars, trocando>>
      /\ esquema' = esquema
  BY DEF arquivosVars
<1>2. esquema \in Esquema
  BY DEF SuporteInv, SuporteTipos
<1> QED BY <1>1, <1>2, CopyChangeKeeps

LEMMA CreateBackupKeeps ==
  ASSUME SuporteInv, NEW c \in Copias, CreateBackup(c)
  PROVE  SuporteInv'
<1> DEFINE b == (trocando = SemCopia)
           k == [copias[c] EXCEPT !.limpa = b, !.fiel = FALSE]
<1>1. /\ SuporteTipos /\ RecInv /\ Livre /\ NaCopia(c, k)
      /\ UNCHANGED <<bancoVars, arquivo, anexos, config, processoVars, trocando>>
      /\ esquema' = [esquema EXCEPT !.avisos = @ \cup {c}]
  BY DEF SuporteInv, CreateBackup
<1>2. copias \in [Copias -> Copia] /\ copias[c] \in Copia /\ Cumpre(copias[c])
  BY <1>1 DEF SuporteTipos, RecInv, CopiasInv
<1>3. /\ k \in Copia /\ k.linhas = copias[c].linhas /\ k.limpa = b /\ k.fiel = FALSE
  BY <1>2 DEF Copia
<1>4. /\ tarefa' \in Tarefa
      /\ tarefa'.tipo = "BACKUP" /\ tarefa'.passo = "banco" /\ tarefa'.copia = c
  BY NewTask DEF CreateBackup, Passos
<1>5. ~EmChamada
  BY <1>1 DEF Livre
<1>6. esquema' \in Esquema /\ esquema'.versao = esquema.versao /\ esquema'.semeado = esquema.semeado
  BY <1>1 DEF SuporteTipos, Esquema
<1> HIDE DEF k
<1>7. copias'[c] = k
  BY <1>1, <1>2, <1>3, CopyChanges
<1>8. BackupInv'
  BY <1>1, <1>3, <1>4, <1>7 DEF BackupInv
<1>9. Cumpre(k)
  BY <1>2, <1>3 DEF Cumpre
<1>10. tarefa'.tipo \in {"NENHUMA", "BACKUP"} /\ tarefa'.copia \in Copias
  BY <1>4
<1> QED BY <1>1, <1>3, <1>4, <1>5, <1>6, <1>8, <1>9, <1>10, CopyChangeKeeps

(* What the backup under way knows of its copy. *)
LEMMA BackupUnderWay ==
  ASSUME SuporteInv, tarefa.tipo = "BACKUP"
  PROVE  /\ tarefa \in Tarefa /\ tarefa.copia \in Copias /\ ~EmChamada
         /\ copias \in [Copias -> Copia] /\ copias[tarefa.copia] \in Copia
         /\ ~copias[tarefa.copia].fiel
         /\ copias[tarefa.copia].limpa => trocando = SemCopia
         /\ Cumpre(copias[tarefa.copia])
         /\ trocando = SemCopia => Saudavel
<1>1. SuporteTipos /\ TarefaInv /\ RecInv
  BY DEF SuporteInv
<1>2. tarefa \in Tarefa /\ tarefa.copia \in Copias /\ ~EmChamada
  BY <1>1 DEF SuporteTipos, TarefaInv
<1>3. copias \in [Copias -> Copia] /\ copias[tarefa.copia] \in Copia
  BY <1>1, <1>2 DEF SuporteTipos
<1>4. /\ ~copias[tarefa.copia].fiel
      /\ copias[tarefa.copia].limpa => trocando = SemCopia
      /\ trocando = SemCopia => Saudavel
  BY <1>1 DEF RecInv, BackupInv
<1>5. Cumpre(copias[tarefa.copia])
  BY <1>1, <1>2 DEF RecInv, CopiasInv
<1> QED BY <1>2, <1>3, <1>4, <1>5

(* A step of a backup that writes its copy and does not complete it.          *)
LEMMA BackupStepKeeps ==
  ASSUME SuporteInv, tarefa.tipo = "BACKUP", NEW k \in Copia,
         NaCopia(tarefa.copia, k),
         ~k.fiel, k.limpa = copias[tarefa.copia].limpa, \A o \in Ops : Inteira(k.linhas, o),
         UNCHANGED <<bancoVars, arquivosVars, processoVars, trocando>>,
         tarefa' \in Tarefa, tarefa'.tipo = "BACKUP", tarefa'.copia = tarefa.copia,
         tarefa'.passo \in {"banco", "config", "anexos", "manifesto"},
         tarefa'.passo # "banco" => k.linhas = disco /\ k.banco = "INTEIRO",
         tarefa'.passo \in {"anexos", "manifesto"} =>
           k.config # "TRUNCADA" /\ (k.config = "COMPLETA" => config = "COMPLETA"),
         tarefa'.passo = "manifesto" => anexos \subseteq k.anexos
  PROVE  SuporteInv'
<1>1. /\ tarefa.copia \in Copias /\ ~EmChamada
      /\ copias \in [Copias -> Copia]
      /\ copias[tarefa.copia].limpa => trocando = SemCopia
  BY BackupUnderWay
<1>2. disco' = disco /\ trocando' = trocando /\ config' = config /\ anexos' = anexos
  BY DEF bancoVars, arquivosVars
<1>3. copias'[tarefa.copia] = k
  BY <1>1, CopyChanges
<1>4. BackupInv'
  BY <1>1, <1>2, <1>3 DEF BackupInv
<1>5. Cumpre(k)
  BY DEF Cumpre
<1>6. tarefa'.tipo \in {"NENHUMA", "BACKUP"} /\ tarefa'.copia \in Copias
  BY <1>1
<1> QED BY <1>1, <1>4, <1>5, <1>6, CopyingKeeps

LEMMA CopyDatabaseKeeps ==
  ASSUME SuporteInv, CopyDatabase
  PROVE  SuporteInv'
<1> DEFINE c == tarefa.copia
           k1 == [copias[c] EXCEPT !.banco = "PARCIAL"]
           k2 == [copias[c] EXCEPT !.banco = "INTEIRO", !.linhas = disco, !.esquema = esquema]
<1>1. /\ tarefa.tipo = "BACKUP" /\ tarefa.passo = "banco"
      /\ UNCHANGED <<bancoVars, arquivosVars, processoVars, trocando>>
      /\ \/ NaCopia(c, k1) /\ tarefa' = tarefa
         \/ NaCopia(c, k2) /\ Segue("config")
  BY DEF CopyDatabase, Passo
<1>2. /\ tarefa \in Tarefa /\ c \in Copias /\ copias[c] \in Copia
      /\ ~copias[c].fiel /\ Cumpre(copias[c])
  BY <1>1, BackupUnderWay
<1>3. disco \in SUBSET Linhas /\ esquema \in Esquema /\ \A o \in Ops : Inteira(disco, o)
  BY DEF SuporteInv, SuporteTipos, BancoInv, BancoTipos, AllOrNothing
<1>4. \A o \in Ops : Inteira(copias[c].linhas, o)
  BY <1>2 DEF Cumpre
<1>5. /\ k1 \in Copia /\ ~k1.fiel /\ k1.limpa = copias[c].limpa
      /\ k1.linhas = copias[c].linhas
  BY <1>2 DEF Copia, Arquivo
<1>6. /\ k2 \in Copia /\ ~k2.fiel /\ k2.limpa = copias[c].limpa
      /\ k2.linhas = disco /\ k2.banco = "INTEIRO"
  BY <1>2, <1>3 DEF Copia, Arquivo
<1> HIDE DEF k1, k2
<1>7. CASE NaCopia(c, k1) /\ tarefa' = tarefa
  BY <1>1, <1>2, <1>4, <1>5, <1>7, BackupStepKeeps
<1>8. CASE NaCopia(c, k2) /\ Segue("config")
  <2>1. "config" \in Passos
    BY DEF Passos
  <2>2. /\ tarefa' \in Tarefa /\ tarefa'.tipo = "BACKUP"
        /\ tarefa'.passo = "config" /\ tarefa'.copia = c
    BY <1>1, <1>2, <1>8, <2>1, NextStep
  <2>3. \A o \in Ops : Inteira(k2.linhas, o)
    BY <1>3, <1>6
  <2> QED BY <1>1, <1>6, <1>8, <2>2, <2>3, BackupStepKeeps
<1> QED BY <1>1, <1>7, <1>8

LEMMA ExportConfigKeeps ==
  ASSUME SuporteInv, ExportConfig
  PROVE  SuporteInv'
<1> DEFINE c == tarefa.copia
           cfg == IF config = "AUSENTE" THEN "PENDENTE" ELSE config
           k1 == [copias[c] EXCEPT !.config = "TRUNCADA"]
           k2 == [copias[c] EXCEPT !.config = cfg]
<1>1. /\ tarefa.tipo = "BACKUP" /\ tarefa.passo = "config"
      /\ UNCHANGED <<bancoVars, arquivosVars, processoVars, trocando>>
      /\ \/ tarefa' = SemTarefa /\ UNCHANGED copias
         \/ NaCopia(c, k1) /\ tarefa' = tarefa
         \/ config # "TRUNCADA" /\ NaCopia(c, k2) /\ Segue("anexos")
  BY DEF ExportConfig, Passo
<1>2. /\ tarefa \in Tarefa /\ c \in Copias /\ copias[c] \in Copia
      /\ ~copias[c].fiel /\ Cumpre(copias[c])
  BY <1>1, BackupUnderWay
<1>3. copias[c].linhas = disco /\ copias[c].banco = "INTEIRO"
  BY <1>1 DEF SuporteInv, RecInv, BackupInv
<1>4. \A o \in Ops : Inteira(copias[c].linhas, o)
  BY <1>2 DEF Cumpre
<1>5. cfg \in Config /\ (cfg = "COMPLETA" => config = "COMPLETA")
      /\ (config # "TRUNCADA" => cfg # "TRUNCADA")
  BY DEF SuporteInv, SuporteTipos, Config
<1> HIDE DEF cfg
<1>6. /\ k1 \in Copia /\ ~k1.fiel /\ k1.limpa = copias[c].limpa
      /\ k1.linhas = copias[c].linhas /\ k1.banco = copias[c].banco
  BY <1>2 DEF Copia, Config
<1>7. /\ k2 \in Copia /\ ~k2.fiel /\ k2.limpa = copias[c].limpa
      /\ k2.linhas = copias[c].linhas /\ k2.banco = copias[c].banco /\ k2.config = cfg
  BY <1>2, <1>5 DEF Copia
<1> HIDE DEF k1, k2
<1>8. CASE tarefa' = SemTarefa /\ UNCHANGED copias
  <2>1. /\ UNCHANGED <<bancoVars, arquivosVars, copias, cliente, servicos, pendentes, trocando>>
        /\ processo' = processo
    BY <1>1, <1>8 DEF processoVars
  <2> QED BY <1>8, <2>1, EndsKeep, Zenon
<1>9. CASE NaCopia(c, k1) /\ tarefa' = tarefa
  BY <1>1, <1>2, <1>3, <1>4, <1>6, <1>9, BackupStepKeeps
<1>10. CASE config # "TRUNCADA" /\ NaCopia(c, k2) /\ Segue("anexos")
  <2>1. "anexos" \in Passos
    BY DEF Passos
  <2>2. /\ tarefa' \in Tarefa /\ tarefa'.tipo = "BACKUP"
        /\ tarefa'.passo = "anexos" /\ tarefa'.copia = c
    BY <1>1, <1>2, <1>10, <2>1, NextStep
  <2> QED BY <1>1, <1>3, <1>4, <1>5, <1>7, <1>10, <2>2, BackupStepKeeps
<1> QED BY <1>1, <1>8, <1>9, <1>10

LEMMA CopyDirectoriesKeeps ==
  ASSUME SuporteInv, CopyDirectories
  PROVE  SuporteInv'
<1> DEFINE c == tarefa.copia
<1>1. /\ tarefa.tipo = "BACKUP" /\ tarefa.passo = "anexos"
      /\ UNCHANGED <<bancoVars, arquivosVars, processoVars, trocando>>
      /\ \/ \E a \in anexos :
              /\ NaCopia(c, [copias[c] EXCEPT !.anexos = @ \cup {a}])
              /\ tarefa' = tarefa
         \/ /\ anexos \ copias[c].anexos = {} /\ Segue("manifesto")
            /\ copias' = copias
  BY DEF CopyDirectories, Passo
<1>2. /\ tarefa \in Tarefa /\ c \in Copias
      /\ copias \in [Copias -> Copia] /\ copias[c] \in Copia
      /\ ~copias[c].fiel /\ Cumpre(copias[c])
  BY <1>1, BackupUnderWay
<1>3. /\ copias[c].linhas = disco /\ copias[c].banco = "INTEIRO"
      /\ copias[c].config # "TRUNCADA" /\ (copias[c].config = "COMPLETA" => config = "COMPLETA")
  BY <1>1 DEF SuporteInv, RecInv, BackupInv
<1>4. \A o \in Ops : Inteira(copias[c].linhas, o)
  BY <1>2 DEF Cumpre
<1>5. ASSUME NEW a \in anexos,
             NaCopia(c, [copias[c] EXCEPT !.anexos = @ \cup {a}]), tarefa' = tarefa
      PROVE  SuporteInv'
  <2> DEFINE k == [copias[c] EXCEPT !.anexos = @ \cup {a}]
  <2>1. a \in ComArquivo
    BY DEF SuporteInv, SuporteTipos
  <2>2. /\ k \in Copia /\ ~k.fiel /\ k.limpa = copias[c].limpa
        /\ k.linhas = copias[c].linhas /\ k.banco = copias[c].banco
        /\ k.config = copias[c].config
    BY <1>2, <2>1 DEF Copia
  <2>3. NaCopia(c, k)
    BY <1>5
  <2> HIDE DEF k
  <2>4. \A o \in Ops : Inteira(k.linhas, o)
    BY <1>4, <2>2
  <2>5. /\ tarefa' \in Tarefa /\ tarefa'.tipo = "BACKUP" /\ tarefa'.copia = tarefa.copia
        /\ tarefa'.passo = "anexos"
    BY <1>1, <1>2, <1>5
  <2> QED BY <1>1, <1>3, <2>2, <2>3, <2>4, <2>5, BackupStepKeeps
<1>6. CASE anexos \ copias[c].anexos = {} /\ Segue("manifesto") /\ copias' = copias
  <2>1. "manifesto" \in Passos
    BY DEF Passos
  <2>2. /\ tarefa' \in Tarefa /\ tarefa'.tipo = "BACKUP"
        /\ tarefa'.passo = "manifesto" /\ tarefa'.copia = c
    BY <1>1, <1>2, <1>6, <2>1, NextStep
  <2>3. NaCopia(c, copias[c])
    BY <1>2, <1>6 DEF NaCopia
  <2> QED BY <1>1, <1>2, <1>3, <1>4, <1>6, <2>2, <2>3, BackupStepKeeps
<1> QED BY <1>1, <1>5, <1>6

LEMMA WriteManifestKeeps ==
  ASSUME SuporteInv, WriteManifest
  PROVE  SuporteInv'
<1> DEFINE c == tarefa.copia
           k1 == [copias[c] EXCEPT !.manifesto = "PARCIAL"]
           k2 == [copias[c] EXCEPT !.manifesto = "INTEIRO", !.fiel = TRUE]
<1>1. /\ tarefa.tipo = "BACKUP" /\ tarefa.passo = "manifesto"
      /\ UNCHANGED <<bancoVars, arquivosVars, processoVars, trocando>>
      /\ \/ NaCopia(c, k1) /\ tarefa' = tarefa
         \/ NaCopia(c, k2) /\ tarefa' = SemTarefa
  BY DEF WriteManifest, Passo
<1>2. /\ tarefa \in Tarefa /\ c \in Copias /\ ~EmChamada
      /\ copias[c] \in Copia /\ ~copias[c].fiel
      /\ copias[c].limpa => trocando = SemCopia
      /\ Cumpre(copias[c])
      /\ trocando = SemCopia => Saudavel
  BY <1>1, BackupUnderWay
<1>3. /\ copias[c].linhas = disco /\ copias[c].banco = "INTEIRO"
      /\ anexos \subseteq copias[c].anexos
      /\ copias[c].config # "TRUNCADA" /\ (copias[c].config = "COMPLETA" => config = "COMPLETA")
  BY <1>1 DEF SuporteInv, RecInv, BackupInv
<1>4. \A o \in Ops : Inteira(copias[c].linhas, o)
  BY <1>2 DEF Cumpre
<1>5. /\ k1 \in Copia /\ ~k1.fiel /\ k1.limpa = copias[c].limpa
      /\ k1.linhas = copias[c].linhas /\ k1.banco = copias[c].banco
      /\ k1.config = copias[c].config /\ k1.anexos = copias[c].anexos
  BY <1>2 DEF Copia, Arquivo
<1>6. /\ k2 \in Copia /\ k2.manifesto = "INTEIRO" /\ k2.limpa = copias[c].limpa
      /\ k2.linhas = disco /\ k2.banco = "INTEIRO"
      /\ k2.config = copias[c].config /\ k2.anexos = copias[c].anexos
  BY <1>2, <1>3 DEF Copia, Arquivo
<1> HIDE DEF k1, k2
<1>7. CASE NaCopia(c, k1) /\ tarefa' = tarefa
  BY <1>1, <1>2, <1>3, <1>4, <1>5, <1>7, BackupStepKeeps
<1>8. CASE NaCopia(c, k2) /\ tarefa' = SemTarefa
  <2>1. tarefa' \in Tarefa /\ tarefa'.tipo = "NENHUMA"
    BY <1>8, NoTask
  <2>2. BackupInv'
    BY <2>1 DEF BackupInv
  <2>3. k2.limpa => BoaCopia(k2)
    BY <1>2, <1>3, <1>6 DEF Saudavel, BoaCopia, Lastreadas, Completa
  <2>4. Cumpre(k2)
    BY <1>3, <1>4, <1>6, <2>3 DEF Cumpre
  <2> QED BY <1>1, <1>2, <1>6, <1>8, <2>1, <2>2, <2>4, CopyingKeeps
<1> QED BY <1>1, <1>7, <1>8

(* A copy that decays holds whole operations, if any.                          *)
LEMMA DecayedCopy ==
  ASSUME copias \in [Copias -> Copia], NEW c \in Copias, Decay(c)
  PROVE  \E k \in Copia :
           /\ NaCopia(c, k) /\ ~k.fiel
           /\ k.linhas = copias[c].linhas \/ k.linhas = {}
           /\ k.banco = "INTEIRO" =>
                k.linhas = copias[c].linhas /\ k.banco = copias[c].banco
<1> DEFINE q == copias[c]
<1>1. q \in Copia
  OBVIOUS
<1>2. PICK e \in {CopiaVazia, [q EXCEPT !.config = "TRUNCADA"]}
                 \cup {[q EXCEPT !.banco = estado] : estado \in {"AUSENTE", "PARCIAL"}}
                 \cup {[q EXCEPT !.anexos = @ \ {a}] : a \in q.anexos} :
             NaCopia(c, [e EXCEPT !.fiel = FALSE])
  BY Zenon DEF Decay
<1> HIDE DEF q
<1> DEFINE Resta(x) ==
             /\ x \in Copia
             /\ x.linhas = q.linhas \/ x.linhas = {}
             /\ x.banco = "INTEIRO" => x.linhas = q.linhas /\ x.banco = q.banco
<1>3. Resta(e)
  <2>1. CASE e = CopiaVazia
    BY <2>1, EmptyCopy
  <2>2. CASE e = [q EXCEPT !.config = "TRUNCADA"]
    BY <1>1, <2>2 DEF Copia, Config
  <2>3. ASSUME NEW estado \in {"AUSENTE", "PARCIAL"}, e = [q EXCEPT !.banco = estado]
        PROVE  Resta(e)
    BY <1>1, <2>3 DEF Copia, Arquivo
  <2>4. ASSUME NEW a \in q.anexos, e = [q EXCEPT !.anexos = @ \ {a}]
        PROVE  Resta(e)
    BY <1>1, <2>4 DEF Copia
  <2>5. \/ e = CopiaVazia \/ e = [q EXCEPT !.config = "TRUNCADA"]
        \/ \E estado \in {"AUSENTE", "PARCIAL"} : e = [q EXCEPT !.banco = estado]
        \/ \E a \in q.anexos : e = [q EXCEPT !.anexos = @ \ {a}]
    OBVIOUS
  <2> HIDE DEF Resta
  <2> QED BY <2>1, <2>2, <2>3, <2>4, <2>5, Zenon
<1> DEFINE k == [e EXCEPT !.fiel = FALSE]
<1>4. k \in Copia /\ ~k.fiel /\ k.linhas = e.linhas /\ k.banco = e.banco
  BY <1>3 DEF Copia
<1>5. NaCopia(c, k)
  BY <1>2
<1> HIDE DEF k
<1> QED BY <1>3, <1>4, <1>5 DEF q

LEMMA DecayKeeps ==
  ASSUME SuporteInv, NEW c \in Copias, Decay(c)
  PROVE  SuporteInv'
<1>1. /\ SuporteTipos /\ RecInv /\ Livre /\ tarefa' = tarefa
      /\ UNCHANGED <<bancoVars, arquivosVars, processoVars, trocando>>
  BY DEF SuporteInv, Decay
<1>2. copias \in [Copias -> Copia] /\ Cumpre(copias[c])
  BY <1>1 DEF SuporteTipos, RecInv, CopiasInv
<1>3. PICK k \in Copia :
        NaCopia(c, k) /\ ~k.fiel /\ (k.linhas = copias[c].linhas \/ k.linhas = {})
  BY <1>2, DecayedCopy
<1>4. ~EmChamada /\ tarefa' \in Tarefa /\ tarefa'.tipo = "NENHUMA"
  BY <1>1, NoTask DEF Livre
<1>5. BackupInv'
  BY <1>4 DEF BackupInv
<1>6. Cumpre(k)
  BY <1>2, <1>3, WholeEmpty DEF Cumpre
<1> QED BY <1>1, <1>3, <1>4, <1>5, <1>6, CopyingKeeps

-----------------------------------------------------------------------------
(* Restore *)

LEMMA RestoreBackupKeeps ==
  ASSUME SuporteInv, NEW c \in Copias, RestoreBackup(c)
  PROVE  SuporteInv'
<1>1. /\ BancoInv /\ Guardadas /\ SuporteTipos /\ TarefaInv /\ RecInv
      /\ Livre /\ Restorable(c) /\ IntegrityCheck(c) /\ LoseConnection
      /\ cliente' = "NULO" /\ servicos' = "FECHADO"
      /\ arquivo' = arquivo /\ esquema' = esquema /\ anexos' = anexos /\ config' = config
      /\ copias' = copias /\ processo' = processo /\ pendentes' = pendentes
      /\ trocando' = trocando
  BY DEF SuporteInv, RestoreBackup, arquivosVars
<1>2. /\ BancoInv' /\ Guardadas' /\ ~EmChamada'
      /\ disco' = disco /\ confirmadas' = confirmadas
  BY <1>1, DatabaseClosed
<1>3. /\ tarefa' \in Tarefa /\ tarefa'.tipo = "RESTORE" /\ tarefa'.passo = "remove"
      /\ tarefa'.copia = c
  BY NewTask DEF RestoreBackup, Passos
<1>4. Trocada(c)
  BY <1>1 DEF Restorable, IntegrityCheck, Trocada
<1>5. SuporteTipos'
  BY <1>1, <1>3 DEF SuporteTipos
<1>6. TarefaInv'
  BY <1>1, <1>2, <1>3 DEF TarefaInv, Livre
<1>7. trocando = SemCopia => Saudavel'
  BY <1>1, <1>2, <1>3 DEF RecInv, Saudavel
<1>8. CopiasInv' /\ BackupInv' /\ RestoreInv'
  BY <1>1, <1>3, <1>4 DEF RecInv, CopiasInv, BackupInv, RestoreInv, Trocada
<1> QED BY <1>1, <1>2, <1>5, <1>6, <1>7, <1>8 DEF SuporteInv, RecInv

(* What the restore under way knows of its copy. *)
LEMMA RestoreUnderWay ==
  ASSUME SuporteInv, tarefa.tipo = "RESTORE"
  PROVE  /\ BancoInv /\ Guardadas /\ SuporteTipos /\ TarefaInv /\ RecInv
         /\ tarefa \in Tarefa /\ tarefa.copia \in Copias /\ tarefa.copia # SemCopia
         /\ ~EmChamada /\ servicos = "FECHADO"
         /\ copias[tarefa.copia] \in Copia /\ Trocada(tarefa.copia)
         /\ \A o \in Ops : Inteira(copias[tarefa.copia].linhas, o)
         /\ tarefa.passo # "remove" => trocando = tarefa.copia
<1>1. BancoInv /\ Guardadas /\ SuporteTipos /\ TarefaInv /\ RecInv
  BY DEF SuporteInv
<1>2. tarefa \in Tarefa /\ tarefa.copia \in Copias /\ ~EmChamada /\ servicos = "FECHADO"
  BY <1>1 DEF SuporteTipos, TarefaInv
<1>3. tarefa.copia # SemCopia
  BY <1>2, SuporteAssumption
<1>4. copias[tarefa.copia] \in Copia /\ \A o \in Ops : Inteira(copias[tarefa.copia].linhas, o)
  BY <1>1, <1>2 DEF SuporteTipos, RecInv, CopiasInv, Cumpre
<1>5. Trocada(tarefa.copia) /\ (tarefa.passo # "remove" => trocando = tarefa.copia)
  BY <1>1 DEF RecInv, RestoreInv
<1> QED BY <1>1, <1>2, <1>3, <1>4, <1>5

(* A step of a restore that leaves the application broken, with the copy it    *)
(* comes from as it was.                                                      *)
LEMMA RestoringKeeps ==
  ASSUME SuporteInv, tarefa.tipo = "RESTORE",
         BancoInv', Guardadas', ~EmChamada',
         UNCHANGED <<copias, processo, cliente, servicos, pendentes>>,
         arquivo' \in Arquivo, esquema' \in Esquema, anexos' \in SUBSET ComArquivo,
         config' \in Config, arquivo' = "AUSENTE" => disco' = {},
         trocando' = tarefa.copia,
         tarefa' \in Tarefa, tarefa'.tipo = "RESTORE", tarefa'.copia = tarefa.copia,
         RestoreInv'
  PROVE  SuporteInv'
<1>1. /\ SuporteTipos /\ TarefaInv /\ RecInv
      /\ tarefa.copia \in Copias /\ tarefa.copia # SemCopia
      /\ servicos = "FECHADO" /\ Trocada(tarefa.copia)
  BY RestoreUnderWay
<1>2. SuporteTipos'
  BY <1>1 DEF SuporteTipos
<1>3. TarefaInv'
  BY <1>1 DEF TarefaInv
<1>4. CopiasInv' /\ BackupInv' /\ trocando' # SemCopia
  BY <1>1 DEF RecInv, CopiasInv, BackupInv, Trocada
<1> QED BY <1>2, <1>3, <1>4 DEF SuporteInv, RecInv

LEMMA RemoveDatabaseKeeps ==
  ASSUME SuporteInv, RemoveDatabase
  PROVE  SuporteInv'
<1>1. /\ tarefa.tipo = "RESTORE" /\ arquivo' = "AUSENTE" /\ Conteudo({})
      /\ esquema' = Vazio /\ trocando' = tarefa.copia /\ Segue("esvazia")
      /\ anexos' = anexos /\ config' = config /\ copias' = copias /\ processo' = processo
      /\ cliente' = cliente /\ servicos' = servicos /\ pendentes' = pendentes
  BY DEF RemoveDatabase, Passo, processoVars
<1>2. /\ BancoInv /\ SuporteTipos /\ tarefa \in Tarefa /\ ~EmChamada
      /\ Trocada(tarefa.copia)
  BY <1>1, RestoreUnderWay
<1>3. BancoInv' /\ Guardadas' /\ ~EmChamada' /\ disco' = {}
  BY <1>1, <1>2, WholeEmpty, DatabaseReplaced
<1>4. "esvazia" \in Passos /\ Vazio \in Esquema /\ "AUSENTE" \in Arquivo
  BY EmptyCopy DEF Passos, Arquivo
<1>5. /\ tarefa' \in Tarefa /\ tarefa'.tipo = "RESTORE" /\ tarefa'.passo = "esvazia"
      /\ tarefa'.copia = tarefa.copia
  BY <1>1, <1>2, <1>4, NextStep
<1>6. RestoreInv'
  BY <1>1, <1>2, <1>5 DEF RestoreInv, Trocada
<1>7. anexos' \in SUBSET ComArquivo /\ config' \in Config
  BY <1>1, <1>2 DEF SuporteTipos
<1> QED BY <1>1, <1>3, <1>4, <1>5, <1>6, <1>7, RestoringKeeps

LEMMA EmptyDirectoriesKeeps ==
  ASSUME SuporteInv, EmptyDirectories
  PROVE  SuporteInv'
<1>1. /\ tarefa.tipo = "RESTORE" /\ tarefa.passo = "esvazia" /\ UNCHANGED bancoVars
      /\ arquivo' = arquivo /\ esquema' = esquema /\ config' = config /\ copias' = copias
      /\ processo' = processo /\ cliente' = cliente /\ servicos' = servicos
      /\ pendentes' = pendentes /\ trocando' = trocando
      /\ \/ (\E a \in anexos : anexos' = anexos \ {a}) /\ tarefa' = tarefa
         \/ Segue("banco") /\ anexos' = anexos
  BY DEF EmptyDirectories, Passo, processoVars
<1>2. /\ BancoInv /\ Guardadas /\ SuporteTipos /\ TarefaInv /\ tarefa \in Tarefa
      /\ ~EmChamada /\ Trocada(tarefa.copia) /\ trocando = tarefa.copia
  BY <1>1, RestoreUnderWay
<1>3. BancoInv' /\ Guardadas' /\ ~EmChamada' /\ disco' = disco
  BY <1>1, <1>2, DatabaseSame
<1>4. "banco" \in Passos
  BY DEF Passos
<1>5. /\ tarefa' \in Tarefa /\ tarefa'.tipo = "RESTORE" /\ tarefa'.passo \in {"esvazia", "banco"}
      /\ tarefa'.copia = tarefa.copia
  BY <1>1, <1>2, <1>4, NextStep
<1>6. RestoreInv'
  BY <1>1, <1>2, <1>5 DEF RestoreInv, Trocada
<1>7. /\ anexos' \in SUBSET ComArquivo /\ config' \in Config
      /\ arquivo' \in Arquivo /\ esquema' \in Esquema /\ trocando' = tarefa.copia
      /\ arquivo' = "AUSENTE" => disco' = {}
  BY <1>1, <1>2, <1>3 DEF SuporteTipos, TarefaInv
<1> QED BY <1>1, <1>3, <1>5, <1>6, <1>7, RestoringKeeps

LEMMA RestoreDatabaseKeeps ==
  ASSUME SuporteInv, RestoreDatabase
  PROVE  SuporteInv'
<1> DEFINE k == copias[tarefa.copia]
<1>1. /\ tarefa.tipo = "RESTORE" /\ tarefa.passo = "banco"
      /\ config' = config /\ copias' = copias /\ anexos' = anexos
      /\ processo' = processo /\ cliente' = cliente /\ servicos' = servicos
      /\ pendentes' = pendentes /\ trocando' = trocando
      /\ \/ /\ arquivo' = "PARCIAL" /\ UNCHANGED bancoVars
            /\ esquema' = esquema /\ tarefa' = tarefa
         \/ /\ arquivo' = k.banco /\ Conteudo(k.linhas) /\ esquema' = k.esquema
            /\ Segue("config")
  BY DEF RestoreDatabase, Passo, processoVars
<1>2. /\ BancoInv /\ Guardadas /\ SuporteTipos /\ TarefaInv /\ tarefa \in Tarefa
      /\ ~EmChamada /\ Trocada(tarefa.copia) /\ trocando = tarefa.copia
      /\ k \in Copia /\ \A o \in Ops : Inteira(k.linhas, o)
  BY <1>1, RestoreUnderWay
<1>3. k.linhas \in SUBSET Linhas /\ k.esquema \in Esquema /\ k.banco = "INTEIRO"
  BY <1>2, CopyFields DEF Trocada
<1>4. anexos' \in SUBSET ComArquivo /\ config' \in Config /\ esquema \in Esquema
  BY <1>1, <1>2 DEF SuporteTipos
<1>5. CASE /\ arquivo' = "PARCIAL" /\ UNCHANGED bancoVars
           /\ esquema' = esquema /\ tarefa' = tarefa
  <2>1. BancoInv' /\ Guardadas' /\ ~EmChamada'
    BY <1>2, <1>5, DatabaseSame
  <2>2. RestoreInv'
    BY <1>1, <1>2, <1>5 DEF RestoreInv, Trocada
  <2>3. arquivo' \in Arquivo /\ arquivo' # "AUSENTE"
    BY <1>5 DEF Arquivo
  <2> QED BY <1>1, <1>2, <1>4, <1>5, <2>1, <2>2, <2>3, RestoringKeeps
<1>6. CASE /\ arquivo' = k.banco /\ Conteudo(k.linhas) /\ esquema' = k.esquema
           /\ Segue("config")
  <2>1. BancoInv' /\ Guardadas' /\ ~EmChamada' /\ disco' = k.linhas
    BY <1>2, <1>3, <1>6, DatabaseReplaced
  <2>2. "config" \in Passos
    BY DEF Passos
  <2>3. /\ tarefa' \in Tarefa /\ tarefa'.tipo = "RESTORE" /\ tarefa'.passo = "config"
        /\ tarefa'.copia = tarefa.copia
    BY <1>1, <1>2, <1>6, <2>2, NextStep
  <2>4. RestoreInv'
    BY <1>1, <1>2, <2>1, <2>3 DEF RestoreInv, Trocada
  <2>5. arquivo' \in Arquivo /\ arquivo' # "AUSENTE"
    BY <1>3, <1>6 DEF Arquivo
  <2> QED BY <1>1, <1>2, <1>3, <1>4, <1>6, <2>1, <2>3, <2>4, <2>5, RestoringKeeps
<1> QED BY <1>1, <1>5, <1>6

LEMMA RestoreConfigKeeps ==
  ASSUME SuporteInv, RestoreConfig \/ RestoreConfigEnds
  PROVE  SuporteInv'
<1> DEFINE k == copias[tarefa.copia]
<1>1. /\ tarefa.tipo = "RESTORE" /\ tarefa.passo \in {"config", "grava"}
      /\ UNCHANGED bancoVars
      /\ arquivo' = arquivo /\ esquema' = esquema /\ copias' = copias /\ anexos' = anexos
      /\ processo' = processo /\ cliente' = cliente /\ servicos' = servicos
      /\ pendentes' = pendentes /\ trocando' = trocando
      /\ \/ config' = "TRUNCADA" /\ Segue("grava")
         \/ config' = k.config /\ Segue("anexos")
  BY DEF RestoreConfig, RestoreConfigEnds, Passo, processoVars
<1>2. /\ BancoInv /\ Guardadas /\ SuporteTipos /\ TarefaInv /\ RecInv /\ tarefa \in Tarefa
      /\ ~EmChamada /\ Trocada(tarefa.copia) /\ trocando = tarefa.copia
      /\ k \in Copia
  BY <1>1, RestoreUnderWay
<1>3. BancoInv' /\ Guardadas' /\ ~EmChamada' /\ disco' = disco
  BY <1>1, <1>2, DatabaseSame
<1>4. disco = k.linhas
  BY <1>1, <1>2 DEF RecInv, RestoreInv
<1>5. "grava" \in Passos /\ "anexos" \in Passos /\ "TRUNCADA" \in Config
  BY DEF Passos, Config
<1>6. /\ config' \in Config /\ tarefa' \in Tarefa /\ tarefa'.tipo = "RESTORE"
      /\ tarefa'.copia = tarefa.copia
      /\ \/ tarefa'.passo = "grava"
         \/ tarefa'.passo = "anexos" /\ config' = k.config
  <2>1. CASE config' = "TRUNCADA" /\ Segue("grava")
    BY <1>1, <1>2, <1>5, <2>1, NextStep
  <2>2. CASE config' = k.config /\ Segue("anexos")
    BY <1>1, <1>2, <1>5, <2>2, NextStep, CopyFields
  <2> QED BY <1>1, <2>1, <2>2
<1>7. RestoreInv'
  BY <1>1, <1>2, <1>3, <1>4, <1>6 DEF RestoreInv, Trocada
<1>8. /\ anexos' \in SUBSET ComArquivo /\ arquivo' \in Arquivo /\ esquema' \in Esquema
      /\ arquivo' = "AUSENTE" => disco' = {}
  BY <1>1, <1>2, <1>3 DEF SuporteTipos, TarefaInv
<1> QED BY <1>1, <1>2, <1>3, <1>6, <1>7, <1>8, RestoringKeeps

LEMMA RestoreDirectoriesKeeps ==
  ASSUME SuporteInv, RestoreDirectories
  PROVE  SuporteInv'
<1> DEFINE k == copias[tarefa.copia]
<1>1. /\ tarefa.tipo = "RESTORE" /\ tarefa.passo = "anexos"
      /\ UNCHANGED bancoVars
      /\ arquivo' = arquivo /\ esquema' = esquema /\ copias' = copias /\ config' = config
      /\ processo' = processo /\ cliente' = cliente /\ servicos' = servicos
      /\ pendentes' = pendentes /\ trocando' = trocando
      /\ \/ (\E a \in k.anexos : anexos' = anexos \cup {a}) /\ tarefa' = tarefa
         \/ k.anexos \ anexos = {} /\ Segue("inicia") /\ anexos' = anexos
  BY DEF RestoreDirectories, Passo, processoVars
<1>2. /\ BancoInv /\ Guardadas /\ SuporteTipos /\ TarefaInv /\ RecInv /\ tarefa \in Tarefa
      /\ ~EmChamada /\ Trocada(tarefa.copia) /\ trocando = tarefa.copia
      /\ k \in Copia
  BY <1>1, RestoreUnderWay
<1>3. BancoInv' /\ Guardadas' /\ ~EmChamada' /\ disco' = disco
  BY <1>1, <1>2, DatabaseSame
<1>4. disco = k.linhas /\ config = k.config
  BY <1>1, <1>2 DEF RecInv, RestoreInv
<1>5. k.anexos \in SUBSET ComArquivo /\ "inicia" \in Passos
  BY <1>2, CopyFields DEF Passos
<1>6. /\ tarefa' \in Tarefa /\ tarefa'.tipo = "RESTORE" /\ tarefa'.copia = tarefa.copia
      /\ anexos' \in SUBSET ComArquivo
      /\ \/ tarefa'.passo = "anexos"
         \/ tarefa'.passo = "inicia" /\ k.anexos \subseteq anexos'
  <2>1. CASE (\E a \in k.anexos : anexos' = anexos \cup {a}) /\ tarefa' = tarefa
    BY <1>1, <1>2, <1>5, <2>1 DEF SuporteTipos
  <2>2. CASE k.anexos \ anexos = {} /\ Segue("inicia") /\ anexos' = anexos
    <3>1. k.anexos \subseteq anexos' /\ anexos' \in SUBSET ComArquivo
      BY <1>2, <2>2 DEF SuporteTipos
    <3> QED BY <1>1, <1>2, <1>5, <2>2, <3>1, NextStep
  <2> QED BY <1>1, <2>1, <2>2
<1>7. RestoreInv'
  BY <1>1, <1>2, <1>3, <1>4, <1>6 DEF RestoreInv, Trocada
<1>8. /\ config' \in Config /\ arquivo' \in Arquivo /\ esquema' \in Esquema
      /\ arquivo' = "AUSENTE" => disco' = {}
  BY <1>1, <1>2, <1>3 DEF SuporteTipos, TarefaInv
<1> QED BY <1>1, <1>2, <1>3, <1>6, <1>7, <1>8, RestoringKeeps

LEMMA RestoreCompletedKeeps ==
  ASSUME SuporteInv, RestoreCompleted
  PROVE  SuporteInv'
<1> DEFINE k == copias[tarefa.copia]
<1>1. /\ tarefa.tipo = "RESTORE" /\ tarefa.passo = "inicia" /\ arquivo = "INTEIRO"
      /\ SeedInitialFoundationIfEmpty /\ cliente' = "ABERTO" /\ tarefa' = SemTarefa
      /\ arquivo' = arquivo /\ copias' = copias /\ config' = config /\ anexos' = anexos
      /\ processo' = processo /\ servicos' = servicos /\ pendentes' = pendentes
      /\ trocando' = IF k.limpa /\ k.fiel THEN SemCopia ELSE trocando
  BY DEF RestoreCompleted, Passo
<1>2. /\ BancoInv /\ Guardadas /\ SuporteTipos /\ TarefaInv /\ RecInv
      /\ tarefa.copia \in Copias /\ ~EmChamada /\ servicos = "FECHADO"
      /\ Trocada(tarefa.copia) /\ trocando = tarefa.copia /\ tarefa.copia # SemCopia
  BY <1>1, RestoreUnderWay
<1>3. /\ BancoInv' /\ Guardadas' /\ (EmChamada' <=> EmChamada)
      /\ disco' = disco /\ chamada' = chamada /\ confirmadas' = confirmadas
      /\ esquema' \in Esquema /\ esquema'.versao = Versoes /\ esquema'.semeado
  BY <1>1, <1>2, SeedEffect DEF SuporteTipos
<1>4. tarefa' \in Tarefa /\ tarefa'.tipo = "NENHUMA"
  BY <1>1, NoTask
<1>5. disco = k.linhas /\ config = k.config /\ k.anexos \subseteq anexos
  BY <1>1, <1>2 DEF RecInv, RestoreInv
<1>6. SuporteTipos'
  BY <1>1, <1>2, <1>3, <1>4 DEF SuporteTipos
<1>7. TarefaInv'
  BY <1>1, <1>2, <1>3, <1>4 DEF TarefaInv
<1>8. ASSUME trocando' = SemCopia
      PROVE  Saudavel'
  <2>1. k.limpa /\ k.fiel
    BY <1>1, <1>2, <1>8
  <2>2. BoaCopia(k)
    BY <1>2, <2>1 DEF RecInv, CopiasInv, Cumpre
  <2>3. Lastreadas(disco, anexos) /\ Completa(disco, config)
    BY <1>5, <2>2 DEF BoaCopia, Lastreadas
  <2> QED BY <1>1, <1>2, <1>3, <1>4, <2>3 DEF Saudavel
<1>9. CopiasInv' /\ BackupInv' /\ RestoreInv'
  BY <1>1, <1>2, <1>4 DEF RecInv, CopiasInv, BackupInv, RestoreInv, Trocada
<1> QED BY <1>3, <1>6, <1>7, <1>8, <1>9 DEF SuporteInv, RecInv

-----------------------------------------------------------------------------
(* The invariant, and what follows from it *)

(* A copy without rows keeps what is asked of it.                             *)
LEMMA CopyWithoutRows ==
  ASSUME NEW k, k.linhas = {}, k.config # "TRUNCADA", k.config # "COMPLETA",
         k.fiel => k.manifesto = "INTEIRO" /\ k.banco = "INTEIRO"
  PROVE  Cumpre(k)
BY WholeEmpty DEF Cumpre, BoaCopia, Lastreadas, Completa

LEMMA InitialCopies ==
  ASSUME SuporteInit
  PROVE  /\ arquivo \in {"AUSENTE", "INTEIRO"} /\ esquema \in Esquema
         /\ copias \in [Copias -> Copia]
         /\ \A d \in Copias : copias[d].linhas = {} /\ Cumpre(copias[d])
<1> DEFINE antigo(c) == [versao |-> 1, semeado |-> TRUE, avisos |-> {c}]
           k(c) == [CopiaVazia EXCEPT !.manifesto = "INTEIRO", !.banco = "INTEIRO",
                      !.esquema = antigo(c), !.config = "PENDENTE", !.fiel = TRUE]
<1>1. \A c \in Copias : antigo(c) \in Esquema
  BY SuporteAssumption DEF Esquema
<1>2. /\ Vazio \in Esquema /\ CopiaVazia \in Copia /\ CopiaVazia.linhas = {}
      /\ CopiaVazia.config = "AUSENTE" /\ CopiaVazia.fiel = FALSE
  BY EmptyCopy
<1>3. CASE arquivo = "AUSENTE" /\ esquema = Vazio
           /\ copias = [c \in Copias |-> CopiaVazia]
  <2>1. Cumpre(CopiaVazia)
    BY <1>2, CopyWithoutRows
  <2> QED BY <1>2, <1>3, <2>1
<1>4. ASSUME NEW c \in Copias, arquivo = "INTEIRO", esquema = antigo(c),
             copias = [d \in Copias |-> IF d = c THEN k(c) ELSE CopiaVazia]
      PROVE  /\ arquivo \in {"AUSENTE", "INTEIRO"} /\ esquema \in Esquema
             /\ copias \in [Copias -> Copia]
             /\ \A d \in Copias : copias[d].linhas = {} /\ Cumpre(copias[d])
  <2> DEFINE a == antigo(c)
  <2>1. a \in Esquema
    BY <1>1
  <2> DEFINE b == [CopiaVazia EXCEPT !.manifesto = "INTEIRO", !.banco = "INTEIRO",
                      !.esquema = a, !.config = "PENDENTE", !.fiel = TRUE]
  <2>2. k(c) = b
    OBVIOUS
  <2>3. esquema = a
    BY <1>4
  <2> HIDE DEF a, antigo, k
  <2>4. /\ b \in Copia /\ b.linhas = {} /\ b.config = "PENDENTE"
        /\ b.manifesto = "INTEIRO" /\ b.banco = "INTEIRO"
    BY <1>2, <2>1 DEF Copia, Arquivo, Config
  <2> HIDE DEF b
  <2>5. Cumpre(b) /\ Cumpre(CopiaVazia)
    BY <1>2, <2>4, CopyWithoutRows
  <2> QED BY <1>2, <1>4, <2>1, <2>2, <2>3, <2>4, <2>5
<1>5. \/ arquivo = "AUSENTE" /\ esquema = Vazio
         /\ copias = [c \in Copias |-> CopiaVazia]
      \/ \E c \in Copias : /\ arquivo = "INTEIRO" /\ esquema = antigo(c)
                           /\ copias = [d \in Copias |-> IF d = c THEN k(c) ELSE CopiaVazia]
  BY Zenon DEF SuporteInit
<1> HIDE DEF antigo, k
<1> QED BY <1>3, <1>4, <1>5

LEMMA SuporteInitInv == SuporteInit => SuporteInv
<1> SUFFICES ASSUME SuporteInit PROVE SuporteInv
  OBVIOUS
<1>1. /\ BancoInv /\ Guardadas /\ disco = {} /\ confirmadas = {}
      /\ ~EmChamada
  BY BancoInitInv DEF SuporteInit, BancoInit, EmChamada, Ociosa
<1>2. /\ anexos = {} /\ config = "AUSENTE" /\ processo = "PARADO" /\ cliente = "NULO"
      /\ servicos = "FECHADO" /\ tarefa = SemTarefa /\ pendentes = {}
      /\ trocando = SemCopia
  BY DEF SuporteInit
<1>3. tarefa \in Tarefa /\ tarefa.tipo = "NENHUMA"
  BY <1>2, NoTask
<1>4. /\ arquivo \in {"AUSENTE", "INTEIRO"} /\ esquema \in Esquema
      /\ copias \in [Copias -> Copia]
      /\ \A d \in Copias : copias[d].linhas = {} /\ Cumpre(copias[d])
  BY InitialCopies
<1>5. SuporteTipos
  BY <1>2, <1>3, <1>4 DEF SuporteTipos, Arquivo, Config
<1>6. TarefaInv
  BY <1>1, <1>2, <1>3 DEF TarefaInv
<1>7. Saudavel
  BY <1>1, <1>2, <1>3, <1>4 DEF Saudavel, Lastreadas, Completa
<1>8. CopiasInv /\ BackupInv /\ RestoreInv
  <2>1. CopiasInv
    BY <1>4 DEF CopiasInv
  <2> QED BY <1>3, <2>1 DEF BackupInv, RestoreInv
<1> QED BY <1>1, <1>2, <1>5, <1>6, <1>7, <1>8 DEF SuporteInv, RecInv

LEMMA SuporteStutters ==
  ASSUME SuporteInv, UNCHANGED suporteVars
  PROVE  SuporteInv'
<1>1. /\ BancoInv /\ Guardadas /\ SuporteTipos /\ TarefaInv /\ RecInv
      /\ UNCHANGED bancoVars
      /\ arquivo' = arquivo /\ esquema' = esquema /\ anexos' = anexos /\ config' = config
      /\ copias' = copias /\ processo' = processo /\ cliente' = cliente
      /\ servicos' = servicos /\ pendentes' = pendentes /\ tarefa' = tarefa
      /\ trocando' = trocando
  BY DEF SuporteInv, suporteVars, arquivosVars, processoVars
<1>2. /\ BancoInv' /\ Guardadas' /\ (EmChamada' <=> EmChamada)
      /\ disco' = disco /\ chamada' = chamada /\ confirmadas' = confirmadas
  BY <1>1, DatabaseSame
<1>3. SuporteTipos'
  BY <1>1 DEF SuporteTipos
<1>4. TarefaInv'
  BY <1>1, <1>2 DEF TarefaInv
<1>5. trocando = SemCopia => Saudavel'
  BY <1>1, <1>2 DEF RecInv, Saudavel
<1>6. CopiasInv' /\ BackupInv' /\ RestoreInv'
  BY <1>1, <1>2 DEF RecInv, CopiasInv, BackupInv, RestoreInv, Trocada
<1> QED BY <1>1, <1>2, <1>3, <1>4, <1>5, <1>6 DEF SuporteInv, RecInv

LEMMA SuporteInductive == SuporteInv /\ [SuporteNext]_suporteVars => SuporteInv'
<1> SUFFICES ASSUME SuporteInv, [SuporteNext]_suporteVars PROVE SuporteInv'
  OBVIOUS
<1>1. CASE Start \/ MigrateUp \/ Ready \/ Stop
  BY <1>1, StartKeeps, MigrateKeeps, ReadyKeeps, StopKeeps
<1>2. CASE \E o \in Ops : ServiceCall(o)
  BY <1>2, ServiceCallKeeps
<1>3. CASE \E o \in ComArquivo : IssueDocument(o) \/ StoreAuthorizedXml(o)
  BY <1>3, IssueKeeps, StoreXmlKeeps
<1>4. CASE ApplyAuthorizedState \/ TransactionStep
  BY <1>4, ApplyStateKeeps, TransactionStepKeeps
<1>5. CASE CompleteFirstRun \/ WriteConfig \/ WriteConfigEnds \/ UpdateBrandLogo
  BY <1>5, FirstRunKeeps, WriteConfigKeeps, WriteConfigEndsKeeps, BrandLogoKeeps
<1>6. CASE \E c \in Copias : CreateBackup(c) \/ Decay(c) \/ RestoreBackup(c)
  BY <1>6, CreateBackupKeeps, DecayKeeps, RestoreBackupKeeps
<1>7. CASE CopyDatabase \/ ExportConfig \/ CopyDirectories \/ WriteManifest
  BY <1>7, CopyDatabaseKeeps, ExportConfigKeeps, CopyDirectoriesKeeps, WriteManifestKeeps
<1>8. CASE RemoveDatabase \/ EmptyDirectories \/ RestoreDatabase \/ RestoreConfig
           \/ RestoreConfigEnds \/ RestoreDirectories \/ RestoreCompleted
  BY <1>8, RemoveDatabaseKeeps, EmptyDirectoriesKeeps, RestoreDatabaseKeeps,
     RestoreConfigKeeps, RestoreDirectoriesKeeps, RestoreCompletedKeeps
<1>9. CASE TaskFails
  BY <1>9, TaskFailsKeeps
<1>10. CASE UNCHANGED suporteVars
  BY <1>10, SuporteStutters
<1> QED BY <1>1, <1>2, <1>3, <1>4, <1>5, <1>6, <1>7, <1>8, <1>9, <1>10 DEF SuporteNext

LEMMA SuporteInvariant == SuporteSpec => []SuporteInv
BY SuporteInitInv, SuporteInductive, PTL DEF SuporteSpec

(* Every operation of any service is committed whole or not at all, across    *)
(* crashes, restarts, failed migrations, backups and restores that break at   *)
(* any file.                                                                 *)
THEOREM OperationsAreAtomic == SuporteSpec => []AllOrNothing
<1>1. SuporteInv => AllOrNothing
  BY DEF SuporteInv, BancoInv
<1> QED BY <1>1, SuporteInvariant, PTL

(* Between two calls of a running application nothing is open in SQLite.       *)
THEOREM ConnectionIsClean == SuporteSpec => []NothingLeftOpen
<1>1. SuporteInv => NothingLeftOpen
  BY DEF SuporteInv, BancoInv
<1> QED BY <1>1, SuporteInvariant, PTL

(* What a call returned for stays until a restore replaces the file, and the   *)
(* services only work on a whole file with every migration and the seed.      *)
THEOREM ConfirmedStays == SuporteSpec => []ConfirmedIsKept
<1>1. SuporteInv => ConfirmedIsKept
  BY DEF SuporteInv, Guardadas, TarefaInv, ConfirmedIsKept
<1> QED BY <1>1, SuporteInvariant, PTL

(* Outside a restore that broke, or that came from a copy which is no longer    *)
(* what the backup left, the database, its files and its configuration agree;   *)
(* and a backup that was completed holds such a state as long as its medium     *)
(* lasts, whatever other calls do and wherever they break.                     *)
THEOREM AlwaysRecoverable == SuporteSpec => []Recoverable
<1>1. SuporteInv => Recoverable
  <2> SUFFICES ASSUME SuporteInv PROVE Recoverable
    OBVIOUS
  <2>1. RecInv
    BY DEF SuporteInv
  <2>2. trocando = SemCopia =>
          /\ arquivo # "PARCIAL"
          /\ arquivo = "AUSENTE" => processo = "PARADO" /\ confirmadas = {}
          /\ Lastreadas(disco, anexos)
          /\ config = "COMPLETA" => LinhasDe(Instalacao, Partes) \subseteq disco
    BY <2>1 DEF RecInv, Saudavel, Completa
  <2>3. tarefa.tipo = "RESTORE" =>
          copias[tarefa.copia].manifesto = "INTEIRO" /\ copias[tarefa.copia].banco = "INTEIRO"
    BY <2>1 DEF RecInv, RestoreInv, Trocada
  <2>4. \A c \in Copias :
          copias[c].fiel =>
            /\ copias[c].manifesto = "INTEIRO" /\ copias[c].banco = "INTEIRO"
            /\ copias[c].limpa =>
                 /\ Lastreadas(copias[c].linhas, copias[c].anexos)
                 /\ \A o \in Ops : Inteira(copias[c].linhas, o)
                 /\ copias[c].config # "TRUNCADA"
    BY <2>1 DEF RecInv, CopiasInv, Cumpre, BoaCopia
  <2> QED BY <2>2, <2>3, <2>4 DEF Recoverable
<1> QED BY <1>1, SuporteInvariant, PTL

(* Every variable keeps the values it is meant to have; in particular the      *)
(* depth never passes that of the nested calls by more than one.              *)
THEOREM SuporteTypeCorrect == SuporteSpec => []SuporteTypeOK
<1>1. SuporteInv => SuporteTypeOK
  <2> SUFFICES ASSUME SuporteInv PROVE SuporteTypeOK
    OBVIOUS
  <2>1. BancoInv /\ BancoTipos /\ Guardadas /\ SuporteTipos
    BY DEF SuporteInv, BancoInv
  <2>2. Niveis \in Nat \ {0}
    BY BancoAssumption
  <2>3. CASE ~EmChamada
    <3>1. quadros = <<>> /\ depth <= 1 /\ depth \in Nat
      BY <2>1, <2>3 DEF BancoInv, NothingLeftOpen, BancoTipos
    <3>2. depth \in 0..(Niveis + 1) /\ quadros \in Seq(0..Niveis)
      BY <2>2, <3>1
    <3> QED BY <2>1, <3>2 DEF BancoTipos, Guardadas, SuporteTipos, SuporteTypeOK
  <2>4. CASE EmChamada
    <3>1. Profundidades /\ quadros \in Seq(Nat) /\ depth \in Nat
      BY <2>1, <2>4 DEF BancoInv, BancoTipos
    <3>2. /\ Len(quadros) \in Nat /\ Len(quadros) > 0 /\ Len(quadros) <= Niveis
          /\ quadros[1] \in {0, 1}
          /\ \A i \in 1..Len(quadros) : quadros[i] = quadros[1] + i - 1
      BY <3>1 DEF Profundidades
    <3>3. \A i \in 1..Len(quadros) : quadros[i] \in 0..Niveis
      BY <2>2, <3>2
    <3>4. quadros \in Seq(0..Niveis)
      <4>1. quadros = [i \in 1..Len(quadros) |-> quadros[i]]
        BY <3>1
      <4>2. quadros \in [1..Len(quadros) -> 0..Niveis]
        BY <3>3, <4>1
      <4> QED BY <3>2, <4>2, SeqDef
    <3>5. depth \in 0..(Niveis + 1)
      <4>1. CASE chamada.op \in Proprias
        BY <2>2, <3>1, <4>1 DEF Profundidades
      <4>2. CASE chamada.op \notin Proprias
        <5>1. depth = quadros[Len(quadros)] + 1 /\ quadros[Len(quadros)] \in 0..Niveis
          BY <3>1, <3>2, <3>3, <4>2 DEF Profundidades
        <5> QED BY <2>2, <5>1
      <4> QED BY <4>1, <4>2
    <3> QED BY <2>1, <3>4, <3>5 DEF BancoTipos, Guardadas, SuporteTipos, SuporteTypeOK
  <2> QED BY <2>3, <2>4
<1> QED BY <1>1, SuporteInvariant, PTL

-----------------------------------------------------------------------------
(* The database file is one register *)

(* A step of a transaction stores the whole operation as it returns, or stores *)
(* nothing.                                                                   *)
LEMMA TransactionStores ==
  ASSUME BancoInv, InTransaction
  PROVE  \/ disco' = disco /\ confirmadas' = confirmadas
         \/ /\ disco' = disco \cup LinhasDe(chamada.op, Partes)
            /\ confirmadas' = confirmadas \cup {chamada.op}
<1>1. /\ EmChamada /\ BancoTipos /\ Profundidades /\ Abertas
      /\ disco \subseteq disco'
      /\ disco' \subseteq disco \cup LinhasDe(chamada.op, Partes)
  BY TransactionEffect DEF BancoInv
<1>2. CASE NestTransaction \/ WriteRow \/ ThrowInCallback
  BY <1>2 DEF NestTransaction, WriteRow, ThrowInCallback
<1>3. CASE ReturnFromCallback
  <2>1. /\ ~chamada.lanca
        /\ Len(quadros) = 1 => chamada.feitas = Partes
        /\ confirmadas' =
             IF Len(quadros) = 1 THEN confirmadas \cup {chamada.op} ELSE confirmadas
        /\ IF Last(quadros) = 0 THEN disco' = visivel /\ pilha' = <<>> ELSE Release(visivel)
    BY <1>3 DEF ReturnFromCallback
  <2>2. /\ visivel = disco \cup LinhasDe(chamada.op, chamada.feitas)
        /\ Len(pilha) = Len(quadros)
    BY <1>1, <2>1 DEF Abertas
  <2>3. CASE Len(quadros) = 1
    BY <2>1, <2>2, <2>3 DEF Release
  <2>4. CASE Len(quadros) # 1
    BY <1>1, <2>1, <2>2, <2>4, OutermostReadZero DEF Release
  <2> QED BY <2>3, <2>4
<1>4. CASE Unwind
  <2>1. /\ confirmadas' = confirmadas
        /\ IF pilha = <<>>
             THEN UNCHANGED <<disco, visivel, pilha>>
             ELSE IF Last(quadros) = 0
               THEN visivel' = disco /\ pilha' = <<>> /\ UNCHANGED disco
               ELSE visivel' = Last(pilha) /\ Release(Last(pilha))
    BY <1>4 DEF Unwind
  <2>2. CASE pilha = <<>> \/ Last(quadros) = 0
    BY <2>1, <2>2
  <2>3. CASE pilha # <<>> /\ Last(quadros) # 0 /\ Len(pilha) # 1
    BY <2>1, <2>3 DEF Release
  <2>4. CASE pilha # <<>> /\ Last(quadros) # 0 /\ Len(pilha) = 1
    <3>1. Last(pilha) = disco
      BY <1>1, <2>4 DEF Abertas, Last
    <3> QED BY <2>1, <2>4, <3>1 DEF Release
  <2> QED BY <2>2, <2>3, <2>4
<1> QED BY <1>2, <1>3, <1>4 DEF InTransaction

\* A file that cannot be used has no rows, and a restore that has thrown the content
\* away has not put another in its place.
Vazios ==
  /\ arquivo # "INTEIRO" => disco = {}
  /\ tarefa.tipo = "RESTORE" /\ tarefa.passo \in {"esvazia", "banco"} => disco = {}

(* An empty file has no operations. *)
LEMMA NoOperationIsEmpty == {o \in Ops : LinhasDe(o, Partes) \subseteq {}} = {}
<1>1. ASSUME NEW o \in Ops
      PROVE  LinhasDe(o, Partes) # {}
  <2>1. 1 \in 1..Partes
    BY BancoAssumption
  <2>2. <<o, 1>> \in LinhasDe(o, Partes)
    BY <2>1 DEF LinhasDe
  <2> QED BY <2>2
<1> QED BY <1>1

LEMMA NothingStored ==
  ASSUME Guardadas, disco = {}
  PROVE  confirmadas = {}
BY NoOperationIsEmpty DEF Guardadas

(* A step that stores nothing and touches no copy is a stutter of the register. *)
LEMMA RegisterStutters ==
  ASSUME UNCHANGED <<disco, confirmadas, servicos, copias, trocando>>
  PROVE  UNCHANGED Acervo!registroVars
BY DEF Acervo!registroVars, Guardado

(* The services come or go. *)
LEMMA RegisterOpens ==
  ASSUME UNCHANGED <<disco, confirmadas, copias, trocando>>, servicos' \in {"FECHADO", "ABERTO"},
         servicos \in {"FECHADO", "ABERTO"}
  PROVE  [Acervo!RegistroNext]_(Acervo!registroVars)
<1>1. Guardado' = Guardado
  BY DEF Guardado
<1>2. CASE servicos' = servicos
  BY <1>2, RegisterStutters
<1>3. CASE servicos' = "ABERTO" /\ servicos = "FECHADO"
  <2>1. Acervo!Abre
    BY <1>1, <1>3 DEF Acervo!Abre
  <2> QED BY <2>1 DEF Acervo!RegistroNext
<1>4. CASE servicos' = "FECHADO" /\ servicos = "ABERTO"
  <2>1. Acervo!Fecha
    BY <1>1, <1>4 DEF Acervo!Fecha
  <2> QED BY <2>1 DEF Acervo!RegistroNext
<1> QED BY <1>2, <1>3, <1>4

(* A copy is written or lost. *)
LEMMA RegisterCopies ==
  ASSUME UNCHANGED <<disco, confirmadas, servicos, trocando>>,
         copias \in [Copias -> Copia], NEW c \in Copias, NEW k,
         NaCopia(c, k),
         k.banco = "INTEIRO" => k.linhas = disco \/ k.linhas = copias[c].linhas,
         k.banco = "INTEIRO" /\ k.linhas # disco => copias[c].banco = "INTEIRO"
  PROVE  [Acervo!RegistroNext]_(Acervo!registroVars)
<1>1. copias'[c] = k /\ \A d \in Copias : d # c => copias'[d] = copias[d]
  BY DEF NaCopia
<1>2. /\ \A d \in Copias : Guardado'[d] =
           IF copias'[d].banco = "INTEIRO" THEN {copias'[d].linhas} ELSE {}
      /\ \A d \in Copias : Guardado[d] =
           IF copias[d].banco = "INTEIRO" THEN {copias[d].linhas} ELSE {}
  BY DEF Guardado
<1>3. \A d \in Copias : d # c => Guardado'[d] = Guardado[d]
  BY <1>1, <1>2
<1>4. Guardado'[c] = {} \/ Guardado'[c] = {disco} \/ Guardado'[c] = Guardado[c]
  BY <1>1, <1>2
<1>5. Guardado = [d \in Copias |-> Guardado[d]] /\ Guardado' = [d \in Copias |-> Guardado'[d]]
  BY DEF Guardado
<1>6. CASE Guardado'[c] = Guardado[c]
  <2>1. Guardado' = Guardado
    BY <1>3, <1>5, <1>6
  <2> QED BY <2>1 DEF Acervo!registroVars
<1>7. CASE Guardado'[c] = {} \/ Guardado'[c] = {disco}
  <2>1. \/ Guardado' = [Guardado EXCEPT ![c] = {disco}]
        \/ Guardado' = [Guardado EXCEPT ![c] = {}]
    BY <1>3, <1>5, <1>7
  <2>2. Acervo!Guarda(c)
    BY <2>1 DEF Acervo!Guarda
  <2> QED BY <2>2 DEF Acervo!RegistroNext
<1> QED BY <1>4, <1>6, <1>7

(* A step that moves no restore forward keeps what is empty.                  *)
LEMMA StillEmpty ==
  ASSUME Vazios, disco' = disco, arquivo' = arquivo \/ arquivo' = "INTEIRO",
         \/ tarefa' = tarefa
         \/ tarefa'.tipo # "RESTORE"
         \/ tarefa'.passo \notin {"esvazia", "banco"}
  PROVE  Vazios'
BY DEF Vazios

(* The start, the calls before and after their transactions, and a task that   *)
(* fails.                                                                     *)
LEMMA QuietCalls ==
  ASSUME SuporteInv, Vazios,
         \/ Start \/ MigrateUp \/ ApplyAuthorizedState
         \/ \E o \in Ops : ServiceCall(o)
         \/ \E o \in ComArquivo : IssueDocument(o) \/ StoreAuthorizedXml(o)
         \/ CompleteFirstRun \/ WriteConfig \/ WriteConfigEnds \/ UpdateBrandLogo
         \/ TaskFails
  PROVE  UNCHANGED <<disco, confirmadas, servicos, copias, trocando>> /\ Vazios'
<1> DEFINE Quieto == UNCHANGED <<disco, confirmadas, servicos, copias, trocando>> /\ Vazios'
<1>1. BancoInv /\ Guardadas /\ SuporteTipos /\ tarefa \in Tarefa
  BY DEF SuporteInv, SuporteTipos
<1>2. ASSUME NEW o \in Ops, BeginTransaction(o) \/ BeginFails(o)
      PROVE  UNCHANGED <<disco, confirmadas>>
  BY <1>1, <1>2, DatabaseCalled
<1>3. CASE Start
  <2>1. /\ arquivo' = "INTEIRO" /\ tarefa'.tipo = "INICIO"
        /\ UNCHANGED <<servicos, copias, trocando>>
        /\ \/ arquivo = "INTEIRO" /\ UNCHANGED bancoVars
           \/ arquivo # "INTEIRO" /\ disco' = {} /\ confirmadas' = {}
    BY <1>3 DEF Start, Inicia
  <2>2. disco' = disco /\ confirmadas' = confirmadas
    BY <1>1, <2>1, NothingStored DEF Vazios, bancoVars
  <2> QED BY <2>1, <2>2, StillEmpty
<1>4. CASE MigrateUp
  <2>1. /\ UNCHANGED <<bancoVars, arquivo, copias, tarefa, trocando, servicos>>
    BY <1>4 DEF MigrateUp, processoVars
  <2> QED BY <2>1, StillEmpty DEF bancoVars
<1>5. CASE ApplyAuthorizedState
  <2>1. /\ tarefa' = SemTarefa /\ UNCHANGED <<arquivo, copias, trocando, servicos>>
        /\ tarefa.tipo = "XML"
        /\ BeginTransaction(tarefa.op) \/ BeginFails(tarefa.op) \/ UNCHANGED bancoVars
    BY <1>5 DEF ApplyAuthorizedState, processoVars, arquivosVars, Passo
  <2>2. tarefa.op \in Ops
    BY <2>1, SuporteAssumption DEF SuporteInv, TarefaInv
  <2>3. UNCHANGED <<disco, confirmadas>>
    BY <1>2, <2>1, <2>2 DEF bancoVars
  <2> QED BY <2>1, <2>3, StillEmpty, NoTask
<1>6. ASSUME NEW o \in Ops, ServiceCall(o)
      PROVE  Quieto
  <2>1. /\ UNCHANGED <<arquivo, copias, servicos, tarefa, trocando>>
        /\ BeginTransaction(o) \/ BeginFails(o)
    BY <1>6 DEF ServiceCall, processoVars, arquivosVars
  <2> QED BY <1>2, <2>1, StillEmpty
<1>7. ASSUME NEW o \in ComArquivo, IssueDocument(o)
      PROVE  Quieto
  <2>1. UNCHANGED <<bancoVars, arquivo, copias, servicos, tarefa, trocando>>
    BY <1>7 DEF IssueDocument, arquivosVars
  <2> QED BY <2>1, StillEmpty DEF bancoVars
<1>8. ASSUME NEW o \in ComArquivo, StoreAuthorizedXml(o)
      PROVE  Quieto
  <2>1. UNCHANGED <<bancoVars, arquivo, copias, servicos, trocando>> /\ tarefa'.tipo = "XML"
    BY <1>8 DEF StoreAuthorizedXml, Inicia
  <2> QED BY <2>1, StillEmpty DEF bancoVars
<1>9. CASE CompleteFirstRun
  <2>1. /\ UNCHANGED <<arquivo, copias, servicos, trocando>>
        /\ BeginTransaction(Instalacao) \/ BeginFails(Instalacao)
        /\ tarefa' = tarefa \/ tarefa'.tipo = "SETUP"
    BY <1>9 DEF CompleteFirstRun, Inicia, processoVars, arquivosVars
  <2> QED BY <1>2, <2>1, StillEmpty, SuporteAssumption
<1>10. CASE WriteConfig
  <2>1. /\ UNCHANGED <<bancoVars, arquivo, copias, servicos, trocando>>
        /\ tarefa' = SemTarefa \/ Segue("grava")
        /\ tarefa.tipo = "SETUP"
    BY <1>10 DEF WriteConfig, processoVars, Passo
  <2>2. tarefa'.tipo # "RESTORE"
    BY <1>1, <2>1, NoTask DEF Segue, Tarefa
  <2> QED BY <2>1, <2>2, StillEmpty DEF bancoVars
<1>11. CASE WriteConfigEnds
  <2>1. UNCHANGED <<bancoVars, arquivo, copias, servicos, trocando>> /\ tarefa' = SemTarefa
    BY <1>11 DEF WriteConfigEnds, processoVars
  <2> QED BY <2>1, NoTask, StillEmpty DEF bancoVars
<1>12. CASE UpdateBrandLogo
  <2>1. UNCHANGED <<bancoVars, arquivo, copias, servicos, trocando>> /\ tarefa'.tipo = "SETUP"
    BY <1>12 DEF UpdateBrandLogo, Inicia, processoVars, arquivosVars
  <2> QED BY <2>1, StillEmpty DEF bancoVars
<1>13. CASE TaskFails
  <2>1. UNCHANGED <<bancoVars, arquivo, copias, servicos, trocando>> /\ tarefa' = SemTarefa
    BY <1>13 DEF TaskFails
  <2> QED BY <2>1, NoTask, StillEmpty DEF bancoVars
<1> QED BY <1>3, <1>4, <1>5, <1>6, <1>7, <1>8, <1>9, <1>10, <1>11, <1>12, <1>13

(* The application is ready, or it ends.                                      *)
LEMMA OpeningStores ==
  ASSUME SuporteInv, Vazios, Ready \/ Stop \/ \E c \in Copias : RestoreBackup(c)
  PROVE  [Acervo!RegistroNext]_(Acervo!registroVars) /\ Vazios'
<1>1. servicos \in {"FECHADO", "ABERTO"}
  BY DEF SuporteInv, SuporteTipos
<1>2. /\ UNCHANGED <<disco, confirmadas, copias, trocando, arquivo>>
      /\ servicos' \in {"FECHADO", "ABERTO"}
      /\ tarefa' = SemTarefa \/ tarefa'.passo = "remove"
  <2>1. CASE Ready
    BY <2>1 DEF Ready, SeedInitialFoundationIfEmpty
  <2>2. CASE Stop
    BY <2>2 DEF Stop, LoseConnection, arquivosVars
  <2>3. ASSUME NEW c \in Copias, RestoreBackup(c)
        PROVE  /\ UNCHANGED <<disco, confirmadas, copias, trocando, arquivo>>
               /\ servicos' \in {"FECHADO", "ABERTO"}
               /\ tarefa'.passo = "remove"
    BY <2>3 DEF RestoreBackup, LoseConnection, arquivosVars, Inicia
  <2> QED BY <2>1, <2>2, <2>3
<1>3. Vazios'
  BY <1>2, NoTask, StillEmpty
<1> QED BY <1>1, <1>2, <1>3, RegisterOpens

(* A step of a service's transaction.                                         *)
LEMMA TransactionStepStores ==
  ASSUME SuporteInv, Vazios, TransactionStep
  PROVE  [Acervo!RegistroNext]_(Acervo!registroVars) /\ Vazios'
<1>1. /\ BancoInv /\ TarefaInv /\ InTransaction /\ tarefa \in Tarefa
      /\ UNCHANGED <<arquivo, copias, servicos, trocando>>
      /\ tarefa' = tarefa \/ tarefa' = SemTarefa \/ Segue("config")
  BY DEF SuporteInv, SuporteTipos, TransactionStep, arquivosVars, processoVars
<1>2. EmChamada /\ chamada.op \in Ops
  BY <1>1, TransactionEffect
<1>3. servicos = "ABERTO" /\ arquivo = "INTEIRO" /\ tarefa.tipo # "RESTORE"
  BY <1>1, <1>2 DEF TarefaInv
<1>4. tarefa'.tipo # "RESTORE"
  BY <1>1, <1>3, NoTask DEF Segue, Tarefa
<1>5. Vazios'
  BY <1>1, <1>3, <1>4 DEF Vazios
<1>6. Guardado' = Guardado
  BY <1>1 DEF Guardado
<1>7. CASE disco' = disco /\ confirmadas' = confirmadas
  BY <1>1, <1>5, <1>7, RegisterStutters
<1>8. CASE /\ disco' = disco \cup LinhasDe(chamada.op, Partes)
           /\ confirmadas' = confirmadas \cup {chamada.op}
  <2>1. Acervo!Grava(chamada.op)
    BY <1>1, <1>3, <1>6, <1>8 DEF Acervo!Grava, Acervo!Escritas, LinhasDe
  <2> QED BY <1>2, <1>5, <2>1 DEF Acervo!RegistroNext
<1> QED BY <1>1, <1>7, <1>8, TransactionStores

(* The steps of a backup, and what becomes of a copy afterwards.               *)
LEMMA BackupStores ==
  ASSUME SuporteInv, Vazios,
         \/ \E c \in Copias : CreateBackup(c) \/ Decay(c)
         \/ CopyDatabase \/ ExportConfig \/ CopyDirectories \/ WriteManifest
  PROVE  [Acervo!RegistroNext]_(Acervo!registroVars) /\ Vazios'
<1> DEFINE Feito == [Acervo!RegistroNext]_(Acervo!registroVars) /\ Vazios'
<1>1. /\ copias \in [Copias -> Copia] /\ tarefa \in Tarefa
      /\ tarefa.tipo = "BACKUP" => tarefa.copia \in Copias
      /\ \A c \in Copias : copias[c] \in Copia
  BY DEF SuporteInv, SuporteTipos, TarefaInv
<1>2. ASSUME NEW c \in Copias, CreateBackup(c)
      PROVE  Feito
  <2> DEFINE b == (trocando = SemCopia)
             k == [copias[c] EXCEPT !.limpa = b, !.fiel = FALSE]
  <2>1. /\ NaCopia(c, k) /\ tarefa'.tipo = "BACKUP"
        /\ UNCHANGED <<disco, confirmadas, arquivo, servicos, trocando>>
    BY <1>2 DEF CreateBackup, Inicia, bancoVars, processoVars
  <2>2. k.banco = copias[c].banco /\ k.linhas = copias[c].linhas
    BY <1>1 DEF Copia
  <2> HIDE DEF k
  <2> QED BY <1>1, <2>1, <2>2, RegisterCopies, StillEmpty
<1>3. ASSUME NEW c \in Copias, Decay(c)
      PROVE  Feito
  <2>1. UNCHANGED <<disco, confirmadas, arquivo, servicos, trocando, tarefa>>
    BY <1>3 DEF Decay, bancoVars, arquivosVars, processoVars
  <2>2. PICK k \in Copia :
          /\ NaCopia(c, k)
          /\ k.banco = "INTEIRO" =>
               k.linhas = copias[c].linhas /\ k.banco = copias[c].banco
    BY <1>1, <1>3, DecayedCopy
  <2> QED BY <1>1, <2>1, <2>2, RegisterCopies, StillEmpty
<1>4. CASE CopyDatabase \/ ExportConfig \/ CopyDirectories \/ WriteManifest
  <2> DEFINE c == tarefa.copia
  <2>1. /\ tarefa.tipo = "BACKUP" /\ c \in Copias /\ copias[c] \in Copia
        /\ UNCHANGED <<disco, confirmadas, arquivo, servicos, trocando>>
    BY <1>1, <1>4 DEF CopyDatabase, ExportConfig, CopyDirectories, WriteManifest, Passo,
       bancoVars, arquivosVars, processoVars
  <2>3. tarefa'.tipo # "RESTORE"
    <3>1. \/ tarefa' = tarefa \/ tarefa' = SemTarefa
          \/ Segue("config") \/ Segue("anexos") \/ Segue("manifesto")
      BY <1>4 DEF CopyDatabase, ExportConfig, CopyDirectories, WriteManifest
    <3> QED BY <1>1, <2>1, <3>1, NoTask DEF Segue, Tarefa
  <2>4. \/ copias' = copias
        \/ \E k : /\ NaCopia(c, k)
                  /\ \/ k.banco = "PARCIAL"
                     \/ k.banco = "INTEIRO" /\ k.linhas = disco
                     \/ k.banco = copias[c].banco /\ k.linhas = copias[c].linhas
    <3>1. CASE CopyDatabase
      <4> DEFINE k1 == [copias[c] EXCEPT !.banco = "PARCIAL"]
                 k2 == [copias[c] EXCEPT !.banco = "INTEIRO", !.linhas = disco,
                                         !.esquema = esquema]
      <4>1. NaCopia(c, k1) \/ NaCopia(c, k2)
        BY <3>1 DEF CopyDatabase
      <4>2. k1.banco = "PARCIAL" /\ k2.banco = "INTEIRO" /\ k2.linhas = disco
        BY <2>1 DEF Copia
      <4> HIDE DEF k1, k2
      <4> QED BY <4>1, <4>2
    <3>2. CASE ExportConfig
      <4>1. copias' = copias \/ \E v : NaCopia(c, [copias[c] EXCEPT !.config = v])
        BY <3>2 DEF ExportConfig
      <4>2. \A v : LET k == [copias[c] EXCEPT !.config = v]
                   IN k.banco = copias[c].banco /\ k.linhas = copias[c].linhas
        BY <2>1 DEF Copia
      <4> QED BY <4>1, <4>2
    <3>3. CASE CopyDirectories
      <4>1. copias' = copias \/ \E a : NaCopia(c, [copias[c] EXCEPT !.anexos = @ \cup {a}])
        BY <3>3 DEF CopyDirectories
      <4>2. \A a : LET k == [copias[c] EXCEPT !.anexos = @ \cup {a}]
                   IN k.banco = copias[c].banco /\ k.linhas = copias[c].linhas
        BY <2>1 DEF Copia
      <4> QED BY <4>1, <4>2
    <3>4. CASE WriteManifest
      <4> DEFINE k1 == [copias[c] EXCEPT !.manifesto = "PARCIAL"]
                 k2 == [copias[c] EXCEPT !.manifesto = "INTEIRO", !.fiel = TRUE]
      <4>1. NaCopia(c, k1) \/ NaCopia(c, k2)
        BY <3>4 DEF WriteManifest
      <4>2. /\ k1.banco = copias[c].banco /\ k1.linhas = copias[c].linhas
            /\ k2.banco = copias[c].banco /\ k2.linhas = copias[c].linhas
        BY <2>1 DEF Copia
      <4> HIDE DEF k1, k2
      <4> QED BY <4>1, <4>2
    <3> QED BY <1>4, <3>1, <3>2, <3>3, <3>4
  <2>5. Vazios'
    BY <2>1, <2>3, StillEmpty
  <2>6. CASE copias' = copias
    BY <2>1, <2>5, <2>6, RegisterStutters
  <2>7. CASE copias' # copias
    BY <1>1, <2>1, <2>4, <2>5, <2>7, RegisterCopies
  <2> QED BY <2>6, <2>7
<1> QED BY <1>2, <1>3, <1>4

(* The steps of a restore.                                                    *)
LEMMA RestoreStores ==
  ASSUME SuporteInv, Vazios,
         \/ RemoveDatabase \/ EmptyDirectories \/ RestoreDatabase \/ RestoreConfig
         \/ RestoreConfigEnds \/ RestoreDirectories \/ RestoreCompleted
  PROVE  [Acervo!RegistroNext]_(Acervo!registroVars) /\ Vazios'
<1> DEFINE c == tarefa.copia
<1>1. tarefa.tipo = "RESTORE" /\ UNCHANGED <<copias, servicos>>
  <2>1. CASE RestoreCompleted
    BY <2>1 DEF RestoreCompleted, Passo
  <2>2. CASE ~RestoreCompleted
    BY <2>2 DEF RemoveDatabase, EmptyDirectories, RestoreDatabase, RestoreConfig,
       RestoreConfigEnds, RestoreDirectories, Passo, processoVars
  <2> QED BY <2>1, <2>2
<1>2. /\ Guardadas /\ tarefa \in Tarefa /\ c \in Copias /\ c # SemCopia
      /\ servicos = "FECHADO" /\ copias[c].banco = "INTEIRO"
      /\ tarefa.passo # "remove" => trocando = c
      /\ tarefa.passo \in {"config", "grava", "anexos", "inicia"} => disco = copias[c].linhas
  <2>1. tarefa.passo \in {"config", "grava", "anexos", "inicia"} => disco = copias[c].linhas
    BY <1>1 DEF SuporteInv, RecInv, RestoreInv
  <2> QED BY <1>1, <2>1, RestoreUnderWay DEF Trocada
<1>3. Guardado' = Guardado /\ Guardado[c] = {copias[c].linhas}
  BY <1>1, <1>2 DEF Guardado
<1>4. CASE RemoveDatabase
  <2>1. /\ Conteudo({}) /\ trocando' = c /\ arquivo' = "AUSENTE"
    BY <1>4 DEF RemoveDatabase
  <2>2. /\ disco' = {} /\ confirmadas' = {}
    <3>1. /\ disco' = {}
          /\ confirmadas' = {o \in Ops : LinhasDe(o, Partes) \subseteq {}}
      BY <2>1 DEF Conteudo
    <3> QED BY <3>1, NoOperationIsEmpty
  <2>3. Acervo!Apaga(c)
    BY <1>1, <1>2, <1>3, <2>1, <2>2 DEF Acervo!Apaga
  <2> QED BY <1>2, <2>2, <2>3 DEF Acervo!RegistroNext, Vazios
<1>5. CASE EmptyDirectories \/ RestoreConfig \/ RestoreConfigEnds \/ RestoreDirectories
  <2>1. UNCHANGED <<disco, confirmadas, arquivo, trocando>>
    BY <1>5 DEF EmptyDirectories, RestoreConfig, RestoreConfigEnds, RestoreDirectories,
       bancoVars
  <2>2. \/ tarefa' = tarefa
        \/ Segue("banco") /\ tarefa.passo = "esvazia"
        \/ Segue("grava") \/ Segue("anexos") \/ Segue("inicia")
    BY <1>5 DEF EmptyDirectories, RestoreConfig, RestoreConfigEnds, RestoreDirectories, Passo
  <2>3. CASE Segue("banco") /\ tarefa.passo = "esvazia"
    <3>1. disco = {}
      BY <1>1, <2>3 DEF Vazios
    <3> QED BY <1>1, <2>1, <3>1, RegisterStutters DEF Vazios
  <2>4. CASE tarefa' = tarefa \/ Segue("grava") \/ Segue("anexos") \/ Segue("inicia")
    <3>1. tarefa' = tarefa \/ tarefa'.passo \notin {"esvazia", "banco"}
      BY <1>2, <2>4 DEF Segue, Tarefa
    <3> QED BY <1>1, <2>1, <3>1, RegisterStutters, StillEmpty
  <2> QED BY <2>2, <2>3, <2>4
<1>6. CASE RestoreDatabase
  <2>1. /\ tarefa.passo = "banco" /\ trocando' = trocando
        /\ \/ arquivo' = "PARCIAL" /\ UNCHANGED <<bancoVars, tarefa>>
           \/ /\ arquivo' = copias[c].banco /\ Conteudo(copias[c].linhas)
              /\ Segue("config")
    BY <1>6 DEF RestoreDatabase, Passo
  <2>2. disco = {} /\ trocando = c
    BY <1>1, <1>2, <2>1 DEF Vazios
  <2>3. CASE arquivo' = "PARCIAL" /\ UNCHANGED <<bancoVars, tarefa>>
    BY <1>1, <2>1, <2>2, <2>3, RegisterStutters DEF Vazios, bancoVars
  <2>4. CASE arquivo' = copias[c].banco /\ Conteudo(copias[c].linhas) /\ Segue("config")
    <3>1. /\ disco' = copias[c].linhas
          /\ confirmadas' = {o \in Ops : LinhasDe(o, Partes) \subseteq disco'}
      BY <2>4 DEF Conteudo
    <3>2. tarefa'.passo = "config"
      BY <1>2, <2>4 DEF Segue, Tarefa
    <3>3. Vazios'
      BY <1>2, <2>4, <3>2 DEF Vazios
    <3>4. Acervo!Repoe(c)
      BY <1>1, <1>2, <1>3, <2>1, <2>2, <3>1 DEF Acervo!Repoe, Acervo!Escritas, LinhasDe
    <3> QED BY <1>2, <3>3, <3>4 DEF Acervo!RegistroNext
  <2> QED BY <2>1, <2>3, <2>4
<1>7. CASE RestoreCompleted
  <2>1. /\ tarefa.passo = "inicia" /\ tarefa' = SemTarefa
        /\ trocando' = SemCopia \/ trocando' = trocando
        /\ UNCHANGED <<disco, confirmadas, arquivo>>
    BY <1>7 DEF RestoreCompleted, SeedInitialFoundationIfEmpty, Passo
  <2>2. disco = copias[c].linhas /\ trocando = c
    BY <1>2, <2>1
  <2>3. Vazios'
    BY <2>1, NoTask, StillEmpty
  <2>4. CASE trocando' = trocando
    BY <1>1, <2>1, <2>3, <2>4, RegisterStutters
  <2>5. CASE trocando' = SemCopia
    <3>1. Acervo!Termina(c)
      BY <1>1, <1>2, <1>3, <2>1, <2>2, <2>5 DEF Acervo!Termina
    <3> QED BY <1>2, <2>3, <3>1 DEF Acervo!RegistroNext
  <2> QED BY <2>1, <2>4, <2>5
<1> QED BY <1>4, <1>5, <1>6, <1>7

LEMMA RegisterStep ==
  SuporteInv /\ Vazios /\ [SuporteNext]_suporteVars =>
    [Acervo!RegistroNext]_(Acervo!registroVars) /\ Vazios'
<1> SUFFICES ASSUME SuporteInv, Vazios, [SuporteNext]_suporteVars
             PROVE  [Acervo!RegistroNext]_(Acervo!registroVars) /\ Vazios'
  OBVIOUS
<1>1. CASE \/ Start \/ MigrateUp \/ ApplyAuthorizedState
           \/ \E o \in Ops : ServiceCall(o)
           \/ \E o \in ComArquivo : IssueDocument(o) \/ StoreAuthorizedXml(o)
           \/ CompleteFirstRun \/ WriteConfig \/ WriteConfigEnds \/ UpdateBrandLogo
           \/ TaskFails
  BY <1>1, QuietCalls, RegisterStutters
<1>2. CASE Ready \/ Stop \/ \E c \in Copias : RestoreBackup(c)
  BY <1>2, OpeningStores
<1>3. CASE TransactionStep
  BY <1>3, TransactionStepStores
<1>4. CASE \/ \E c \in Copias : CreateBackup(c) \/ Decay(c)
           \/ CopyDatabase \/ ExportConfig \/ CopyDirectories \/ WriteManifest
  BY <1>4, BackupStores
<1>5. CASE \/ RemoveDatabase \/ EmptyDirectories \/ RestoreDatabase \/ RestoreConfig
           \/ RestoreConfigEnds \/ RestoreDirectories \/ RestoreCompleted
  BY <1>5, RestoreStores
<1>6. CASE UNCHANGED suporteVars
  <2>1. UNCHANGED <<disco, confirmadas, servicos, copias, trocando, arquivo, tarefa>>
    BY <1>6 DEF suporteVars, bancoVars, arquivosVars, processoVars
  <2> QED BY <2>1, RegisterStutters, StillEmpty
<1> QED BY <1>1, <1>2, <1>3, <1>4, <1>5, <1>6, Zenon DEF SuporteNext

(* The file, its copies and everything that writes them are one register of    *)
(* whole operations: for any nesting, any failure of a statement, any crash     *)
(* and any restore that breaks, an operation is stored in the step in which it  *)
(* returns, and the content goes only while there is a copy to go back to.     *)
THEOREM SuporteImplementsRegistro == SuporteSpec => StoreIsOneRegister
<1>1. SuporteInit => Vazios /\ Acervo!RegistroInit
  <2> SUFFICES ASSUME SuporteInit PROVE Vazios /\ Acervo!RegistroInit
    OBVIOUS
  <2>1. /\ disco = {} /\ confirmadas = {} /\ servicos = "FECHADO" /\ trocando = SemCopia
    BY DEF SuporteInit, BancoInit
  <2>2. \A c \in Copias : copias[c].linhas = {}
    BY InitialCopies
  <2>3. Guardado \in [Copias -> {{}, {{}}}]
    BY <2>2 DEF Guardado
  <2> QED BY <2>1, <2>3 DEF Vazios, Acervo!RegistroInit
<1> QED BY <1>1, RegisterStep, SuporteInvariant, PTL
    DEF SuporteSpec, StoreIsOneRegister, Acervo!RegistroSpec
=============================================================================
