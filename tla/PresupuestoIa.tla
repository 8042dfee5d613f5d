---------------------------- MODULE PresupuestoIa -----------------------------
(***************************************************************************)
(* The monthly budget of the language model, and the assistant that spends *)
(* it.                                                                     *)
(*                                                                         *)
(* The margin is asked for before a call, with the most it can cost; what  *)
(* it did cost is added to the row of the day after it.  The assistant     *)
(* never fails for the model: without margin, or when the call fails or    *)
(* what it says cannot be understood, it searches with what it understands *)
(* by itself.                                                              *)
(***************************************************************************)
EXTENDS Naturals, FiniteSets

CONSTANTS
    Consultas,      \* what the assistant serves at once
    Tope,           \* topeMensualCentimos, in thousandths; 0, no budget
    CosteMaximo,    \* the most a call can cost
    Disponible,     \* the provider is configured
    MaxConsultas,   \* bound: questions in all
    MaxSinApuntar   \* bound: rows the database fails to write

ASSUME PresupuestoOK ==
    /\ IsFiniteSet(Consultas) /\ Consultas # {}
    /\ Tope \in Nat
    /\ CosteMaximo \in Nat \ {0}
    /\ Disponible \in BOOLEAN
    /\ MaxConsultas \in Nat
    /\ MaxSinApuntar \in Nat

VARIABLES
    mes,            \* this month, or the next one
    uso,            \* what is noted of each month: calls, failures and cost
    consulta,       \* what each question is doing, and the cost of its call
    atendidas,      \* questions answered or under way
    respuestas,     \* history: how each question was answered
    pagadas,        \* history: calls the provider answered, and their cost
    sinApuntar      \* calls that could not be noted

varsPresupuesto == <<mes, uso, consulta, atendidas, respuestas, pagadas, sinApuntar>>

Meses == 1 .. 2
Apuntes == [llamadas : Nat, fallos : Nat, coste : Nat]
Apunte(llamadas, fallos, coste) == [llamadas |-> llamadas, fallos |-> fallos, coste |-> coste]
Mas(a, b) == Apunte(a.llamadas + b.llamadas, a.fallos + b.fallos, a.coste + b.coste)

EtapasConsulta == {"nada",
                   "llama",     \* there was margin
                   "pagada",    \* the provider has answered
                   "entiende",  \* the call is noted
                   "falla",     \* the call failed, or was not understood
                   "busca"}     \* with what is understood without the model
Consultando(etapa, coste) == [etapa |-> etapa, coste |-> coste]
Reposo == Consultando("nada", 0)
Modos == {"ia", "basico"}

TipoPresupuesto ==
    /\ mes \in Meses
    /\ uso \in [Meses -> Apuntes]
    /\ consulta \in [Consultas -> [etapa : EtapasConsulta, coste : 0 .. CosteMaximo]]
    /\ atendidas \in 0 .. MaxConsultas
    /\ respuestas \in [Modos -> Nat]
    /\ pagadas \in [cuantas : Nat, coste : Nat]
    /\ sinApuntar \in 0 .. MaxSinApuntar

InitPresupuesto ==
    /\ mes = 1
    /\ uso = [m \in Meses |-> Apunte(0, 0, 0)]
    /\ consulta = [c \in Consultas |-> Reposo]
    /\ atendidas = 0
    /\ respuestas = [m \in Modos |-> 0]
    /\ pagadas = [cuantas |-> 0, coste |-> 0]
    /\ sinApuntar = 0

-----------------------------------------------------------------------------

EnConsulta(c, etapa) == consulta[c].etapa = etapa
PasaConsulta(c, etapa, coste) == consulta' = [consulta EXCEPT ![c] = Consultando(etapa, coste)]

\* Bug: there is margin while the budget is not reached.
HayMargenTodavia == Tope > 0 /\ uso[mes].coste <= Tope

\* hayMargen, with what the month has spent so far.
HayMargen == Tope > 0 /\ uso[mes].coste + CosteMaximo <= Tope

\* responder: without the provider or without margin, no call is made.
Preguntar(c) ==
    /\ EnConsulta(c, "nada")
    /\ atendidas < MaxConsultas
    /\ atendidas' = atendidas + 1
    /\ PasaConsulta(c, IF Disponible /\ HayMargen THEN "llama" ELSE "busca", 0)
    /\ UNCHANGED <<mes, uso, respuestas, pagadas, sinApuntar>>

\* completar answers, which is paid for, or fails, or takes too long.
Completar(c, coste) ==
    /\ EnConsulta(c, "llama")
    /\ PasaConsulta(c, "pagada", coste)
    /\ pagadas' = [cuantas |-> pagadas.cuantas + 1, coste |-> pagadas.coste + coste]
    /\ UNCHANGED <<mes, uso, atendidas, respuestas, sinApuntar>>

NoCompletar(c) ==
    /\ EnConsulta(c, "llama")
    /\ PasaConsulta(c, "falla", 0)
    /\ UNCHANGED <<mes, uso, atendidas, respuestas, pagadas, sinApuntar>>

\* acumular adds to the row of the day; that it fails does not fail the answer.
Acumular(apunte) ==
    \/ uso' = [uso EXCEPT ![mes] = Mas(@, apunte)] /\ sinApuntar' = sinApuntar
    \/ sinApuntar < MaxSinApuntar /\ sinApuntar' = sinApuntar + 1 /\ uso' = uso

\* registrarExito.
RegistrarExito(c) ==
    /\ EnConsulta(c, "pagada")
    /\ Acumular(Apunte(1, 0, consulta[c].coste))
    /\ PasaConsulta(c, "entiende", 0)
    /\ UNCHANGED <<mes, atendidas, respuestas, pagadas>>

\* Its text may not be the JSON expected.
Entender(c) ==
    /\ EnConsulta(c, "entiende")
    /\ \/ /\ PasaConsulta(c, "nada", 0)
          /\ respuestas' = [respuestas EXCEPT !["ia"] = @ + 1]
       \/ PasaConsulta(c, "falla", 0) /\ respuestas' = respuestas
    /\ UNCHANGED <<mes, uso, atendidas, pagadas, sinApuntar>>

\* registrarFallo.
RegistrarFallo(c) ==
    /\ EnConsulta(c, "falla")
    /\ Acumular(Apunte(1, 1, 0))
    /\ PasaConsulta(c, "busca", 0)
    /\ UNCHANGED <<mes, atendidas, respuestas, pagadas>>

BuscarSinModelo(c) ==
    /\ EnConsulta(c, "busca")
    /\ PasaConsulta(c, "nada", 0)
    /\ respuestas' = [respuestas EXCEPT !["basico"] = @ + 1]
    /\ UNCHANGED <<mes, uso, atendidas, pagadas, sinApuntar>>

CambiaElMes ==
    /\ mes = 1
    /\ mes' = 2
    /\ UNCHANGED <<uso, consulta, atendidas, respuestas, pagadas, sinApuntar>>

NextPresupuesto ==
    \/ CambiaElMes
    \/ \E c \in Consultas :
           \/ Preguntar(c) \/ NoCompletar(c)
           \/ \E coste \in 1 .. CosteMaximo : Completar(c, coste)
           \/ RegistrarExito(c) \/ Entender(c) \/ RegistrarFallo(c) \/ BuscarSinModelo(c)

SpecPresupuesto == InitPresupuesto /\ [][NextPresupuesto]_varsPresupuesto

-----------------------------------------------------------------------------

Cuantas == Cardinality(Consultas)

\* presupuesto.service.ts:60-63.  A month is over its budget by no more than the
\* most that the calls under way at once can cost, one of them apart: also the
\* month that inherits the calls of the previous one.
GastoAcotado == \A m \in Meses : uso[m].coste <= Tope + (Cuantas - 1) * CosteMaximo

\* What is noted is what was paid for: the calls that did not fail are those the
\* provider answered, whether or not what they said was understood, and their
\* cost is the sum of theirs, once they are noted and save for what the database
\* did not write.  Every question gets its answer.
LaCuentaCuadra ==
    (\A c \in Consultas : EnConsulta(c, "nada")) =>
        LET total == Mas(uso[1], uso[2]) IN
        /\ sinApuntar = 0 => /\ total.llamadas - total.fallos = pagadas.cuantas
                             /\ total.coste = pagadas.coste
        /\ respuestas["ia"] + respuestas["basico"] = atendidas

\* The ceiling holds, and what is noted under it is what was paid.
ElPresupuestoCuadra == GastoAcotado /\ LaCuentaCuadra
=============================================================================
