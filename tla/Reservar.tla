------------------------------- MODULE Reservar -------------------------------
(***************************************************************************)
(* Asking for a booking: the form of the client, written over the service  *)
(* as it was when the page was opened, and the API, which looks at the     *)
(* service as it is.  Meanwhile its professional edits the rates with a    *)
(* form of his own, the service may be withdrawn, a slot be taken and the  *)
(* day be over.                                                            *)
(*                                                                         *)
(* A day has Horas hours and an hour is an instant: dia * Horas + hora.    *)
(* Prices are whole; a rate without a maximum has zero there, as in the    *)
(* form of the professional.                                               *)
(***************************************************************************)
EXTENDS Naturals, FiniteSets

CONSTANTS
    PrecioMinimo,   \* what Stripe charges at least (0.5)
    PrecioMaximo,   \* and at most (999 999.99)
    Antelacion,     \* how many days ahead one may book (365)
    Horas,          \* hours in a day
    Ediciones,      \* editions of the service that may be served at once
    MaxHoras,       \* bound: hours that go by
    MaxEdiciones,   \* bound: editions asked for
    MaxSolicitudes, \* bound: bookings asked for
    MaxPercances    \* bound: withdrawals, sanctions and slots taken by others

ASSUME ReservarOK ==
    /\ PrecioMinimo \in Nat \ {0} /\ PrecioMaximo \in Nat /\ PrecioMinimo <= PrecioMaximo
    /\ Antelacion \in Nat \ {0} /\ Horas \in Nat \ {0}
    /\ IsFiniteSet(Ediciones)
    /\ MaxHoras \in Nat /\ MaxEdiciones \in Nat
    /\ MaxSolicitudes \in Nat /\ MaxPercances \in Nat

VARIABLES
    tarifa,     \* what the row of the service says of its price
    visible,    \* its row is active; its professional is
    agenda,     \* the hours its professional has confirmed
    horaActual,      \* the present instant
    edicion,    \* what each edition has in its hands
    ficha,      \* the page of the client
    solicitud,  \* its request, in the API
    cambiado,   \* history: the rates, or who is active, changed after the page read them
    alReves,    \* history: the rates were the wrong way round, or two editions crossed
    veces       \* what the bounds count

varsReservar ==
    <<tarifa, visible, agenda, horaActual, edicion, ficha, solicitud, cambiado, alReves, veces>>

SinMaximo == 0
Precios == PrecioMinimo .. PrecioMaximo
Tarifas == [min : Precios, max : Precios \cup {SinMaximo}]
Tarifa(min, max) == [min |-> min, max |-> max]

\* comprobarHorquilla: a maximum is not below the minimum.
Horquilla(t) == t.max # SinMaximo => t.max >= t.min

\* What may be typed: too little, and more than may be charged.
Tecleables == 0 .. PrecioMaximo + 1

Dia(instante) == instante \div Horas
Instantes == 0 .. MaxHoras + (Antelacion + 2) * Horas

EtapasEdicion == {"libre", "fundida", "cotejada"}
Editando(etapa, fundida, base) == [etapa |-> etapa, fundida |-> fundida, base |-> base]
SinEditar == Editando("libre", Tarifa(PrecioMinimo, SinMaximo), Tarifa(PrecioMinimo, SinMaximo))

Pagina(etapa, leida, pintada, precio, cuando) ==
    [etapa |-> etapa,       \* "fuera", "abierta", "enviada"
     tarifa |-> leida,      \* of the service it read
     pintada |-> pintada,   \* the day on which it was last rendered
     precio |-> precio, cuando |-> cuando]
FueraDeLaFicha == Pagina("fuera", Tarifa(PrecioMinimo, SinMaximo), 0, 0, 0)

Motivos == {"ninguno", "importe sin tope", "fecha pasada", "fecha lejana", "no disponible", "importe", "solape"}
EtapasSolicitud == {"nada", "enviada", "fechada", "leida", "valida", "guardada", "rechazada"}
Solicitud(etapa, leida, motivo) == [etapa |-> etapa, tarifa |-> leida, motivo |-> motivo]
SinSolicitud == Solicitud("nada", Tarifa(PrecioMinimo, SinMaximo), "ninguno")

TipoReservar ==
    /\ tarifa \in Tarifas
    /\ visible \in [servicio : BOOLEAN, titular : BOOLEAN]
    /\ agenda \in SUBSET Instantes
    /\ horaActual \in 0 .. MaxHoras
    /\ edicion \in [Ediciones -> [etapa : EtapasEdicion, fundida : Tarifas, base : Tarifas]]
    /\ ficha \in [etapa : {"fuera", "abierta", "enviada"}, tarifa : Tarifas,
                  pintada : Nat, precio : Nat, cuando : Instantes]
    /\ solicitud \in [etapa : EtapasSolicitud, tarifa : Tarifas, motivo : Motivos]
    /\ cambiado \in BOOLEAN
    /\ alReves \in BOOLEAN
    /\ veces \in [ediciones : 0 .. MaxEdiciones, solicitudes : 0 .. MaxSolicitudes,
                  percances : 0 .. MaxPercances]

\* There are services published before the API looked at their rates: any rate
\* the columns admit.
InitReservar ==
    /\ tarifa \in Tarifas
    /\ visible = [servicio |-> TRUE, titular |-> TRUE]
    /\ agenda = {}
    /\ horaActual = 0
    /\ edicion = [e \in Ediciones |-> SinEditar]
    /\ ficha = FueraDeLaFicha
    /\ solicitud = SinSolicitud
    /\ cambiado = FALSE
    /\ alReves = ~Horquilla(tarifa)
    /\ veces = [ediciones |-> 0, solicitudes |-> 0, percances |-> 0]

-----------------------------------------------------------------------------
(* The rates.                                                              *)

\* What the form of the professional lets through, and what the API does.
FormularioPublica(min, max) ==
    /\ min >= PrecioMinimo
    /\ max # SinMaximo => max >= PrecioMinimo /\ max >= min

Cobrable(importe) == importe \in Precios

\* A maximum that is emptied is not sent, and the one there was stays.
Fundir(min, max) == Tarifa(min, IF max = SinMaximo THEN tarifa.max ELSE max)

\* update: the service is read, what comes is put on it and looked at.
FundirEdicion(e, min, max) ==
    /\ edicion[e].etapa = "libre" /\ veces.ediciones < MaxEdiciones
    /\ FormularioPublica(min, max)
    /\ veces' = [veces EXCEPT !.ediciones = @ + 1]
    /\ edicion' = [edicion EXCEPT ![e] =
           IF /\ visible.servicio
              /\ Cobrable(min) /\ (max # SinMaximo => Cobrable(max))
              /\ Horquilla(Fundir(min, max))
           THEN Editando("fundida", Fundir(min, max), @.base)
           ELSE @]
    /\ alReves' = (alReves \/ \E otra \in Ediciones : edicion[otra].etapa # "libre")
    /\ UNCHANGED <<tarifa, visible, agenda, horaActual, ficha, solicitud, cambiado>>

\* save reads the row again, to write what differs from it...
CotejarEdicion(e) ==
    /\ edicion[e].etapa = "fundida"
    /\ edicion' = [edicion EXCEPT ![e] = Editando("cotejada", @.fundida, tarifa)]
    /\ UNCHANGED <<tarifa, visible, agenda, horaActual, ficha, solicitud, cambiado, veces, alReves>>

\* ...and writes it, over whatever has been written since.
GuardarEdicion(e) ==
    /\ edicion[e].etapa = "cotejada"
    /\ LET fundida == edicion[e].fundida
           base == edicion[e].base IN
       tarifa' = Tarifa(IF fundida.min = base.min THEN tarifa.min ELSE fundida.min,
                        IF fundida.max = base.max THEN tarifa.max ELSE fundida.max)
    /\ cambiado' = (cambiado \/ tarifa' # tarifa)
    /\ edicion' = [edicion EXCEPT ![e] = SinEditar]
    /\ UNCHANGED <<visible, agenda, horaActual, ficha, solicitud, veces, alReves>>

-----------------------------------------------------------------------------
(* The form of the client.                                                 *)

\* A maximum below the minimum is as if there were none, here and in the API.
ConTope(t) == t.max # SinMaximo /\ t.max >= t.min

PrecioFijo(t) == t.max # SinMaximo /\ t.max = t.min

EnTarifa(t, precio) ==
    /\ precio >= t.min
    /\ ConTope(t) => precio <= t.max

DiaAdmitidoDeMas(pintada, instante) ==
    Dia(instante) \in (pintada + 1) .. (pintada + Antelacion + 1)

\* The days the form admits, from the one on which it was last rendered.
DiaAdmitido(pintada, instante) ==
    Dia(instante) \in (pintada + 1) .. (pintada + Antelacion)

FormularioDeja(f) ==
    /\ DiaAdmitido(f.pintada, f.cuando)
    /\ EnTarifa(f.tarifa, f.precio)

\* The page reads the service and offers its minimum, tomorrow; or what was being
\* written when the session was over.
AbrirFicha(precio, cuando) ==
    /\ ficha.etapa = "fuera" /\ solicitud.etapa = "nada"
    /\ visible.servicio /\ visible.titular
    /\ \/ precio = tarifa.min /\ Dia(cuando) = Dia(horaActual) + 1
       \/ Cobrable(precio) /\ (PrecioFijo(tarifa) => precio = tarifa.min)
    /\ ficha' = Pagina("abierta", tarifa, Dia(horaActual), precio, cuando)
    /\ cambiado' = FALSE
    /\ UNCHANGED <<tarifa, visible, agenda, horaActual, edicion, solicitud, veces, alReves>>

\* Each key renders the page again, with the days of then.
Escribir(precio, cuando) ==
    /\ ficha.etapa = "abierta"
    /\ PrecioFijo(ficha.tarifa) => precio = ficha.precio
    /\ ficha' = Pagina("abierta", ficha.tarifa, Dia(horaActual), precio, cuando)
    /\ UNCHANGED <<tarifa, visible, agenda, horaActual, edicion, solicitud, cambiado, veces, alReves>>

\* What the form does not let through is said in it, and it is rendered again.
EnviarFicha ==
    /\ ficha.etapa = "abierta" /\ veces.solicitudes < MaxSolicitudes
    /\ \/ /\ ~FormularioDeja(ficha)
          /\ ficha' = [ficha EXCEPT !.pintada = Dia(horaActual)]
          /\ UNCHANGED <<solicitud, veces>>
       \/ /\ FormularioDeja(ficha)
          /\ ficha' = [ficha EXCEPT !.etapa = "enviada"]
          /\ solicitud' = [solicitud EXCEPT !.etapa = "enviada"]
          /\ veces' = [veces EXCEPT !.solicitudes = @ + 1]
    /\ UNCHANGED <<tarifa, visible, agenda, horaActual, edicion, cambiado, alReves>>

\* To the payment of the booking, or the form again, with why not.
LlegaRespuestaReserva ==
    /\ ficha.etapa = "enviada" /\ solicitud.etapa \in {"guardada", "rechazada"}
    /\ ficha' = IF solicitud.etapa = "guardada"
                THEN FueraDeLaFicha
                ELSE [ficha EXCEPT !.etapa = "abierta", !.pintada = Dia(horaActual)]
    /\ solicitud' = SinSolicitud
    /\ UNCHANGED <<tarifa, visible, agenda, horaActual, edicion, cambiado, veces, alReves>>

-----------------------------------------------------------------------------
(* The API: create, step by step.                                          *)

PasaSolicitud(etapa) == solicitud' = [solicitud EXCEPT !.etapa = etapa]
Rechaza(motivo) == solicitud' = [solicitud EXCEPT !.etapa = "rechazada", !.motivo = motivo]

SoloSolicitud ==
    UNCHANGED <<tarifa, visible, agenda, horaActual, edicion, ficha, cambiado, veces, alReves>>

\* To the hour that is it now, Antelacion days ahead: not to the end of that day.
EsLejana(instante) == instante > horaActual + Antelacion * Horas

ComprobarFecha ==
    /\ solicitud.etapa = "enviada"
    /\ CASE ~Cobrable(ficha.precio) -> Rechaza("importe sin tope")
         [] ficha.cuando <= horaActual -> Rechaza("fecha pasada")
         [] EsLejana(ficha.cuando) -> Rechaza("fecha lejana")
         [] OTHER -> PasaSolicitud("fechada")
    /\ SoloSolicitud

LeerServicio ==
    /\ solicitud.etapa = "fechada"
    /\ IF visible.servicio
       THEN solicitud' = Solicitud("leida", tarifa, "ninguno")
       ELSE Rechaza("no disponible")
    /\ SoloSolicitud

\* comprobarPrecio.
ComprobarPrecio(t, precio) ==
    /\ precio >= t.min
    /\ (t.max # SinMaximo /\ t.max >= t.min) => precio <= t.max

LeerPartes ==
    /\ solicitud.etapa = "leida"
    /\ CASE ~visible.titular -> Rechaza("no disponible")
         [] visible.titular /\ ~ComprobarPrecio(solicitud.tarifa, ficha.precio) ->
                Rechaza("importe")
         [] OTHER -> PasaSolicitud("valida")
    /\ SoloSolicitud

\* The slot is looked at, and the booking saved pending: until it is confirmed
\* it takes no slot.
MirarHueco ==
    /\ solicitud.etapa = "valida"
    /\ IF ficha.cuando \in agenda THEN Rechaza("solape") ELSE PasaSolicitud("guardada")
    /\ SoloSolicitud

-----------------------------------------------------------------------------
(* What others do.                                                         *)

PasaUnRato ==
    /\ horaActual < MaxHoras
    /\ horaActual' = horaActual + 1
    /\ UNCHANGED <<tarifa, visible, agenda, edicion, ficha, solicitud, cambiado, veces, alReves>>

Percance ==
    /\ veces.percances < MaxPercances
    /\ veces' = [veces EXCEPT !.percances = @ + 1]
    /\ UNCHANGED <<tarifa, horaActual, edicion, ficha, solicitud>>

\* The service is withdrawn, or its professional deactivated.
DejaDeEstar ==
    /\ Percance
    /\ \/ visible' = [visible EXCEPT !.servicio = FALSE]
       \/ visible' = [visible EXCEPT !.titular = FALSE]
    /\ visible' # visible
    /\ cambiado' = TRUE
    /\ UNCHANGED <<agenda, alReves>>

\* Another booking of the professional is confirmed.
OcuparHueco(instante) ==
    /\ Percance
    /\ instante > horaActual /\ instante \notin agenda
    /\ agenda' = agenda \cup {instante}
    /\ UNCHANGED <<visible, cambiado, alReves>>

NextEdiciones ==
    \E e \in Ediciones :
        \/ \E min, max \in Tecleables : FundirEdicion(e, min, max)
        \/ CotejarEdicion(e)
        \/ GuardarEdicion(e)

NextFicha ==
    \/ \E precio \in Tecleables, cuando \in Instantes :
           AbrirFicha(precio, cuando) \/ Escribir(precio, cuando)
    \/ EnviarFicha \/ LlegaRespuestaReserva
    \/ ComprobarFecha \/ LeerServicio \/ LeerPartes \/ MirarHueco
    \/ PasaUnRato \/ DejaDeEstar
    \/ \E instante \in Instantes : OcuparHueco(instante)

NextReservar == NextEdiciones \/ NextFicha

SpecReservar == InitReservar /\ [][NextReservar]_varsReservar

-----------------------------------------------------------------------------
(* What it promises.                                                       *)

\* bookings.service.ts:76-80.  However its rates came to be, there is an amount for
\* which a service can be booked: the form lets it through and the API accepts it.
SiempreHayPrecio ==
    \E precio \in Precios : EnTarifa(tarifa, precio) /\ ComprobarPrecio(tarifa, precio)

\* services.service.ts:125-131.  A maximum is below the minimum only if it already
\* was, or if two editions crossed.
AlRevesPorAlgo == ~Horquilla(tarifa) => alReves

\* What the form let through is refused only if something changed after the page
\* was rendered, or for what no form can know; save two cases in which the form
\* admits more than the API, the last hours of the last day and an amount above
\* what can be charged.
RechazoConCausa ==
    solicitud.etapa = "rechazada" =>
        CASE solicitud.motivo = "fecha pasada" -> Dia(horaActual) > ficha.pintada
          [] solicitud.motivo = "fecha lejana" ->
                 Dia(ficha.cuando) = ficha.pintada + Antelacion
          [] solicitud.motivo = "importe sin tope" ->
                 ~ConTope(ficha.tarifa) /\ ficha.precio > PrecioMaximo
          [] solicitud.motivo = "solape" -> ficha.cuando \in agenda
          [] OTHER -> cambiado

ReservarCuadra == SiempreHayPrecio /\ AlRevesPorAlgo /\ RechazoConCausa
=============================================================================
