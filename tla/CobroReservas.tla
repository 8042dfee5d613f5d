---------------------------- MODULE CobroReservas ----------------------------
(***************************************************************************)
(* One booking, its payment row and its intents at Stripe, moved by        *)
(* concurrent requests, webhooks and the two hourly jobs.                  *)
(*                                                                         *)
(* Two bookings share nothing here (each locks its own rows and has its    *)
(* own payment), so one is modelled.  A handler is cut where another one   *)
(* can get in between: at each row lock, at each call to Stripe and at     *)
(* the commit.  A transaction that does not commit leaves the rows as they *)
(* were, but not Stripe: that is where most of the hazards come from.      *)
(***************************************************************************)
EXTENDS Naturals, EstadosDePago

CONSTANTS
    Peticiones,      \* requests and webhooks being served
    Programadores,   \* runs of the hourly jobs, one or more instances of the API
    Nadie,           \* nobody holds the row
    MaxIntenciones,  \* bound: intents Stripe hands out for this booking
    MaxPeriodos,     \* bound: times a hold reaches its fourth day
    MaxErrores,      \* bound: calls to Stripe that fail and have no effect
    MaxCaidas        \* bound: crashes, and calls with an effect and no answer

Procesos == Peticiones \cup Programadores
Intenciones == 1 .. MaxIntenciones

ASSUME ConstantesOK ==
    /\ Nadie \notin Procesos
    /\ Peticiones \cap Programadores = {}
    /\ MaxIntenciones \in Nat /\ MaxPeriodos \in Nat
    /\ MaxErrores \in Nat /\ MaxCaidas \in Nat

VARIABLES
    \* The database
    reserva,         \* the booking's status
    pago,            \* the payment row: its status, its intent and its age
    bloqueoReserva,  \* who holds the booking's row lock
    bloqueoPago,     \* who holds the payment's row lock
    \* Stripe
    intencion,       \* the status of each intent
    clave,           \* the idempotency key each intent was created with
    retenidas,       \* the intents that have been on hold, now or before
    devueltas,       \* the intents whose charge has been refunded
    \* The browser
    entregadas,      \* the intents the client has been given to pay
    \* The processes
    pc,              \* the stage each one is about to run
    tarea,           \* the operation it is serving
    mem,             \* its copy of the payment row
    \* Time and failures
    llegada,         \* the booking's date has come
    periodos, errores, caidas

tablas == <<reserva, pago>>
cerrojos == <<bloqueoReserva, bloqueoPago>>
stripe == <<intencion, clave, retenidas, devueltas>>
procesos == <<pc, tarea, mem>>
entorno == <<llegada, periodos, errores, caidas>>
vars == <<tablas, cerrojos, stripe, entregadas, procesos, entorno>>

\* paidAt: never set, set less than DIAS_PARA_RENOVAR days ago, or longer ago.
Fechas == {"nunca", "reciente", "vieja"}
Filas == [estado : EstadosPago, pi : 0 .. MaxIntenciones, paidAt : Fechas]
SinPago == [estado |-> "ninguno", pi |-> 0, paidAt |-> "nunca"]

\* The idempotency keys of paymentIntents.create: what it is for and the
\* intent it comes after.  "cobro" asks for automatic capture.
Claves == {"reserva", "cobro", "renovacion"} \X (0 .. MaxIntenciones)
SinClave == <<"ninguna", 0>>

Cambios == {"completar", "completarSinCobro", "cancelar", "rechazar"}
Tareas == Cambios \cup {"ninguna", "caducar", "cobrar", "reembolsar", "pagar",
                        "confirmarPago", "revisar", "conciliar", "resolver"}
Etapas == {"libre", "pago", "consultar", "cancelar", "capturar", "devolver",
           "crear", "escribir", "guardar", "renovar", "guardarYSoltar",
           "soltar", "resolver", "revisar"}

TypeOK ==
    /\ reserva \in EstadosReserva
    /\ pago \in Filas
    /\ bloqueoReserva \in Procesos \cup {Nadie}
    /\ bloqueoPago \in Procesos \cup {Nadie}
    /\ intencion \in [Intenciones -> EstadosIntencion]
    /\ clave \in [Intenciones -> Claves \cup {SinClave}]
    /\ retenidas \subseteq Intenciones
    /\ devueltas \subseteq Intenciones
    /\ entregadas \subseteq Intenciones
    /\ pc \in [Procesos -> Etapas]
    /\ tarea \in [Procesos -> Tareas]
    /\ mem \in [Procesos -> Filas]
    /\ llegada \in BOOLEAN
    /\ periodos \in 0 .. MaxPeriodos
    /\ errores \in 0 .. MaxErrores
    /\ caidas \in 0 .. MaxCaidas

Init ==
    /\ reserva = "pending"
    /\ pago = SinPago
    /\ bloqueoReserva = Nadie
    /\ bloqueoPago = Nadie
    /\ intencion = [i \in Intenciones |-> "libre"]
    /\ clave = [i \in Intenciones |-> SinClave]
    /\ retenidas = {}
    /\ devueltas = {}
    /\ entregadas = {}
    /\ pc = [p \in Procesos |-> "libre"]
    /\ tarea = [p \in Procesos |-> "ninguna"]
    /\ mem = [p \in Procesos |-> SinPago]
    /\ llegada = FALSE
    /\ periodos = 0
    /\ errores = 0
    /\ caidas = 0

-----------------------------------------------------------------------------
(* How a process moves on, and how its transaction ends.                   *)

EnEtapa(p, etapa) == pc[p] = etapa

Sigue(p, etapa, fila) ==
    /\ pc' = [pc EXCEPT ![p] = etapa]
    /\ mem' = [mem EXCEPT ![p] = fila]
    /\ UNCHANGED tarea

\* The end of a transaction, committed or rolled back, gives back its locks.
SueltaBloqueos(p) ==
    /\ bloqueoReserva' = IF bloqueoReserva = p THEN Nadie ELSE bloqueoReserva
    /\ bloqueoPago' = IF bloqueoPago = p THEN Nadie ELSE bloqueoPago

\* The process goes on to another operation, or to none, with no row locked.
Pasa(p, etapa, t) ==
    /\ pc' = [pc EXCEPT ![p] = etapa]
    /\ tarea' = [tarea EXCEPT ![p] = t]
    /\ mem' = [mem EXCEPT ![p] = SinPago]

Deshace(p) ==
    /\ Pasa(p, "libre", "ninguna")
    /\ SueltaBloqueos(p)
    /\ UNCHANGED <<tablas, stripe, entregadas>>

Error == errores < MaxErrores /\ errores' = errores + 1
            /\ UNCHANGED <<llegada, periodos, caidas>>
SinRespuesta == caidas < MaxCaidas /\ caidas' = caidas + 1
            /\ UNCHANGED <<llegada, periodos, errores>>

\* The payment is let go of when the booking will not happen...
Suelta(p) == \/ tarea[p] \in {"cancelar", "rechazar", "caducar"}
             \/ tarea[p] = "resolver" /\ reserva \in {"cancelled", "rejected"}

\* ...and captured when the work is done.
Cobra(p) == \/ tarea[p] \in {"completar", "completarSinCobro", "cobrar"}
            \/ tarea[p] = "resolver" /\ reserva = "completed"

\* Whether "nothing on hold" is an answer rather than a 409.
SinCobro(p) == tarea[p] # "completar"

\* Bug: an expired request gets a status the bookings do not have.
DestinoConExpirada(t) ==
    CASE t \in {"completar", "completarSinCobro"} -> "completed"
      [] t = "cancelar"                           -> "cancelled"
      [] t = "caducar"                            -> "expired"
      [] t = "rechazar"                           -> "rejected"
      [] OTHER                                    -> reserva

\* The status a committed operation leaves the booking in.
Destino(t) ==
    CASE t \in {"completar", "completarSinCobro"} -> "completed"
      [] t \in {"cancelar", "caducar"}            -> "cancelled"
      [] t = "rechazar"                           -> "rejected"
      [] OTHER                                    -> reserva

ConEstado(fila, estado) == [fila EXCEPT !.estado = estado]

\* The row of a hold seen just now.
Retenida(fila) == [estado |-> "held", pi |-> fila.pi, paidAt |-> "reciente"]

\* The row once it mirrors the intent: paidAt is only set the first time.
Reflejada(fila, estado) ==
    [estado |-> estado,
     pi     |-> fila.pi,
     paidAt |-> IF estado \in {"held", "completed"} /\ fila.paidAt = "nunca"
                THEN "reciente" ELSE fila.paidAt]

-----------------------------------------------------------------------------
(* Stripe and the client, outside the program.                             *)

\* The client pays an intent it was given: automatic ones charge at once.
ClientePaga(i) ==
    /\ i \in entregadas
    /\ intencion[i] = "pagable"
    /\ IF clave[i][1] = "cobro"
       THEN /\ intencion' = [intencion EXCEPT ![i] = "succeeded"]
            /\ UNCHANGED retenidas
       ELSE /\ intencion' = [intencion EXCEPT ![i] = "requires_capture"]
            /\ retenidas' = retenidas \cup {i}
    /\ UNCHANGED <<tablas, cerrojos, clave, devueltas, entregadas, procesos, entorno>>

\* Stripe drops a hold after seven days, or someone does from its panel.
StripeSuelta(i) ==
    /\ intencion[i] = "requires_capture"
    /\ intencion' = [intencion EXCEPT ![i] = "canceled"]
    /\ UNCHANGED <<tablas, cerrojos, clave, retenidas, devueltas, entregadas,
                   procesos, entorno>>

LlegaLaFecha ==
    /\ ~llegada
    /\ llegada' = TRUE
    /\ UNCHANGED <<tablas, cerrojos, stripe, entregadas, procesos,
                   periodos, errores, caidas>>

\* The hold the row knows of turns four days old.
Envejece ==
    /\ periodos < MaxPeriodos
    /\ pago.estado = "held" /\ pago.paidAt = "reciente"
    /\ periodos' = periodos + 1
    /\ pago' = [pago EXCEPT !.paidAt = "vieja"]
    /\ UNCHANGED <<reserva, cerrojos, stripe, entregadas, procesos,
                   llegada, errores, caidas>>

\* paymentIntents.create with an idempotency key: a repeated key answers with
\* the intent it made the first time.
Crea(k, estado, i) ==
    \/ /\ clave[i] = k
       /\ UNCHANGED stripe
    \/ /\ \A j \in Intenciones : clave[j] # k
       /\ intencion[i] = "libre"
       /\ \A j \in 1 .. (i - 1) : intencion[j] # "libre"
       /\ intencion' = [intencion EXCEPT ![i] = estado]
       /\ clave' = [clave EXCEPT ![i] = k]
       /\ retenidas' = IF estado = "requires_capture" THEN retenidas \cup {i} ELSE retenidas
       /\ UNCHANGED devueltas

\* paymentIntents.cancel: Stripe refuses it on an intent already settled.
Cancelable(i) == intencion[i] \in {"pagable", "requires_capture"}
Cancela(i) ==
    /\ intencion' = [intencion EXCEPT ![i] = "canceled"]
    /\ UNCHANGED <<clave, retenidas, devueltas>>

-----------------------------------------------------------------------------
(* The booking's status changes.                                           *)

\* Accepting it moves no money: one transaction without calls to Stripe.
Confirmar ==
    /\ bloqueoReserva = Nadie
    /\ reserva = "pending" /\ ~llegada
    /\ reserva' = "confirmed"
    /\ UNCHANGED <<pago, cerrojos, stripe, entregadas, procesos, entorno>>

\* Bug: the booking is read without waiting for whoever is changing it.
LeeReservaSinBloqueo(p, t, etapa, fila) ==
    /\ bloqueoReserva' = p
    /\ pc' = [pc EXCEPT ![p] = etapa]
    /\ tarea' = [tarea EXCEPT ![p] = t]
    /\ mem' = [mem EXCEPT ![p] = fila]
    /\ UNCHANGED <<tablas, bloqueoPago, stripe, entregadas, entorno>>

\* The transactions that lock the booking first, and then its payment.
BloqueaReserva(p, t, etapa, fila) ==
    /\ bloqueoReserva = Nadie
    /\ bloqueoReserva' = p
    /\ pc' = [pc EXCEPT ![p] = etapa]
    /\ tarea' = [tarea EXCEPT ![p] = t]
    /\ mem' = [mem EXCEPT ![p] = fila]
    /\ UNCHANGED <<tablas, bloqueoPago, stripe, entregadas, entorno>>

CambiarEstado(p, t) ==
    /\ p \in Peticiones /\ EnEtapa(p, "libre")
    /\ t \in Cambios
    /\ <<reserva, Destino(t)>> \in TransicionesReserva
    /\ t \in {"completar", "completarSinCobro"} => llegada
    /\ BloqueaReserva(p, t, "pago", SinPago)

\* The hourly job on requests nobody answered; a locked row is skipped.
Caducar(p) ==
    /\ p \in Programadores /\ EnEtapa(p, "libre")
    /\ reserva = "pending" /\ llegada
    /\ BloqueaReserva(p, "caducar", "pago", SinPago)

\* The two manual routes of the administration.
Capturar(p) ==
    /\ p \in Peticiones /\ EnEtapa(p, "libre")
    /\ reserva = "completed" /\ pago.estado # "completed"
    /\ BloqueaReserva(p, "cobrar", "pago", SinPago)

Reembolsar(p) ==
    /\ p \in Peticiones /\ EnEtapa(p, "libre")
    /\ reserva \notin RESERVAS_ABIERTAS
    /\ BloqueaReserva(p, "reembolsar", "pago", SinPago)

\* A hold that turned up late, or is still there with the booking closed.
\* Decided on what the booking is once it is locked.
Resolver(p) ==
    /\ EnEtapa(p, "resolver")
    /\ IF reserva \in RESERVAS_ABIERTAS
       THEN bloqueoReserva = Nadie /\ Deshace(p) /\ UNCHANGED entorno
       ELSE BloqueaReserva(p, "resolver", "pago", SinPago)

\* The payment's row, locked and read; what comes next depends on its status.
EtapaTrasBloquear(p) ==
    CASE Suelta(p) /\ pago.estado = "failed"               -> "consultar"
      [] Suelta(p) /\ pago.estado \in {"pending", "held"}  -> "cancelar"
      [] Suelta(p)                                         -> "guardar"
      [] Cobra(p) /\ pago.estado = "held"                  -> "capturar"
      [] Cobra(p) /\ pago.estado \in {"pending", "failed"} -> "consultar"
      [] Cobra(p) /\ (pago.estado = "completed" \/ SinCobro(p)) -> "guardar"
      [] tarea[p] = "reembolsar" /\ pago.estado = "held"   -> "cancelar"
      [] tarea[p] = "reembolsar" /\ pago.estado = "completed" -> "devolver"
      [] OTHER                                             -> "libre"

BloquearPago(p) ==
    /\ EnEtapa(p, "pago")
    /\ bloqueoPago = Nadie
    /\ IF EtapaTrasBloquear(p) = "libre"
       THEN Deshace(p)
       ELSE /\ bloqueoPago' = p
            /\ Sigue(p, EtapaTrasBloquear(p), pago)
            /\ UNCHANGED <<tablas, bloqueoReserva, stripe, entregadas>>
    /\ UNCHANGED entorno

\* lock_timeout: whoever waits five seconds for a row gives up.
EsperaAgotada(p) ==
    /\ \/ EnEtapa(p, "pago") /\ bloqueoPago # Nadie
       \/ EnEtapa(p, "escribir") /\ bloqueoPago \notin {Nadie, p}
       \/ EnEtapa(p, "consultar") /\ tarea[p] = "pagar" /\ bloqueoPago \notin {Nadie, p}
       \/ EnEtapa(p, "resolver") /\ bloqueoReserva # Nadie
    /\ Deshace(p)
    /\ UNCHANGED entorno

-----------------------------------------------------------------------------
(* The calls to Stripe with both rows locked.                              *)

\* Letting go of a payment marked as failed: Stripe is asked first.
ConsultarAlSoltar(p) ==
    /\ EnEtapa(p, "consultar") /\ Suelta(p)
    /\ LET estado == EstadoSegunStripe(intencion[mem[p].pi])
       IN  IF estado \in {"held", "pending"}
           THEN Sigue(p, "cancelar", ConEstado(mem[p], estado))
           ELSE Sigue(p, "guardar", pago)
    /\ UNCHANGED <<tablas, cerrojos, stripe, entregadas, entorno>>

\* Stripe's failure does not stop the cancellation: the row stays as it was.
ConsultaFallidaAlSoltar(p) ==
    /\ EnEtapa(p, "consultar") /\ Suelta(p)
    /\ Error
    /\ Sigue(p, "guardar", pago)
    /\ UNCHANGED <<tablas, cerrojos, stripe, entregadas>>

ConsultarAlCobrar(p) ==
    /\ EnEtapa(p, "consultar") /\ Cobra(p)
    /\ LET estado == intencion[mem[p].pi]
           sigue(etapa, fila) == Sigue(p, etapa, fila)
                /\ UNCHANGED <<tablas, cerrojos, stripe, entregadas>>
       IN  \/ estado = "succeeded" /\ sigue("guardar", Reflejada(mem[p], "completed"))
           \/ estado = "requires_capture" /\ sigue("capturar", mem[p])
           \/ estado \in {"pagable", "canceled"} /\ SinCobro(p) /\ sigue("guardar", pago)
           \/ estado \in {"pagable", "canceled"} /\ ~SinCobro(p) /\ Deshace(p)
    /\ UNCHANGED entorno

\* paymentIntents.cancel with its answer.
CancelarAlSoltar(p) ==
    /\ EnEtapa(p, "cancelar")
    /\ Cancelable(mem[p].pi)
    /\ Cancela(mem[p].pi)
    /\ Sigue(p, "guardar",
             ConEstado(mem[p], IF mem[p].estado = "held" THEN "refunded" ELSE "failed"))
    /\ UNCHANGED <<tablas, cerrojos, entregadas, entorno>>

\* Without it: cancelling a booking goes on, a refund is undone.
CancelacionFallida(p) ==
    /\ EnEtapa(p, "cancelar")
    /\ \/ ~Cancelable(mem[p].pi) /\ UNCHANGED <<stripe, entorno>>
       \/ Error /\ UNCHANGED stripe
       \/ Cancelable(mem[p].pi) /\ SinRespuesta /\ Cancela(mem[p].pi)
    /\ IF Suelta(p)
       THEN Sigue(p, "guardar", pago) /\ UNCHANGED cerrojos
       ELSE Pasa(p, "libre", "ninguna") /\ SueltaBloqueos(p)
    /\ UNCHANGED <<tablas, entregadas>>

\* Bug: so is the error of the capture.
CapturaSupuesta(p) ==
    /\ EnEtapa(p, "capturar")
    /\ intencion' = [intencion EXCEPT ![mem[p].pi] =
                       IF @ = "requires_capture" THEN "succeeded" ELSE @]
    /\ Sigue(p, "guardar", Reflejada(mem[p], "completed"))
    /\ UNCHANGED <<tablas, cerrojos, clave, retenidas, devueltas, entregadas, entorno>>

\* paymentIntents.capture: the same key on a charge already made answers yes.
CapturarRetencion(p) ==
    /\ EnEtapa(p, "capturar")
    /\ intencion[mem[p].pi] \in {"requires_capture", "succeeded"}
    /\ intencion' = [intencion EXCEPT ![mem[p].pi] = "succeeded"]
    /\ Sigue(p, "guardar", Reflejada(mem[p], "completed"))
    /\ UNCHANGED <<tablas, cerrojos, clave, retenidas, devueltas, entregadas, entorno>>

\* refunds.create, with a key: repeating it does not refund twice.
DevolverCobro(p) ==
    /\ EnEtapa(p, "devolver")
    /\ intencion[mem[p].pi] = "succeeded"
    /\ devueltas' = devueltas \cup {mem[p].pi}
    /\ Sigue(p, "guardar", ConEstado(mem[p], "refunded"))
    /\ UNCHANGED <<tablas, cerrojos, intencion, clave, retenidas, entregadas, entorno>>

\* Stripe refuses to capture what has been dropped.
CapturaRechazada(p) ==
    /\ EnEtapa(p, "capturar")
    /\ intencion[mem[p].pi] \notin {"requires_capture", "succeeded"}
    /\ Deshace(p)
    /\ UNCHANGED entorno

\* A call that fails undoes the transaction, wherever nothing catches it.
\* (Bound: so does a call for one more intent than MaxIntenciones.)
FalloDeStripe(p) ==
    /\ \/ EnEtapa(p, "consultar") /\ ~Suelta(p) /\ Error
       \/ pc[p] \in {"capturar", "devolver", "crear", "renovar"} /\ Error
       \/ /\ pc[p] \in {"crear", "renovar"}
          /\ \A i \in Intenciones : intencion[i] # "libre"
          /\ UNCHANGED entorno
    /\ Deshace(p)

-----------------------------------------------------------------------------
(* createPaymentIntent: the booking is locked, its payment only read.      *)

IniciarPago(p) ==
    /\ p \in Peticiones /\ EnEtapa(p, "libre")
    /\ reserva \in RESERVAS_ABIERTAS \cup {"completed"}
    /\ ~(reserva = "completed" /\ pago.estado \in {"completed", "refunded"})
    /\ BloqueaReserva(p, "pagar", IF pago.pi = 0 THEN "crear" ELSE "consultar", pago)

\* Bug: any intent that cannot be paid again is replaced by a new one.
ReemplazarAlPagar(p) ==
    /\ EnEtapa(p, "consultar") /\ tarea[p] = "pagar"
    /\ bloqueoPago = Nadie
    /\ bloqueoPago' = p
    /\ Sigue(p, IF intencion[mem[p].pi] = "pagable" THEN "guardar" ELSE "crear", mem[p])
    /\ UNCHANGED <<tablas, bloqueoReserva, stripe, entregadas, entorno>>

\* The intent is queried and the copy of the row made to mirror it; saving
\* the copy is what locks the row.
ConsultarAlPagar(p) ==
    /\ EnEtapa(p, "consultar") /\ tarea[p] = "pagar"
    /\ LET enStripe == intencion[mem[p].pi]
           estado == EstadoSegunStripe(enStripe)
           cambia == PuedeReflejar(mem[p].estado, estado)
       IN  /\ cambia => bloqueoPago = Nadie
           /\ bloqueoPago' = IF cambia THEN p ELSE bloqueoPago
           /\ Sigue(p, IF enStripe = "canceled" THEN "crear" ELSE "guardar",
                    IF cambia THEN Reflejada(mem[p], estado) ELSE mem[p])
           /\ entregadas' = IF enStripe = "pagable" THEN entregadas \cup {mem[p].pi}
                                                    ELSE entregadas
    /\ UNCHANGED <<tablas, bloqueoReserva, stripe, entorno>>

\* A new intent: on hold while the booking is open, charged at once after.
CrearIntencion(p) ==
    /\ EnEtapa(p, "crear")
    /\ \E i \in Intenciones :
         /\ Crea(<<IF reserva = "completed" THEN "cobro" ELSE "reserva", mem[p].pi>>,
                 "pagable", i)
         /\ Sigue(p, "escribir", [estado |-> "pending", pi |-> i, paidAt |-> "nunca"])
    /\ UNCHANGED <<tablas, cerrojos, entregadas, entorno>>

\* The whole copy is saved, committed and its secret given to the client.
EscribirPago(p) ==
    /\ EnEtapa(p, "escribir")
    /\ bloqueoPago \in {Nadie, p}
    /\ pago' = mem[p]
    /\ entregadas' = entregadas \cup {mem[p].pi}
    /\ Pasa(p, "libre", "ninguna")
    /\ SueltaBloqueos(p)
    /\ UNCHANGED <<reserva, stripe, entorno>>

-----------------------------------------------------------------------------
(* The browser's confirmation and the webhooks: the payment's row, alone.  *)

BloqueaPago(p, t) ==
    /\ bloqueoPago = Nadie
    /\ bloqueoPago' = p
    /\ pc' = [pc EXCEPT ![p] = "consultar"]
    /\ tarea' = [tarea EXCEPT ![p] = t]
    /\ mem' = [mem EXCEPT ![p] = pago]
    /\ UNCHANGED <<tablas, bloqueoReserva, stripe, entregadas, entorno>>

ConfirmarRetencion(p) ==
    /\ p \in Peticiones /\ EnEtapa(p, "libre")
    /\ pago.pi \in entregadas
    /\ BloqueaPago(p, "confirmarPago")

ConsultarAlConfirmar(p) ==
    /\ EnEtapa(p, "consultar") /\ tarea[p] = "confirmarPago"
    /\ LET estado == EstadoSegunStripe(intencion[mem[p].pi])
           fila == IF estado = "held" THEN Retenida(mem[p]) ELSE Reflejada(mem[p], estado)
       IN  IF estado \in {"held", "completed"}
           THEN /\ Sigue(p, "guardar",
                         IF PuedeReflejar(mem[p].estado, estado) THEN fila ELSE mem[p])
                /\ UNCHANGED <<tablas, cerrojos, stripe, entregadas>>
           ELSE Deshace(p)
    /\ UNCHANGED entorno

\* Any event that has happened may be delivered, once, late, twice or never;
\* one about an intent the row no longer names finds no payment.
AvisoRetenida(p) ==
    /\ p \in Peticiones /\ EnEtapa(p, "libre")
    /\ bloqueoPago = Nadie
    /\ pago.pi \in retenidas
    /\ LET anotado == PuedePasarA(pago.estado, "held")
       IN  /\ anotado \/ pago.estado = "held"
           /\ pago' = IF anotado THEN Retenida(pago) ELSE pago
    /\ Pasa(p, "resolver", "resolver")
    /\ UNCHANGED <<reserva, cerrojos, stripe, entregadas, entorno>>

AvisoCobrada ==
    /\ bloqueoPago = Nadie
    /\ pago.pi # 0 /\ intencion[pago.pi] = "succeeded"
    /\ PuedePasarA(pago.estado, "completed")
    /\ pago' = ConEstado(pago, "completed")
    /\ UNCHANGED <<reserva, cerrojos, stripe, entregadas, procesos, entorno>>

AvisoCancelada ==
    /\ bloqueoPago = Nadie
    /\ pago.pi # 0 /\ intencion[pago.pi] = "canceled"
    /\ PuedePasarA(pago.estado, "failed")
    /\ pago' = ConEstado(pago, "failed")
    /\ UNCHANGED <<reserva, cerrojos, stripe, entregadas, procesos, entorno>>

-----------------------------------------------------------------------------
(* The hourly review.                                                      *)

\* Bug: the review only looks at open bookings.
RevisarSoloAbiertas(p) ==
    /\ p \in Programadores /\ EnEtapa(p, "libre")
    /\ pago.estado = "held" /\ reserva \in RESERVAS_ABIERTAS
    /\ Pasa(p, "revisar", "revisar")
    /\ UNCHANGED <<tablas, cerrojos, stripe, entregadas, entorno>>

\* The list is read without locks, with the booking as it is by then: what
\* the review will do to the payment is decided on that reading.
RevisarRetenida(p) ==
    /\ p \in Programadores /\ EnEtapa(p, "libre")
    /\ pago.estado = "held"
    /\ IF reserva \in RESERVAS_ABIERTAS THEN Pasa(p, "revisar", "revisar")
                                        ELSE Pasa(p, "resolver", "resolver")
    /\ UNCHANGED <<tablas, cerrojos, stripe, entregadas, entorno>>

\* A row already locked is skipped, and so is one no longer held.
BloquearAlRevisar(p) ==
    /\ EnEtapa(p, "revisar")
    /\ \/ bloqueoPago = Nadie /\ pago.estado = "held" /\ BloqueaPago(p, "revisar")
       \/ ~(bloqueoPago = Nadie /\ pago.estado = "held") /\ Deshace(p) /\ UNCHANGED entorno

ConsultarAlRevisar(p) ==
    /\ EnEtapa(p, "consultar") /\ tarea[p] = "revisar"
    /\ LET estado == EstadoSegunStripe(intencion[mem[p].pi])
           sigue(etapa, fila) == Sigue(p, etapa, fila)
                /\ UNCHANGED <<tablas, cerrojos, stripe, entregadas>>
       IN  \/ estado \in {"completed", "failed"}
              /\ sigue("guardar", ConEstado(mem[p], estado))
           \/ estado = "held" /\ mem[p].paidAt = "vieja" /\ sigue("renovar", mem[p])
           \/ estado = "held" /\ mem[p].paidAt # "vieja" /\ Deshace(p)
           \/ estado = "pending" /\ Deshace(p)
    /\ UNCHANGED entorno

\* A new hold on the same card.
Renovar(p) ==
    /\ EnEtapa(p, "renovar")
    /\ \E i \in Intenciones :
         /\ Crea(<<"renovacion", mem[p].pi>>, "requires_capture", i)
         /\ Sigue(p, "guardarYSoltar", [estado |-> "held", pi |-> i, paidAt |-> "reciente"])
    /\ UNCHANGED <<tablas, cerrojos, entregadas, entorno>>

\* The card is not saved, does not work or needs its holder.
NoRenovable(p) ==
    /\ EnEtapa(p, "renovar")
    /\ \A i \in Intenciones : clave[i] # <<"renovacion", mem[p].pi>>
    /\ Sigue(p, "guardarYSoltar", ConEstado(mem[p], "failed"))
    /\ UNCHANGED <<tablas, cerrojos, stripe, entregadas, entorno>>

\* The old hold, once the new one is saved; if it fails, it will expire.
SoltarVieja(p) ==
    /\ EnEtapa(p, "soltar")
    /\ \/ Cancelable(mem[p].pi) /\ Cancela(mem[p].pi) /\ UNCHANGED entorno
       \/ ~Cancelable(mem[p].pi) /\ UNCHANGED <<stripe, entorno>>
       \/ Error /\ UNCHANGED stripe
    /\ Pasa(p, "libre", "ninguna")
    /\ UNCHANGED <<tablas, cerrojos, entregadas>>

Conciliar(p) ==
    /\ p \in Programadores /\ EnEtapa(p, "libre")
    /\ pago.estado \in {"pending", "failed"}
    /\ BloqueaPago(p, "conciliar")

ConsultarAlConciliar(p) ==
    /\ EnEtapa(p, "consultar") /\ tarea[p] = "conciliar"
    /\ LET estado == EstadoSegunStripe(intencion[mem[p].pi])
       IN  IF PuedeReflejar(mem[p].estado, estado)
           THEN /\ Sigue(p, "guardar", Reflejada(mem[p], estado))
                /\ UNCHANGED <<tablas, cerrojos, stripe, entregadas>>
           ELSE Deshace(p)
    /\ UNCHANGED entorno

-----------------------------------------------------------------------------
(* The commit, and the process that never gets to it.                      *)

\* A payment found on hold is settled afterwards, in another transaction.
QuedaPorResolver(p) ==
    /\ mem[p].estado = "held"
    /\ \/ tarea[p] \in {"confirmarPago", "conciliar"}
       \/ tarea[p] = "pagar" /\ reserva = "completed"

\* Bug: the late hold is settled inside the transaction that has its payment.
GuardarSinSoltar(p) ==
    /\ EnEtapa(p, "guardar")
    /\ reserva' = Destino(tarea[p])
    /\ pago' = IF bloqueoPago = p THEN mem[p] ELSE pago
    /\ IF QuedaPorResolver(p) THEN Pasa(p, "resolver", "resolver") /\ UNCHANGED cerrojos
                              ELSE Pasa(p, "libre", "ninguna") /\ SueltaBloqueos(p)
    /\ UNCHANGED <<stripe, entregadas, entorno>>

Guardar(p) ==
    /\ EnEtapa(p, "guardar")
    /\ reserva' = Destino(tarea[p])
    /\ pago' = IF bloqueoPago = p THEN mem[p] ELSE pago
    /\ IF QuedaPorResolver(p) THEN Pasa(p, "resolver", "resolver")
                              ELSE Pasa(p, "libre", "ninguna")
    /\ SueltaBloqueos(p)
    /\ UNCHANGED <<stripe, entregadas, entorno>>

\* The review's commit: what is left to drop is the intent the row had.
GuardarYSoltar(p) ==
    /\ EnEtapa(p, "guardarYSoltar")
    /\ pago' = mem[p]
    /\ Sigue(p, "soltar", pago)
    /\ SueltaBloqueos(p)
    /\ UNCHANGED <<reserva, stripe, entregadas, entorno>>

\* The process dies, loses its connection or gets no answer to a call that
\* did its work: PostgreSQL undoes the transaction, Stripe undoes nothing.
Caida(p) ==
    /\ ~EnEtapa(p, "libre")
    /\ SinRespuesta
    /\ Deshace(p)

Externo == \/ LlegaLaFecha \/ Envejece
           \/ \E i \in Intenciones : ClientePaga(i) \/ StripeSuelta(i)

ReservaYPago(p) == \/ \E t \in Cambios : CambiarEstado(p, t)
                   \/ Caducar(p) \/ Capturar(p) \/ Reembolsar(p) \/ Resolver(p)
                   \/ BloquearPago(p) \/ EsperaAgotada(p)
                   \/ ConsultarAlSoltar(p) \/ ConsultaFallidaAlSoltar(p)
                   \/ ConsultarAlCobrar(p) \/ CancelarAlSoltar(p)
                   \/ CancelacionFallida(p) \/ CapturarRetencion(p)
                   \/ DevolverCobro(p) \/ CapturaRechazada(p) \/ FalloDeStripe(p)

SoloPago(p) == \/ IniciarPago(p) \/ ConsultarAlPagar(p) \/ CrearIntencion(p)
               \/ EscribirPago(p) \/ ConfirmarRetencion(p) \/ ConsultarAlConfirmar(p)
               \/ AvisoRetenida(p)

Revision(p) == \/ RevisarRetenida(p) \/ BloquearAlRevisar(p) \/ ConsultarAlRevisar(p)
               \/ Renovar(p) \/ NoRenovable(p) \/ SoltarVieja(p)
               \/ Conciliar(p) \/ ConsultarAlConciliar(p)

Next == \/ Externo \/ Confirmar \/ AvisoCobrada \/ AvisoCancelada
        \/ \E p \in Procesos : \/ ReservaYPago(p) \/ SoloPago(p) \/ Revision(p)
                               \/ Guardar(p) \/ GuardarYSoltar(p) \/ Caida(p)

Spec == Init /\ [][Next]_vars

\* A handler that has begun goes on: its calls to Stripe time out and so do its
\* waits for a lock.  The jobs run every hour on their own timers, so Caducar
\* gets its turn however often the review runs.  Webhooks are not fair: one
\* may never be delivered.
Avance(p) == /\ ~EnEtapa(p, "libre")
             /\ \/ ReservaYPago(p) \/ SoloPago(p) \/ Revision(p)
                \/ Guardar(p) \/ GuardarYSoltar(p)

Equidad == /\ \A p \in Procesos : WF_vars(Avance(p))
           /\ \A p \in Programadores : /\ WF_vars(RevisarRetenida(p) \/ Conciliar(p))
                                        /\ SF_vars(Caducar(p))

SpecJusta == Spec /\ Equidad

-----------------------------------------------------------------------------
(* Properties.                                                             *)

\* A hold the payment row does not name is one nothing releases or captures.
\* Only a renewal leaves one behind, the old or the new: opening the payment
\* page from several tabs, losing answers or retrying never does
\* (createPaymentIntent, "dos retenciones sobre la misma tarjeta").
SoloRenovarDejaHuerfanas ==
    \A i \in Intenciones :
        intencion[i] = "requires_capture" /\ i # pago.pi =>
            \/ clave[i][1] = "renovacion"
            \/ \E j \in Intenciones : clave[j] = <<"renovacion", i>>

\* A booking is never charged twice, whatever fails and whoever retries.
NuncaDosCobros ==
    \A i, j \in Intenciones :
        intencion[i] = "succeeded" /\ intencion[j] = "succeeded" => i = j

\* The row never says charged of an intent Stripe has not charged.
CobradoEsCobrado ==
    pago.estado = "completed" => pago.pi # 0 /\ intencion[pago.pi] = "succeeded"

\* The row never says refunded while Stripe still has the client's money.
DevueltoEsDevuelto ==
    pago.estado = "refunded" =>
        /\ pago.pi # 0
        /\ intencion[pago.pi] = "canceled" \/ pago.pi \in devueltas

\* What the row says happened to the money did happen, although every process
\* writes it from a copy and webhooks come late (reflejar, marcarPago).
LoAnotadoOcurrio == CobradoEsCobrado /\ DevueltoEsDevuelto

\* Nobody waits for the booking with the payment locked while someone else
\* does it the other way round (capturePayment, "esperan en vez de bloquearse").
SinEsperaCruzada ==
    \A p, q \in Procesos :
        ~ /\ bloqueoReserva = p /\ pc[p] \in {"pago", "escribir"}
          /\ bloqueoPago = q /\ pc[q] = "resolver"

\* No request is being served: what is left to do, the hourly jobs do.
EnCalma == \A p \in Peticiones : EnEtapa(p, "libre")

\* The row's intent is on hold at Stripe, whatever the row says.
RetenidoEnStripe == pago.pi # 0 /\ intencion[pago.pi] = "requires_capture"

\* The hold of a booking that will not happen is released, although Stripe did
\* not answer when it was cancelled or the webhook never came (revisarRetenciones).
LoCanceladoSeSuelta ==
    <>[]EnCalma =>
        (reserva \in {"cancelled", "rejected"} /\ RetenidoEnStripe ~> ~RetenidoEnStripe)

\* The hold of a booking already completed is captured, or dropped by Stripe:
\* it does not stay on the client's card.
LoCompletadoSeCobra ==
    <>[]EnCalma => (reserva = "completed" /\ RetenidoEnStripe ~> ~RetenidoEnStripe)

\* The charge for work done ends up in its row, although the process died
\* after capturing and the webhook never came.
LoCobradoConsta ==
    <>[]EnCalma =>
        (reserva = "completed" /\ pago.pi # 0 /\ intencion[pago.pi] = "succeeded"
         ~> pago.estado \in {"completed", "refunded"})

\* A request nobody answers does not wait, nor hold money, for ever.
LaSolicitudCaduca ==
    <>[]EnCalma => (reserva = "pending" /\ llegada ~> reserva # "pending")

\* What an error, a crash or a missed webhook left half done, the hourly jobs
\* finish: all of the above.
LosTrabajosAcaban == /\ LoCanceladoSeSuelta /\ LoCompletadoSeCobra
                     /\ LoCobradoConsta /\ LaSolicitudCaduca

\* What ARCHITECTURE.md says of the review: it reconciles the held payments a
\* missed webhook left behind.
LoRetenidoSeConcilia ==
    <>[]EnCalma =>
        (pago.estado = "held" /\ intencion[pago.pi] \in {"canceled", "succeeded"}
         ~> pago.estado # "held")

\* What ARCHITECTURE.md says of holds: with no failure at all, once everyone
\* has finished, the client's card holds the price of the booking once.
EnReposo == \A p \in Procesos : EnEtapa(p, "libre")
UnaSolaRetencion ==
    EnReposo => \A i, j \in Intenciones :
        intencion[i] = "requires_capture" /\ intencion[j] = "requires_capture" => i = j

\* The three situations the administration is shown, as pagosPorRevisar
\* computes them ("retenido-sin-completar" without its two days).
PorRevisar ==
    \/ pago.estado = "held" /\ reserva \in {"cancelled", "rejected", "completed"}
    \/ pago.estado = "held" /\ reserva = "confirmed" /\ llegada
    \/ reserva = "completed" /\ pago.estado \in {"ninguno", "pending", "failed"}

\* ...in which "the money is not where the booking says it should be".
ElCargoIndebidoSeVe ==
    reserva \in {"cancelled", "rejected"} /\ pago.estado = "completed" => PorRevisar

\* What the program does is what the platform promises, while every call to
\* Stripe that does its work is answered and no process dies halfway.
Promesa == INSTANCE PromesaReserva WITH
    Cargos    <- Intenciones,
    cargos    <- {i \in Intenciones : intencion[i] = "succeeded"},
    devueltos <- devueltas

CumpleLaPromesa == Promesa!Spec
=============================================================================
