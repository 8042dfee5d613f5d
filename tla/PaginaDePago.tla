----------------------------- MODULE PaginaDePago -----------------------------
(***************************************************************************)
(* The page where a client pays for a booking, in several tabs, over the   *)
(* charge of CobroReservas.  What it announces comes from the booking it   *)
(* read first; what it charges, from the intent it asked for afterwards;   *)
(* and what it says at the end, from the first of the two.                 *)
(*                                                                         *)
(* A tab makes one call at a time, and its request to the API is the       *)
(* process of the same name, cut where CobroReservas cuts it: the page     *)
(* only hears how it ends, or gives it up while it goes on.  Whatever is   *)
(* not the page's moves meanwhile, and the page keeps to its own state.    *)
(***************************************************************************)
EXTENDS CobroReservas

CONSTANT Tiendas    \* the requests that are of a tab with the page

ASSUME PaginaDePagoOK == Tiendas \subseteq Peticiones

VARIABLE mostrador  \* what each tab has

varsDePago == <<vars, mostrador>>

EtapasDePago == {"fuera", "leida", "pidiendo", "abonando", "caducado", "reabriendo",
                 "pagado", "confirmando", "salida", "error"}
AvisosDePago == {"ninguno", "cobrado", "retenidoConfirmada", "completado", "noConfirmado"}

\* leida: the booking as it was read.  bien, which the page does not know yet: its
\* call will be answered as it wishes.
Tienda(etapa, leida, pi) ==
    [etapa |-> etapa, leida |-> leida, pi |-> pi, bien |-> FALSE, aviso |-> "ninguno"]

TipoDePago ==
    mostrador \in [Tiendas -> [etapa : EtapasDePago, leida : EstadosReserva,
                               pi : 0 .. MaxIntenciones, bien : BOOLEAN,
                               aviso : AvisosDePago]]

InitDePago ==
    /\ Init
    /\ mostrador = [t \in Tiendas |-> Tienda("fuera", "pending", 0)]

EnTienda(t, etapa) == mostrador[t].etapa = etapa
Pone(t, tienda) == mostrador' = [mostrador EXCEPT ![t] = tienda]
Queda(t, etapa) == Pone(t, [mostrador[t] EXCEPT !.etapa = etapa, !.bien = FALSE])

\* The API is serving its call.
Pide(t) == mostrador[t].etapa \in {"pidiendo", "reabriendo"}
Espera(t) == Pide(t) \/ EnTienda(t, "confirmando")

\* What a request that is being served may do, and what nobody asks for.
Paso(p) == \/ ReservaYPago(p) \/ SoloPago(p) \/ Revision(p)
           \/ Guardar(p) \/ GuardarYSoltar(p) \/ Caida(p)
SinPeticion == Externo \/ Confirmar \/ AvisoCobrada \/ AvisoCancelada

-----------------------------------------------------------------------------
(* The intent to pay.                                                      *)

\* It reads the booking, and asks for the intent with that answer in its hands.
AbrirPago(t) ==
    /\ mostrador[t].etapa \in {"fuera", "abonando", "salida", "error"}
    /\ Pone(t, Tienda("leida", reserva, 0))
    /\ UNCHANGED vars

PedirIntento(t) ==
    /\ mostrador[t].etapa \in {"leida", "caducado"}
    /\ IniciarPago(t)
    /\ Queda(t, IF EnTienda(t, "leida") THEN "pidiendo" ELSE "reabriendo")

\* The one there was can be paid: that will be the answer, whatever happens to it
\* before it is given.
ElDeAntes(t) ==
    EnEtapa(t, "consultar") /\ tarea[t] = "pagar" /\ intencion[mem[t].pi] = "pagable"

SePideElIntento(t) ==
    /\ Pide(t)
    /\ ReservaYPago(t) \/ SoloPago(t) \/ Guardar(t)
    /\ pc'[t] # "libre"
    /\ Pone(t, [mostrador[t] EXCEPT !.bien = ElDeAntes(t)])

\* createPaymentIntent answers with the one there was, or with another.
LlegaElIntento(t) ==
    /\ Pide(t)
    /\ EscribirPago(t) \/ (mostrador[t].bien /\ Guardar(t))
    /\ pc'[t] = "libre"
    /\ Pone(t, Tienda("abonando", mostrador[t].leida, mem[t].pi))

\* Refused on opening, the page says why; on asking again, it stays as it was.
SinIntento(t) ==
    IF mostrador[t].etapa \in {"leida", "pidiendo"} THEN Queda(t, "error") ELSE Queda(t, "abonando")

\* It is served, and there is nothing to pay, it is paid, or it failed.
NoHayIntento(t) ==
    /\ Pide(t)
    /\ ReservaYPago(t) \/ Caida(t) \/ (~mostrador[t].bien /\ Guardar(t))
    /\ pc'[t] = "libre"
    /\ SinIntento(t)

-----------------------------------------------------------------------------
(* The payment.                                                            *)

\* confirmPayment: the card is taken.  Refused, the form stays as it was; and so it
\* does if the answer is lost, which is ClientePaga by itself.
PagarEnStripe(t) ==
    /\ EnTienda(t, "abonando")
    /\ ClientePaga(mostrador[t].pi)
    /\ Queda(t, "pagado")

\* The intent is not one to pay any more: another is asked for.
IntentoCaducado(t) ==
    /\ EnTienda(t, "abonando") /\ intencion[mostrador[t].pi] # "pagable"
    /\ Queda(t, "caducado")
    /\ UNCHANGED vars

PedirConfirmacion(t) ==
    /\ EnTienda(t, "pagado") /\ pago.pi = mostrador[t].pi
    /\ ConfirmarRetencion(t)
    /\ Queda(t, "confirmando")

\* confirmPaymentHold says yes once what Stripe holds or has charged is written: what
\* is done about it afterwards does not change its answer.
SePideConfirmar(t) ==
    /\ EnTienda(t, "confirmando")
    /\ ReservaYPago(t) \/ ConsultarAlConfirmar(t) \/ Guardar(t)
    /\ pc'[t] # "libre"
    /\ Pone(t, [mostrador[t] EXCEPT !.bien = @ \/ EnEtapa(t, "guardar")])

\* cobroInmediato: the page says that it charges, and not that it holds.
AnunciaCobro(leida) == leida = "completed"

AvisoAlPagar(leida) ==
    CASE AnunciaCobro(leida)   -> "cobrado"
      [] leida = "confirmed" -> "retenidoConfirmada"
      [] OTHER               -> "completado"

Confirmada(t) ==
    /\ EnTienda(t, "confirmando")
    /\ Guardar(t) \/ (mostrador[t].bien /\ (ReservaYPago(t) \/ Caida(t)))
    /\ pc'[t] = "libre"
    /\ Pone(t, [mostrador[t] EXCEPT !.etapa = "salida", !.bien = FALSE,
                                    !.aviso = AvisoAlPagar(mostrador[t].leida)])

SinConfirmar(t) ==
    Pone(t, [mostrador[t] EXCEPT !.etapa = "abonando", !.bien = FALSE, !.aviso = "noConfirmado"])

NoSeConfirma(t) ==
    /\ EnTienda(t, "confirmando")
    /\ Caida(t) \/ (~mostrador[t].bien /\ (ReservaYPago(t) \/ ConsultarAlConfirmar(t)))
    /\ pc'[t] = "libre"
    /\ SinConfirmar(t)

\* The call is refused at once or does not arrive, or its answer does not: what the
\* API had begun goes on without the page.
SinContestar(t) ==
    /\ \/ (Pide(t) \/ mostrador[t].etapa \in {"leida", "caducado"}) /\ SinIntento(t)
       \/ mostrador[t].etapa \in {"pagado", "confirmando"} /\ SinConfirmar(t)
    /\ UNCHANGED vars

-----------------------------------------------------------------------------

\* Everything else goes on as it may, by whoever no tab is waiting for.
LoDemas ==
    /\ \/ SinPeticion
       \/ \E p \in Procesos : (p \in Tiendas => ~Espera(p)) /\ Paso(p)
    /\ UNCHANGED mostrador

NextDePago ==
    \/ \E t \in Tiendas :
           \/ AbrirPago(t) \/ PedirIntento(t) \/ SePideElIntento(t)
           \/ LlegaElIntento(t) \/ NoHayIntento(t)
           \/ PagarEnStripe(t) \/ IntentoCaducado(t)
           \/ PedirConfirmacion(t) \/ SePideConfirmar(t)
           \/ Confirmada(t) \/ NoSeConfirma(t) \/ SinContestar(t)
    \/ LoDemas

SpecDePago == InitDePago /\ [][NextDePago]_varsDePago

-----------------------------------------------------------------------------
(* Properties.                                                             *)

\* A hold that was renewed, or the one that renewed it.
DeRenovacion(i) ==
    \/ clave[i][1] = "renovacion"
    \/ \E j \in Intenciones : clave[j] = <<"renovacion", i>>

\* payments.service.ts:187-195.  Nobody is offered to pay again what is paid: a form
\* that can still be paid, in whichever tab, is of the intent the row names, with
\* nothing charged, nor held but by a renewal, in any other.
NoSePagaDosVeces ==
    \A t \in Tiendas :
        EnTienda(t, "abonando") /\ intencion[mostrador[t].pi] = "pagable" =>
            /\ pago.pi = mostrador[t].pi
            /\ \A i \in Intenciones :
                   intencion[i] \in {"requires_capture", "succeeded"} => DeRenovacion(i)

\* CheckoutForm.tsx:108-118, payments.service.ts:440-468.  What the page said was paid
\* was, and its row is never again one that waits to be: not even because of another
\* request, which read it before and saves it afterwards.
LoDichoConsta ==
    \A t \in Tiendas :
        LET m == mostrador[t] IN
        m.aviso \in {"cobrado", "retenidoConfirmada", "completado"} =>
            /\ m.pi \in retenidas \/ intencion[m.pi] = "succeeded"
            /\ ~(pago.pi = m.pi /\ pago.estado = "pending")
            /\ m.aviso = "cobrado" => reserva = "completed"

\* page.tsx:132-175.  A form that announces a hold and would charge at once is one
\* whose booking has been completed since the page read it.
LoAnunciadoVale ==
    \A t \in Tiendas :
        EnTienda(t, "abonando") /\ ~AnunciaCobro(mostrador[t].leida)
            /\ clave[mostrador[t].pi][1] = "cobro" => reserva = "completed"

PagarCuadra == NoSePagaDosVeces /\ LoDichoConsta /\ LoAnunciadoVale
=============================================================================
