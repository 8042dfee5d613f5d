--------------------------- MODULE NoticiasReserva ----------------------------
(***************************************************************************)
(* Who is told of what happens to a booking, and who may see it.  A change *)
(* of status is committed first; then the booking is read again, each      *)
(* notice is written on its own, and a change made by the moderation is    *)
(* entered in the history.  Nothing of that undoes the change: any of it   *)
(* may fail, and the API may stop in the middle.                           *)
(*                                                                         *)
(* CobroReservas cuts the transactions themselves.                         *)
(***************************************************************************)
EXTENDS Sequences, FiniteSets, Functions, EstadosDePago

CONSTANTS
    Tramites,      \* changes of status being served
    MaxTramites,   \* bound: changes asked for
    MaxOlvidos     \* bound: notices and entries that cannot be written, and stops

ASSUME NoticiasOK == MaxTramites \in Nat /\ MaxOlvidos \in Nat

LasDosPartes == {"cliente", "profesional"}

\* Who asks: its two parties, somebody else, and two administrations, the second of
\* which, of the demonstration, only reads.
Moderacion == {"moderacion", "escaparate"}
Mirones == LasDosPartes \cup {"otro"} \cup Moderacion

VARIABLES
    situacion,    \* the status of the booking
    llegado,      \* its date has come
    garantia,     \* there is money on hold
    mundo,        \* its two parties are of the demonstration
    tramite,      \* what each change has in its hands
    noticias,     \* the notices of each party, the last the newest
    asientos,     \* the history of the moderation
    pasos,        \* history: the changes committed, in order
    perdido,      \* history: who has missed a notice or the history an entry
    contado       \* what the bounds count

varsNoticias ==
    <<situacion, llegado, garantia, mundo, tramite, noticias, asientos, pasos, perdido, contado>>

Sabidos == {"confirmed", "rejected", "completed", "cancelled"}

Noticia(estado, sinCobro) == [estado |-> estado, sinCobro |-> sinCobro]
Paso(quien, antes, ahora, cobrada) ==
    [quien |-> quien, antes |-> antes, ahora |-> ahora, cobrada |-> cobrada]

EtapasTramite == {"libre", "releer", "avisar", "anotar", "responder"}
\* pendientes: who is still to be told.
Tramite(etapa, quien, antes, ahora, sinCobro, pendientes) ==
    [etapa |-> etapa, quien |-> quien, antes |-> antes, ahora |-> ahora,
     sinCobro |-> sinCobro, pendientes |-> pendientes]
SinTramite == Tramite("libre", "reloj", "pending", "pending", FALSE, <<>>)

Olvidables == LasDosPartes \cup {"historial"}

TipoNoticias ==
    /\ situacion \in EstadosReserva
    /\ llegado \in BOOLEAN /\ garantia \in BOOLEAN /\ mundo \in BOOLEAN
    /\ \A t \in Tramites :
           /\ tramite[t].etapa \in EtapasTramite
           /\ tramite[t].quien \in Mirones \cup {"reloj"}
           /\ {tramite[t].antes, tramite[t].ahora} \subseteq EstadosReserva
           /\ tramite[t].sinCobro \in BOOLEAN
           /\ Range(tramite[t].pendientes) \subseteq LasDosPartes
    /\ \A p \in LasDosPartes : \A n \in Range(noticias[p]) : n.estado \in Sabidos
    /\ perdido \subseteq Olvidables
    /\ contado \in [tramites : 0 .. MaxTramites, olvidos : 0 .. MaxOlvidos]

InitNoticias ==
    /\ situacion = "pending" /\ llegado = FALSE
    /\ garantia \in BOOLEAN /\ mundo \in BOOLEAN
    /\ tramite = [t \in Tramites |-> SinTramite]
    /\ noticias = [p \in LasDosPartes |-> <<>>]
    /\ asientos = <<>> /\ pasos = <<>>
    /\ perdido = {}
    /\ contado = [tramites |-> 0, olvidos |-> 0]

Olvido == contado.olvidos < MaxOlvidos /\ contado' = [contado EXCEPT !.olvidos = @ + 1]

-----------------------------------------------------------------------------
(* Who may see it.                                                         *)

\* The administration of the demonstration: what is not of it does not exist.
SoloVeLaDemostracion(quien) == quien = "escaparate"
EsAdmin(quien) == quien \in Moderacion

\* bookings findById: the two parties and the moderation.
PuedeVerla(quien) ==
    /\ ~(SoloVeLaDemostracion(quien) /\ ~mundo)
    /\ quien \in LasDosPartes \/ EsAdmin(quien)

\* payments findByBooking reads the booking on its own account.
PuedeVerSuPago(quien) ==
    /\ SoloVeLaDemostracion(quien) => mundo
    /\ ~EsAdmin(quien) => quien \in LasDosPartes

\* The lists of each: of bookings, of bookings received, and of payments.
EnSusListas(quien) == quien \in LasDosPartes
PagoEnSuLista(quien) == quien = "cliente"

\* The other party's telephone and address, in a booking that goes ahead.
ConContacto(estado) == estado \in {"confirmed", "completed"}

\* What whoever may see it sees.
Vista == [estado |-> situacion, contacto |-> ConContacto(situacion)]

-----------------------------------------------------------------------------
(* A change of status.                                                     *)

\* validateStatusTransition.
Permitido(quien, estado) ==
    /\ <<situacion, estado>> \in TransicionesReserva
    /\ estado \in {"confirmed", "completed", "rejected"} => quien = "profesional" \/ EsAdmin(quien)
    /\ estado = "cancelled" => quien \in LasDosPartes \/ EsAdmin(quien)
    /\ quien = "cliente" /\ estado = "cancelled" /\ situacion = "confirmed" => ~llegado
    /\ estado = "confirmed" => ~llegado
    /\ estado = "completed" => llegado

\* The transaction: the money moves with it, and completing without charge charges
\* all the same what turns out to be on hold.
PedirTramite(t) ==
    /\ tramite[t].etapa = "libre" /\ contado.tramites < MaxTramites
    /\ \E quien \in Mirones \ {"escaparate"}, estado \in Sabidos, sinCobro \in BOOLEAN :
           /\ Permitido(quien, estado)
           /\ sinCobro => estado = "completed"
           /\ estado = "completed" /\ ~sinCobro => garantia
           /\ LET cobra == estado = "completed" /\ garantia IN
              /\ situacion' = estado
              /\ pasos' = Append(pasos, Paso(quien, situacion, estado, cobra))
              /\ tramite' = [tramite EXCEPT ![t] =
                     Tramite("releer", quien, situacion, estado, sinCobro /\ ~cobra, <<>>)]
              /\ garantia' = FALSE
    /\ contado' = [contado EXCEPT !.tramites = @ + 1]
    /\ UNCHANGED <<llegado, mundo, noticias, asientos, perdido>>

\* caducarPendientes: nobody asked for it, and both are told.
CaducarReserva(t) ==
    /\ tramite[t].etapa = "libre"
    /\ situacion = "pending" /\ llegado
    /\ situacion' = "cancelled" /\ garantia' = FALSE
    /\ pasos' = Append(pasos, Paso("reloj", "pending", "cancelled", FALSE))
    /\ tramite' = [tramite EXCEPT ![t] =
           Tramite("avisar", "reloj", "pending", "cancelled", FALSE, <<"cliente", "profesional">>)]
    /\ UNCHANGED <<llegado, mundo, noticias, asientos, perdido, contado>>

\* Bug: a cancellation is told to the professional, whoever cancels.
SiempreAlMismo(quien, estado) ==
    IF estado = "cancelled" THEN <<"profesional">> ELSE <<"cliente">>

\* A cancellation, to whom did not ask for it; the rest, to the client.
Destinos(quien, estado) ==
    CASE estado # "cancelled" \/ quien = "profesional" -> <<"cliente">>
      [] estado = "cancelled" /\ quien = "cliente"     -> <<"profesional">>
      [] OTHER                                         -> <<"cliente", "profesional">>

\* findById again, with its relations: it is answered as it is by then.
ReleerReserva(t) ==
    /\ tramite[t].etapa = "releer"
    /\ tramite' = [tramite EXCEPT ![t].etapa = "avisar",
                                  ![t].pendientes = Destinos(tramite[t].quien, tramite[t].ahora)]
    /\ UNCHANGED <<situacion, llegado, garantia, mundo, noticias, asientos, pasos, perdido, contado>>

\* One notice, which may not be written: crear does not throw.
AvisarAUno(t) ==
    LET r == tramite[t]
        p == Head(r.pendientes)
    IN  /\ r.etapa = "avisar" /\ r.pendientes # <<>>
        /\ \/ /\ noticias' = [noticias EXCEPT ![p] = Append(@, Noticia(r.ahora, r.sinCobro))]
              /\ UNCHANGED <<perdido, contado>>
           \/ Olvido /\ perdido' = perdido \cup {p} /\ UNCHANGED noticias
        /\ tramite' = [tramite EXCEPT ![t].pendientes = Tail(@)]
        /\ UNCHANGED <<situacion, llegado, garantia, mundo, asientos, pasos>>

\* The moderation changing a booking of others stays in the history.
AcabarDeAvisar(t) ==
    LET r == tramite[t] IN
    /\ r.etapa = "avisar" /\ r.pendientes = <<>>
    /\ \/ /\ EsAdmin(r.quien)
          /\ \/ asientos' = Append(asientos, <<r.antes, r.ahora>>) /\ UNCHANGED <<perdido, contado>>
             \/ Olvido /\ perdido' = perdido \cup {"historial"} /\ UNCHANGED asientos
       \/ ~EsAdmin(r.quien) /\ UNCHANGED <<asientos, perdido, contado>>
    /\ tramite' = [tramite EXCEPT ![t] = SinTramite]
    /\ UNCHANGED <<situacion, llegado, garantia, mundo, noticias, pasos>>

\* The API stops, or the booking cannot be read again.
TramiteCortado(t) ==
    LET r == tramite[t]
        faltan == IF r.etapa = "releer" THEN Destinos(r.quien, r.ahora) ELSE r.pendientes
    IN  /\ r.etapa # "libre"
        /\ Olvido
        /\ perdido' = perdido \cup Range(faltan)
                          \cup (IF EsAdmin(r.quien) THEN {"historial"} ELSE {})
        /\ tramite' = [tramite EXCEPT ![t] = SinTramite]
        /\ UNCHANGED <<situacion, llegado, garantia, mundo, noticias, asientos, pasos>>

LlegaElDia ==
    /\ ~llegado /\ llegado' = TRUE
    /\ UNCHANGED <<situacion, garantia, mundo, tramite, noticias, asientos, pasos, perdido, contado>>

\* The client pays, or the hold is lost.
CambiaLaGarantia ==
    /\ situacion \in RESERVAS_ABIERTAS
    /\ garantia' = ~garantia
    /\ UNCHANGED <<situacion, llegado, mundo, tramite, noticias, asientos, pasos, perdido, contado>>

NextNoticias ==
    \/ \E t \in Tramites : \/ PedirTramite(t) \/ CaducarReserva(t) \/ ReleerReserva(t)
                           \/ AvisarAUno(t) \/ AcabarDeAvisar(t) \/ TramiteCortado(t)
    \/ LlegaElDia \/ CambiaLaGarantia

SpecNoticias == InitNoticias /\ [][NextNoticias]_varsNoticias

-----------------------------------------------------------------------------
(* Properties.                                                             *)

Avisados(p) == {noticias[p][n].estado : n \in DOMAIN noticias[p]}

\* bookings.service.ts:409-437.  A notice tells of a change that was made, and made by
\* somebody else; of each, once; and "without charge" only if nothing was charged.
LoAvisadoOcurrio ==
    \A p \in LasDosPartes :
        /\ \A n \in DOMAIN noticias[p] :
               \E s \in Range(pasos) : /\ s.ahora = noticias[p][n].estado /\ s.quien # p
                                       /\ noticias[p][n].sinCobro => ~s.cobrada
        /\ Len(noticias[p]) = Cardinality(Avisados(p))

\* The two parties of a booking know what it is: once nobody is at work, whoever has
\* missed nothing did the last change himself or has been told of it.  Only what the
\* moderation accepts, rejects or completes is told to the client and not to the
\* professional.
TodosSeEnteran ==
    (\A t \in Tramites : tramite[t].etapa = "libre") =>
        \A p \in LasDosPartes \ perdido, n \in DOMAIN pasos :
            LET s == pasos[n] IN
            \/ s.quien = p
            \/ s.ahora \in Avisados(p)
            \/ p = "profesional" /\ EsAdmin(s.quien) /\ s.ahora # "cancelled"

\* What the moderation does, and only that, is in the history, as it was done.
ElHistorialCuadra ==
    LET suyos == {n \in DOMAIN pasos : EsAdmin(pasos[n].quien)}
        hechos == {<<pasos[n].antes, pasos[n].ahora>> : n \in suyos}
    IN  /\ Range(asientos) \subseteq hechos
        /\ "historial" \notin perdido /\ (\A t \in Tramites : tramite[t].etapa = "libre")
               => Range(asientos) = hechos /\ Len(asientos) = Cardinality(suyos)

\* bookings.service.ts:240-275, payments.service.ts:810-846.  Whoever sees the booking
\* sees its payment, and nobody else; whoever has it in a list or is told of it may
\* open it; and the contact of the other party is seen only of one who was accepted
\* and whose booking has not been called off.
VenLoMismo ==
    /\ \A q \in Mirones :
           /\ PuedeVerla(q) <=> PuedeVerSuPago(q)
           /\ EnSusListas(q) \/ PagoEnSuLista(q) => PuedeVerla(q)
           /\ PuedeVerla(q) /\ Vista.contacto =>
                  /\ \E s \in Range(pasos) : s.ahora = "confirmed"
                  /\ \A s \in Range(pasos) : s.ahora \notin {"cancelled", "rejected"}
    /\ \A p \in LasDosPartes : noticias[p] # <<>> => PuedeVerla(p)

\* All of it.
LasNoticiasCuadran == LoAvisadoOcurrio /\ TodosSeEnteran /\ ElHistorialCuadra /\ VenLoMismo
=============================================================================
