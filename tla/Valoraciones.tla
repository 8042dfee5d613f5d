----------------------------- MODULE Valoraciones -----------------------------
(***************************************************************************)
(* The reviews of one service and the average kept in its row.             *)
(*                                                                         *)
(* No handler of reviews.service.ts opens a transaction: each reads a row, *)
(* changes what it read and saves it.  Saving compares what was read with  *)
(* the row as it is by then, and writes the columns that differ, or        *)
(* inserts the row again when it is gone.  The average is recomputed after *)
(* the review is written, in a query and an update of their own, and is a  *)
(* column of the row that editing the service reads and saves.             *)
(***************************************************************************)
EXTENDS Naturals, FiniteSets

CONSTANTS
    Reservas,           \* the completed bookings of the service
    Peticiones,         \* what can be served at once
    Notas,              \* ratings
    Motivos,            \* reasons to report a review
    Ninguno,            \* no reason, no booking
    MaxValoraciones,    \* bound: reviews written, the deleted ones included
    MaxPeticiones,      \* bound: requests served in all
    MaxCaidas           \* bound: requests cut short

ASSUME ValoracionesOK ==
    /\ IsFiniteSet(Reservas)
    /\ Notas \subseteq 1 .. 5
    /\ Ninguno \notin Motivos \cup Reservas
    /\ MaxValoraciones \in Nat
    /\ MaxPeticiones \in Nat
    /\ MaxCaidas \in Nat

VARIABLES
    valoraciones,   \* the review of each booking, as committed
    media,          \* averageRating, in hundredths, and totalReviews
    peticion,       \* what each request has in its hands
    siguiente,      \* the identifier of the next review
    servidas,       \* requests begun
    caidas,         \* requests cut short
    enFila          \* history: no two requests have coincided, none was cut

vars == <<valoraciones, media, peticion, siguiente, servidas, caidas, enFila>>

Ids == 1 .. MaxValoraciones

\* isReported and reportReason are written together: the reason is both.
\* Identifier 0 is a review that is not in the table.
Filas == [id : Ids \cup {0}, nota : 0 .. 5, respuesta : BOOLEAN,
          motivo : Motivos \cup {Ninguno}]
NoHay == [id |-> 0, nota |-> 0, respuesta |-> FALSE, motivo |-> Ninguno]

Medias == [nota : Nat, total : Nat]
SinMedia == [nota |-> 0, total |-> 0]

Etapas == {"libre",
           "creando",      \* create has seen no review of the booking
           "guardando",    \* a review was read, and changed in memory
           "comparada",    \* save has read the row to compare with
           "borrando",     \* deleteReview has the review
           "recontando",   \* the review is written, the average is not
           "recontada",    \* updateServiceRating has read the reviews
           "editando",     \* services.update has the service
           "cotejada"}     \* its save has read the row to compare with

\* fila and servicio: what was read, with its changes.  base and cotejo: the
\* rows save compares them with.  motivo: the reason a dismissal found.
Trabajos == [etapa : Etapas, reserva : Reservas \cup {Ninguno},
             fila : Filas, base : Filas, motivo : Motivos \cup {Ninguno},
             servicio : Medias, cotejo : Medias]
ConResena(etapa, r, fila, motivo) ==
    [etapa |-> etapa, reserva |-> r, fila |-> fila, base |-> NoHay,
     motivo |-> motivo, servicio |-> SinMedia, cotejo |-> SinMedia]
ConServicio(etapa, servicio) ==
    [etapa |-> etapa, reserva |-> Ninguno, fila |-> NoHay, base |-> NoHay,
     motivo |-> Ninguno, servicio |-> servicio, cotejo |-> SinMedia]
Libre == ConServicio("libre", SinMedia)

TypeOK ==
    /\ valoraciones \in [Reservas -> Filas]
    /\ media \in Medias
    /\ peticion \in [Peticiones -> Trabajos]
    /\ siguiente \in 1 .. MaxValoraciones + 1
    /\ servidas \in 0 .. MaxPeticiones
    /\ caidas \in 0 .. MaxCaidas
    /\ enFila \in BOOLEAN

Init ==
    /\ valoraciones = [r \in Reservas |-> NoHay]
    /\ media = SinMedia
    /\ peticion = [p \in Peticiones |-> Libre]
    /\ siguiente = 1
    /\ servidas = 0
    /\ caidas = 0
    /\ enFila = TRUE

-----------------------------------------------------------------------------

Hay(r) == valoraciones[r].id # 0

\* How many reviews gave each rating, their sum and their count.
Con(v, n) == Cardinality({r \in Reservas : v[r].id # 0 /\ v[r].nota = n})
Suma(v) == Con(v, 1) + 2 * Con(v, 2) + 3 * Con(v, 3) + 4 * Con(v, 4) + 5 * Con(v, 5)
Total(v) == Cardinality({r \in Reservas : v[r].id # 0})

\* Bug: no review averages to no number.
MediaSinCero(v) ==
    IF Total(v) = 0
    THEN [nota |-> Ninguno, total |-> 0]
    ELSE [nota |-> (200 * Suma(v) + Total(v)) \div (2 * Total(v)), total |-> Total(v)]

\* The query of updateServiceRating: the average as numeric(3,2) keeps it.
MediaDe(v) ==
    IF Total(v) = 0
    THEN SinMedia
    ELSE [nota |-> (200 * Suma(v) + Total(v)) \div (2 * Total(v)), total |-> Total(v)]

\* The column a save leaves: what was read, if it differs from what the save
\* compared it with; otherwise whatever is there.
Columna(leida, base, actual) == IF leida = base THEN actual ELSE leida

Mezcla(leida, base, actual) ==
    [id |-> Columna(leida.id, base.id, actual.id),
     nota |-> Columna(leida.nota, base.nota, actual.nota),
     respuesta |-> Columna(leida.respuesta, base.respuesta, actual.respuesta),
     motivo |-> Columna(leida.motivo, base.motivo, actual.motivo)]

MezclaMedia(leida, base, actual) ==
    [nota |-> Columna(leida.nota, base.nota, actual.nota),
     total |-> Columna(leida.total, base.total, actual.total)]

Empieza(p, trabajo) ==
    /\ peticion[p] = Libre
    /\ servidas < MaxPeticiones
    /\ servidas' = servidas + 1
    /\ peticion' = [peticion EXCEPT ![p] = trabajo]
    /\ enFila' = (enFila /\ \A q \in Peticiones : peticion[q] = Libre)
    /\ UNCHANGED <<valoraciones, media, siguiente, caidas>>

EnEtapa(p, etapa) == peticion[p].etapa = etapa

Pasa(p, trabajo) ==
    /\ peticion' = [peticion EXCEPT ![p] = trabajo]
    /\ UNCHANGED <<servidas, caidas, enFila>>

Recuenta(p) == Pasa(p, ConServicio("recontando", SinMedia))

-----------------------------------------------------------------------------
(* A client reviews a completed booking.                                   *)

Valorar(p, r, n) ==
    /\ ~Hay(r)
    /\ Empieza(p, ConResena("creando", r, [NoHay EXCEPT !.nota = n], Ninguno))

Insertar(p) ==
    LET r == peticion[p].reserva IN
    /\ EnEtapa(p, "creando")
    /\ ~Hay(r) /\ siguiente \in Ids
    /\ valoraciones' = [valoraciones EXCEPT ![r] = [peticion[p].fila EXCEPT !.id = siguiente]]
    /\ siguiente' = siguiente + 1
    /\ Recuenta(p)
    /\ UNCHANGED media

\* UNIQUE (bookingId): another one got there first, or came back.
ChocaLaReserva(p) ==
    /\ EnEtapa(p, "creando") \/ (EnEtapa(p, "comparada") /\ peticion[p].base.id = 0)
    /\ Hay(peticion[p].reserva)
    /\ Pasa(p, Libre)
    /\ UNCHANGED <<valoraciones, media, siguiente>>

-----------------------------------------------------------------------------
(* The provider answers, anyone reports, the administration dismisses:     *)
(* each reads the review, changes it and saves it.                         *)

Responder(p, r) ==
    /\ Hay(r)
    /\ Empieza(p, ConResena("guardando", r, [valoraciones[r] EXCEPT !.respuesta = TRUE], Ninguno))

Denunciar(p, r, m) ==
    /\ Hay(r)
    /\ Empieza(p, ConResena("guardando", r, [valoraciones[r] EXCEPT !.motivo = m], Ninguno))

Descartar(p, r) ==
    /\ Hay(r)
    /\ Empieza(p, ConResena("guardando", r, [valoraciones[r] EXCEPT !.motivo = Ninguno],
                            valoraciones[r].motivo))

\* The row with the identifier of what was read, if it is still there.
FilaDe(t) == IF valoraciones[t.reserva].id = t.fila.id THEN valoraciones[t.reserva] ELSE NoHay

\* save reads the row again to know what to write...
Comparar(p) ==
    /\ EnEtapa(p, "guardando")
    /\ Pasa(p, [peticion[p] EXCEPT !.etapa = "comparada", !.base = FilaDe(peticion[p])])
    /\ UNCHANGED <<valoraciones, media, siguiente>>

\* Bug: every column is written, to the review the booking has by now.
EscribirPorReserva(p) ==
    LET t == peticion[p] IN
    /\ EnEtapa(p, "comparada") /\ t.base.id # 0
    /\ valoraciones' = [valoraciones EXCEPT ![t.reserva] = [t.fila EXCEPT !.id = valoraciones[t.reserva].id]]
    /\ Pasa(p, Libre)
    /\ UNCHANGED <<media, siguiente>>

\* ...and updates it, unless it has gone meanwhile...
Escribir(p) ==
    LET t == peticion[p] IN
    /\ EnEtapa(p, "comparada") /\ t.base.id # 0
    /\ valoraciones' = IF FilaDe(t) = NoHay
                       THEN valoraciones
                       ELSE [valoraciones EXCEPT ![t.reserva] = Mezcla(t.fila, t.base, @)]
    /\ Pasa(p, Libre)
    /\ UNCHANGED <<media, siguiente>>

\* ...or inserts it again when it had gone already.
Reinsertar(p) ==
    LET t == peticion[p] IN
    /\ EnEtapa(p, "comparada") /\ t.base.id = 0
    /\ ~Hay(t.reserva)
    /\ valoraciones' = [valoraciones EXCEPT ![t.reserva] = t.fila]
    /\ Pasa(p, Libre)
    /\ UNCHANGED <<media, siguiente>>

-----------------------------------------------------------------------------
(* The administration deletes a review.                                    *)

Borrar(p, r) ==
    /\ Hay(r)
    /\ Empieza(p, ConResena("borrando", r, valoraciones[r], Ninguno))

\* Bug: the average is not recomputed.
QuitarSinRecontar(p) ==
    LET t == peticion[p] IN
    /\ EnEtapa(p, "borrando")
    /\ valoraciones' = IF FilaDe(t) = NoHay THEN valoraciones
                                            ELSE [valoraciones EXCEPT ![t.reserva] = NoHay]
    /\ Pasa(p, Libre)
    /\ UNCHANGED <<media, siguiente>>

Quitar(p) ==
    LET t == peticion[p] IN
    /\ EnEtapa(p, "borrando")
    /\ valoraciones' = IF FilaDe(t) = NoHay THEN valoraciones
                                            ELSE [valoraciones EXCEPT ![t.reserva] = NoHay]
    /\ Recuenta(p)
    /\ UNCHANGED <<media, siguiente>>

-----------------------------------------------------------------------------
(* The average: read, and then written.                                    *)

LeerMedia(p) ==
    /\ EnEtapa(p, "recontando")
    /\ Pasa(p, ConServicio("recontada", MediaDe(valoraciones)))
    /\ UNCHANGED <<valoraciones, media, siguiente>>

EscribirMedia(p) ==
    /\ EnEtapa(p, "recontada")
    /\ media' = peticion[p].servicio
    /\ Pasa(p, Libre)
    /\ UNCHANGED <<valoraciones, siguiente>>

-----------------------------------------------------------------------------
(* The provider edits the service, with the average in its hands.          *)

EditarServicio(p) == Empieza(p, ConServicio("editando", media))

CotejarServicio(p) ==
    /\ EnEtapa(p, "editando")
    /\ Pasa(p, [peticion[p] EXCEPT !.etapa = "cotejada", !.cotejo = media])
    /\ UNCHANGED <<valoraciones, media, siguiente>>

GuardarServicio(p) ==
    /\ EnEtapa(p, "cotejada")
    /\ media' = MezclaMedia(peticion[p].servicio, peticion[p].cotejo, media)
    /\ Pasa(p, Libre)
    /\ UNCHANGED <<valoraciones, siguiente>>

-----------------------------------------------------------------------------

\* A request is cut short: the database fails it, or the process dies.
Caida(p) ==
    /\ peticion[p] # Libre
    /\ caidas < MaxCaidas
    /\ caidas' = caidas + 1
    /\ enFila' = FALSE
    /\ peticion' = [peticion EXCEPT ![p] = Libre]
    /\ UNCHANGED <<valoraciones, media, siguiente, servidas>>

Next ==
    \E p \in Peticiones :
        \/ \E r \in Reservas :
             \/ \E n \in Notas : Valorar(p, r, n)
             \/ \E m \in Motivos : Denunciar(p, r, m)
             \/ Responder(p, r) \/ Descartar(p, r) \/ Borrar(p, r)
        \/ Insertar(p) \/ ChocaLaReserva(p)
        \/ Comparar(p) \/ Escribir(p) \/ Reinsertar(p)
        \/ Quitar(p) \/ LeerMedia(p) \/ EscribirMedia(p)
        \/ EditarServicio(p) \/ CotejarServicio(p) \/ GuardarServicio(p)
        \/ Caida(p)

Spec == Init /\ [][Next]_vars

-----------------------------------------------------------------------------
(* Properties.                                                             *)

Tranquilo == \A p \in Peticiones : peticion[p] = Libre

\* At rest, the service shows the average and the count of its reviews, as long
\* as no two requests coincided and none was cut short (updateServiceRating).
LaMediaCuadra == Tranquilo /\ enFila => media = MediaDe(valoraciones)

\* A booking's review gives way to another only by being deleted, an identifier
\* never moves to another booking, and a rating is what its client gave:
\* whatever is saved late, after a deletion and a second review included.
CadaIdUnaValoracion ==
    [][\A r, q \in Reservas :
         Hay(r) /\ valoraciones'[q].id # 0
            => /\ valoraciones'[q].id = valoraciones[r].id <=> q = r
               /\ q = r => valoraciones'[q].nota = valoraciones[r].nota]_vars

\* A reason leaves a review that stays only with the dismissal that found that
\* very reason and copies it to the history (dismissReport).
Desaparece(r) ==
    /\ valoraciones[r].id # 0 /\ valoraciones'[r].id = valoraciones[r].id
    /\ valoraciones[r].motivo # Ninguno /\ valoraciones'[r].motivo = Ninguno

LoDenunciadoSeCopia ==
    [][\A r \in Reservas :
         Desaparece(r) => \E p \in Peticiones : /\ EnEtapa(p, "comparada")
                                                /\ peticion[p].reserva = r
                                                /\ peticion[p].motivo = valoraciones[r].motivo]_vars

\* A review that the administration deleted does not come back.
LoBorradoNoVuelve ==
    [][\A r \in Reservas :
         ~Hay(r) /\ valoraciones'[r].id # 0 => valoraciones'[r].id = siguiente]_vars
=============================================================================
