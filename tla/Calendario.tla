------------------------------ MODULE Calendario ------------------------------
(***************************************************************************)
(* The bookings of one provider and its calendar.                          *)
(*                                                                         *)
(* Accepting a booking locks its own row only, looks for a confirmed       *)
(* booking that overlaps it and saves.  Two transactions that accept two   *)
(* bookings do not see each other: what keeps them apart is an exclusion   *)
(* constraint, which a database without btree_gist does not have.  The     *)
(* row lock allows one transaction per booking, so a transaction is named  *)
(* by its booking.                                                         *)
(***************************************************************************)
EXTENDS Naturals

CONSTANTS
    Reservas,         \* bookings, asked for or not yet
    Duraciones,       \* how long the provider's services take
    Horizonte,        \* bound: the last instant
    ConRestriccion    \* whether EXCL_bookings_sin_solape could be created

ASSUME CalendarioOK ==
    /\ Duraciones \subseteq Nat \ {0}
    /\ Horizonte \in Nat
    /\ ConRestriccion \in BOOLEAN

VARIABLES
    estado,   \* each booking's status, as committed
    hueco,    \* scheduledDate and durationMinutes
    tx,       \* the stage of the request working on each booking
    ahora     \* the clock

vars == <<estado, hueco, tx, ahora>>

Instantes == 0 .. Horizonte
Huecos == [inicio : Instantes, dura : Duraciones]
SinHueco == [inicio |-> 0, dura |-> 0]

\* "libre" is a booking nobody has asked for.
EstadosDeReserva == {"libre", "pending", "confirmed", "completed", "cancelled", "rejected"}

\* pidiendo: create has seen no overlap.  bloqueada: the row is locked and the
\* change allowed.  comprobada: no overlap seen.  escrita: the UPDATE is in the
\* index of the constraint.  pasada: the constraint let it through.
EtapasDeTx == {"ninguna", "pidiendo", "bloqueada", "comprobada", "escrita", "pasada"}

TypeOK ==
    /\ estado \in [Reservas -> EstadosDeReserva]
    /\ hueco \in [Reservas -> Huecos \cup {SinHueco}]
    /\ tx \in [Reservas -> EtapasDeTx]
    /\ ahora \in Instantes

Init ==
    /\ estado = [r \in Reservas |-> "libre"]
    /\ hueco = [r \in Reservas |-> SinHueco]
    /\ tx = [r \in Reservas |-> "ninguna"]
    /\ ahora = 0

-----------------------------------------------------------------------------

\* tsrange(...) && tsrange(...): half-open intervals.
SePisan(a, b) ==
    /\ a.inicio < b.inicio + b.dura
    /\ b.inicio < a.inicio + a.dura

\* Whether a committed, confirmed booking overlaps the slot.
HorarioOcupado(h) == \E q \in Reservas : estado[q] = "confirmed" /\ SePisan(h, hueco[q])

\* The transactions whose entry in the index overlaps r's.
Rivales(r) == {q \in Reservas \ {r} : /\ tx[q] \in {"escrita", "pasada"}
                                      /\ SePisan(hueco[r], hueco[q])}

EnTx(r, etapa) == tx[r] = etapa

SigueTx(r, etapa) ==
    /\ tx' = [tx EXCEPT ![r] = etapa]
    /\ UNCHANGED <<estado, hueco, ahora>>

Cambia(r, nuevo) ==
    /\ estado' = [estado EXCEPT ![r] = nuevo]
    /\ UNCHANGED <<hueco, ahora>>

-----------------------------------------------------------------------------
(* The bookings.                                                           *)

\* A request for a slot to come that is free so far...
Pedir(r, h) ==
    /\ estado[r] = "libre" /\ EnTx(r, "ninguna")
    /\ h.inicio > ahora
    /\ ~HorarioOcupado(h)
    /\ hueco' = [hueco EXCEPT ![r] = h]
    /\ tx' = [tx EXCEPT ![r] = "pidiendo"]
    /\ UNCHANGED <<estado, ahora>>

\* ...is saved, whatever has been accepted in between.
Insertar(r) ==
    /\ EnTx(r, "pidiendo")
    /\ Cambia(r, "pending")
    /\ tx' = [tx EXCEPT ![r] = "ninguna"]

IniciarConfirmacion(r) ==
    /\ EnTx(r, "ninguna") /\ estado[r] = "pending"
    /\ hueco[r].inicio > ahora
    /\ SigueTx(r, "bloqueada")

ComprobarHorario(r) ==
    /\ EnTx(r, "bloqueada")
    /\ SigueTx(r, IF HorarioOcupado(hueco[r]) THEN "ninguna" ELSE "comprobada")

\* Saving is an UPDATE: others see its entry in the index before its commit.
Escribir(r) ==
    /\ EnTx(r, "comprobada")
    /\ SigueTx(r, "escrita")

\* Bug: the constraint only looks at what is committed, as the query does.
PasarSinEsperar(r) ==
    /\ EnTx(r, "escrita")
    /\ ConRestriccion => ~HorarioOcupado(hueco[r])
    /\ SigueTx(r, "pasada")

\* The constraint lets it through when nothing overlaps, committed or not.
PasarRestriccion(r) ==
    /\ EnTx(r, "escrita")
    /\ ConRestriccion => ~HorarioOcupado(hueco[r]) /\ Rivales(r) = {}
    /\ SigueTx(r, "pasada")

\* 23P01, answered with a 409.
RechazoDeLaRestriccion(r) ==
    /\ EnTx(r, "escrita")
    /\ ConRestriccion /\ HorarioOcupado(hueco[r])
    /\ SigueTx(r, "ninguna")

\* Bug: two that wait for each other wait for ever.
EsperaSoloPasadas(r) ==
    /\ EnTx(r, "escrita")
    /\ ConRestriccion /\ \E q \in Rivales(r) : EnTx(q, "pasada")
    /\ SigueTx(r, "ninguna")

\* It waits for a rival's transaction to end, and gives up when both wait for
\* each other (PostgreSQL aborts one) or lock_timeout runs out.
EsperaAgotadaEnRestriccion(r) ==
    /\ EnTx(r, "escrita")
    /\ ConRestriccion /\ Rivales(r) # {}
    /\ SigueTx(r, "ninguna")

Comprometer(r) ==
    /\ EnTx(r, "pasada")
    /\ Cambia(r, "confirmed")
    /\ tx' = [tx EXCEPT ![r] = "ninguna"]

\* The other changes do not look at the calendar: one step each.
CerrarReserva(r, nuevo) ==
    /\ EnTx(r, "ninguna")
    /\ \/ estado[r] = "pending" /\ nuevo \in {"rejected", "cancelled"}
       \/ estado[r] = "confirmed" /\ nuevo = "cancelled"
       \/ estado[r] = "confirmed" /\ nuevo = "completed" /\ hueco[r].inicio <= ahora
    /\ Cambia(r, nuevo)
    /\ UNCHANGED tx

\* The hourly job; a locked row is skipped.
CaducarSolicitud(r) ==
    /\ EnTx(r, "ninguna")
    /\ estado[r] = "pending" /\ hueco[r].inicio < ahora
    /\ Cambia(r, "cancelled")
    /\ UNCHANGED tx

\* The request dies before its commit.
CaidaDeTx(r) == ~EnTx(r, "ninguna") /\ SigueTx(r, "ninguna")

Tic ==
    /\ ahora < Horizonte
    /\ ahora' = ahora + 1
    /\ UNCHANGED <<estado, hueco, tx>>

AvanceDeTx(r) == \/ Insertar(r) \/ ComprobarHorario(r) \/ Escribir(r)
                 \/ PasarRestriccion(r) \/ RechazoDeLaRestriccion(r)
                 \/ EsperaAgotadaEnRestriccion(r) \/ Comprometer(r)

Next == \/ Tic
        \/ \E r \in Reservas :
             \/ \E h \in Huecos : Pedir(r, h)
             \/ IniciarConfirmacion(r) \/ AvanceDeTx(r) \/ CaidaDeTx(r)
             \/ \E nuevo \in {"completed", "cancelled", "rejected"} : CerrarReserva(r, nuevo)
             \/ CaducarSolicitud(r)

Spec == Init /\ [][Next]_vars

\* A transaction that has begun goes on, and the database does not let it
\* wait for ever (lock_timeout, deadlock detection).
SpecViva == Spec /\ \A r \in Reservas : WF_vars(AvanceDeTx(r))

-----------------------------------------------------------------------------
(* Properties.                                                             *)

\* The instants a booking takes: what an overlap is, without intervals.
Ocupa(r) == hueco[r].inicio .. (hueco[r].inicio + hueco[r].dura - 1)

\* A provider's confirmed bookings never share an instant, although two are
\* accepted at once and neither transaction sees the other (updateStatus).
SinSolapes ==
    \A r, q \in Reservas :
        estado[r] = "confirmed" /\ estado[q] = "confirmed" /\ r # q
            => Ocupa(r) \cap Ocupa(q) = {}

\* Whoever accepts a booking gets an answer, also when two wait for each other
\* in the constraint.
TodaConfirmacionTermina ==
    \A r \in Reservas : ~EnTx(r, "ninguna") ~> EnTx(r, "ninguna")
=============================================================================
