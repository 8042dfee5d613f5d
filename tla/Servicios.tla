------------------------------- MODULE Servicios ------------------------------
(***************************************************************************)
(* One service, from publication to withdrawal, and the bookings of it.    *)
(*                                                                         *)
(* Asking for a booking looks at the service and at its professional and   *)
(* inserts the booking later; withdrawing the service, or deleting the     *)
(* account, counts the open bookings and writes later.  Nothing is locked  *)
(* in between.  Editing the service reads its row and saves it.  A service *)
(* of the demonstration is put back every hour, by one transaction, unless *)
(* it was touched in the last one.                                         *)
(***************************************************************************)
EXTENDS Naturals, FiniteSets

CONSTANTS
    Gestiones,      \* what can be served at once
    MaxReservas,    \* bound: bookings asked for
    MaxGestiones    \* bound: requests in all

ASSUME ServiciosOK ==
    /\ IsFiniteSet(Gestiones)
    /\ MaxReservas \in Nat
    /\ MaxGestiones \in Nat

VARIABLES
    demo,       \* "no", or a service of the demonstration: "sembrado", "creado"
    servicio,   \* its row, as committed
    dueno,      \* its professional's account
    reservas,   \* its bookings: open and closed
    gestion,    \* what each request has in its hands
    gestiones,  \* requests begun
    recien,     \* it was created, or touched if it was sown, in the last hour
    cruzada,    \* history: a booking was asked for during a withdrawal or a deletion
    pisado      \* history: a row was saved that had been read before a withdrawal

varsServicios == <<demo, servicio, dueno, reservas, gestion, gestiones, recien, cruzada, pisado>>

Fichas == [hay : BOOLEAN, titulo : {"original", "otro", "titulo solo"}, retirado : BOOLEAN]
Ficha(hay, titulo, retirado) == [hay |-> hay, titulo |-> titulo, retirado |-> retirado]
Original == Ficha(TRUE, "original", FALSE)
Borrado == Ficha(FALSE, "original", FALSE)

EtapasGestion ==
    {"nada",
     "leido",       \* create of bookings has the service
     "cabe",        \* and its professional
     "quita",       \* remove has the service
     "vacio",       \* and has seen no open booking
     "retira",      \* and has seen bookings, or that it is of the demonstration
     "borra",       \* or none
     "edita",       \* update has the service
     "compara",     \* its save has read the row to compare with
     "elimina",     \* eliminarCuenta has seen no open booking
     "conHistorial",\* its transaction has withdrawn the service
     "sinHistorial"}\* its transaction has seen no booking
Gestion(etapa, leida, base) == [etapa |-> etapa, leida |-> leida, base |-> base]
Ociosa == Gestion("nada", Borrado, Borrado)

TipoServicios ==
    /\ demo \in {"no", "sembrado", "creado"}
    /\ servicio \in Fichas
    /\ dueno \in [activo : BOOLEAN, eliminado : BOOLEAN]
    /\ reservas \in [abiertas : 0 .. MaxReservas, cerradas : 0 .. MaxReservas]
    /\ gestion \in [Gestiones -> [etapa : EtapasGestion, leida : Fichas, base : Fichas]]
    /\ gestiones \in 0 .. MaxGestiones
    /\ recien \in BOOLEAN
    /\ cruzada \in BOOLEAN
    /\ pisado \in BOOLEAN

InitServicios ==
    /\ demo \in {"no", "sembrado", "creado"}
    /\ servicio = Original
    /\ dueno = [activo |-> TRUE, eliminado |-> FALSE]
    /\ reservas = [abiertas |-> 0, cerradas |-> 0]
    /\ gestion = [g \in Gestiones |-> Ociosa]
    /\ gestiones = 0
    /\ recien = TRUE
    /\ cruzada = FALSE
    /\ pisado = FALSE

-----------------------------------------------------------------------------

EnGestion(g, etapa) == gestion[g].etapa = etapa
Pide == {g \in Gestiones : gestion[g].etapa \in {"leido", "cabe"}}
Quita == {g \in Gestiones : gestion[g].etapa \in
             {"quita", "vacio", "retira", "borra", "elimina", "conHistorial", "sinHistorial"}}
Edita == {g \in Gestiones : gestion[g].etapa \in {"edita", "compara"}}
HayReservas == reservas.abiertas + reservas.cerradas > 0

EmpiezaGestion(g, trabajo) ==
    /\ EnGestion(g, "nada")
    /\ gestiones < MaxGestiones
    /\ gestiones' = gestiones + 1
    /\ gestion' = [gestion EXCEPT ![g] = trabajo]
    /\ cruzada' = (cruzada \/ (Pide' # {} /\ Quita' # {}))
    /\ UNCHANGED <<demo, servicio, dueno, reservas, recien, pisado>>

PasaGestion(g, etapa) ==
    /\ gestion' = [gestion EXCEPT ![g] = Gestion(etapa, @.leida, @.base)]
    /\ UNCHANGED <<demo, gestiones, cruzada>>
AcabaGestion(g) ==
    /\ gestion' = [gestion EXCEPT ![g] = Ociosa]
    /\ UNCHANGED <<demo, gestiones, cruzada>>

-----------------------------------------------------------------------------
(* Bookings.                                                               *)

\* create of bookings reads an active service; one withdrawn is not active.
PedirReserva(g) ==
    /\ servicio.hay /\ ~servicio.retirado
    /\ EmpiezaGestion(g, Gestion("leido", Borrado, Borrado))

\* And both parties.
MirarPartes(g) ==
    /\ EnGestion(g, "leido")
    /\ IF dueno.activo THEN PasaGestion(g, "cabe") ELSE AcabaGestion(g)
    /\ UNCHANGED <<servicio, dueno, reservas, recien, pisado>>

\* The row of the service has to be there.
GuardarReserva(g) ==
    /\ EnGestion(g, "cabe")
    /\ IF servicio.hay
       THEN /\ reservas.abiertas + reservas.cerradas < MaxReservas
            /\ reservas' = [reservas EXCEPT !.abiertas = @ + 1]
       ELSE reservas' = reservas
    /\ AcabaGestion(g)
    /\ UNCHANGED <<servicio, dueno, recien, pisado>>

\* Completed, cancelled or expired.
CerrarReserva ==
    /\ reservas.abiertas > 0
    /\ reservas' = [abiertas |-> reservas.abiertas - 1, cerradas |-> reservas.cerradas + 1]
    /\ UNCHANGED <<demo, servicio, dueno, gestion, gestiones, recien, cruzada, pisado>>

-----------------------------------------------------------------------------
(* Withdrawal.                                                             *)

\* findById: neither deleted nor withdrawn.
SeVe == servicio.hay /\ ~servicio.retirado

QuitarServicio(g) == SeVe /\ EmpiezaGestion(g, Gestion("quita", Borrado, Borrado))

\* Bug: the open bookings are not counted.
ContarNada(g) ==
    /\ EnGestion(g, "quita")
    /\ PasaGestion(g, "vacio")
    /\ UNCHANGED <<servicio, dueno, reservas, recien, pisado>>

ContarAbiertas(g) ==
    /\ EnGestion(g, "quita")
    /\ IF reservas.abiertas = 0 THEN PasaGestion(g, "vacio") ELSE AcabaGestion(g)
    /\ UNCHANGED <<servicio, dueno, reservas, recien, pisado>>

\* Bug: only the history decides.
ElegirPorHistorial(g) ==
    /\ EnGestion(g, "vacio")
    /\ PasaGestion(g, IF HayReservas THEN "retira" ELSE "borra")
    /\ UNCHANGED <<servicio, dueno, reservas, recien, pisado>>

\* With history, or of a demonstration account, it is withdrawn.
ElegirRetirada(g) ==
    /\ EnGestion(g, "vacio")
    /\ PasaGestion(g, IF demo # "no" \/ HayReservas THEN "retira" ELSE "borra")
    /\ UNCHANGED <<servicio, dueno, reservas, recien, pisado>>

\* A row with bookings cannot be deleted, and one that is not there does not
\* matter.
RetirarServicio(g) ==
    /\ \/ EnGestion(g, "retira") /\ servicio' = [servicio EXCEPT !.retirado = servicio.hay]
       \/ EnGestion(g, "borra") /\ servicio' = IF HayReservas THEN servicio ELSE Borrado
    /\ pisado' = (pisado \/ Edita # {})
    /\ recien' = (recien \/ demo = "sembrado")
    /\ AcabaGestion(g)
    /\ UNCHANGED <<dueno, reservas>>

-----------------------------------------------------------------------------
(* Edition: the same read, compare and save as in a review.                *)

EditarServicio(g) ==
    /\ SeVe /\ dueno.activo
    /\ EmpiezaGestion(g, Gestion("edita", [servicio EXCEPT !.titulo = "otro"], Borrado))

CotejarServicio(g) ==
    /\ EnGestion(g, "edita")
    /\ gestion' = [gestion EXCEPT ![g] = Gestion("compara", @.leida, servicio)]
    /\ UNCHANGED <<demo, servicio, dueno, reservas, gestiones, recien, cruzada, pisado>>

\* A row that was gone is inserted again, and one that goes now stays gone.
GuardarServicio(g) ==
    LET leida == gestion[g].leida
        base  == gestion[g].base
    IN  /\ EnGestion(g, "compara")
        /\ servicio' = IF ~base.hay THEN leida
                       ELSE IF ~servicio.hay THEN servicio
                       ELSE Ficha(TRUE, leida.titulo,
                                  IF leida.retirado = base.retirado THEN servicio.retirado
                                  ELSE leida.retirado)
        /\ recien' = (recien \/ demo = "sembrado")
        /\ AcabaGestion(g)
        /\ UNCHANGED <<dueno, reservas, pisado>>

-----------------------------------------------------------------------------
(* The account.                                                            *)

\* toggleActive.
Alternar ==
    /\ ~dueno.eliminado
    /\ dueno' = [dueno EXCEPT !.activo = ~@]
    /\ UNCHANGED <<demo, servicio, reservas, gestion, gestiones, recien, cruzada, pisado>>

\* eliminarCuenta: not of the demonstration, and with no open booking.
EliminarDueno(g) ==
    /\ demo = "no" /\ dueno.activo /\ reservas.abiertas = 0
    /\ EmpiezaGestion(g, Gestion("elimina", Borrado, Borrado))

\* Its services with history are withdrawn by one statement.
VaciarServicios(g) ==
    /\ EnGestion(g, "elimina")
    /\ PasaGestion(g, IF HayReservas THEN "conHistorial" ELSE "sinHistorial")
    /\ UNCHANGED <<servicio, dueno, reservas, recien, pisado>>

\* Those without it are deleted by the next one, and all is committed.
AnonimizarDueno(g) ==
    /\ gestion[g].etapa \in {"conHistorial", "sinHistorial"}
    /\ servicio' = IF EnGestion(g, "conHistorial") /\ servicio.hay
                   THEN Ficha(TRUE, "titulo solo", TRUE)
                   ELSE IF HayReservas THEN servicio ELSE Borrado
    /\ dueno' = [activo |-> FALSE, eliminado |-> TRUE]
    /\ pisado' = (pisado \/ Edita # {})
    /\ AcabaGestion(g)
    /\ UNCHANGED <<reservas, recien>>

-----------------------------------------------------------------------------
(* The demonstration.                                                      *)

PasaUnaHora ==
    /\ recien
    /\ recien' = FALSE
    /\ UNCHANGED <<demo, servicio, dueno, reservas, gestion, gestiones, cruzada, pisado>>

\* restaurar: what was sown is as it was, and what was created is deleted or,
\* with bookings, withdrawn.
Restaurar ==
    /\ ~recien
    /\ \/ demo = "sembrado" /\ servicio.hay /\ servicio' = Original
       \/ /\ demo = "creado" /\ SeVe
          /\ servicio' = IF HayReservas THEN [servicio EXCEPT !.retirado = TRUE] ELSE Borrado
    /\ servicio' # servicio
    /\ recien' = (demo = "sembrado")
    /\ UNCHANGED <<demo, dueno, reservas, gestion, gestiones, cruzada, pisado>>

NextServicios ==
    \/ CerrarReserva \/ Alternar \/ PasaUnaHora \/ Restaurar
    \/ \E g \in Gestiones :
           \/ PedirReserva(g) \/ MirarPartes(g) \/ GuardarReserva(g)
           \/ QuitarServicio(g) \/ ContarAbiertas(g) \/ ElegirRetirada(g) \/ RetirarServicio(g)
           \/ EditarServicio(g) \/ CotejarServicio(g) \/ GuardarServicio(g)
           \/ EliminarDueno(g) \/ VaciarServicios(g) \/ AnonimizarDueno(g)

\* The hours go by, the restoration comes every hour, and an edition ends.
EquidadServicios ==
    /\ WF_varsServicios(PasaUnaHora)
    /\ WF_varsServicios(Restaurar)
    /\ \A g \in Gestiones : /\ WF_varsServicios(CotejarServicio(g))
                            /\ WF_varsServicios(GuardarServicio(g))
                            /\ WF_varsServicios(ContarAbiertas(g))
                            /\ WF_varsServicios(ElegirRetirada(g))
                            /\ WF_varsServicios(RetirarServicio(g))

SpecServicios == InitServicios /\ [][NextServicios]_varsServicios

-----------------------------------------------------------------------------

\* services.service.ts:249-252.  Nobody has an open booking of a service that
\* was withdrawn or of a professional who deleted the account, unless it was
\* asked for while that was going on.
CitaConServicio ==
    (reservas.abiertas > 0 /\ demo = "no" /\ ~cruzada) =>
        SeVe /\ ~dueno.eliminado

\* Of a professional who deleted the account no service is seen: it is withdrawn
\* and emptied, or deleted, unless a booking was being asked for or an edition
\* was under way.
LoDelEliminadoSeVa ==
    (dueno.eliminado /\ ~cruzada /\ ~pisado) => ~SeVe /\ servicio.titulo # "otro"

\* Whatever visitors do with the demonstration, what was sown ends up as it was,
\* also if they withdraw it, and what they publish ends up out of sight.
LaDemostracionVuelve ==
    /\ demo = "sembrado" => <>[](servicio = Original)
    /\ demo = "creado" => <>[](~SeVe)

\* Whoever leaves, or withdraws a service, leaves neither bookings nor data.
LaRetiradaCuadra == CitaConServicio /\ LoDelEliminadoSeVa
=============================================================================
