------------------------------ MODULE MCCuentas -------------------------------
(***************************************************************************)
(* For TLC: two requests at once on one account; the rates of a service    *)
(* and the form that books it; the figures of the administration; and what *)
(* a person downloads.  They share no state, so that a behaviour is about  *)
(* one of them.                                                            *)
(***************************************************************************)
EXTENDS Cuentas, Reservar, Agregados, Descarga, TLC

CONSTANTS p1, p2, d1, d2,
          k1, k2, fontaneria, pintura, madrid, toledo, ana, beto

VARIABLE parte      \* what the behaviour is about

PeticionesDos == {p1, p2}
EdicionesDos == {d1, d2}
ClavesDos == {k1, k2}
OficiosDos == {fontaneria, pintura}
Simetria == Permutations(PeticionesDos)

\* A Wednesday and a Sunday.
ComienzosDos == {17, 21}

\* Bookings of before the series, of its first day, of its last and to come.  Nobody
\* reviews who is not of its world.
Valoracion(notas, reportada, respondida, quien, demo) ==
    [nota : notas, reportada : {reportada}, respondida : respondida,
     profesional : {quien}, demo : {demo}, suProfesionalDemo : {demo}]

PosiblesPocas ==
    [usuarios |-> [rol : {"client", "provider"}, activo : BOOLEAN, demo : BOOLEAN],
     servicios |-> [activo : BOOLEAN, foto : {TRUE}, oficio : {fontaneria, pintura},
                    ciudad : {madrid}, demo : BOOLEAN]
                   \cup [activo : {TRUE}, foto : {FALSE}, oficio : {pintura},
                         ciudad : {toledo}, demo : {TRUE}],
     reservas |-> [estado : {"confirmed"}, dia : {7, 14, 22}, cobrado : {0}, demo : {TRUE}]
                  \cup [estado : {"completed"}, dia : {8, 21}, cobrado : {0, 1}, demo : BOOLEAN],
     valoraciones |-> Valoracion({1, 4}, FALSE, BOOLEAN, ana, TRUE)
                      \cup Valoracion({5}, TRUE, {TRUE}, beto, FALSE),
     historial |-> {}]

\* A service, a booking and its review on each side, and a talk with somebody.
Dato(tabla, id, uno, dos, de) == [tabla |-> tabla, id |-> id, uno |-> uno, dos |-> dos, de |-> de]
DatosPocos ==
    {Dato("servicios", 1, ana, ana, 0), Dato("reservas", 2, beto, ana, 1),
     Dato("reservas", 3, ana, beto, 0), Dato("pagos", 4, ana, beto, 3),
     Dato("valoraciones", 5, beto, ana, 1), Dato("valoraciones", 6, ana, beto, 3),
     Dato("conversaciones", 7, beto, ana, 0), Dato("mensajes", 8, beto, ana, 7),
     Dato("conversaciones", 9, beto, beto, 0), Dato("avisos", 10, ana, ana, 0)}

Partes == {"cuenta", "tarifas", "reservar", "cifras", "descarga"}

TiposOK == TypeOK /\ TipoReservar /\ TipoAgregados /\ TipoDescarga

\* Each part starts as it may, and the rest as it is simplest.  The download starts from
\* all its rows, or from all but one.
InitTodas ==
    /\ parte \in Partes
    /\ existentes \in IF parte = "descarga" THEN {Datos} \cup {Datos \ {d} : d \in Datos}
                                            ELSE {{}}
    /\ InitDescarga
    /\ Init /\ InitReservar
    /\ parte \notin {"tarifas", "reservar"} => tarifa = Tarifa(PrecioMinimo, SinMaximo)
    /\ grupo \in IF parte = "cifras" THEN DOMAIN Consultas ELSE {"historial"}
    /\ soloDemostracion \in IF parte = "cifras" THEN BOOLEAN ELSE {FALSE}
    /\ filas \in [Claves -> (IF parte = "cifras" THEN Posibles[grupo] ELSE {}) \cup {NoHay}]
    /\ InitAgregados
    /\ grupo # "reservas" => hoy = 21
    /\ grupo # "historial" => anotadas = 0
    /\ parte # "cifras" => anotadas = 0

LaCuenta ==
    /\ parte = "cuenta" /\ Next
    /\ UNCHANGED <<parte, varsReservar, varsAgregados, varsDescarga>>

\* Two editions of the rates at once.
LasTarifas ==
    /\ parte = "tarifas" /\ NextEdiciones
    /\ UNCHANGED <<parte, vars, varsAgregados, varsDescarga>>

\* The form, and one thing that happens to the service meanwhile.
LaReserva ==
    /\ parte = "reservar" /\ NextReservar
    /\ veces'.ediciones + veces'.percances <= 1
    /\ UNCHANGED <<parte, vars, varsAgregados, varsDescarga>>

LasCifras ==
    /\ parte = "cifras" /\ NextAgregados
    /\ hoy' # hoy => grupo = "reservas"
    /\ UNCHANGED <<parte, vars, varsReservar, varsDescarga>>

LaDescarga ==
    /\ parte = "descarga" /\ NextDescarga
    /\ UNCHANGED <<parte, vars, varsReservar, varsAgregados>>

NextTodas == LaCuenta \/ LasTarifas \/ LaReserva \/ LasCifras \/ LaDescarga

varsTodas == <<parte, vars, varsReservar, varsAgregados, varsDescarga>>

SpecTodas == InitTodas /\ [][NextTodas]_varsTodas
=============================================================================
