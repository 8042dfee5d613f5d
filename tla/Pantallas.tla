------------------------------- MODULE Pantallas -------------------------------
(***************************************************************************)
(* The screens that list things and let somebody act on them: the panel of *)
(* the administration with its sections, and those of each account.        *)
(*                                                                         *)
(* A screen asks for its data when it is put up, and again after each      *)
(* change; only the answer to the last thing asked counts (useCarga).      *)
(* Others change the same things, the answers come when they come, and the *)
(* administration's figures are asked for apart.                           *)
(***************************************************************************)
EXTENDS Integers, FiniteSets

CONSTANTS
    Cosas,          \* accounts, categories, bookings...
    Visitadas,      \* the screens that are put up
    Ninguna,        \* no thing
    MaxVisitas,     \* bound: changes of screen and of page
    MaxPulsaciones, \* bound: buttons pressed
    MaxAjenos,      \* bound: changes of others
    MaxFallos       \* bound: calls without an answer

ASSUME PantallasOK == {MaxVisitas, MaxPulsaciones, MaxAjenos, MaxFallos} \subseteq Nat

VARIABLES
    servidor,   \* what there is, by screen, and how many times it has changed
    seccion,    \* the screen
    lista,      \* its data
    metricas,   \* the figures of the administration
    cargas,     \* what has been asked for
    acciones,   \* what is being done
    enCurso,    \* the thing whose buttons are off
    recientes,  \* what has been sent since the screen was put up
    hecho,      \* history: the last change known to be done
    veces       \* how many of each bounded thing there have been

varsPantallas == <<servidor, seccion, lista, metricas, cargas, acciones, enCurso, recientes,
                   hecho, veces>>

-----------------------------------------------------------------------------
(* What each screen does.  recarga: how it asks again once something is    *)
(* done.  avisa: whether the figures do.  bloquea: which buttons are off   *)
(* meanwhile.  paginas: whether it comes in pages.                         *)

Seccion(ops, recarga, avisa, bloquea, paginas) ==
    [ops |-> ops, recarga |-> recarga, avisa |-> avisa, bloquea |-> bloquea,
     paginas |-> paginas]

\* Each account is active or not, and its button says the other.
UsersSection == Seccion({"alternar"}, "reintentar", TRUE, "nada", FALSE)

CategoriesSection == Seccion({"crear", "cambiar", "quitar"}, "reintentar", TRUE, "nada", FALSE)

ReportedReviewsSection == Seccion({"quitar"}, "reintentar", TRUE, "nada", FALSE)

PagosSection == Seccion({"quitar"}, "refrescar", FALSE, "cosa", FALSE)

ReputacionSection == Seccion({}, "nada", FALSE, "nada", FALSE)

IaSection == Seccion({}, "nada", FALSE, "nada", FALSE)

AuditoriaSection == Seccion({}, "nada", FALSE, "nada", TRUE)

BookingsReceivedPage == Seccion({"cerrar"}, "refrescar", FALSE, "nada", FALSE)

MyBookingsPage == Seccion({}, "nada", FALSE, "nada", FALSE)

\* The payment is asked for once, with the booking.
BookingDetailPage == Seccion({"cerrar"}, "reintentar", FALSE, "todo", FALSE)

ProviderServicesPage ==
    Seccion({"crear", "cambiar", "quitar"}, "reintentar", FALSE, "nada", FALSE)

\* What is sent is put with what there was: the other forms stay as they are.
MyReviewsPage == Seccion({"quitar"}, "aparte", FALSE, "cosa", FALSE)

DashboardPage == Seccion({}, "nada", FALSE, "nada", FALSE)

\* The form is the data: it is not asked for again.
ProfilePage == Seccion({"cambiar"}, "aparte", FALSE, "todo", FALSE)

Secciones ==
    [users |-> UsersSection, categories |-> CategoriesSection,
     reviews |-> ReportedReviewsSection, payments |-> PagosSection,
     reputation |-> ReputacionSection, ia |-> IaSection, auditoria |-> AuditoriaSection,
     recibidas |-> BookingsReceivedPage, reservas |-> MyBookingsPage,
     reserva |-> BookingDetailPage, servicios |-> ProviderServicesPage,
     valoraciones |-> MyReviewsPage, resumen |-> DashboardPage, perfil |-> ProfilePage]

\* PanelAdmin: its sections, below the figures.
EnElPanel(s) ==
    s \in {"users", "reputation", "categories", "reviews", "payments", "auditoria", "ia"}

-----------------------------------------------------------------------------
(* lib/carga.ts.                                                           *)

\* estado: cargando, as long as what was answered is not the last thing asked.
Gancho(estado, datos, version) == [estado |-> estado, datos |-> datos, version |-> version]

SinDatos == Gancho("cargando", {}, 0)

Carga(gancho, refresco, etapa, datos, version, vigente) ==
    [gancho |-> gancho, refresco |-> refresco, etapa |-> etapa, datos |-> datos,
     version |-> version, vigente |-> vigente]

\* The effect: what was asked before no longer counts.
Lanzar(g, refresco, C) ==
    {IF c.gancho = g THEN [c EXCEPT !.vigente = FALSE] ELSE c : c \in C}
        \cup {Carga(g, refresco, "va", {}, 0, TRUE)}

Vacia(g) == [g EXCEPT !.estado = "cargando"]

Pendiente(g) == \E c \in cargas : c.gancho = g /\ c.vigente

InitPantallas ==
    /\ servidor = [hay |-> [s \in Visitadas |-> Cosas], version |-> 1]
    /\ seccion \in Visitadas
    /\ lista = SinDatos /\ metricas = SinDatos
    /\ cargas = Lanzar("lista", FALSE,
                    IF EnElPanel(seccion) THEN Lanzar("metricas", FALSE, {}) ELSE {})
    /\ acciones = {}
    /\ enCurso = Ninguna
    /\ recientes = {}
    /\ hecho = [lista |-> 0, metricas |-> 0, perdida |-> FALSE]
    /\ veces = [visitas |-> 0, pulsaciones |-> 0, ajenos |-> 0, fallos |-> 0]

\* The API reads what there is.
LeerCarga(c) ==
    /\ c.etapa = "va"
    /\ cargas' = (cargas \ {c}) \cup
           {Carga(c.gancho, c.refresco, "leida",
                  IF c.gancho = "lista" THEN servidor.hay[seccion] ELSE {},
                  servidor.version, c.vigente)}
    /\ UNCHANGED <<servidor, seccion, lista, metricas, acciones, enCurso, recientes, hecho, veces>>

\* Bug: it is not looked at whether it is the answer to the last thing asked.
LlegaCualquierCarga(c) ==
    /\ c.etapa = "leida"
    /\ cargas' = cargas \ {c}
    /\ IF c.gancho = "lista"
       THEN lista' = Gancho("listo", c.datos, c.version) /\ UNCHANGED metricas
       ELSE metricas' = Gancho("listo", c.datos, c.version) /\ UNCHANGED lista
    /\ hecho' = [hecho EXCEPT !.perdida = @ /\ c.gancho # "lista"]
    /\ UNCHANGED <<servidor, seccion, acciones, enCurso, recientes, veces>>

LlegaLaCarga(c) ==
    /\ c.etapa = "leida"
    /\ cargas' = cargas \ {c}
    /\ IF ~c.vigente THEN UNCHANGED <<lista, metricas, hecho>>
       ELSE /\ IF c.gancho = "lista"
               THEN lista' = Gancho("listo", c.datos, c.version) /\ UNCHANGED metricas
               ELSE metricas' = Gancho("listo", c.datos, c.version) /\ UNCHANGED lista
            /\ hecho' = [hecho EXCEPT !.perdida = @ /\ c.gancho # "lista"]
    /\ UNCHANGED <<servidor, seccion, acciones, enCurso, recientes, veces>>

\* Bug: nothing is done when the answer does not come.
NoLlegaYCalla(c) ==
    /\ veces.fallos < MaxFallos
    /\ veces' = [veces EXCEPT !.fallos = @ + 1]
    /\ cargas' = cargas \ {c}
    /\ UNCHANGED <<servidor, seccion, lista, metricas, acciones, enCurso, recientes, hecho>>

\* An error, the time is over, or the session has expired.  When it was to
\* refresh, what was seen stays.
NoLlegaLaCarga(c) ==
    /\ veces.fallos < MaxFallos
    /\ veces' = [veces EXCEPT !.fallos = @ + 1]
    /\ cargas' = cargas \ {c}
    /\ IF ~c.vigente THEN UNCHANGED <<lista, metricas, hecho>>
       ELSE IF c.refresco
       THEN hecho' = [hecho EXCEPT !.perdida = TRUE] /\ UNCHANGED <<lista, metricas>>
       ELSE /\ \E e \in {"error", "sesion"} :
                   IF c.gancho = "lista"
                   THEN lista' = [lista EXCEPT !.estado = e] /\ UNCHANGED metricas
                   ELSE metricas' = [metricas EXCEPT !.estado = e] /\ UNCHANGED lista
            /\ UNCHANGED hecho
    /\ UNCHANGED <<servidor, seccion, acciones, enCurso, recientes>>

\* EstadoCarga: the button it offers when it failed.
ReintentarCarga ==
    /\ lista.estado = "error"
    /\ lista' = Vacia(lista)
    /\ cargas' = Lanzar("lista", FALSE, cargas)
    /\ UNCHANGED <<servidor, seccion, metricas, acciones, enCurso, recientes, hecho, veces>>

-----------------------------------------------------------------------------
(* The screens.                                                            *)

\* setTab, or going to another of the account's pages: what is under way goes on
\* without it.
IrASeccion(s) ==
    /\ s # seccion /\ EnElPanel(s) = EnElPanel(seccion) /\ veces.visitas < MaxVisitas
    /\ veces' = [veces EXCEPT !.visitas = @ + 1]
    /\ seccion' = s
    /\ lista' = SinDatos
    /\ cargas' = Lanzar("lista", FALSE, {c \in cargas : c.gancho # "lista"})
    /\ acciones' = {[a EXCEPT !.montada = FALSE] : a \in acciones}
    /\ enCurso' = Ninguna
    /\ recientes' = {}
    /\ hecho' = [hecho EXCEPT !.lista = 0, !.perdida = FALSE]
    /\ UNCHANGED <<servidor, metricas>>

\* Pagination, under the list.
IrAPagina ==
    /\ Secciones[seccion].paginas /\ lista.estado = "listo" /\ veces.visitas < MaxVisitas
    /\ veces' = [veces EXCEPT !.visitas = @ + 1]
    /\ lista' = Vacia(lista)
    /\ cargas' = Lanzar("lista", FALSE, cargas)
    /\ UNCHANGED <<servidor, seccion, metricas, acciones, enCurso, recientes, hecho>>

\* version: which one it is, and once done, which change.
Accion(op, cosa, etapa, version, montada, donde) ==
    [op |-> op, cosa |-> cosa, etapa |-> etapa, version |-> version,
     montada |-> montada, donde |-> donde]

Encendido(cosa) ==
    CASE Secciones[seccion].bloquea = "nada" -> TRUE
      [] Secciones[seccion].bloquea = "cosa" -> enCurso # cosa
      [] OTHER -> enCurso = Ninguna

\* A professional's form for a service takes the place of the list, and stays whatever
\* becomes of it.
FormularioAparte(op) == seccion = "servicios" /\ op \in {"crear", "cambiar"}

\* The button of something that is seen, and what is asked is agreed to.
Pulsar(op, cosa) ==
    /\ op \in Secciones[seccion].ops
    /\ lista.estado = "listo" \/ FormularioAparte(op)
    /\ Encendido(cosa)
    /\ op \in {"quitar", "cambiar", "cerrar"} => cosa \in lista.datos \ recientes
    /\ op = "crear" => cosa \notin lista.datos
    /\ veces.pulsaciones < MaxPulsaciones
    /\ veces' = [veces EXCEPT !.pulsaciones = @ + 1]
    /\ acciones' = acciones \cup
           {Accion(op, cosa, "va", veces.pulsaciones, TRUE, seccion)}
    /\ enCurso' = IF Secciones[seccion].bloquea = "nada" THEN enCurso ELSE cosa
    /\ UNCHANGED <<servidor, seccion, lista, metricas, cargas, recientes, hecho>>

\* What the API makes of it: whatever was agreed to, an account it turns over.
Queda(a) == IF a.op = "alternar" THEN a.cosa \notin servidor.hay[a.donde]
            ELSE a.op \in {"crear", "cambiar"}

Admitida(a) ==
    CASE a.op = "alternar" -> TRUE
      [] a.op = "crear" -> a.cosa \notin servidor.hay[a.donde]
      [] OTHER -> a.cosa \in servidor.hay[a.donde]

HacerAccion(a) ==
    /\ a.etapa \in {"va", "sin cobro"} /\ Admitida(a)
    /\ servidor' = [hay |-> [servidor.hay EXCEPT ![a.donde] =
                               IF Queda(a) THEN @ \cup {a.cosa} ELSE @ \ {a.cosa}],
                    version |-> servidor.version + 1]
    /\ acciones' = (acciones \ {a}) \cup
           {Accion(a.op, a.cosa, "hecha", servidor.version + 1, a.montada, a.donde)}
    /\ UNCHANGED <<seccion, lista, metricas, cargas, enCurso, recientes, hecho, veces>>

\* cambiarEstadoReserva: there is nothing held, and it is asked whether to go on.
PreguntarSinCobro(a) ==
    /\ a.op = "cerrar" /\ a.etapa = "va" /\ Admitida(a)
    /\ \E sigue \in BOOLEAN :
           IF sigue
           THEN /\ acciones' = (acciones \ {a}) \cup {[a EXCEPT !.etapa = "sin cobro"]}
                /\ UNCHANGED enCurso
           ELSE /\ acciones' = acciones \ {a}
                /\ enCurso' = IF a.montada THEN Ninguna ELSE enCurso
    /\ UNCHANGED <<servidor, seccion, lista, metricas, cargas, recientes, hecho, veces>>

\* The screen asks again if it is still there; the figures, in any case.
Contestada(a) ==
    LET s == Secciones[a.donde] IN
    /\ a.etapa = "hecha"
    /\ acciones' = acciones \ {a}
    /\ enCurso' = IF a.montada THEN Ninguna ELSE enCurso
    /\ recientes' = IF a.montada /\ s.recarga = "aparte" /\ a.op = "quitar"
                    THEN recientes \cup {a.cosa} ELSE recientes
    /\ lista' = IF a.montada /\ s.recarga = "reintentar" THEN Vacia(lista) ELSE lista
    /\ metricas' = IF s.avisa THEN Vacia(metricas) ELSE metricas
    /\ LET C == IF s.avisa THEN Lanzar("metricas", FALSE, cargas) ELSE cargas IN
       cargas' = IF a.montada /\ s.recarga \in {"reintentar", "refrescar"}
                 THEN Lanzar("lista", s.recarga = "refrescar", C) ELSE C
    /\ hecho' = [hecho EXCEPT
           !.lista = IF a.montada /\ s.recarga \in {"reintentar", "refrescar"}
                     THEN a.version ELSE @,
           !.metricas = IF s.avisa THEN a.version ELSE @]
    /\ UNCHANGED <<servidor, seccion, veces>>

\* Refused, or without an answer, done or not: it is said, and nothing is asked.
Fallida(a) ==
    /\ (a.etapa \in {"va", "sin cobro"} /\ ~Admitida(a)) \/ veces.fallos < MaxFallos
    /\ veces' = [veces EXCEPT !.fallos =
                    @ + IF a.etapa \in {"va", "sin cobro"} /\ ~Admitida(a) THEN 0 ELSE 1]
    /\ acciones' = acciones \ {a}
    /\ enCurso' = IF a.montada THEN Ninguna ELSE enCurso
    /\ UNCHANGED <<servidor, seccion, lista, metricas, cargas, recientes, hecho>>

\* Somebody else, or the same account in another tab, changes what is listed.
CambioAjeno(cosa) ==
    /\ veces.ajenos < MaxAjenos
    /\ veces' = [veces EXCEPT !.ajenos = @ + 1]
    /\ servidor' = [hay |-> [servidor.hay EXCEPT ![seccion] =
                               IF cosa \in @ THEN @ \ {cosa} ELSE @ \cup {cosa}],
                    version |-> servidor.version + 1]
    /\ UNCHANGED <<seccion, lista, metricas, cargas, acciones, enCurso, recientes, hecho>>

NextPantallas ==
    \/ ReintentarCarga \/ IrAPagina
    \/ \E s \in Visitadas : IrASeccion(s)
    \/ \E cosa \in Cosas : CambioAjeno(cosa)
    \/ \E op \in {"alternar", "crear", "cambiar", "quitar", "cerrar"}, cosa \in Cosas :
           Pulsar(op, cosa)
    \/ \E c \in cargas : LeerCarga(c) \/ LlegaLaCarga(c) \/ NoLlegaLaCarga(c)
    \/ \E a \in acciones : \/ HacerAccion(a) \/ PreguntarSinCobro(a)
                           \/ Contestada(a) \/ Fallida(a)

SpecPantallas == InitPantallas /\ [][NextPantallas]_varsPantallas

\* What counts is answered.
AtiendeLaCarga(g) == \E c \in cargas : c.vigente /\ c.gancho = g /\ (LeerCarga(c) \/ LlegaLaCarga(c))

-----------------------------------------------------------------------------

TipoPantallas ==
    /\ servidor.version \in 1 .. 1 + MaxPulsaciones + MaxAjenos
    /\ seccion \in Visitadas
    /\ \A g \in {lista, metricas} :
           /\ g.estado \in {"cargando", "listo", "error", "sesion"}
           /\ g.datos \subseteq Cosas /\ g.version \in 0 .. servidor.version
    /\ \A c \in cargas : c.etapa \in {"va", "leida"}
    /\ \A a \in acciones : a.etapa \in {"va", "sin cobro", "hecha"}
    /\ enCurso \in Cosas \cup {Ninguna} /\ recientes \subseteq Cosas

\* lib/carga.ts:88-106, and the handlers of the screens.  What somebody has been
\* told is done is seen to be done, in the list and in the figures, once nothing
\* is being asked for: no earlier answer comes after it, whatever else was pressed.
\* (Unless it was the refreshing that failed, which leaves what there was.)
LoHechoSeVe ==
    /\ (lista.estado = "listo" /\ ~Pendiente("lista") /\ ~hecho.perdida)
           => lista.version >= hecho.lista
    /\ (metricas.estado = "listo" /\ ~Pendiente("metricas"))
           => metricas.version >= hecho.metricas
=============================================================================
