----------------------------- MODULE MCNavegador ------------------------------
(***************************************************************************)
(* The browser for TLC.  Its session is run with one tab that reloads,     *)
(* books and misses answers, and with two: that both go in, that one goes  *)
(* out with a booking half written in the other, and that what one sends   *)
(* comes back because its session is over; its search going from address   *)
(* to address, and with answers that do not come and services that change; *)
(* then the assistant, and the screens that list things.                   *)
(***************************************************************************)
EXTENDS Sesion, Asistente, Pantallas, TLC

CONSTANTS ana, beto, t1, t2,
          fuga, grifo, jardin,                          \* words
          fontaneria, jardineria, pintura,              \* trades
          madrid, toledo, barcelona,                    \* cities
          cosa                                          \* whatever is listed

VARIABLE parte      \* what the behaviour is about

PersonasDos == {ana, beto}
PestanasDos == {t1, t2}
PestanaUna == {t1}

-----------------------------------------------------------------------------
(* Three services: two are as good and as near, and one may be withdrawn.  *)

Ficha(oficio, ciudad, lejos, nota, precio, fecha, palabras) ==
    [activo |-> TRUE, titular |-> TRUE, oficio |-> oficio, ciudad |-> ciudad,
     lejos |-> lejos, cobertura |-> 20, nota |-> nota, precio |-> precio,
     fecha |-> fecha, palabras |-> palabras]

Publicados == << Ficha(fontaneria, madrid, 3, 4, 30, 1, {grifo}),
                 Ficha(fontaneria, toledo, 2, 4, 20, 3, {}),
                 Ficha(jardineria, madrid, 1, 5, 30, 3, {jardin}) >>

CatalogosDos == {Publicados,
                 [Publicados EXCEPT ![1] = [@ EXCEPT !.activo = FALSE],
                                    ![3] = [@ EXCEPT !.cobertura = 0]]}

Diccionario == (fuga :> {grifo}) @@ (jardin :> {})
Nombres == (fontaneria :> {grifo}) @@ (jardineria :> {jardin})
OficiosDos == {fontaneria, jardineria}

FiltrosDelPanel == {Filtros(Nada, Nada, Nada, TRUE, 2, 0, 0, Nada),
                    Filtros(Nada, Nada, Nada, TRUE, 50, 4, 30, Nada)}

Direccionada(q, punto, radio, orden, vista, pagina) ==
    [q |-> q, category |-> Nada, city |-> Nada, punto |-> punto, radius |-> radio,
     rating |-> 0, maxPrice |-> 0, sort |-> orden, view |-> vista, page |-> pagina]

\* The site's, one that is kept, and one written by hand.
EnlacesTres == {Direccionada(Nada, FALSE, 0, Nada, Nada, 0),
                Direccionada(fuga, TRUE, 0, "distance", Nada, 2),
                Direccionada(Nada, TRUE, 500, "precio", "map", 7)}
TextosUno == {fuga}

MensajesDos == {[texto |-> jardin, oficios |-> {jardineria}, ciudades |-> {barcelona, toledo}],
                [texto |-> fuga, oficios |-> {}, ciudades |-> {}]}

\* Nothing, something, and something else than there is.
SalidasTres == {[oficio |-> Nada, ciudad |-> Nada, palabras |-> Nada],
                [oficio |-> fontaneria, ciudad |-> madrid, palabras |-> jardin],
                [oficio |-> pintura, ciudad |-> barcelona, palabras |-> fuga]}

CosaUna == {cosa}
TodasLasPantallas == DOMAIN Secciones

\* A tab and another of the panel, a screen and another of the account.
SeVa == {{"users", "payments"}, {"recibidas", "servicios"}}

-----------------------------------------------------------------------------

TypeOK == TipoSesion /\ TipoBusqueda /\ TipoAsistente /\ TipoPantallas

DosPestanas == {"entradas", "salidas", "borradores"}
DeSesion == {"una pestana"} \cup DosPestanas
DeBusqueda == {"direcciones", "respuestas", "asistente"}
Partes == DeSesion \cup DeBusqueda \cup {"pantallas"}

\* Each part starts as it may, and the rest as it is simplest.  (One account is as
\* good as the other.)
Init ==
    /\ InitSesion /\ InitBusqueda /\ InitAsistente /\ InitPantallas
    /\ parte \in Partes
    /\ recordado # beto
    /\ parte \notin DeSesion \/ parte = "entradas" => recordado = Nadie
    /\ parte \in {"salidas", "borradores"} => recordado = ana
    /\ parte = "borradores" => validas # {}
    /\ parte \notin DeBusqueda => publicado = Publicados
    /\ parte \notin {"direcciones", "respuestas"} =>
           Url = Direccionada(Nada, FALSE, 0, Nada, Nada, 0)
    /\ parte = "direcciones" => Url.radius <= RadioMaximo
    /\ parte # "pantallas" => seccion = "users"

\* A tab that never loads asks for nothing.
UnaPestana ==
    /\ parte = "una pestana"
    /\ NextSesion /\ ~Cargada(t2)'
    /\ UNCHANGED <<parte, varsBusqueda, varsAsistente, varsPantallas>>

EnDos(cual) ==
    /\ parte = cual
    /\ NextSesion
    /\ cuenta'.cargas = 0 /\ cuenta'.mudas = 0
    /\ UNCHANGED <<parte, varsBusqueda, varsAsistente, varsPantallas>>

\* Two go in, and perhaps out, with nobody in at first.
EntranDos == EnDos("entradas") /\ cuenta'.cierres = 0 /\ reserva' = reserva

\* In the next two there is one in already, and nobody goes in but the other.
EntraElOtro == \A t \in Pestanas : entrada'[t].quien # ana

\* Somebody writes, and goes out from here or there; nothing is sent.
SaleUna ==
    EnDos("salidas") /\ EntraElOtro /\ cuenta'.cierres = 0 /\ envio' = envio

\* What somebody sends is not accepted, because the session is over.
VuelveLoEscrito ==
    EnDos("borradores") /\ EntraElOtro /\ cuenta'.salidas = 0

\* As many addresses as may be, and every answer comes.
Direcciones ==
    /\ parte = "direcciones"
    /\ NextBusqueda
    /\ version' = 0 /\ gastos'.sinRespuesta = 0 /\ pantalla'.intento = 0
    /\ UNCHANGED <<parte, varsSesion, varsAsistente, varsPantallas>>

\* One change of address.
Respuestas ==
    /\ parte = "respuestas"
    /\ NextBusqueda
    /\ gastos'.pasos <= 1
    /\ UNCHANGED <<parte, varsSesion, varsAsistente, varsPantallas>>

ElAsistente ==
    /\ parte = "asistente"
    /\ NextAsistente
    /\ UNCHANGED <<parte, varsSesion, varsPantallas>>

\* One change of others, one call without an answer, or one change of screen.
LasPantallas ==
    /\ parte = "pantallas"
    /\ NextPantallas
    /\ veces'.ajenos + veces'.fallos + veces'.visitas <= 1
    /\ seccion' # seccion => {seccion, seccion'} \in SeVa
    /\ UNCHANGED <<parte, varsSesion, varsBusqueda, varsAsistente>>

Next ==
    \/ UnaPestana \/ EntranDos \/ SaleUna \/ VuelveLoEscrito
    \/ Direcciones \/ Respuestas \/ ElAsistente \/ LasPantallas

vars == <<parte, varsSesion, varsBusqueda, varsAsistente, varsPantallas>>

Abierta(t) == parte \in DosPestanas \/ (parte = "una pestana" /\ t = t1)

EnPantalla == parte = "pantallas"

Buscando == parte \in {"direcciones", "respuestas"}

\* What a tab that is open has to do is done; who searches asks as often as the
\* page has to; and the API answers everybody.
Equidad ==
    /\ \A t \in Pestanas :
           /\ WF_varsSesion(Abierta(t) /\ AtenderAviso(t))
           /\ WF_varsSesion(Abierta(t) /\ ~Cargada(t) /\ Cargar(t))
           /\ WF_varsSesion(Abierta(t) /\ (NoEntra(t) \/ LlegaEntrada(t) \/ Entrar(t)))
           /\ WF_varsSesion(Abierta(t) /\ (ServirSalida(t) \/ LlegaSalida(t)))
           /\ WF_varsSesion(Abierta(t) /\ (ServirComprobacion(t) \/ Comprobar(t)))
    /\ WF_varsBusqueda(Buscando /\ Pedir)
    /\ WF_varsBusqueda(Buscando /\ Atiende)
    /\ WF_varsPantallas(EnPantalla /\ AtiendeLaCarga("lista"))

Spec == Init /\ [][Next]_vars /\ Equidad

\* buscador.tsx:349-361.  Whoever searches is not left waiting: there are results,
\* or it is said why not.
LaBusquedaContesta ==
    (Buscando /\ pantalla.estado \in {"servidor", "navegador"})
        ~> (pantalla.estado \in {"datos", "fallo"})

\* lib/carga.ts:66-130.  No screen is left loading: it is ready, or it says that it
\* could not.
NadieEsperaSiempre ==
    (EnPantalla /\ lista.estado = "cargando") ~> (lista.estado # "cargando")
=============================================================================
