---------------------------- MODULE Conversaciones ----------------------------
(***************************************************************************)
(* The messages of one pair of people, and the tabs that have their        *)
(* conversation open.                                                      *)
(*                                                                         *)
(* Sending is not one transaction: the conversation is found or created    *)
(* under a lock of the pair, and the message, the preview of the           *)
(* conversation and the notice to the tabs come after it, one by one.  A   *)
(* tab asks for the whole thread, and adds what reaches it by its socket.  *)
(***************************************************************************)
EXTENDS TiempoReal, Sequences

CONSTANTS
    Personas,       \* the two of the pair
    Duena,          \* whose each tab is
    Envios,         \* requests to send that can be served at once
    Tope,           \* TOPE_LISTA: the messages a thread shows
    MaxMensajes,    \* bound: messages begun
    MaxRotas,       \* bound: sends cut short by a crash
    MaxEnVuelo      \* bound: threads on their way to a tab when it asks for another

ASSUME ConversacionesOK ==
    /\ 0 \notin Personas /\ Cardinality(Personas) = 2
    /\ Duena \in [Pestanas -> Personas]
    /\ Tope \in Nat \ {0}
    /\ MaxMensajes \in Nat
    /\ MaxRotas \in Nat
    /\ MaxEnVuelo \in Nat

VARIABLES
    conversaciones, \* for each, in order of creation, the message it previews
    mensajes,       \* in order: the conversation, the sender, whether it is read
    envio,          \* what each request to send is doing
    cerrojo,        \* the advisory lock of the pair
    empezados,      \* messages begun
    rotas,          \* sends cut short
    deUnoEnUno,     \* history: no two sends have coincided
    hilo,           \* the messages each tab shows
    cargado,        \* the tabs that have shown a thread
    pedidas,        \* the threads each tab has asked for and is owed
    lecturas,       \* the threads read for each tab, on their way to it
    cola,           \* the messages on their way by each tab's socket
    marcas          \* the tabs whose request to mark as read is on its way

varsServidor == <<conversaciones, mensajes, envio, cerrojo, empezados, rotas, deUnoEnUno>>
varsPantalla == <<hilo, cargado, pedidas, lecturas, cola, marcas>>
varsConversaciones == <<varsTiempoReal, varsServidor, varsPantalla>>

Nadie == 0      \* nobody, no conversation, no message
Ids == 1 .. MaxMensajes
Hilos == 1 .. MaxMensajes

Etapas == {"libre", "espera", "busca", "crea", "guarda", "apunta", "avisa"}
Trabajos == [etapa : Etapas, de : Personas \cup {Nadie}, hilo : Hilos \cup {Nadie}, id : Ids \cup {Nadie}]
Trabajo(etapa, p, c, m) == [etapa |-> etapa, de |-> p, hilo |-> c, id |-> m]
Libre == Trabajo("libre", Nadie, Nadie, Nadie)

\* A thread as it was read: its last messages, and whether one of the other
\* was unread.
Lecturas == [ids : SUBSET Ids, pendiente : BOOLEAN]

TipoConversaciones ==
    /\ TipoTiempoReal
    /\ conversaciones \in Seq(Ids \cup {Nadie})
    /\ mensajes \in Seq([hilo : Hilos, de : Personas, leido : BOOLEAN])
    /\ envio \in [Envios -> Trabajos]
    /\ cerrojo \subseteq Envios
    /\ empezados \in 0 .. MaxMensajes
    /\ rotas \in 0 .. MaxRotas
    /\ deUnoEnUno \in BOOLEAN
    /\ hilo \in [Pestanas -> SUBSET Ids]
    /\ cargado \subseteq Pestanas
    /\ pedidas \in [Pestanas -> 0 .. 1]
    /\ lecturas \in [Pestanas -> SUBSET Lecturas]
    /\ cola \in [Pestanas -> SUBSET Ids]
    /\ marcas \subseteq Pestanas

\* The tabs have just opened: each has asked for the thread.
InitConversaciones ==
    /\ InitTiempoReal
    /\ conversaciones = <<>>
    /\ mensajes = <<>>
    /\ envio = [e \in Envios |-> Libre]
    /\ cerrojo = {}
    /\ empezados = 0
    /\ rotas = 0
    /\ deUnoEnUno = TRUE
    /\ hilo = [t \in Pestanas |-> {}]
    /\ cargado = {}
    /\ pedidas = [t \in Pestanas |-> 1]
    /\ lecturas = [t \in Pestanas |-> {}]
    /\ cola = [t \in Pestanas |-> {}]
    /\ marcas = {}

-----------------------------------------------------------------------------
(* Sending.                                                                *)

\* The conversation of the pair, the first if there were several.
LaDeLaPareja == IF conversaciones = <<>> THEN Nadie ELSE 1

DelHilo(c) == {m \in 1 .. Len(mensajes) : mensajes[m].hilo = c}

Avanza(e, desde, trabajo) ==
    /\ envio[e].etapa = desde
    /\ envio' = [envio EXCEPT ![e] = trabajo]
    /\ UNCHANGED <<empezados, rotas, deUnoEnUno>>

Empieza(e, trabajo) ==
    /\ envio[e] = Libre
    /\ empezados < MaxMensajes
    /\ empezados' = empezados + 1
    /\ envio' = [envio EXCEPT ![e] = trabajo]
    /\ deUnoEnUno' = (deUnoEnUno /\ \A otro \in Envios : envio[otro] = Libre)
    /\ UNCHANGED <<conversaciones, mensajes, cerrojo, rotas>>

Escribir(e, p) == Empieza(e, Trabajo("espera", p, Nadie, Nadie))

\* A reply names its conversation.
Responder(e, p, c) ==
    /\ c \in DOMAIN conversaciones
    /\ Empieza(e, Trabajo("guarda", p, c, Nadie))

\* Bug: nobody waits.
TomarSinEsperar(e) ==
    /\ cerrojo' = cerrojo \cup {e}
    /\ Avanza(e, "espera", [envio[e] EXCEPT !.etapa = "busca"])
    /\ UNCHANGED <<conversaciones, mensajes>>

TomarCerrojo(e) ==
    /\ cerrojo = {}
    /\ cerrojo' = {e}
    /\ Avanza(e, "espera", [envio[e] EXCEPT !.etapa = "busca"])
    /\ UNCHANGED <<conversaciones, mensajes>>

Buscar(e) ==
    LET c == LaDeLaPareja IN
    /\ IF c = Nadie
       THEN /\ Avanza(e, "busca", [envio[e] EXCEPT !.etapa = "crea"])
            /\ cerrojo' = cerrojo
       ELSE /\ Avanza(e, "busca", Trabajo("guarda", envio[e].de, c, Nadie))
            /\ cerrojo' = cerrojo \ {e}
    /\ UNCHANGED <<conversaciones, mensajes>>

Crear(e) ==
    /\ conversaciones' = Append(conversaciones, Nadie)
    /\ Avanza(e, "crea", Trabajo("guarda", envio[e].de, Len(conversaciones) + 1, Nadie))
    /\ cerrojo' = cerrojo \ {e}
    /\ UNCHANGED mensajes

GuardarMensaje(e) ==
    LET c == envio[e].hilo  p == envio[e].de IN
    /\ mensajes' = Append(mensajes, [hilo |-> c, de |-> p, leido |-> FALSE])
    /\ Avanza(e, "guarda", Trabajo("apunta", p, c, Len(mensajes) + 1))
    /\ UNCHANGED <<conversaciones, cerrojo>>

\* Bug: the preview is only set the first time.
ApuntarSoloElPrimero(e) ==
    /\ conversaciones' = [conversaciones EXCEPT ![envio[e].hilo] = IF @ = Nadie THEN envio[e].id ELSE @]
    /\ Avanza(e, "apunta", [envio[e] EXCEPT !.etapa = "avisa"])
    /\ UNCHANGED <<mensajes, cerrojo>>

Apuntar(e) ==
    /\ conversaciones' = [conversaciones EXCEPT ![envio[e].hilo] = envio[e].id]
    /\ Avanza(e, "apunta", [envio[e] EXCEPT !.etapa = "avisa"])
    /\ UNCHANGED <<mensajes, cerrojo>>

\* Both are told: every tab that is in the room of one of them.
Avisar(e) ==
    /\ Avanza(e, "avisa", Libre)
    /\ cola' = [t \in Pestanas |-> IF t \in EnSala THEN cola[t] \cup {envio[e].id} ELSE cola[t]]
    /\ UNCHANGED <<conversaciones, mensajes, cerrojo>>

\* The process dies: what is saved stays, and the transaction frees the lock.
SeRompe(e) ==
    /\ envio[e] # Libre
    /\ rotas < MaxRotas
    /\ rotas' = rotas + 1
    /\ envio' = [envio EXCEPT ![e] = Libre]
    /\ cerrojo' = cerrojo \ {e}
    /\ UNCHANGED <<conversaciones, mensajes, empezados, deUnoEnUno>>

Sirve(e) == TomarCerrojo(e) \/ Buscar(e) \/ Crear(e) \/ GuardarMensaje(e) \/ Apuntar(e)

Servidor ==
    /\ \E e \in Envios :
           \/ \E p \in Personas : Escribir(e, p) \/ \E c \in Hilos : Responder(e, p, c)
           \/ Sirve(e)
           \/ SeRompe(e)
    /\ UNCHANGED <<varsTiempoReal, varsPantalla>>

AvisoDeMensaje ==
    /\ \E e \in Envios : Avisar(e)
    /\ UNCHANGED <<varsTiempoReal, hilo, cargado, pedidas, lecturas, marcas>>

-----------------------------------------------------------------------------
(* The thread as each side reads it.                                       *)

DeOtro(m, p) == mensajes[m].de # p /\ ~mensajes[m].leido

\* The last messages, at most Tope.
Ultimos(c) == {m \in DelHilo(c) : Cardinality({n \in DelHilo(c) : n > m}) < Tope}

\* The reading of findMessagesWithPartner, for person p.
Leida(p) ==
    LET suyos == IF LaDeLaPareja = Nadie THEN {} ELSE Ultimos(LaDeLaPareja) IN
    [ids |-> suyos, pendiente |-> \E m \in suyos : DeOtro(m, p)]

\* What getConversations lists: those with something said in them.
Listadas == {c \in DOMAIN conversaciones : conversaciones[c] # Nadie}

SinLeerDe(p, c) == {m \in DelHilo(c) : DeOtro(m, p)}

\* The thread once marcarLeidos has run for p.
Marcados(p) ==
    [m \in DOMAIN mensajes |->
        IF mensajes[m].hilo = LaDeLaPareja /\ mensajes[m].de # p
        THEN [mensajes[m] EXCEPT !.leido = TRUE] ELSE mensajes[m]]

-----------------------------------------------------------------------------
(* The open conversation.                                                  *)

\* Bug: the thread is only asked for on opening.
RecargarSoloAlAbrir(t) ==
    /\ ~Conectado(t) /\ t \notin cargado
    /\ pedidas[t] = 0 /\ Cardinality(lecturas[t]) < MaxEnVuelo
    /\ pedidas' = [pedidas EXCEPT ![t] = 1]
    /\ UNCHANGED <<varsTiempoReal, varsServidor, hilo, cargado, lecturas, cola, marcas>>

\* recargar: on opening, every ten seconds while the socket is not there, and
\* after sending without it.
Recargar(t) ==
    /\ ~Conectado(t)
    /\ pedidas[t] = 0 /\ Cardinality(lecturas[t]) < MaxEnVuelo
    /\ pedidas' = [pedidas EXCEPT ![t] = 1]
    /\ UNCHANGED <<varsTiempoReal, varsServidor, hilo, cargado, lecturas, cola, marcas>>

LeerHilo(t) ==
    /\ pedidas[t] = 1
    /\ t \in conSesion
    /\ pedidas' = [pedidas EXCEPT ![t] = 0]
    /\ lecturas' = [lecturas EXCEPT ![t] = @ \cup {Leida(Duena[t])}]
    /\ UNCHANGED <<varsTiempoReal, varsServidor, hilo, cargado, cola, marcas>>

\* A failure leaves on screen what there was.
FallarHilo(t) ==
    /\ pedidas[t] = 1
    /\ NoResponde(t)
    /\ pedidas' = [pedidas EXCEPT ![t] = 0]
    /\ UNCHANGED <<enlace, conSesion, cortes, varsServidor, hilo, cargado, lecturas, cola, marcas>>

MostrarHilo(t, l) ==
    /\ l \in lecturas[t]
    /\ lecturas' = [lecturas EXCEPT ![t] = @ \ {l}]
    /\ hilo' = [hilo EXCEPT ![t] = l.ids]
    /\ cargado' = cargado \cup {t}
    /\ marcas' = IF l.pendiente THEN marcas \cup {t} ELSE marcas
    /\ UNCHANGED <<varsTiempoReal, varsServidor, pedidas, cola>>

\* marcarLeidos: all there is by then.
ServirMarca(t) ==
    /\ t \in marcas
    /\ marcas' = marcas \ {t}
    /\ mensajes' = IF t \in conSesion THEN Marcados(Duena[t]) ELSE mensajes
    /\ UNCHANGED <<varsTiempoReal, conversaciones, envio, cerrojo, empezados, rotas, deUnoEnUno,
                   hilo, cargado, pedidas, lecturas, cola>>

\* A message comes by the socket: it is added, unless it is there.
LlegaMensaje(t, m) ==
    /\ m \in cola[t]
    /\ cola' = [cola EXCEPT ![t] = @ \ {m}]
    /\ hilo' = [hilo EXCEPT ![t] = @ \cup {m}]
    /\ UNCHANGED <<varsTiempoReal, varsServidor, cargado, pedidas, lecturas, marcas>>

PasoDeEnlace(t) == Conecta(t) \/ ConectaSinPase(t) \/ EntraEnSala(t) \/ Rechaza(t)

EnlaceSinConversacion(t) ==
    /\ PasoDeEnlace(t)
    /\ UNCHANGED <<varsServidor, varsPantalla>>

\* What was on its way by a connection the network cuts does not come; what
\* the server sent before closing it does.
CorteDeConversacion ==
    /\ \/ \E t \in Pestanas : Corta(t) /\ cola' = [cola EXCEPT ![t] = {}]
       \/ cola' = cola /\ \E r \in SUBSET conSesion : r # {} /\ Desconecta(r)
    /\ UNCHANGED <<varsServidor, hilo, cargado, pedidas, lecturas, marcas>>

Responde(t) == LeerHilo(t) \/ FallarHilo(t)
Muestra(t) == \E l \in lecturas[t] : MostrarHilo(t, l)

Pantalla(t) ==
    \/ Responde(t)
    \/ Muestra(t)
    \/ ServirMarca(t)
    \/ \E m \in cola[t] : LlegaMensaje(t, m)

NextConversaciones ==
    \/ Servidor
    \/ AvisoDeMensaje
    \/ CorteDeConversacion
    \/ \E t \in Pestanas : Recargar(t) \/ Pantalla(t) \/ EnlaceSinConversacion(t)

\* Requests end, replies come, and a tab without socket asks every ten seconds.
EquidadConversaciones ==
    /\ \A t \in Pestanas : /\ WF_varsConversaciones(Recargar(t))
                           /\ WF_varsConversaciones(Responde(t))
                           /\ WF_varsConversaciones(Muestra(t))
    /\ \A e \in Envios : WF_varsConversaciones((Sirve(e) /\ UNCHANGED <<varsTiempoReal, varsPantalla>>)
                                               \/ (Avisar(e) /\ AvisoDeMensaje))

SpecConversaciones == InitConversaciones /\ [][NextConversaciones]_varsConversaciones

-----------------------------------------------------------------------------

\* A pair has one conversation, however many first messages they send at once
\* and from both sides: without the lock each would be left in its own thread,
\* and the second thread is one that nobody is shown.
UnaPorPareja == Len(conversaciones) <= 1

\* Once sending has ended, and if no send was cut short, every message is in a
\* conversation that getConversations lists; what getUnreadCount counts is what
\* the list shows, conversation by conversation; and if sends did not coincide,
\* the list previews the last message.
LaListaCuadra ==
    (rotas = 0 /\ \A e \in Envios : envio[e] = Libre) =>
        /\ \A m \in DOMAIN mensajes : mensajes[m].hilo \in Listadas
        /\ \A p \in Personas : {m \in DOMAIN mensajes : DeOtro(m, p)}
                                   = UNION {SinLeerDe(p, c) : c \in Listadas}
        /\ deUnoEnUno => \A c \in Listadas : \A m \in DelHilo(c) : m <= conversaciones[c]

AlCompleto(t) == LaDeLaPareja # Nadie => Ultimos(LaDeLaPareja) \subseteq hilo[t]

\* The safety net of the open conversation: in a tab that never gets its socket
\* back, as behind a network that cuts them, the whole conversation is seen.
LaRedDeSeguridad ==
    \A t \in Pestanas : <>[](~Conectado(t) /\ t \in conSesion) => []<>AlCompleto(t)

\* A tab in its room with nothing on its way shows the whole conversation:
\* "dejar de recibir mensajes sin enterarse es la peor forma de fallar de una
\* mensajeria".
ElHiloSeCompleta ==
    \A t \in Pestanas :
        (/\ enlace[t] = "sala" /\ t \in cargado
         /\ cola[t] = {} /\ pedidas[t] = 0 /\ lecturas[t] = {}
         /\ \A e \in Envios : envio[e] = Libre)
            => AlCompleto(t)
=============================================================================
