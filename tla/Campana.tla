------------------------------- MODULE Campana --------------------------------
(***************************************************************************)
(* The notices of one person and the bell that shows them in each tab.     *)
(*                                                                         *)
(* A notice is saved and then sent to whoever is in the room: it is not    *)
(* sent again.  The bell asks for the list when it opens and whenever it   *)
(* connects, and merges the answer with what came by the socket meanwhile. *)
(* It shows as read what the person reads before the server knows.         *)
(***************************************************************************)
EXTENDS TiempoReal, Sequences

CONSTANTS
    Limite,         \* LIMITE: the notices of a list
    MaxAvisos,      \* bound: notices created
    MaxPendientes   \* bound: requests and answers on their way to a tab when it makes another

ASSUME CampanaOK ==
    /\ Limite \in Nat \ {0}
    /\ MaxAvisos \in Nat
    /\ MaxPendientes \in Nat

VARIABLES
    guardados,  \* notices saved, in the order of createdAt
    porEmitir,  \* those not yet sent
    leidos,     \* those read, for the server
    campana,    \* what each bell shows, the newest first
    fallo,      \* the bells that say they could not ask
    listas,     \* how many lists each bell is owed
    respuestas, \* the lists on their way to each bell.  dentro: read while the
                \* tab was in its room, where it still is
    llegando,   \* the notices on their way by each socket
    tachados,   \* what each bell has asked to mark as read
    cubierta,   \* history: the bells that have shown a list read from the room
    fallidas,   \* history: the bells one of whose lists did not come
    adelantadas, \* history: the bells shown a list before another read earlier
    deUnEnUno   \* history: each notice was saved with the previous ones sent

varsCampana == <<varsTiempoReal, guardados, porEmitir, leidos, campana, fallo, listas,
                 respuestas, llegando, tachados, cubierta, fallidas, adelantadas, deUnEnUno>>
varsAvisos == <<guardados, porEmitir, deUnEnUno>>

Avisos == 1 .. MaxAvisos
Todos == 0
Vistos == [id : Avisos, leido : BOOLEAN]
Visto(n, l) == [id |-> n, leido |-> l]

\* Lists on their way.
Respuestas == [lista : Seq(Vistos), dentro : BOOLEAN]

TipoCampana ==
    /\ TipoTiempoReal
    /\ guardados \in 0 .. MaxAvisos
    /\ porEmitir \subseteq 1 .. guardados
    /\ leidos \subseteq 1 .. guardados
    /\ campana \in [Pestanas -> Seq(Vistos)]
    /\ listas \in [Pestanas -> Nat]
    /\ respuestas \in [Pestanas -> SUBSET Respuestas]
    /\ llegando \in [Pestanas -> Seq(Avisos)]
    /\ tachados \in [Pestanas -> SUBSET (Avisos \cup {Todos})]
    /\ \A t \in Pestanas : /\ Len(campana[t]) <= Limite
                           /\ \A r \in respuestas[t] : Len(r.lista) <= Limite
    /\ {fallo, cubierta, fallidas, adelantadas} \subseteq SUBSET Pestanas
    /\ deUnEnUno \in BOOLEAN

InitCampana ==
    /\ InitTiempoReal
    /\ guardados = 0 /\ porEmitir = {} /\ leidos = {}
    /\ campana = [t \in Pestanas |-> <<>>]
    /\ fallo = {}
    /\ listas = [t \in Pestanas |-> 1]
    /\ respuestas = [t \in Pestanas |-> {}]
    /\ llegando = [t \in Pestanas |-> <<>>]
    /\ tachados = [t \in Pestanas |-> {}]
    /\ cubierta = {}
    /\ fallidas = {} /\ adelantadas = {}
    /\ deUnEnUno = TRUE

-----------------------------------------------------------------------------
(* The server.                                                             *)

\* crear: it is saved with its createdAt.
GuardarAviso ==
    LET n == guardados + 1 IN
    /\ n <= MaxAvisos
    /\ guardados' = n
    /\ porEmitir' = porEmitir \cup {n}
    /\ deUnEnUno' = (deUnEnUno /\ porEmitir = {})
    /\ UNCHANGED <<varsTiempoReal, leidos, campana, fallo, fallidas, adelantadas, listas, respuestas,
                   llegando, tachados, cubierta>>

\* And then sent, if the process is still there.
EmitirAviso(n) ==
    /\ n \in porEmitir
    /\ porEmitir' = porEmitir \ {n}
    /\ llegando' = [t \in Pestanas |-> IF t \in EnSala THEN Append(llegando[t], n) ELSE llegando[t]]
    /\ UNCHANGED <<varsTiempoReal, guardados, leidos, campana, fallo, fallidas, adelantadas, listas,
                   respuestas, tachados, cubierta, deUnEnUno>>

\* listar: the last ones, the newest first.
Listado ==
    LET cuantos == IF guardados < Limite THEN guardados ELSE Limite IN
    [i \in 1 .. cuantos |-> Visto(guardados + 1 - i, guardados + 1 - i \in leidos)]

-----------------------------------------------------------------------------
(* The bell.                                                               *)

CabeOtra(t) ==
    Cardinality(respuestas[t]) + listas[t] + Cardinality(tachados[t]) < MaxPendientes

LeerLista(t) ==
    /\ listas[t] > 0
    /\ t \in conSesion
    /\ listas' = [listas EXCEPT ![t] = @ - 1]
    /\ respuestas' = [respuestas EXCEPT ![t] = @ \cup {[lista |-> Listado, dentro |-> t \in EnSala]}]
    /\ UNCHANGED <<varsTiempoReal, varsAvisos, leidos, campana, fallo, fallidas, adelantadas, llegando, tachados, cubierta>>

ListaFallida(t) ==
    /\ listas[t] > 0
    /\ NoResponde(t)
    /\ listas' = [listas EXCEPT ![t] = @ - 1]
    /\ fallo' = fallo \cup {t}
    /\ fallidas' = fallidas \cup {t}
    /\ UNCHANGED <<enlace, conSesion, cortes, varsAvisos, leidos, campana, respuestas, llegando,
                   tachados, cubierta, adelantadas>>

\* Bug: the list takes the place of what there was.
SustituyeLista(previos, lista) == lista

\* Those of s that are at the places of I, in the order they are in.
Quedan(s, I) ==
    [k \in 1 .. Cardinality(I) |->
        s[CHOOSE i \in I : Cardinality({j \in I : j <= i}) = k]]

\* The newest of a list.
Ultimo(lista) == IF lista = <<>> THEN 0 ELSE lista[1].id

\* slice(0, 20).
Recorta(s) == SubSeq(s, 1, IF Len(s) < Limite THEN Len(s) ELSE Limite)

\* cargar: what came meanwhile, newer than the list, stays above it.
FundeLista(previos, lista) ==
    LET traidos == {lista[i].id : i \in DOMAIN lista}
        nuevos  == {i \in DOMAIN previos : /\ previos[i].id \notin traidos
                                           /\ previos[i].id > Ultimo(lista)}
    IN  Recorta(Quedan(previos, nuevos) \o lista)

MostrarLista(t, r) ==
    /\ r \in respuestas[t]
    /\ respuestas' = [respuestas EXCEPT ![t] = @ \ {r}]
    /\ campana' = [campana EXCEPT ![t] = FundeLista(@, r.lista)]
    /\ fallo' = fallo \ {t}
    /\ cubierta' = IF r.dentro THEN cubierta \cup {t} ELSE cubierta
    /\ adelantadas' = IF \E o \in respuestas[t] : Ultimo(o.lista) < Ultimo(r.lista)
                      THEN adelantadas \cup {t} ELSE adelantadas
    /\ UNCHANGED <<varsTiempoReal, varsAvisos, leidos, fallidas, listas, llegando, tachados>>

EnCampana(t) == {campana[t][i].id : i \in DOMAIN campana[t]}

\* It is as it was when it was saved.
LlegaAviso(t) ==
    /\ llegando[t] # <<>>
    /\ llegando' = [llegando EXCEPT ![t] = Tail(@)]
    /\ LET n == Head(llegando[t]) IN
       campana' = [campana EXCEPT ![t] = IF n \in EnCampana(t) THEN @
                                         ELSE Recorta(<<Visto(n, FALSE)>> \o @)]
    /\ UNCHANGED <<varsTiempoReal, varsAvisos, leidos, fallo, fallidas, adelantadas, listas, respuestas, tachados, cubierta>>

Tacha(t, cuales, que) ==
    /\ CabeOtra(t)
    /\ campana' = [campana EXCEPT ![t] =
                      [i \in DOMAIN @ |-> Visto(@[i].id, @[i].leido \/ @[i].id \in cuales)]]
    /\ tachados' = [tachados EXCEPT ![t] = @ \cup {que}]
    /\ UNCHANGED <<varsTiempoReal, varsAvisos, leidos, fallo, fallidas, adelantadas, listas, respuestas, llegando, cubierta>>

SinLeer(t) == {campana[t][i].id : i \in {j \in DOMAIN campana[t] : ~campana[t][j].leido}}

\* The button is there while something is unread.
MarcarTodos(t) == SinLeer(t) # {} /\ Tacha(t, EnCampana(t), Todos)

AbrirAviso(t, n) == n \in SinLeer(t) /\ Tacha(t, {n}, n)

\* marcarTodosLeidos and marcarLeido.
ServirTachado(t, que) ==
    /\ que \in tachados[t]
    /\ t \in conSesion
    /\ tachados' = [tachados EXCEPT ![t] = @ \ {que}]
    /\ leidos' = leidos \cup (IF que = Todos THEN 1 .. guardados ELSE {que})
    /\ UNCHANGED <<varsTiempoReal, varsAvisos, campana, fallo, fallidas, adelantadas, listas, respuestas, llegando, cubierta>>

TachadoFallido(t, que) ==
    /\ que \in tachados[t]
    /\ NoResponde(t)
    /\ tachados' = [tachados EXCEPT ![t] = @ \ {que}]
    /\ listas' = [listas EXCEPT ![t] = @ + 1]
    /\ UNCHANGED <<enlace, conSesion, cortes, varsAvisos, leidos, campana, fallo, fallidas, adelantadas, respuestas,
                   llegando, cubierta>>

\* The button of the bell that could not ask.
ReintentarLista(t) ==
    /\ t \in fallo /\ CabeOtra(t)
    /\ listas' = [listas EXCEPT ![t] = @ + 1]
    /\ UNCHANGED <<varsTiempoReal, varsAvisos, leidos, campana, fallo, fallidas, adelantadas, respuestas, llegando,
                   tachados, cubierta>>

\* The list is asked for on connecting, and the tab has read by then what came
\* before the connection closed.
ConectarCampana(t) ==
    /\ Conecta(t) \/ ConectaSinPase(t)
    /\ llegando[t] = <<>>
    /\ CabeOtra(t)
    /\ listas' = [listas EXCEPT ![t] = @ + 1]
    /\ UNCHANGED <<varsAvisos, leidos, campana, fallo, fallidas, adelantadas, respuestas, llegando, tachados, cubierta>>

EnlaceDeCampana(t) ==
    /\ EntraEnSala(t) \/ Rechaza(t)
    /\ UNCHANGED <<varsAvisos, leidos, campana, fallo, fallidas, adelantadas, listas, respuestas, llegando, tachados, cubierta>>

\* What is read or shown of the room no longer counts for those out of it.
CorteDeCampana ==
    /\ \/ \E t \in Pestanas : Corta(t) /\ llegando' = [llegando EXCEPT ![t] = <<>>]
       \/ llegando' = llegando /\ \E r \in SUBSET conSesion : r # {} /\ Desconecta(r)
    /\ cubierta' = {t \in cubierta : enlace'[t] = "sala"}
    /\ respuestas' = [t \in Pestanas |->
                         IF enlace'[t] = "sala" THEN respuestas[t]
                         ELSE {[lista |-> r.lista, dentro |-> FALSE] : r \in respuestas[t]}]
    /\ UNCHANGED <<varsAvisos, leidos, campana, fallo, fallidas, adelantadas, listas, tachados>>

NextCampana ==
    \/ GuardarAviso
    \/ \E n \in Avisos : EmitirAviso(n)
    \/ CorteDeCampana
    \/ \E t \in Pestanas :
           \/ LeerLista(t) \/ ListaFallida(t) \/ ReintentarLista(t) \/ LlegaAviso(t)
           \/ \E r \in respuestas[t] : MostrarLista(t, r)
           \/ ConectarCampana(t) \/ EnlaceDeCampana(t)
           \/ MarcarTodos(t) \/ \E n \in Avisos : AbrirAviso(t, n)
           \/ \E que \in tachados[t] : ServirTachado(t, que) \/ TachadoFallido(t, que)

SpecCampana == InitCampana /\ [][NextCampana]_varsCampana

-----------------------------------------------------------------------------

\* Nothing on its way to the bell of t.
EnCalma(t) == listas[t] = 0 /\ respuestas[t] = {} /\ llegando[t] = <<>> /\ tachados[t] = {}

\* A bell that has shown a list read from its room has every one of the last
\* notices, in whatever order lists and notices came, as long as no two were
\* being created at once: a list asked for before a notice does not erase it.
\* (With more notices than a list holds there has to be besides no list shown
\* before another read earlier: else one that was in both, and is told as new
\* when it is already known, may have gone down the bell to where the next takes
\* it off.)
LaCampanaAlDia ==
    \A t \in cubierta :
        (/\ deUnEnUno /\ EnCalma(t) /\ porEmitir = {}
         /\ t \notin adelantadas \/ guardados <= Limite) =>
            {Listado[i].id : i \in DOMAIN Listado} = EnCampana(t)

\* What a bell shows as read is read for the server too, once nothing is on its
\* way, unless one of its lists did not come: when marking fails the list is
\* asked for again, and puts right what was shown too soon.
LoTachadoEstaLeido ==
    \A t \in Pestanas :
        (EnCalma(t) /\ t \notin fallidas) =>
            \A i \in DOMAIN campana[t] : campana[t][i].leido => campana[t][i].id \in leidos

\* The bell converges to what the server has, notices and what is read of them.
LaCampanaCuadra == LaCampanaAlDia /\ LoTachadoEstaLeido
=============================================================================
