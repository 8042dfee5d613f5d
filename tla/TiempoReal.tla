------------------------------ MODULE TiempoReal ------------------------------
(***************************************************************************)
(* The connection of each browser tab to the private room of its person.   *)
(*                                                                         *)
(* A tab has one socket, whatever listens on it.  Every attempt to connect *)
(* asks for a pass first and goes on without one if it does not come; the  *)
(* server accepts the connection, which the tab takes for being connected, *)
(* and only then identifies who it is and puts it in the room.  Who is not *)
(* identified is told so and gives up.                                     *)
(***************************************************************************)
EXTENDS Naturals, FiniteSets

CONSTANTS
    Pestanas,       \* browser tabs
    MaxCortes,      \* bound: connections cut, by the network or the server
    MaxMudas        \* bound: requests to the API left without an answer

ASSUME TiempoRealOK ==
    /\ IsFiniteSet(Pestanas)
    /\ MaxCortes \in Nat
    /\ MaxMudas \in Nat

VARIABLES
    enlace,     \* how far the connection of each tab has got
    conSesion,  \* the tabs whose session is still good
    cortes,     \* connections cut
    mudas       \* requests left without an answer

varsTiempoReal == <<enlace, conSesion, cortes, mudas>>

Enlaces == {"cortado",     \* to be tried again
            "conPase",     \* the attempt has a pass
            "sinPase",     \* the attempt has none
            "aceptado",    \* connected with a pass, which the server looks at
            "mudo",        \* connected without a pass
            "sala",        \* in the room of its person
            "rechazado"}   \* told that its session is not valid

TipoTiempoReal ==
    /\ enlace \in [Pestanas -> Enlaces]
    /\ conSesion \subseteq Pestanas
    /\ cortes \in 0 .. MaxCortes
    /\ mudas \in 0 .. MaxMudas

InitTiempoReal ==
    /\ enlace = [t \in Pestanas |-> "cortado"]
    /\ conSesion = Pestanas
    /\ cortes = 0
    /\ mudas = 0

\* What the tab believes, and what is true of it.
Conectado(t) == enlace[t] \in {"aceptado", "mudo", "sala"}
EnSala == {t \in Pestanas : enlace[t] = "sala"}

\* The session is over, or the API does not answer.
NoResponde(t) ==
    \/ t \notin conSesion /\ mudas' = mudas
    \/ mudas < MaxMudas /\ mudas' = mudas + 1

Enlaza(t, desde, hasta) ==
    /\ enlace[t] = desde
    /\ enlace' = [enlace EXCEPT ![t] = hasta]

\* The API gives a pass to the tab, whose session still counts, and the server
\* accepts the connection.
Conecta(t) ==
    /\ t \in conSesion
    /\ Enlaza(t, "cortado", "aceptado")
    /\ UNCHANGED <<conSesion, cortes, mudas>>

\* No pass comes, and the tab connects without it.
ConectaSinPase(t) ==
    /\ Enlaza(t, "cortado", "mudo")
    /\ NoResponde(t)
    /\ UNCHANGED <<conSesion, cortes>>

EntraEnSala(t) ==
    /\ Enlaza(t, "aceptado", "sala")
    /\ UNCHANGED <<conSesion, cortes, mudas>>

\* The tab reads sesion-invalida before the close, and does not insist.
Rechaza(t) ==
    /\ Enlaza(t, "mudo", "rechazado")
    /\ UNCHANGED <<conSesion, cortes, mudas>>

\* The network fails.  A pass lasts a minute: the next attempt asks for another.
Corta(t) ==
    /\ enlace[t] \notin {"cortado", "rechazado"}
    /\ cortes < MaxCortes
    /\ enlace' = [enlace EXCEPT ![t] = "cortado"]
    /\ cortes' = cortes + 1
    /\ UNCHANGED <<conSesion, mudas>>

\* Some sessions of the account are revoked: whoever is in the room is out of it.
Desconecta(revocadas) ==
    /\ cortes < MaxCortes
    /\ revocadas \subseteq conSesion
    /\ conSesion' = conSesion \ revocadas
    /\ enlace' = [t \in Pestanas |-> IF enlace[t] = "sala" THEN "cortado" ELSE enlace[t]]
    /\ cortes' = cortes + 1
    /\ UNCHANGED mudas
=============================================================================
