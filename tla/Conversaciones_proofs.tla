------------------------ MODULE Conversaciones_proofs ------------------------
(***************************************************************************)
(* A pair of people never has two conversations, for any number of         *)
(* requests, tabs and messages.                                            *)
(*                                                                         *)
(* That the table has one row at most is not inductive.  What keeps it so  *)
(* is the advisory lock: at most one request holds it, a request that      *)
(* looks for the conversation or is about to create it holds it, and the   *)
(* table is still empty when a request is about to create.                 *)
(*                                                                         *)
(* That the list agrees with the messages is a second invariant on top of  *)
(* that one, about what each request has saved and has yet to write down.  *)
(***************************************************************************)
EXTENDS Conversaciones, TLAPS

\* The types the argument needs, with the bounds of the model left out.
Peticiones == [etapa : Etapas, de : Personas \cup {Nadie}, hilo : Nat, id : Nat]
Filas == [hilo : Nat, de : Personas \cup {Nadie}, leido : BOOLEAN]

Tipos ==
    /\ conversaciones \in Seq(Nat)
    /\ mensajes \in Seq(Filas)
    /\ envio \in [Envios -> Peticiones]

UnSoloCerrojo == \A e, f \in cerrojo : e = f
DentroConCerrojo == \A e \in Envios : envio[e].etapa \in {"busca", "crea"} => e \in cerrojo
CreaLaPrimera == \A e \in Envios : envio[e].etapa = "crea" => conversaciones = <<>>

IInv ==
    /\ Tipos
    /\ UnSoloCerrojo
    /\ DentroConCerrojo
    /\ CreaLaPrimera
    /\ UnaPorPareja

\* A reading of the thread does not change what the rows are.
LEMMA MarcadosTipo ==
    ASSUME mensajes \in Seq(Filas), NEW p
    PROVE  Marcados(p) \in Seq(Filas)
<1>1. \A m \in 1 .. Len(mensajes) : mensajes[m] \in Filas /\ DOMAIN mensajes = 1 .. Len(mensajes)
  OBVIOUS
<1>2. ASSUME NEW m \in 1 .. Len(mensajes)
      PROVE  [mensajes[m] EXCEPT !.leido = TRUE] \in Filas
  BY <1>1 DEF Filas
<1>3. \A m \in 1 .. Len(mensajes) : Marcados(p)[m] \in Filas
  BY <1>1, <1>2 DEF Marcados
<1>4. DOMAIN Marcados(p) = 1 .. Len(mensajes) /\ Len(mensajes) \in Nat
  BY DEF Marcados
<1>5. Marcados(p) = [m \in 1 .. Len(mensajes) |-> Marcados(p)[m]]
  BY DEF Marcados
<1>. QED
  BY <1>3, <1>4, <1>5

\* Nor does a new preview change how many conversations there are.
LEMMA VistaPrevia ==
    ASSUME NEW s \in Seq(Nat), NEW c, NEW v \in Nat
    PROVE  /\ [s EXCEPT ![c] = v] \in Seq(Nat)
           /\ Len([s EXCEPT ![c] = v]) = Len(s)
<1>. DEFINE r == [s EXCEPT ![c] = v]
<1>1. DOMAIN s = 1 .. Len(s) /\ Len(s) \in Nat /\ \A i \in 1 .. Len(s) : s[i] \in Nat
  OBVIOUS
<1>2. DOMAIN r = 1 .. Len(s) /\ \A i \in 1 .. Len(s) : r[i] \in Nat
  BY <1>1
<1>3. r = [i \in 1 .. Len(s) |-> r[i]]
  BY <1>1
<1>. HIDE DEF r
<1>4. r \in Seq(Nat)
  BY <1>1, <1>2, <1>3
<1>5. Len(r) = Len(s)
  BY <1>1, <1>2, <1>4
<1>. QED
  BY <1>4, <1>5 DEF r

\* One step of a request: where it goes, and what it does with the lock, keep
\* the exclusion as long as whoever goes in has the lock to itself.
LEMMA Exclusion ==
    ASSUME IInv, NEW e \in Envios, NEW trabajo \in Peticiones,
           envio' = [envio EXCEPT ![e] = trabajo],
           \/ cerrojo' = cerrojo
           \/ cerrojo' = cerrojo \ {e} /\ trabajo.etapa \notin {"busca", "crea"}
           \/ cerrojo = {} /\ cerrojo' = {e},
           trabajo.etapa \in {"busca", "crea"} => e \in cerrojo'
    PROVE  /\ envio' \in [Envios -> Peticiones]
           /\ UnSoloCerrojo'
           /\ DentroConCerrojo'
<1>. USE DEF IInv, Tipos
<1>1. envio' \in [Envios -> Peticiones]
  OBVIOUS
<1>2. UnSoloCerrojo'
  BY DEF UnSoloCerrojo
<1>3. DentroConCerrojo'
  <2>1. SUFFICES ASSUME NEW f \in Envios, envio'[f].etapa \in {"busca", "crea"}
                 PROVE  f \in cerrojo'
    BY DEF DentroConCerrojo
  <2>2. CASE f = e
    BY <2>1, <2>2
  <2>3. CASE f # e
    BY <2>1, <2>3 DEF DentroConCerrojo
  <2>. QED
    BY <2>2, <2>3
<1>. QED
  BY <1>1, <1>2, <1>3

\* Nobody else is about to create while a request with the lock goes on, and
\* nobody is once the request that created leaves.
LEMMA NadieMasCrea ==
    ASSUME IInv, NEW e \in Envios, envio[e].etapa = "crea",
           NEW f \in Envios, f # e
    PROVE  envio[f].etapa # "crea"
BY DEF IInv, DentroConCerrojo, UnSoloCerrojo

LEMMA Inicial == InitConversaciones => IInv
<1>. SUFFICES ASSUME InitConversaciones PROVE IInv
  OBVIOUS
<1>1. Libre \in Peticiones
  BY DEF Libre, Trabajo, Peticiones, Etapas, Nadie
<1>2. Tipos
  BY <1>1 DEF InitConversaciones, Tipos
<1>3. UnSoloCerrojo
  BY DEF InitConversaciones, UnSoloCerrojo
<1>4. DentroConCerrojo /\ CreaLaPrimera
  BY DEF InitConversaciones, DentroConCerrojo, CreaLaPrimera, Libre, Trabajo
<1>5. UnaPorPareja
  BY DEF InitConversaciones, UnaPorPareja
<1>. QED
  BY <1>2, <1>3, <1>4, <1>5 DEF IInv

\* A request begins, or one is cut short: it is not about to create.
LEMMA EmpiezaInv ==
    ASSUME IInv, NEW e \in Envios, NEW trabajo \in Peticiones,
           trabajo.etapa \notin {"busca", "crea"},
           envio' = [envio EXCEPT ![e] = trabajo],
           cerrojo' = cerrojo \/ cerrojo' = cerrojo \ {e},
           conversaciones' = conversaciones, mensajes' = mensajes
    PROVE  IInv'
<1>1. envio' \in [Envios -> Peticiones] /\ UnSoloCerrojo' /\ DentroConCerrojo'
  BY Exclusion
<1>2. Tipos' /\ UnaPorPareja'
  BY <1>1 DEF IInv, Tipos, UnaPorPareja
<1>3. CreaLaPrimera'
  BY DEF IInv, Tipos, CreaLaPrimera
<1>. QED
  BY <1>1, <1>2, <1>3 DEF IInv

LEMMA TomarCerrojoInv ==
    ASSUME IInv, NEW e \in Envios, TomarCerrojo(e)
    PROVE  IInv'
<1>. DEFINE trabajo == [envio[e] EXCEPT !.etapa = "busca"]
<1>1. envio[e] \in Peticiones
  BY DEF IInv, Tipos
<1>2. trabajo \in Peticiones /\ trabajo.etapa = "busca"
  BY <1>1 DEF Peticiones, Etapas
<1>3. /\ envio' = [envio EXCEPT ![e] = trabajo]
      /\ cerrojo = {} /\ cerrojo' = {e}
      /\ conversaciones' = conversaciones /\ mensajes' = mensajes
  BY DEF TomarCerrojo, Avanza
<1>. HIDE DEF trabajo
<1>4. envio' \in [Envios -> Peticiones] /\ UnSoloCerrojo' /\ DentroConCerrojo'
  BY <1>2, <1>3, Exclusion
<1>5. Tipos' /\ UnaPorPareja'
  BY <1>3, <1>4 DEF IInv, Tipos, UnaPorPareja
<1>6. CreaLaPrimera'
  BY <1>2, <1>3 DEF IInv, Tipos, CreaLaPrimera
<1>. QED
  BY <1>4, <1>5, <1>6 DEF IInv

LEMMA BuscarInv ==
    ASSUME IInv, NEW e \in Envios, Buscar(e)
    PROVE  IInv'
<1>1. /\ envio[e] \in Peticiones /\ envio[e].etapa = "busca" /\ e \in cerrojo
      /\ conversaciones' = conversaciones /\ mensajes' = mensajes
  BY DEF IInv, Tipos, DentroConCerrojo, Buscar, Avanza
<1>2. CASE LaDeLaPareja = Nadie
  <2>. DEFINE trabajo == [envio[e] EXCEPT !.etapa = "crea"]
  <2>1. trabajo \in Peticiones /\ trabajo.etapa = "crea"
    BY <1>1 DEF Peticiones, Etapas
  <2>2. envio' = [envio EXCEPT ![e] = trabajo] /\ cerrojo' = cerrojo
    BY <1>2 DEF Buscar, Avanza
  <2>3. conversaciones = <<>>
    BY <1>2 DEF LaDeLaPareja, Nadie
  <2>. HIDE DEF trabajo
  <2>4. envio' \in [Envios -> Peticiones] /\ UnSoloCerrojo' /\ DentroConCerrojo'
    BY <1>1, <2>1, <2>2, Exclusion
  <2>5. Tipos' /\ UnaPorPareja' /\ CreaLaPrimera'
    BY <1>1, <2>3, <2>4 DEF IInv, Tipos, UnaPorPareja, CreaLaPrimera
  <2>. QED
    BY <2>4, <2>5 DEF IInv
<1>3. CASE LaDeLaPareja # Nadie
  <2>. DEFINE trabajo == Trabajo("guarda", envio[e].de, LaDeLaPareja, Nadie)
  <2>1. trabajo \in Peticiones /\ trabajo.etapa \notin {"busca", "crea"}
    BY <1>1 DEF Peticiones, Etapas, Trabajo, LaDeLaPareja, Nadie
  <2>2. envio' = [envio EXCEPT ![e] = trabajo] /\ cerrojo' = cerrojo \ {e}
    BY <1>3 DEF Buscar, Avanza
  <2>. HIDE DEF trabajo
  <2>. QED
    BY <1>1, <2>1, <2>2, EmpiezaInv
<1>. QED
  BY <1>2, <1>3

LEMMA CrearInv ==
    ASSUME IInv, NEW e \in Envios, Crear(e)
    PROVE  IInv'
<1>. DEFINE trabajo == Trabajo("guarda", envio[e].de, Len(conversaciones) + 1, Nadie)
<1>1. /\ envio[e] \in Peticiones /\ envio[e].etapa = "crea"
      /\ conversaciones \in Seq(Nat) /\ conversaciones = <<>>
  BY DEF IInv, Tipos, CreaLaPrimera, Crear, Avanza
<1>2. trabajo \in Peticiones /\ trabajo.etapa = "guarda"
  BY <1>1 DEF Peticiones, Etapas, Trabajo, Nadie
<1>3. /\ envio' = [envio EXCEPT ![e] = trabajo] /\ cerrojo' = cerrojo \ {e}
      /\ conversaciones' = Append(conversaciones, Nadie) /\ mensajes' = mensajes
  BY DEF Crear, Avanza
<1>. HIDE DEF trabajo
<1>4. envio' \in [Envios -> Peticiones] /\ UnSoloCerrojo' /\ DentroConCerrojo'
  BY <1>2, <1>3, Exclusion
<1>5. Tipos'
  BY <1>1, <1>3, <1>4 DEF IInv, Tipos, Nadie
<1>6. CreaLaPrimera'
  <2>1. SUFFICES ASSUME NEW f \in Envios PROVE envio'[f].etapa # "crea"
    BY DEF CreaLaPrimera
  <2>2. CASE f = e
    BY <1>2, <1>3, <2>2 DEF IInv, Tipos
  <2>3. CASE f # e
    BY <1>1, <1>3, <2>3, NadieMasCrea DEF IInv, Tipos
  <2>. QED
    BY <2>2, <2>3
<1>7. UnaPorPareja'
  <2>1. Len(conversaciones) = 0
    BY <1>1
  <2>2. Len(Append(conversaciones, Nadie)) = 1
    BY <1>1, <2>1 DEF Nadie
  <2>. QED
    BY <1>3, <2>2 DEF UnaPorPareja
<1>. QED
  BY <1>4, <1>5, <1>6, <1>7 DEF IInv

LEMMA GuardarMensajeInv ==
    ASSUME IInv, NEW e \in Envios, GuardarMensaje(e)
    PROVE  IInv'
<1>. DEFINE trabajo == Trabajo("apunta", envio[e].de, envio[e].hilo, Len(mensajes) + 1)
            fila == [hilo |-> envio[e].hilo, de |-> envio[e].de, leido |-> FALSE]
<1>1. envio[e] \in Peticiones /\ mensajes \in Seq(Filas)
  BY DEF IInv, Tipos
<1>2. trabajo \in Peticiones /\ trabajo.etapa \notin {"busca", "crea"}
  BY <1>1 DEF Peticiones, Etapas, Trabajo
<1>3. fila \in Filas
  BY <1>1 DEF Peticiones, Filas
<1>4. /\ envio' = [envio EXCEPT ![e] = trabajo] /\ cerrojo' = cerrojo
      /\ conversaciones' = conversaciones /\ mensajes' = Append(mensajes, fila)
  BY DEF GuardarMensaje, Avanza
<1>. HIDE DEF trabajo, fila
<1>5. envio' \in [Envios -> Peticiones] /\ UnSoloCerrojo' /\ DentroConCerrojo'
  BY <1>2, <1>4, Exclusion
<1>6. Tipos' /\ UnaPorPareja'
  BY <1>1, <1>3, <1>4, <1>5 DEF IInv, Tipos, UnaPorPareja
<1>7. CreaLaPrimera'
  BY <1>2, <1>4 DEF IInv, Tipos, CreaLaPrimera
<1>. QED
  BY <1>5, <1>6, <1>7 DEF IInv

LEMMA ApuntarInv ==
    ASSUME IInv, NEW e \in Envios, Apuntar(e)
    PROVE  IInv'
<1>. DEFINE trabajo == [envio[e] EXCEPT !.etapa = "avisa"]
<1>1. envio[e] \in Peticiones /\ conversaciones \in Seq(Nat)
  BY DEF IInv, Tipos
<1>2. trabajo \in Peticiones /\ trabajo.etapa \notin {"busca", "crea"}
  BY <1>1 DEF Peticiones, Etapas
<1>3. /\ envio' = [envio EXCEPT ![e] = trabajo] /\ cerrojo' = cerrojo
      /\ conversaciones' = [conversaciones EXCEPT ![envio[e].hilo] = envio[e].id]
      /\ mensajes' = mensajes
  BY DEF Apuntar, Avanza
<1>. HIDE DEF trabajo
<1>4. envio' \in [Envios -> Peticiones] /\ UnSoloCerrojo' /\ DentroConCerrojo'
  BY <1>2, <1>3, Exclusion
<1>5. envio[e].id \in Nat
  BY <1>1 DEF Peticiones
<1>6. conversaciones' \in Seq(Nat) /\ Len(conversaciones') = Len(conversaciones)
  BY <1>1, <1>3, <1>5, VistaPrevia
<1>7. Tipos' /\ UnaPorPareja'
  BY <1>3, <1>4, <1>6 DEF IInv, Tipos, UnaPorPareja
<1>8. CreaLaPrimera'
  <2>1. SUFFICES ASSUME NEW f \in Envios, envio'[f].etapa = "crea"
                 PROVE  conversaciones' = <<>>
    BY DEF CreaLaPrimera
  <2>2. f # e /\ envio[f].etapa = "crea"
    BY <1>2, <1>3, <2>1 DEF IInv, Tipos
  <2>3. conversaciones = <<>>
    BY <2>2 DEF IInv, CreaLaPrimera
  <2>. QED
    BY <1>6, <2>3
<1>. QED
  BY <1>4, <1>7, <1>8 DEF IInv

\* What the tabs do leaves the sends and the conversations alone, and the
\* messages but for what is marked as read.
LEMMA PantallaInv ==
    ASSUME IInv, envio' = envio, cerrojo' = cerrojo, conversaciones' = conversaciones,
           mensajes' \in Seq(Filas)
    PROVE  IInv'
BY DEF IInv, Tipos, UnSoloCerrojo, DentroConCerrojo, CreaLaPrimera, UnaPorPareja

LEMMA ServidorInv ==
    ASSUME IInv, Servidor
    PROVE  IInv'
<1>1. PICK e \in Envios :
          \/ \E p \in Personas : Escribir(e, p) \/ \E c \in Hilos : Responder(e, p, c)
          \/ Sirve(e)
          \/ SeRompe(e)
  BY DEF Servidor
<1>2. ASSUME NEW p \in Personas, Escribir(e, p) PROVE IInv'
  <2>1. Trabajo("espera", p, Nadie, Nadie) \in Peticiones
    BY DEF Trabajo, Peticiones, Etapas, Nadie
  <2>2. Trabajo("espera", p, Nadie, Nadie).etapa \notin {"busca", "crea"}
    BY DEF Trabajo
  <2>3. /\ envio' = [envio EXCEPT ![e] = Trabajo("espera", p, Nadie, Nadie)]
        /\ cerrojo' = cerrojo /\ conversaciones' = conversaciones /\ mensajes' = mensajes
    BY <1>2 DEF Escribir, Empieza
  <2>. QED
    BY <2>1, <2>2, <2>3, EmpiezaInv
<1>3. ASSUME NEW p \in Personas, NEW c \in Hilos, Responder(e, p, c) PROVE IInv'
  <2>1. Trabajo("guarda", p, c, Nadie) \in Peticiones
    BY ConversacionesOK DEF Trabajo, Peticiones, Etapas, Nadie, Hilos
  <2>2. Trabajo("guarda", p, c, Nadie).etapa \notin {"busca", "crea"}
    BY DEF Trabajo
  <2>3. /\ envio' = [envio EXCEPT ![e] = Trabajo("guarda", p, c, Nadie)]
        /\ cerrojo' = cerrojo /\ conversaciones' = conversaciones /\ mensajes' = mensajes
    BY <1>3 DEF Responder, Empieza
  <2>. QED
    BY <2>1, <2>2, <2>3, EmpiezaInv
<1>4. ASSUME SeRompe(e) PROVE IInv'
  <2>1. Libre \in Peticiones /\ Libre.etapa \notin {"busca", "crea"}
    BY DEF Libre, Trabajo, Peticiones, Etapas, Nadie
  <2>2. /\ envio' = [envio EXCEPT ![e] = Libre] /\ cerrojo' = cerrojo \ {e}
        /\ conversaciones' = conversaciones /\ mensajes' = mensajes
    BY <1>4 DEF SeRompe
  <2>. QED
    BY <2>1, <2>2, EmpiezaInv
<1>5. ASSUME Sirve(e) PROVE IInv'
  BY <1>5, TomarCerrojoInv, BuscarInv, CrearInv, GuardarMensajeInv, ApuntarInv DEF Sirve
<1>. QED
  BY <1>1, <1>2, <1>3, <1>4, <1>5

LEMMA AvisoInv ==
    ASSUME IInv, AvisoDeMensaje
    PROVE  IInv'
<1>1. PICK e \in Envios : Avisar(e)
  BY DEF AvisoDeMensaje
<1>2. Libre \in Peticiones /\ Libre.etapa \notin {"busca", "crea"}
  BY DEF Libre, Trabajo, Peticiones, Etapas, Nadie
<1>3. /\ envio' = [envio EXCEPT ![e] = Libre] /\ cerrojo' = cerrojo
      /\ conversaciones' = conversaciones /\ mensajes' = mensajes
  BY <1>1 DEF Avisar, Avanza
<1>. QED
  BY <1>2, <1>3, EmpiezaInv

LEMMA TabsInv ==
    ASSUME IInv,
           \/ CorteDeConversacion
           \/ \E t \in Pestanas : Recargar(t) \/ Pantalla(t) \/ EnlaceSinConversacion(t)
    PROVE  IInv'
<1>1. mensajes \in Seq(Filas)
  BY DEF IInv, Tipos
<1>2. ASSUME NEW t \in Pestanas, ServirMarca(t) PROVE IInv'
  <2>1. mensajes' \in Seq(Filas)
    BY <1>1, <1>2, MarcadosTipo DEF ServirMarca
  <2>2. envio' = envio /\ cerrojo' = cerrojo /\ conversaciones' = conversaciones
    BY <1>2 DEF ServirMarca
  <2>. QED
    BY <2>1, <2>2, PantallaInv
<1>3. ASSUME UNCHANGED varsServidor PROVE IInv'
  <2>1. /\ envio' = envio /\ cerrojo' = cerrojo /\ conversaciones' = conversaciones
        /\ mensajes' = mensajes
    BY <1>3 DEF varsServidor
  <2>. QED
    BY <1>1, <2>1, PantallaInv
<1>4. ASSUME CorteDeConversacion PROVE UNCHANGED varsServidor
  BY <1>4 DEF CorteDeConversacion
<1>5. ASSUME NEW t \in Pestanas, Recargar(t) \/ Pantalla(t) \/ EnlaceSinConversacion(t)
      PROVE  ServirMarca(t) \/ UNCHANGED varsServidor
  BY <1>5 DEF Recargar, Pantalla, EnlaceSinConversacion, Responde, LeerHilo, FallarHilo,
              Muestra, MostrarHilo, LlegaMensaje
<1>. QED
  BY <1>2, <1>3, <1>4, <1>5

\* Every step keeps the invariant.
LEMMA Paso ==
    ASSUME IInv, [NextConversaciones]_varsConversaciones
    PROVE  IInv'
<1>1. CASE UNCHANGED varsConversaciones
  BY <1>1 DEF varsConversaciones, varsServidor, IInv, Tipos, UnSoloCerrojo, DentroConCerrojo,
              CreaLaPrimera, UnaPorPareja
<1>2. CASE NextConversaciones
  BY <1>2, ServidorInv, AvisoInv, TabsInv DEF NextConversaciones
<1>. QED
  BY <1>1, <1>2

\* The table of one pair, its lock and its sends are always as IInv says.
THEOREM ConversacionesInvariante == SpecConversaciones => []IInv
BY Inicial, Paso, PTL DEF SpecConversaciones

\* findOrCreateConversation takes the advisory lock of the pair before it
\* looks: two first messages at once, from one side or from both, never leave
\* the pair with two conversations, whatever the requests, the tabs and the
\* sends a crash cuts short.
THEOREM SiempreUna == SpecConversaciones => []UnaPorPareja
<1>1. IInv => UnaPorPareja
  BY DEF IInv
<1>. QED
  BY ConversacionesInvariante, <1>1, PTL

-----------------------------------------------------------------------------
(* The list agrees with the messages.                                      *)

\* The conversations of which a message has been saved and is yet to be written
\* down as the last.
Apuntadas == {envio[e].hilo : e \in {f \in Envios : envio[f].etapa = "apunta"}}

\* Messages are of conversations that are there, and so is what requests hold.
EnSuSitio ==
    /\ \A m \in DOMAIN mensajes : mensajes[m].hilo \in DOMAIN conversaciones
    /\ \A e \in Envios :
           /\ envio[e].etapa \in {"guarda", "apunta"} => envio[e].hilo \in DOMAIN conversaciones
           /\ envio[e].etapa = "apunta" => envio[e].id \in DOMAIN mensajes

\* While no send has been cut short, a message is in a conversation with something
\* said in it, or is about to be written down as the last.
TodaListada ==
    rotas = 0 => \A m \in DOMAIN mensajes :
        conversaciones[mensajes[m].hilo] # Nadie \/ mensajes[m].hilo \in Apuntadas

\* One send at a time: what it writes down is the last message there is.
UnoSolo == deUnoEnUno => \A e, f \in Envios : envio[e] # Libre /\ envio[f] # Libre => e = f
ElQueSeApunta ==
    deUnoEnUno => \A e \in Envios : envio[e].etapa = "apunta" => envio[e].id = Len(mensajes)

\* Sent one at a time, no message is later than the one its conversation previews.
VistaPreviaAlDia ==
    rotas = 0 /\ deUnoEnUno => \A m \in DOMAIN mensajes :
        m <= conversaciones[mensajes[m].hilo] \/ mensajes[m].hilo \in Apuntadas

LInv ==
    /\ rotas \in Nat /\ deUnoEnUno \in BOOLEAN
    /\ EnSuSitio
    /\ TodaListada
    /\ UnoSolo
    /\ ElQueSeApunta
    /\ VistaPreviaAlDia

\* Nobody has written yet.
LEMMA InicialLista == InitConversaciones => LInv
<1>. SUFFICES ASSUME InitConversaciones PROVE LInv
  OBVIOUS
<1>1. /\ mensajes = <<>> /\ DOMAIN mensajes = {} /\ rotas = 0 /\ deUnoEnUno = TRUE
      /\ \A e \in Envios : envio[e] = Libre /\ envio[e].etapa = "libre"
  BY DEF InitConversaciones, Libre, Trabajo
<1>. QED
  BY <1>1 DEF LInv, EnSuSitio, TodaListada, UnoSolo, ElQueSeApunta, VistaPreviaAlDia

\* A request that does not come from writing down, nor goes to it, or is cut short.
LEMMA PasaDeLargo ==
    ASSUME IInv, LInv, NEW e \in Envios, NEW trabajo \in Peticiones,
           envio' = [envio EXCEPT ![e] = trabajo],
           conversaciones' = conversaciones, mensajes' = mensajes,
           trabajo.etapa # "apunta",
           trabajo.etapa = "guarda" => trabajo.hilo \in DOMAIN conversaciones,
           \/ rotas' = rotas /\ envio[e].etapa # "apunta"
           \/ rotas' = rotas + 1,
           \/ deUnoEnUno' = deUnoEnUno /\ (envio[e] = Libre => trabajo = Libre)
           \/ deUnoEnUno' = (deUnoEnUno /\ \A f \in Envios : envio[f] = Libre)
    PROVE  LInv'
<1>. USE DEF IInv, Tipos
<1>1. /\ envio'[e] = trabajo
      /\ \A f \in Envios \ {e} : envio'[f] = envio[f]
  OBVIOUS
<1>a. rotas \in Nat /\ deUnoEnUno \in BOOLEAN
  BY DEF LInv
<1>b. rotas' \in Nat /\ (rotas' = 0 => rotas = 0 /\ envio[e].etapa # "apunta")
  BY <1>a
<1>c. deUnoEnUno' \in BOOLEAN /\ (deUnoEnUno' => deUnoEnUno)
  <2>1. CASE deUnoEnUno' = deUnoEnUno
    BY <1>a, <2>1
  <2>2. CASE deUnoEnUno' = (deUnoEnUno /\ \A f \in Envios : envio[f] = Libre)
    <3>. DEFINE solo == \A f \in Envios : envio[f] = Libre
    <3>1. solo \in BOOLEAN /\ deUnoEnUno' = (deUnoEnUno /\ solo)
      BY <2>2
    <3>. HIDE DEF solo
    <3>. QED
      BY <1>a, <3>1
  <2>. QED
    BY <2>1, <2>2
<1>2. /\ rotas' \in Nat /\ deUnoEnUno' \in BOOLEAN /\ rotas \in Nat
      /\ deUnoEnUno' => deUnoEnUno
      /\ rotas' = 0 => rotas = 0 /\ envio[e].etapa # "apunta"
  BY <1>a, <1>b, <1>c
<1>3. ASSUME rotas' = 0, NEW c, c \in Apuntadas PROVE c \in Apuntadas'
  BY <1>1, <1>2, <1>3 DEF Apuntadas
<1>4. EnSuSitio'
  BY <1>1 DEF EnSuSitio, LInv
<1>5. TodaListada'
  BY <1>2, <1>3 DEF TodaListada, LInv
<1>6. UnoSolo'
  <2>1. SUFFICES ASSUME deUnoEnUno', NEW f \in Envios, NEW g \in Envios,
                        envio'[f] # Libre, envio'[g] # Libre
                 PROVE  f = g
    BY DEF UnoSolo
  <2>2. CASE \A h \in Envios : envio[h] = Libre
    BY <1>1, <2>1, <2>2
  <2>3. CASE envio[e] = Libre => trabajo = Libre
    BY <1>1, <1>2, <2>1, <2>3 DEF UnoSolo, LInv
  <2>. QED
    BY <2>1, <2>2, <2>3
<1>7. ElQueSeApunta'
  BY <1>1, <1>2 DEF ElQueSeApunta, LInv
<1>8. VistaPreviaAlDia'
  BY <1>2, <1>3 DEF VistaPreviaAlDia, LInv
<1>. QED
  BY <1>2, <1>4, <1>5, <1>6, <1>7, <1>8 DEF LInv

\* A new conversation leaves the others where they were.
LEMMA CrearLista ==
    ASSUME IInv, LInv, NEW e \in Envios, Crear(e)
    PROVE  LInv'
<1>. DEFINE n == Len(conversaciones) + 1
            trabajo == Trabajo("guarda", envio[e].de, n, Nadie)
<1>1. /\ conversaciones \in Seq(Nat) /\ envio \in [Envios -> Peticiones]
      /\ envio[e].etapa = "crea" /\ envio[e] # Libre
      /\ conversaciones' = Append(conversaciones, Nadie) /\ mensajes' = mensajes
      /\ envio' = [envio EXCEPT ![e] = trabajo]
      /\ rotas' = rotas /\ deUnoEnUno' = deUnoEnUno
  BY DEF IInv, Tipos, Crear, Avanza, Libre, Trabajo
<1>2. trabajo.etapa = "guarda" /\ trabajo.hilo = n
  BY DEF Trabajo
<1>3. /\ DOMAIN conversaciones = 1 .. Len(conversaciones) /\ Len(conversaciones) \in Nat
      /\ DOMAIN conversaciones' = 1 .. n
      /\ \A c \in DOMAIN conversaciones : conversaciones'[c] = conversaciones[c]
  BY <1>1 DEF Nadie
<1>. HIDE DEF trabajo
<1>4. /\ envio'[e] = trabajo
      /\ \A f \in Envios \ {e} : envio'[f] = envio[f]
  BY <1>1
<1>5. ASSUME NEW c, c \in Apuntadas PROVE c \in Apuntadas'
  BY <1>1, <1>4, <1>5 DEF Apuntadas
<1>6. EnSuSitio'
  BY <1>1, <1>2, <1>3, <1>4 DEF EnSuSitio, LInv
<1>7. TodaListada'
  BY <1>1, <1>3, <1>5 DEF TodaListada, EnSuSitio, LInv
<1>8. UnoSolo'
  BY <1>1, <1>4 DEF UnoSolo, LInv
<1>9. ElQueSeApunta'
  BY <1>1, <1>2, <1>4 DEF ElQueSeApunta, LInv
<1>10. VistaPreviaAlDia'
  BY <1>1, <1>3, <1>5 DEF VistaPreviaAlDia, EnSuSitio, LInv
<1>11. rotas' \in Nat /\ deUnoEnUno' \in BOOLEAN
  BY <1>1 DEF LInv
<1>. QED
  BY <1>6, <1>7, <1>8, <1>9, <1>10, <1>11 DEF LInv

\* A message that is saved is about to be written down.
LEMMA GuardarLista ==
    ASSUME IInv, LInv, NEW e \in Envios, GuardarMensaje(e)
    PROVE  LInv'
<1>. DEFINE n == Len(mensajes) + 1
            c == envio[e].hilo
            fila == [hilo |-> c, de |-> envio[e].de, leido |-> FALSE]
            trabajo == Trabajo("apunta", envio[e].de, c, n)
<1>1. /\ envio[e] \in Peticiones /\ mensajes \in Seq(Filas) /\ envio \in [Envios -> Peticiones]
      /\ envio[e].etapa = "guarda" /\ envio[e] # Libre
      /\ conversaciones' = conversaciones /\ mensajes' = Append(mensajes, fila)
      /\ envio' = [envio EXCEPT ![e] = trabajo]
      /\ rotas' = rotas /\ deUnoEnUno' = deUnoEnUno
  BY DEF IInv, Tipos, GuardarMensaje, Avanza, Libre, Trabajo
<1>2. trabajo.etapa = "apunta" /\ trabajo.hilo = c /\ trabajo.id = n /\ fila.hilo = c
  BY DEF Trabajo
<1>3. fila \in Filas
  BY <1>1 DEF Peticiones, Filas
<1>4. c \in DOMAIN conversaciones
  BY <1>1 DEF LInv, EnSuSitio
<1>. HIDE DEF trabajo, fila, c
<1>5. /\ DOMAIN mensajes = 1 .. Len(mensajes) /\ Len(mensajes) \in Nat
      /\ Len(mensajes') = n
      /\ DOMAIN mensajes' = 1 .. n
      /\ mensajes'[n] = fila
      /\ \A m \in DOMAIN mensajes : mensajes'[m] = mensajes[m]
  BY <1>1, <1>3
<1>6. /\ envio'[e] = trabajo
      /\ \A f \in Envios \ {e} : envio'[f] = envio[f]
  BY <1>1
<1>7. c \in Apuntadas' /\ Apuntadas \subseteq Apuntadas'
  BY <1>1, <1>2, <1>6 DEF Apuntadas
<1>8. \A m \in DOMAIN mensajes' : m \in DOMAIN mensajes \/ m = n
  BY <1>5
<1>9. EnSuSitio'
  BY <1>1, <1>2, <1>4, <1>5, <1>6, <1>8 DEF EnSuSitio, LInv
<1>10. TodaListada'
  BY <1>1, <1>2, <1>5, <1>7, <1>8 DEF TodaListada, LInv
<1>11. UnoSolo'
  BY <1>1, <1>6 DEF UnoSolo, LInv
<1>12. ElQueSeApunta'
  <2>1. SUFFICES ASSUME deUnoEnUno, NEW f \in Envios, envio'[f].etapa = "apunta"
                 PROVE  envio'[f].id = n
    BY <1>1, <1>5 DEF ElQueSeApunta
  <2>2. CASE f = e
    BY <1>2, <1>6, <2>2
  <2>3. CASE f # e
    BY <1>1, <1>6, <2>1, <2>3 DEF UnoSolo, LInv, Libre, Trabajo
  <2>. QED
    BY <2>2, <2>3
<1>13. VistaPreviaAlDia'
  BY <1>1, <1>2, <1>5, <1>7, <1>8 DEF VistaPreviaAlDia, LInv
<1>14. rotas' \in Nat /\ deUnoEnUno' \in BOOLEAN
  BY <1>1 DEF LInv
<1>. QED
  BY <1>9, <1>10, <1>11, <1>12, <1>13, <1>14 DEF LInv

\* Written down: its conversation is listed, and if sends do not coincide what it
\* previews is the last message of all.
LEMMA ApuntarLista ==
    ASSUME IInv, LInv, NEW e \in Envios, Apuntar(e)
    PROVE  LInv'
<1>. DEFINE c == envio[e].hilo
            n == envio[e].id
            trabajo == [envio[e] EXCEPT !.etapa = "avisa"]
<1>1. /\ envio[e] \in Peticiones /\ envio \in [Envios -> Peticiones]
      /\ mensajes \in Seq(Filas) /\ conversaciones \in Seq(Nat)
      /\ envio[e].etapa = "apunta" /\ envio[e] # Libre
      /\ conversaciones' = [conversaciones EXCEPT ![c] = n] /\ mensajes' = mensajes
      /\ envio' = [envio EXCEPT ![e] = trabajo]
      /\ rotas' = rotas /\ deUnoEnUno' = deUnoEnUno
  BY DEF IInv, Tipos, Apuntar, Avanza, Libre, Trabajo
<1>2. trabajo.etapa = "avisa"
  BY <1>1 DEF Peticiones
<1>3. c \in DOMAIN conversaciones /\ n \in DOMAIN mensajes
  BY <1>1 DEF LInv, EnSuSitio
<1>4. /\ DOMAIN mensajes = 1 .. Len(mensajes) /\ Len(mensajes) \in Nat
      /\ n \in Nat /\ n # Nadie
  BY <1>1, <1>3 DEF Nadie
<1>. HIDE DEF trabajo, c, n
<1>5. /\ DOMAIN conversaciones' = DOMAIN conversaciones
      /\ conversaciones'[c] = n
      /\ \A d \in DOMAIN conversaciones \ {c} : conversaciones'[d] = conversaciones[d]
  BY <1>1, <1>3
<1>6. /\ envio'[e] = trabajo
      /\ \A f \in Envios \ {e} : envio'[f] = envio[f]
  BY <1>1
<1>7. ASSUME NEW d, d # c, d \in Apuntadas PROVE d \in Apuntadas'
  BY <1>6, <1>7 DEF Apuntadas, c
<1>8. EnSuSitio'
  BY <1>1, <1>2, <1>5, <1>6 DEF EnSuSitio, LInv
<1>9. TodaListada'
  <2>1. SUFFICES ASSUME rotas = 0, NEW m \in DOMAIN mensajes
                 PROVE  conversaciones'[mensajes[m].hilo] # Nadie \/ mensajes[m].hilo \in Apuntadas'
    BY <1>1 DEF TodaListada
  <2>2. CASE mensajes[m].hilo = c
    BY <1>4, <1>5, <2>2
  <2>3. CASE mensajes[m].hilo # c
    BY <1>5, <1>7, <2>1, <2>3 DEF TodaListada, EnSuSitio, LInv
  <2>. QED
    BY <2>2, <2>3
<1>10. UnoSolo'
  BY <1>1, <1>6 DEF UnoSolo, LInv
<1>11. ElQueSeApunta'
  BY <1>1, <1>2, <1>6 DEF ElQueSeApunta, LInv
<1>12. VistaPreviaAlDia'
  <2>1. SUFFICES ASSUME rotas = 0, deUnoEnUno, NEW m \in DOMAIN mensajes
                 PROVE  m <= conversaciones'[mensajes[m].hilo] \/ mensajes[m].hilo \in Apuntadas'
    BY <1>1 DEF VistaPreviaAlDia
  <2>2. n = Len(mensajes)
    BY <1>1, <2>1 DEF ElQueSeApunta, LInv, n
  <2>3. CASE mensajes[m].hilo = c
    BY <1>4, <1>5, <2>2, <2>3
  <2>4. CASE mensajes[m].hilo # c
    BY <1>5, <1>7, <2>1, <2>4 DEF VistaPreviaAlDia, EnSuSitio, LInv
  <2>. QED
    BY <2>3, <2>4
<1>13. rotas' \in Nat /\ deUnoEnUno' \in BOOLEAN
  BY <1>1 DEF LInv
<1>. QED
  BY <1>8, <1>9, <1>10, <1>11, <1>12, <1>13 DEF LInv

\* Nothing of this is about who has read what.
LEMMA LecturaLista ==
    ASSUME IInv, LInv, envio' = envio, conversaciones' = conversaciones, rotas' = rotas,
           deUnoEnUno' = deUnoEnUno, mensajes' \in Seq(Filas), Len(mensajes') = Len(mensajes),
           \A m \in DOMAIN mensajes : mensajes'[m].hilo = mensajes[m].hilo
    PROVE  LInv'
<1>1. DOMAIN mensajes' = DOMAIN mensajes
  BY DEF IInv, Tipos
<1>2. Apuntadas' = Apuntadas
  BY DEF Apuntadas
<1>. QED
  BY <1>1, <1>2 DEF LInv, EnSuSitio, TodaListada, UnoSolo, ElQueSeApunta, VistaPreviaAlDia

\* Marking as read changes no message's place.
LEMMA MarcaLista ==
    ASSUME IInv, LInv, NEW t \in Pestanas, ServirMarca(t)
    PROVE  LInv'
<1>1. mensajes \in Seq(Filas)
  BY DEF IInv, Tipos
<1>2. /\ envio' = envio /\ conversaciones' = conversaciones /\ rotas' = rotas
      /\ deUnoEnUno' = deUnoEnUno
      /\ mensajes' = Marcados(Duena[t]) \/ mensajes' = mensajes
  BY DEF ServirMarca
<1>3. mensajes' \in Seq(Filas)
  BY <1>1, <1>2, MarcadosTipo
<1>4. /\ DOMAIN mensajes = 1 .. Len(mensajes) /\ Len(mensajes) \in Nat
      /\ \A m \in DOMAIN mensajes : mensajes[m] \in Filas
  BY <1>1
<1>5. \A m \in DOMAIN mensajes : [mensajes[m] EXCEPT !.leido = TRUE].hilo = mensajes[m].hilo
  BY <1>4 DEF Filas
<1>6. /\ DOMAIN mensajes' = DOMAIN mensajes
      /\ \A m \in DOMAIN mensajes : mensajes'[m].hilo = mensajes[m].hilo
  BY <1>2, <1>5 DEF Marcados
<1>7. Len(mensajes') = Len(mensajes)
  BY <1>3, <1>4, <1>6
<1>. QED
  BY <1>2, <1>3, <1>6, <1>7, LecturaLista

\* A request that begins, from the start or as a reply.
LEMMA EmpiezaLista ==
    ASSUME IInv, LInv, NEW e \in Envios, NEW trabajo \in Peticiones, Empieza(e, trabajo),
           \/ trabajo.etapa = "espera"
           \/ trabajo.etapa = "guarda" /\ trabajo.hilo \in DOMAIN conversaciones
    PROVE  LInv'
<1>1. /\ envio[e].etapa = "libre"
      /\ envio' = [envio EXCEPT ![e] = trabajo]
      /\ conversaciones' = conversaciones /\ mensajes' = mensajes /\ rotas' = rotas
      /\ deUnoEnUno' = (deUnoEnUno /\ \A f \in Envios : envio[f] = Libre)
  BY DEF Empieza, Libre, Trabajo
<1>. QED
  BY <1>1, PasaDeLargo

\* A request that goes on without touching messages or conversations.
LEMMA AvanzaLista ==
    ASSUME IInv, LInv, NEW e \in Envios, NEW desde, NEW trabajo \in Peticiones,
           Avanza(e, desde, trabajo), desde \in {"espera", "busca", "avisa"},
           conversaciones' = conversaciones, mensajes' = mensajes,
           trabajo.etapa # "apunta",
           trabajo.etapa = "guarda" => trabajo.hilo \in DOMAIN conversaciones
    PROVE  LInv'
<1>1. /\ envio[e].etapa # "apunta" /\ envio[e] # Libre
      /\ envio' = [envio EXCEPT ![e] = trabajo]
      /\ rotas' = rotas /\ deUnoEnUno' = deUnoEnUno
  BY DEF Avanza, Libre, Trabajo
<1>. QED
  BY <1>1, PasaDeLargo

\* The steps of the server.
LEMMA ServidorLista ==
    ASSUME IInv, LInv, Servidor
    PROVE  LInv'
<1>1. PICK e \in Envios :
          \/ \E p \in Personas : Escribir(e, p) \/ \E c \in Hilos : Responder(e, p, c)
          \/ Sirve(e)
          \/ SeRompe(e)
  BY DEF Servidor
<1>2. envio[e] \in Peticiones /\ conversaciones \in Seq(Nat)
  BY DEF IInv, Tipos
<1>3. ASSUME NEW p \in Personas, Escribir(e, p) PROVE LInv'
  <2>1. /\ Trabajo("espera", p, Nadie, Nadie) \in Peticiones
        /\ Trabajo("espera", p, Nadie, Nadie).etapa = "espera"
    BY DEF Trabajo, Peticiones, Etapas, Nadie
  <2>. QED
    BY <1>3, <2>1, EmpiezaLista DEF Escribir
<1>4. ASSUME NEW p \in Personas, NEW c \in Hilos, Responder(e, p, c) PROVE LInv'
  <2>1. /\ Trabajo("guarda", p, c, Nadie) \in Peticiones
        /\ Trabajo("guarda", p, c, Nadie).etapa = "guarda"
        /\ Trabajo("guarda", p, c, Nadie).hilo = c
    BY ConversacionesOK DEF Trabajo, Peticiones, Etapas, Nadie, Hilos
  <2>. QED
    BY <1>4, <2>1, EmpiezaLista DEF Responder
<1>5. ASSUME SeRompe(e) PROVE LInv'
  <2>1. Libre \in Peticiones /\ Libre.etapa = "libre"
    BY DEF Libre, Trabajo, Peticiones, Etapas, Nadie
  <2>2. /\ envio' = [envio EXCEPT ![e] = Libre] /\ rotas' = rotas + 1
        /\ conversaciones' = conversaciones /\ mensajes' = mensajes
        /\ deUnoEnUno' = deUnoEnUno
    BY <1>5 DEF SeRompe
  <2>. QED
    BY <2>1, <2>2, PasaDeLargo
<1>6. ASSUME TomarCerrojo(e) PROVE LInv'
  <2>. DEFINE trabajo == [envio[e] EXCEPT !.etapa = "busca"]
  <2>1. trabajo \in Peticiones /\ trabajo.etapa = "busca"
    BY <1>2 DEF Peticiones, Etapas
  <2>2. /\ Avanza(e, "espera", trabajo)
        /\ conversaciones' = conversaciones /\ mensajes' = mensajes
    BY <1>6 DEF TomarCerrojo
  <2>. HIDE DEF trabajo
  <2>. QED
    BY <2>1, <2>2, AvanzaLista
<1>7. ASSUME Buscar(e) PROVE LInv'
  <2>1. conversaciones' = conversaciones /\ mensajes' = mensajes
    BY <1>7 DEF Buscar
  <2>2. CASE LaDeLaPareja = Nadie
    <3>. DEFINE trabajo == [envio[e] EXCEPT !.etapa = "crea"]
    <3>1. trabajo \in Peticiones /\ trabajo.etapa = "crea"
      BY <1>2 DEF Peticiones, Etapas
    <3>2. Avanza(e, "busca", trabajo)
      BY <1>7, <2>2 DEF Buscar
    <3>. HIDE DEF trabajo
    <3>. QED
      BY <2>1, <3>1, <3>2, AvanzaLista
  <2>3. CASE LaDeLaPareja # Nadie
    <3>. DEFINE trabajo == Trabajo("guarda", envio[e].de, LaDeLaPareja, Nadie)
    <3>1. LaDeLaPareja = 1 /\ 1 \in DOMAIN conversaciones
      BY <1>2, <2>3 DEF LaDeLaPareja
    <3>2. trabajo \in Peticiones /\ trabajo.etapa = "guarda" /\ trabajo.hilo = 1
      BY <1>2, <3>1 DEF Peticiones, Etapas, Trabajo, Nadie
    <3>3. Avanza(e, "busca", trabajo)
      BY <1>7, <2>3 DEF Buscar
    <3>. HIDE DEF trabajo
    <3>. QED
      BY <2>1, <3>1, <3>2, <3>3, AvanzaLista
  <2>. QED
    BY <2>2, <2>3
<1>. QED
  BY <1>1, <1>3, <1>4, <1>5, <1>6, <1>7, CrearLista, GuardarLista, ApuntarLista DEF Sirve

\* Every step keeps the invariant.
LEMMA PasoLista ==
    ASSUME IInv, LInv, [NextConversaciones]_varsConversaciones
    PROVE  LInv'
<1>1. ASSUME UNCHANGED varsServidor PROVE LInv'
  <2>1. /\ envio' = envio /\ conversaciones' = conversaciones /\ mensajes' = mensajes
        /\ rotas' = rotas /\ deUnoEnUno' = deUnoEnUno
    BY <1>1 DEF varsServidor
  <2>. QED
    BY <2>1, LecturaLista DEF IInv, Tipos
<1>2. ASSUME AvisoDeMensaje PROVE LInv'
  <2>1. PICK e \in Envios : Avisar(e)
    BY <1>2 DEF AvisoDeMensaje
  <2>2. Libre \in Peticiones /\ Libre.etapa = "libre"
    BY DEF Libre, Trabajo, Peticiones, Etapas, Nadie
  <2>. QED
    BY <2>1, <2>2, AvanzaLista DEF Avisar
<1>3. ASSUME CorteDeConversacion PROVE UNCHANGED varsServidor
  BY <1>3 DEF CorteDeConversacion
<1>4. ASSUME NEW t \in Pestanas, Recargar(t) \/ Pantalla(t) \/ EnlaceSinConversacion(t)
      PROVE  ServirMarca(t) \/ UNCHANGED varsServidor
  BY <1>4 DEF Recargar, Pantalla, EnlaceSinConversacion, Responde, LeerHilo, FallarHilo,
              Muestra, MostrarHilo, LlegaMensaje
<1>5. CASE UNCHANGED varsConversaciones
  BY <1>1, <1>5 DEF varsConversaciones
<1>6. CASE NextConversaciones
  BY <1>1, <1>2, <1>3, <1>4, <1>6, ServidorLista, MarcaLista DEF NextConversaciones
<1>. QED
  BY <1>5, <1>6

\* What the invariant says once nobody is sending.
LEMMA ListaCuadra == IInv /\ LInv => LaListaCuadra
<1>. SUFFICES ASSUME IInv, LInv, rotas = 0, \A e \in Envios : envio[e] = Libre
              PROVE  /\ \A m \in DOMAIN mensajes : mensajes[m].hilo \in Listadas
                     /\ \A p \in Personas : {m \in DOMAIN mensajes : DeOtro(m, p)}
                                                = UNION {SinLeerDe(p, c) : c \in Listadas}
                     /\ deUnoEnUno =>
                            \A c \in Listadas : \A m \in DelHilo(c) : m <= conversaciones[c]
  BY DEF LaListaCuadra
<1>1. Apuntadas = {}
  BY DEF Apuntadas, Libre, Trabajo
<1>2. DOMAIN mensajes = 1 .. Len(mensajes)
  BY DEF IInv, Tipos
<1>3. \A m \in DOMAIN mensajes : mensajes[m].hilo \in Listadas
  BY <1>1 DEF LInv, TodaListada, EnSuSitio, Listadas
<1>4. \A p \in Personas : {m \in DOMAIN mensajes : DeOtro(m, p)}
                              = UNION {SinLeerDe(p, c) : c \in Listadas}
  <2>1. SUFFICES ASSUME NEW p \in Personas
                 PROVE  \A m : (m \in DOMAIN mensajes /\ DeOtro(m, p)) <=>
                            \E c \in Listadas : m \in DelHilo(c) /\ DeOtro(m, p)
    BY DEF SinLeerDe
  <2>. QED
    BY <1>2, <1>3 DEF DelHilo
<1>5. ASSUME deUnoEnUno, NEW c \in Listadas, NEW m \in DelHilo(c) PROVE m <= conversaciones[c]
  BY <1>1, <1>2, <1>5 DEF LInv, VistaPreviaAlDia, DelHilo
<1>. QED
  BY <1>3, <1>4, <1>5

\* The messages of a pair and its conversations are always as LInv says.
THEOREM ListaInvariante == SpecConversaciones => []LInv
<1>1. InitConversaciones => LInv
  BY InicialLista
<1>2. IInv /\ LInv /\ [NextConversaciones]_varsConversaciones => LInv'
  BY PasoLista
<1>. QED
  BY <1>1, <1>2, ConversacionesInvariante, PTL DEF SpecConversaciones

\* sendMessage and replyToConversation are not one transaction: the message is saved
\* first and the conversation's preview after it, from which getConversations and
\* getUnreadCount tell what there is.  Once sending has ended and if no send was cut
\* short, every message is in a conversation of the list, the unread of the list
\* are all there are, and sends that did not coincide leave the last message as its
\* preview, for any number of requests, tabs and messages.
THEOREM SiempreListada == SpecConversaciones => []LaListaCuadra
<1>. QED
  BY ListaCuadra, ListaInvariante, ConversacionesInvariante, PTL
=============================================================================
