-------------------------- MODULE Navegador_proofs --------------------------
(***************************************************************************)
(* The session a browser has, its search and its assistant, and what its   *)
(* screens list, for any number of accounts, tabs, sign-ins, reloads,      *)
(* addresses, messages, lists, answers and failures.                       *)
(*                                                                         *)
(* None is inductive as the runs check it.  Of the session, a tab shows    *)
(* who is remembered or is about to hear that it is not, and whoever waits *)
(* for an answer that counts shows somebody; so an answer puts nobody back *)
(* in the tab they left.  That what is written is of who reads it needs    *)
(* besides whose every draft kept is, and what each booking sent has.      *)
(* Of the search, whoever asked and is still there asked for what is on    *)
(* the screen; and the place of a service in an order is how many go       *)
(* before it, so that two readings of it agree.  Of the assistant, a page  *)
(* not counted yet is of the services there were when it was read.         *)
(* Of the screens, an answer that counts was read after the last change    *)
(* that was answered as done.  And all of them together, as they are run.  *)
(***************************************************************************)
EXTENDS MCNavegador, FiniteSetTheorems, TLAPS

-----------------------------------------------------------------------------
(* The session.                                                            *)

\* What is so of each tab: it shows who is remembered or is about to hear that it is
\* not; a page not loaded shows nobody and nothing; whoever waits for an answer that
\* counts shows somebody; a booking sent has what somebody wrote.
PestanaBien(t) ==
    /\ Cargada(t) => Usuario(t) = recordado \/ t \in avisadas
    /\ ~Cargada(t) => Usuario(t) = Nadie /\ reserva[t].texto = Nadie
    /\ Comprueba(t) /\ comprobacion[t].vigente => Usuario(t) # Nadie
    /\ envio[t].texto = Nadie => envio[t] = SinEnvio

\* And unless it changed of account by itself, what is written in it is of whom it
\* shows, and each draft of who it is kept for.
PestanaPropia(t) ==
    t \notin cruzadas =>
        /\ reserva[t].texto # Nadie => reserva[t].texto = Usuario(t)
        /\ \A b \in reserva[t].borradores : b[1] = b[2]

\* The inductive invariant of the session.
SesionEnOrden == TipoSesion /\ \A t \in Pestanas : PestanaBien(t) /\ PestanaPropia(t)

\* What is of a tab has not changed, and if who is remembered has, it is to hear of it.
SigueIgual(u) ==
    /\ pestana'[u] = pestana[u] /\ comprobacion'[u] = comprobacion[u]
    /\ reserva'[u] = reserva[u] /\ envio'[u] = envio[u] /\ (u \in cruzadas => u \in cruzadas')
    /\ \/ recordado' = recordado /\ (u \in avisadas => u \in avisadas')
       \/ Cargada(u) => u \in avisadas'

\* A step of the browser is judged tab by tab.
LEMMA PorPestanas ==
    ASSUME SesionEnOrden, TipoSesion',
           \A t \in Pestanas : SigueIgual(t) \/ (PestanaBien(t)' /\ PestanaPropia(t)')
    PROVE  SesionEnOrden'
<1>1. ASSUME NEW t \in Pestanas, SigueIgual(t) PROVE PestanaBien(t)' /\ PestanaPropia(t)'
  <2>1. PestanaBien(t) /\ PestanaPropia(t)
    BY DEF SesionEnOrden
  <2>2. PestanaBien(t)'
    BY <1>1, <2>1 DEF SigueIgual, PestanaBien, Cargada, Usuario, Comprueba
  <2>3. PestanaPropia(t)'
    BY <1>1, <2>1 DEF SigueIgual, PestanaPropia, Usuario
  <2>. QED
    BY <2>2, <2>3
<1>. QED
  BY <1>1 DEF SesionEnOrden

\* The types of what each tab has.
TPestana == [cargada : BOOLEAN, usuario : Alguien, comprobada : BOOLEAN]
TEntrada == [etapa : {"no", "va", "servida", "llegada"}, quien : Alguien,
             sesion : 0 .. MaxEntradas]
TSalida == [etapa : {"no", "va", "servida"}, sesion : 0 .. MaxEntradas]
TComprobacion == [etapa : {"no", "va", "servida"}, sesion : 0 .. MaxEntradas, quien : Alguien,
                  vigente : BOOLEAN, repetida : BOOLEAN]
TReserva == [abierta : BOOLEAN, texto : Alguien, borradores : SUBSET (Personas \X Personas)]
TEnvio == [texto : Alguien, sesion : 0 .. MaxEntradas]
TCuenta == [entradas : 0 .. MaxEntradas, salidas : 0 .. MaxSalidas, cargas : 0 .. MaxCargas,
            cierres : 0 .. MaxCierres, mudas : 0 .. MaxMudas]

\* The type invariant by those names.
LEMMA TipoSesionEs ==
    TipoSesion <=>
        /\ dueno \in [Sesiones -> Alguien] /\ validas \subseteq Sesiones
        /\ cookie \in 0 .. MaxEntradas /\ recordado \in Alguien /\ avisadas \subseteq Pestanas
        /\ pestana \in [Pestanas -> TPestana] /\ entrada \in [Pestanas -> TEntrada]
        /\ salida \in [Pestanas -> TSalida] /\ comprobacion \in [Pestanas -> TComprobacion]
        /\ reserva \in [Pestanas -> TReserva] /\ cuenta \in TCuenta /\ dentro \in 0 .. MaxEntradas
        /\ envio \in [Pestanas -> TEnvio] /\ cruzadas \subseteq Pestanas
BY DEF TipoSesion, TPestana, TEntrada, TSalida, TComprobacion, TReserva, TEnvio, TCuenta

\* And after a step.
LEMMA TipoSesionSigue ==
    ASSUME dueno' \in [Sesiones -> Alguien], validas' \subseteq Sesiones,
           cookie' \in 0 .. MaxEntradas, recordado' \in Alguien, avisadas' \subseteq Pestanas,
           pestana' \in [Pestanas -> TPestana], entrada' \in [Pestanas -> TEntrada],
           salida' \in [Pestanas -> TSalida], comprobacion' \in [Pestanas -> TComprobacion],
           reserva' \in [Pestanas -> TReserva], cuenta' \in TCuenta, dentro' \in 0 .. MaxEntradas,
           envio' \in [Pestanas -> TEnvio], cruzadas' \subseteq Pestanas
    PROVE  TipoSesion'
BY DEF TipoSesion, TPestana, TEntrada, TSalida, TComprobacion, TReserva, TEnvio, TCuenta

\* What there is before a step, by those names.
LEMMA AntesSesion ==
    ASSUME SesionEnOrden
    PROVE  /\ dueno \in [Sesiones -> Alguien] /\ validas \subseteq Sesiones
           /\ cookie \in 0 .. MaxEntradas /\ recordado \in Alguien /\ avisadas \subseteq Pestanas
           /\ pestana \in [Pestanas -> TPestana] /\ entrada \in [Pestanas -> TEntrada]
           /\ salida \in [Pestanas -> TSalida] /\ comprobacion \in [Pestanas -> TComprobacion]
           /\ reserva \in [Pestanas -> TReserva] /\ cuenta \in TCuenta /\ dentro \in 0 .. MaxEntradas
           /\ envio \in [Pestanas -> TEnvio] /\ cruzadas \subseteq Pestanas
           /\ \A t \in Pestanas : PestanaBien(t) /\ PestanaPropia(t)
BY TipoSesionEs DEF SesionEnOrden

\* What a tab has before a step.
LEMMA AntesPestana ==
    ASSUME SesionEnOrden, NEW t \in Pestanas
    PROVE  /\ Cargada(t) \in BOOLEAN /\ Usuario(t) \in Alguien /\ pestana[t].comprobada \in BOOLEAN
           /\ comprobacion[t].etapa \in {"no", "va", "servida"}
           /\ comprobacion[t].sesion \in 0 .. MaxEntradas /\ comprobacion[t].quien \in Alguien
           /\ comprobacion[t].vigente \in BOOLEAN /\ comprobacion[t].repetida \in BOOLEAN
           /\ reserva[t].abierta \in BOOLEAN /\ reserva[t].texto \in Alguien
           /\ reserva[t].borradores \in SUBSET (Personas \X Personas)
           /\ entrada[t].quien \in Alguien /\ entrada[t].sesion \in 0 .. MaxEntradas
           /\ salida[t].sesion \in 0 .. MaxEntradas
           /\ envio[t].texto \in Alguien /\ envio[t].sesion \in 0 .. MaxEntradas
<1>1. /\ pestana[t] \in TPestana /\ comprobacion[t] \in TComprobacion /\ reserva[t] \in TReserva
      /\ entrada[t] \in TEntrada /\ salida[t] \in TSalida /\ envio[t] \in TEnvio
  BY AntesSesion
<1>. QED
  BY <1>1 DEF TPestana, TComprobacion, TReserva, TEntrada, TSalida, TEnvio, Cargada, Usuario

\* What the constructors give, and the bounds.
LEMMA ValoresSesion ==
    /\ Nadie \in Alguien /\ Personas \subseteq Alguien /\ Nadie \notin Personas
    /\ Alguien \ {Nadie} \subseteq Personas /\ 0 \in 0 .. MaxEntradas
    /\ SinEntrada \in TEntrada /\ SinSalida \in TSalida
    /\ SinComprobar \in TComprobacion /\ SinComprobar.etapa = "no"
    /\ SinComprobar.vigente = FALSE
    /\ EnBlanco \in TPestana /\ EnBlanco.cargada = FALSE /\ EnBlanco.usuario = Nadie
    /\ SinEnvio \in TEnvio /\ SinEnvio.texto = Nadie
<1>1. 0 \in 0 .. MaxEntradas /\ Nadie \notin Personas
  BY SesionOK
<1>2. Nadie \in Alguien /\ Personas \subseteq Alguien /\ Alguien \ {Nadie} \subseteq Personas
  BY DEF Alguien
<1>. QED
  BY <1>1, <1>2 DEF SinEntrada, Entrada, TEntrada, SinSalida, Salida, TSalida, SinComprobar,
     Comprobacion, TComprobacion, EnBlanco, Pestana, TPestana, SinEnvio, Envio, TEnvio

LEMMA PestanaVale ==
    \A c, v \in BOOLEAN, u \in Alguien :
        /\ Pestana(c, u, v) \in TPestana
        /\ Pestana(c, u, v).cargada = c /\ Pestana(c, u, v).usuario = u
BY DEF Pestana, TPestana

LEMMA ReservaVale ==
    \A a \in BOOLEAN, x \in Alguien, B \in SUBSET (Personas \X Personas) :
        /\ Reserva(a, x, B) \in TReserva
        /\ Reserva(a, x, B).texto = x /\ Reserva(a, x, B).borradores = B
BY DEF Reserva, TReserva

LEMMA ComprobacionVale ==
    \A e \in {"no", "va", "servida"}, s \in 0 .. MaxEntradas, q \in Alguien, v, r \in BOOLEAN :
        /\ Comprobacion(e, s, q, v, r) \in TComprobacion
        /\ Comprobacion(e, s, q, v, r).etapa = e /\ Comprobacion(e, s, q, v, r).vigente = v
BY DEF Comprobacion, TComprobacion

\* A page with nothing written.
LEMMA PaginaVacia ==
    \A B \in SUBSET (Personas \X Personas) :
        /\ Reserva(FALSE, Nadie, B) \in TReserva
        /\ Reserva(FALSE, Nadie, B).texto = Nadie /\ Reserva(FALSE, Nadie, B).borradores = B
BY DEF Reserva, TReserva, Alguien

\* Counting one more of what is bounded.
LEMMA CuentaUna ==
    ASSUME cuenta \in TCuenta
    PROVE  /\ cuenta.cargas < MaxCargas => [cuenta EXCEPT !.cargas = @ + 1] \in TCuenta
           /\ cuenta.salidas < MaxSalidas => [cuenta EXCEPT !.salidas = @ + 1] \in TCuenta
           /\ cuenta.cierres < MaxCierres => [cuenta EXCEPT !.cierres = @ + 1] \in TCuenta
           /\ cuenta.mudas < MaxMudas => [cuenta EXCEPT !.mudas = @ + 1] \in TCuenta
           /\ cuenta.entradas < MaxEntradas =>
                /\ [cuenta EXCEPT !.entradas = cuenta.entradas + 1] \in TCuenta
                /\ cuenta.entradas + 1 \in Sesiones
<1>1. /\ MaxEntradas \in Nat /\ MaxSalidas \in Nat /\ MaxCargas \in Nat /\ MaxCierres \in Nat
      /\ MaxMudas \in Nat
  BY SesionOK
<1>2. /\ cuenta.entradas \in 0 .. MaxEntradas /\ cuenta.salidas \in 0 .. MaxSalidas
      /\ cuenta.cargas \in 0 .. MaxCargas /\ cuenta.cierres \in 0 .. MaxCierres
      /\ cuenta.mudas \in 0 .. MaxMudas
  BY DEF TCuenta
<1>3. /\ cuenta.cargas < MaxCargas => cuenta.cargas + 1 \in 0 .. MaxCargas
      /\ cuenta.salidas < MaxSalidas => cuenta.salidas + 1 \in 0 .. MaxSalidas
      /\ cuenta.cierres < MaxCierres => cuenta.cierres + 1 \in 0 .. MaxCierres
      /\ cuenta.mudas < MaxMudas => cuenta.mudas + 1 \in 0 .. MaxMudas
      /\ cuenta.entradas < MaxEntradas =>
            cuenta.entradas + 1 \in 0 .. MaxEntradas /\ cuenta.entradas + 1 \in 1 .. MaxEntradas
  BY <1>1, <1>2
<1>. QED
  BY <1>3 DEF TCuenta, Sesiones

\* A step that leaves the tabs alone.
LEMMA SinTocar ==
    ASSUME SesionEnOrden, TipoSesion', UNCHANGED varsPestana PROVE SesionEnOrden'
<1>1. \A u \in Pestanas : SigueIgual(u)
  BY DEF varsPestana, varsReserva, SigueIgual
<1>. QED
  BY <1>1, PorPestanas

\* What the server does by itself, and with the calls of a sign-in or a sign-out.
LEMMA DelServidor ==
    ASSUME SesionEnOrden, NEW t \in Pestanas,
           \/ \E s \in Sesiones : CerrarUna(s)
           \/ \E quien \in Personas : PedirEntrada(t, quien)
           \/ ServirEntrada(t) \/ NoEntra(t) \/ LlegaEntrada(t)
           \/ ServirSalida(t) \/ LlegaSalida(t) \/ NoLlegaSalida(t)
    PROVE  SesionEnOrden'
<1>1. ASSUME NEW s \in Sesiones, CerrarUna(s) PROVE SesionEnOrden'
  <2>1. TipoSesion' /\ UNCHANGED varsPestana
    BY <1>1, AntesSesion, CuentaUna, TipoSesionSigue DEF CerrarUna, varsPestana, varsReserva
  <2>. QED
    BY <2>1, SinTocar
<1>2. ASSUME NEW quien \in Personas, PedirEntrada(t, quien) PROVE SesionEnOrden'
  <2>1. Entrada("va", quien, 0) \in TEntrada
    BY ValoresSesion DEF Entrada, TEntrada
  <2>2. TipoSesion' /\ UNCHANGED varsPestana
    BY <1>2, <2>1, AntesSesion, TipoSesionSigue DEF PedirEntrada, varsPestana, varsReserva
  <2>. QED
    BY <2>2, SinTocar
<1>3. CASE ServirEntrada(t)
  <2> DEFINE nueva == cuenta.entradas + 1
  <2>1. /\ [cuenta EXCEPT !.entradas = nueva] \in TCuenta /\ nueva \in Sesiones
    BY <1>3, AntesSesion, CuentaUna DEF ServirEntrada
  <2>2. Entrada("servida", entrada[t].quien, nueva) \in TEntrada
    <3>1. nueva \in 0 .. MaxEntradas
      BY <2>1 DEF Sesiones
    <3>. QED
      BY <3>1, AntesPestana DEF Entrada, TEntrada
  <2>3. /\ cuenta' = [cuenta EXCEPT !.entradas = nueva]
        /\ dueno' = [dueno EXCEPT ![nueva] = entrada[t].quien]
        /\ validas' = validas \cup {nueva}
        /\ entrada' = [entrada EXCEPT ![t] = Entrada("servida", entrada[t].quien, nueva)]
        /\ UNCHANGED <<cookie, varsPestana, salida, dentro>>
    BY <1>3 DEF ServirEntrada
  <2> HIDE DEF nueva
  <2>4. /\ dueno' \in [Sesiones -> Alguien] /\ validas' \subseteq Sesiones
        /\ entrada' \in [Pestanas -> TEntrada] /\ cuenta' \in TCuenta
    BY <2>1, <2>2, <2>3, AntesSesion, AntesPestana
  <2>5. TipoSesion' /\ UNCHANGED varsPestana
    BY <2>3, <2>4, AntesSesion, TipoSesionSigue DEF varsPestana, varsReserva
  <2>. QED
    BY <2>5, SinTocar
<1>4. CASE NoEntra(t)
  <2>1. TipoSesion' /\ UNCHANGED varsPestana
    BY <1>4, AntesSesion, ValoresSesion, TipoSesionSigue DEF NoEntra, varsPestana, varsReserva
  <2>. QED
    BY <2>1, SinTocar
<1>5. CASE LlegaEntrada(t)
  <2>1. entrada' \in [Pestanas -> TEntrada]
    BY <1>5, AntesSesion DEF LlegaEntrada, TEntrada
  <2>2. TipoSesion' /\ UNCHANGED varsPestana
    BY <1>5, <2>1, AntesSesion, AntesPestana, TipoSesionSigue
    DEF LlegaEntrada, varsPestana, varsReserva
  <2>. QED
    BY <2>2, SinTocar
<1>6. CASE ServirSalida(t)
  <2>1. Salida("servida", salida[t].sesion) \in TSalida
    BY AntesPestana DEF Salida, TSalida
  <2>2. TipoSesion' /\ UNCHANGED varsPestana
    BY <1>6, <2>1, AntesSesion, TipoSesionSigue DEF ServirSalida, varsPestana, varsReserva
  <2>. QED
    BY <2>2, SinTocar
<1>7. CASE LlegaSalida(t)
  <2>1. TipoSesion' /\ UNCHANGED varsPestana
    BY <1>7, AntesSesion, ValoresSesion, TipoSesionSigue DEF LlegaSalida, varsPestana, varsReserva
  <2>. QED
    BY <2>1, SinTocar
<1>8. CASE NoLlegaSalida(t)
  <2>1. TipoSesion' /\ UNCHANGED varsPestana
    BY <1>8, AntesSesion, ValoresSesion, CuentaUna, TipoSesionSigue
    DEF NoLlegaSalida, varsPestana, varsReserva
  <2>. QED
    BY <2>1, SinTocar
<1>. QED
  BY <1>1, <1>2, <1>3, <1>4, <1>5, <1>6, <1>7, <1>8

\* A tab that loads again is blank, and keeps only the drafts.
LEMMA RecargaVale ==
    ASSUME SesionEnOrden, NEW t \in Pestanas, Recarga(t), recordado' = recordado,
           dueno' = dueno, validas' = validas, cookie' = cookie, dentro' = dentro,
           cuenta' \in TCuenta
    PROVE  SesionEnOrden'
<1> DEFINE R == Reserva(reserva[t].abierta, Nadie, reserva[t].borradores)
<1>1. R \in TReserva /\ R.texto = Nadie /\ R.borradores = reserva[t].borradores
  BY AntesPestana, ValoresSesion, ReservaVale
<1>2. /\ pestana' = [pestana EXCEPT ![t] = EnBlanco]
      /\ entrada' = [entrada EXCEPT ![t] = SinEntrada]
      /\ salida' = [salida EXCEPT ![t] = SinSalida]
      /\ comprobacion' = [comprobacion EXCEPT ![t] = SinComprobar]
      /\ reserva' = [reserva EXCEPT ![t] = R]
      /\ envio' = [envio EXCEPT ![t] = SinEnvio]
      /\ avisadas' = avisadas \ {t} /\ cruzadas' = cruzadas
  BY DEF Recarga
<1> HIDE DEF R
<1>3. TipoSesion'
  <2>1. /\ pestana' \in [Pestanas -> TPestana] /\ entrada' \in [Pestanas -> TEntrada]
        /\ salida' \in [Pestanas -> TSalida] /\ comprobacion' \in [Pestanas -> TComprobacion]
        /\ reserva' \in [Pestanas -> TReserva] /\ envio' \in [Pestanas -> TEnvio]
    BY <1>1, <1>2, AntesSesion, ValoresSesion
  <2>. QED
    BY <1>2, <2>1, AntesSesion, TipoSesionSigue
<1>4. \A u \in Pestanas \ {t} : SigueIgual(u)
  BY <1>2, AntesSesion DEF SigueIgual
<1>5. /\ pestana'[t] = EnBlanco /\ comprobacion'[t] = SinComprobar /\ reserva'[t] = R
      /\ envio'[t] = SinEnvio
  BY <1>2, AntesSesion
<1>6. PestanaBien(t)'
  BY <1>1, <1>5, ValoresSesion DEF PestanaBien, Cargada, Usuario, Comprueba
<1>7. PestanaPropia(t)'
  BY <1>1, <1>2, <1>5, AntesSesion DEF PestanaPropia
<1>. QED
  BY <1>3, <1>4, <1>6, <1>7, PorPestanas

\* A tab reloaded by hand.
LEMMA RecargarSesion ==
    ASSUME SesionEnOrden, NEW t \in Pestanas, Recargar(t) PROVE SesionEnOrden'
BY RecargaVale, AntesSesion, CuentaUna DEF Recargar

\* A tab that hears of another one shows who is remembered, or is blank.
LEMMA AtenderAvisoSesion ==
    ASSUME SesionEnOrden, NEW t \in Pestanas, AtenderAviso(t) PROVE SesionEnOrden'
<1>1. CASE Usuario(t) # recordado
  BY <1>1, RecargaVale, AntesSesion DEF AtenderAviso
<1>2. CASE Usuario(t) = recordado
  <2>1. /\ avisadas' = avisadas \ {t}
        /\ UNCHANGED <<dueno, validas, cookie, recordado, cuenta, dentro, pestana, entrada,
                       salida, comprobacion, reserva, envio, cruzadas>>
    BY <1>2 DEF AtenderAviso, varsReserva
  <2>2. TipoSesion'
    BY <2>1, AntesSesion, TipoSesionSigue
  <2>3. \A u \in Pestanas \ {t} : SigueIgual(u)
    BY <2>1 DEF SigueIgual
  <2>4. PestanaBien(t)' /\ PestanaPropia(t)'
    BY <1>2, <2>1, AntesSesion DEF PestanaBien, PestanaPropia, Cargada, Usuario, Comprueba
  <2>. QED
    BY <2>2, <2>3, <2>4, PorPestanas
<1>. QED
  BY <1>1, <1>2

\* Who leaves leaves nothing in the tab, and the others are to hear of it.
LEMMA SalirSesion ==
    ASSUME SesionEnOrden, NEW t \in Pestanas, Salir(t) PROVE SesionEnOrden'
<1> DEFINE P == Pestana(pestana[t].cargada, Nadie, pestana[t].comprobada)
           C == Comprobacion(comprobacion[t].etapa, comprobacion[t].sesion,
                             comprobacion[t].quien, FALSE, comprobacion[t].repetida)
           R == Reserva(FALSE, Nadie, {})
<1>1. /\ dueno' = dueno /\ validas' = validas /\ cookie' = cookie /\ recordado' = Nadie
      /\ dentro' = 0 /\ entrada' = entrada /\ envio' = envio /\ cruzadas' = cruzadas
      /\ pestana' = [pestana EXCEPT ![t] = P]
      /\ comprobacion' = [comprobacion EXCEPT ![t] = C]
      /\ salida' = [salida EXCEPT ![t] = Salida("va", cookie)]
      /\ reserva' = [reserva EXCEPT ![t] = R]
      /\ avisadas' = IF Nadie = recordado THEN avisadas
                     ELSE avisadas \cup {u \in Pestanas \ {t} : Cargada(u)}
      /\ cuenta' \in TCuenta
  BY AntesSesion, CuentaUna DEF Salir, Recuerda, Olvidar
<1>2. /\ P \in TPestana /\ P.usuario = Nadie /\ C \in TComprobacion /\ C.vigente = FALSE
      /\ R \in TReserva /\ R.texto = Nadie /\ R.borradores = {}
  <2>1. P \in TPestana /\ P.usuario = Nadie
    BY AntesPestana, ValoresSesion, PestanaVale DEF Cargada
  <2>2. C \in TComprobacion /\ C.vigente = FALSE
    BY AntesPestana DEF Comprobacion, TComprobacion
  <2>3. R \in TReserva /\ R.texto = Nadie /\ R.borradores = {}
    BY PaginaVacia
  <2>. QED
    BY <2>1, <2>2, <2>3
<1>3. Salida("va", cookie) \in TSalida
  BY AntesSesion DEF Salida, TSalida
<1> HIDE DEF P, C, R
<1>4. TipoSesion'
  <2>1. avisadas' \subseteq Pestanas
    BY <1>1, AntesSesion
  <2>. QED
    BY <1>1, <1>2, <1>3, <2>1, AntesSesion, ValoresSesion, TipoSesionSigue
<1>5. \A u \in Pestanas \ {t} : SigueIgual(u)
  BY <1>1, AntesSesion DEF SigueIgual
<1>6. pestana'[t] = P /\ comprobacion'[t] = C /\ reserva'[t] = R
  BY <1>1, AntesSesion
<1>7. PestanaBien(t)' /\ PestanaPropia(t)'
  BY <1>1, <1>2, <1>6, AntesSesion DEF PestanaBien, PestanaPropia, Cargada, Usuario, Comprueba
<1>. QED
  BY <1>4, <1>5, <1>7, PorPestanas

\* Who goes in leaves in the tab no form of before.
LEMMA EntrarSesion ==
    ASSUME SesionEnOrden, NEW t \in Pestanas, Entrar(t) PROVE SesionEnOrden'
<1> DEFINE quien == entrada[t].quien
           P == Pestana(TRUE, quien, TRUE)
           C == Comprobacion(comprobacion[t].etapa, comprobacion[t].sesion,
                             comprobacion[t].quien, FALSE, comprobacion[t].repetida)
           R == Reserva(FALSE, Nadie, reserva[t].borradores)
<1>1. /\ dueno' = dueno /\ validas' = validas /\ cookie' = cookie /\ recordado' = quien
      /\ dentro' = entrada[t].sesion /\ salida' = salida /\ cuenta' = cuenta
      /\ envio' = envio /\ cruzadas' = cruzadas
      /\ avisadas' = IF quien = recordado THEN avisadas
                     ELSE avisadas \cup {u \in Pestanas \ {t} : Cargada(u)}
      /\ pestana' = [pestana EXCEPT ![t] = P]
      /\ comprobacion' = [comprobacion EXCEPT ![t] = C]
      /\ entrada' = [entrada EXCEPT ![t] = SinEntrada]
      /\ reserva' = [reserva EXCEPT ![t] = R]
  BY DEF Entrar, Recuerda, Olvidar, Expulsa
<1>2. /\ quien \in Alguien /\ P \in TPestana /\ P.usuario = quien /\ P.cargada = TRUE
      /\ C \in TComprobacion /\ C.vigente = FALSE
      /\ R \in TReserva /\ R.texto = Nadie /\ R.borradores = reserva[t].borradores
  <2>1. P \in TPestana /\ P.usuario = quien /\ P.cargada = TRUE /\ quien \in Alguien
    BY AntesPestana, PestanaVale
  <2>2. C \in TComprobacion /\ C.vigente = FALSE
    BY AntesPestana DEF Comprobacion, TComprobacion
  <2>3. R \in TReserva /\ R.texto = Nadie /\ R.borradores = reserva[t].borradores
    BY AntesPestana, PaginaVacia
  <2>. QED
    BY <2>1, <2>2, <2>3
<1> HIDE DEF P, C, R, quien
<1>3. TipoSesion'
  <2>1. avisadas' \subseteq Pestanas /\ dentro' \in 0 .. MaxEntradas
    BY <1>1, AntesSesion, AntesPestana
  <2>. QED
    BY <1>1, <1>2, <2>1, AntesSesion, ValoresSesion, TipoSesionSigue
<1>4. \A u \in Pestanas \ {t} : SigueIgual(u)
  BY <1>1, AntesSesion DEF SigueIgual
<1>5. pestana'[t] = P /\ comprobacion'[t] = C /\ reserva'[t] = R
  BY <1>1, AntesSesion
<1>6. PestanaBien(t)' /\ PestanaPropia(t)'
  BY <1>1, <1>2, <1>5, AntesSesion DEF PestanaBien, PestanaPropia, Cargada, Usuario, Comprueba
<1>. QED
  BY <1>3, <1>4, <1>6, PorPestanas

\* A question that goes on is for whoever it was for.
LEMMA CompruebaVale ==
    ASSUME SesionEnOrden, NEW t \in Pestanas, NEW C \in TComprobacion, cuenta' \in TCuenta,
           Comprueba(t), C.etapa = "no" \/ C.vigente = comprobacion[t].vigente,
           comprobacion' = [comprobacion EXCEPT ![t] = C],
           UNCHANGED <<dueno, validas, cookie, recordado, avisadas, pestana, entrada, salida,
                       varsReserva, dentro>>
    PROVE  SesionEnOrden'
<1>1. UNCHANGED <<dueno, validas, cookie, recordado, avisadas, pestana, entrada, salida,
                  reserva, envio, cruzadas, dentro>>
  BY DEF varsReserva
<1>2. TipoSesion'
  BY <1>1, AntesSesion, TipoSesionSigue
<1>3. \A u \in Pestanas \ {t} : SigueIgual(u)
  BY <1>1, AntesSesion DEF SigueIgual
<1>4. comprobacion'[t] = C
  BY AntesSesion
<1>5. PestanaBien(t)' /\ PestanaPropia(t)'
  BY <1>1, <1>4, AntesSesion DEF PestanaBien, PestanaPropia, Cargada, Usuario, Comprueba
<1>. QED
  BY <1>2, <1>3, <1>5, PorPestanas

\* The API says whose the session it was asked about is, or nobody's.
LEMMA ServirComprobacionSesion ==
    ASSUME SesionEnOrden, NEW t \in Pestanas, ServirComprobacion(t) PROVE SesionEnOrden'
<1> DEFINE C == Comprobacion("servida", 0, De(comprobacion[t].sesion), comprobacion[t].vigente,
                             comprobacion[t].repetida)
<1>1. De(comprobacion[t].sesion) \in Alguien
  BY AntesSesion, ValoresSesion DEF De
<1>2. C \in TComprobacion /\ C.vigente = comprobacion[t].vigente
  BY <1>1, AntesPestana, ValoresSesion, ComprobacionVale
<1>3. /\ comprobacion' = [comprobacion EXCEPT ![t] = C] /\ comprobacion[t].etapa = "va"
      /\ UNCHANGED <<dueno, validas, cookie, recordado, avisadas, pestana, entrada, salida,
                     varsReserva, cuenta, dentro>>
  BY DEF ServirComprobacion
<1> HIDE DEF C
<1>. QED
  BY <1>2, <1>3, AntesSesion, CompruebaVale DEF Comprueba

\* A question without an answer is asked again, or left.
LEMMA NoLlegaComprobacionSesion ==
    ASSUME SesionEnOrden, NEW t \in Pestanas, NoLlegaComprobacion(t) PROVE SesionEnOrden'
<1> DEFINE D == Comprobacion("va", cookie, Nadie, comprobacion[t].vigente, TRUE)
           C == IF comprobacion[t].repetida THEN SinComprobar ELSE D
<1>1. D \in TComprobacion /\ D.vigente = comprobacion[t].vigente
  <2>1. cookie \in 0 .. MaxEntradas /\ comprobacion[t].vigente \in BOOLEAN /\ Nadie \in Alguien
    BY AntesSesion, AntesPestana, ValoresSesion
  <2>. QED
    BY <2>1 DEF Comprobacion, TComprobacion
<1>2. /\ comprobacion' = [comprobacion EXCEPT ![t] = C] /\ Comprueba(t) /\ cuenta' \in TCuenta
      /\ UNCHANGED <<dueno, validas, cookie, recordado, avisadas, pestana, entrada, salida,
                     varsReserva, dentro>>
  BY AntesSesion, CuentaUna DEF NoLlegaComprobacion
<1> HIDE DEF D
<1>3. C \in TComprobacion /\ (C.etapa = "no" \/ C.vigente = comprobacion[t].vigente)
  BY <1>1, ValoresSesion
<1> HIDE DEF C
<1>. QED
  BY <1>2, <1>3, CompruebaVale

\* An answer that does not count disturbs nothing; one that counts finds somebody in
\* the tab, and if it puts another the tab has changed of account by itself.
LEMMA ComprobarSesion ==
    ASSUME SesionEnOrden, NEW t \in Pestanas, Comprobar(t) PROVE SesionEnOrden'
<1> DEFINE quien == comprobacion[t].quien
           P == Pestana(TRUE, quien, TRUE)
           R == Reserva(FALSE, Nadie, reserva[t].borradores)
<1>1. /\ dueno' = dueno /\ validas' = validas /\ cookie' = cookie /\ dentro' = dentro
      /\ entrada' = entrada /\ salida' = salida /\ cuenta' = cuenta /\ envio' = envio
      /\ comprobacion' = [comprobacion EXCEPT ![t] = SinComprobar]
      /\ comprobacion[t].etapa = "servida"
  BY DEF Comprobar
<1>2. comprobacion' \in [Pestanas -> TComprobacion] /\ comprobacion'[t] = SinComprobar
  BY <1>1, AntesSesion, ValoresSesion
<1>3. CASE comprobacion[t].vigente = FALSE
  <2>1. UNCHANGED <<recordado, avisadas, pestana, reserva, cruzadas>>
    BY <1>3 DEF Comprobar
  <2>2. TipoSesion'
    BY <1>1, <1>2, <2>1, AntesSesion, TipoSesionSigue
  <2>3. \A u \in Pestanas \ {t} : SigueIgual(u)
    BY <1>1, <2>1, AntesSesion DEF SigueIgual
  <2>4. PestanaBien(t)' /\ PestanaPropia(t)'
    BY <1>1, <1>2, <2>1, AntesSesion, ValoresSesion
    DEF PestanaBien, PestanaPropia, Cargada, Usuario, Comprueba
  <2>. QED
    BY <2>2, <2>3, <2>4, PorPestanas
<1>4. CASE comprobacion[t].vigente = TRUE
  <2>1. /\ quien \in Alguien /\ P \in TPestana /\ P.usuario = quien /\ P.cargada = TRUE
        /\ R \in TReserva /\ R.texto = Nadie /\ R.borradores = reserva[t].borradores
    <3>1. P \in TPestana /\ P.usuario = quien /\ P.cargada = TRUE /\ quien \in Alguien
      BY AntesPestana, PestanaVale
    <3>2. R \in TReserva /\ R.texto = Nadie /\ R.borradores = reserva[t].borradores
      BY AntesPestana, PaginaVacia
    <3>. QED
      BY <3>1, <3>2
  <2>2. Usuario(t) # Nadie
    BY <1>1, <1>4, AntesSesion DEF PestanaBien, Comprueba
  <2>3. /\ recordado' = quien
        /\ avisadas' = IF quien = recordado THEN avisadas
                       ELSE avisadas \cup {u \in Pestanas \ {t} : Cargada(u)}
        /\ pestana' = [pestana EXCEPT ![t] = P]
        /\ reserva' = IF quien = Nadie THEN [reserva EXCEPT ![t] = R] ELSE reserva
        /\ cruzadas' = IF quien \in {Nadie, Usuario(t)} THEN cruzadas ELSE cruzadas \cup {t}
    BY <1>4, <2>2 DEF Comprobar, Aplicar, Recuerda, Expulsa, Cruza
  <2> HIDE DEF P, R, quien
  <2>4. /\ avisadas' \subseteq Pestanas /\ reserva' \in [Pestanas -> TReserva]
        /\ pestana' \in [Pestanas -> TPestana] /\ cruzadas' \subseteq Pestanas
        /\ pestana'[t] = P /\ (reserva'[t] = IF quien = Nadie THEN R ELSE reserva[t])
    BY <2>1, <2>3, AntesSesion
  <2>5. TipoSesion'
    BY <1>1, <1>2, <2>1, <2>3, <2>4, AntesSesion, TipoSesionSigue
  <2>6. \A u \in Pestanas \ {t} : SigueIgual(u)
    BY <1>1, <2>3, AntesSesion DEF SigueIgual
  <2>7. PestanaBien(t)'
    BY <1>1, <1>2, <2>1, <2>3, <2>4, AntesSesion, ValoresSesion
    DEF PestanaBien, Cargada, Usuario, Comprueba
  <2>8. PestanaPropia(t)'
    BY <2>1, <2>3, <2>4, AntesSesion DEF PestanaPropia, Usuario
  <2>. QED
    BY <2>5, <2>6, <2>7, <2>8, PorPestanas
<1>. QED
  BY <1>3, <1>4, AntesPestana

\* What a page recovers on opening, and what is left of the drafts.
LEMMA AlAbrirVale ==
    ASSUME SesionEnOrden, NEW t \in Pestanas, NEW quien \in Alguien
    PROVE  /\ AlAbrir(t, quien) \in TReserva
           /\ AlAbrir(t, quien).borradores \subseteq reserva[t].borradores
           /\ (\A b \in reserva[t].borradores : b[1] = b[2])
                 => AlAbrir(t, quien).texto \in {Nadie, quien}
<1> DEFINE B == reserva[t].borradores
           suyos == {b \in B : b[1] = quien}
           c == CHOOSE b \in suyos : TRUE
<1>1. B \in SUBSET (Personas \X Personas)
  BY AntesPestana
<1>2. AlAbrir(t, quien) = IF quien = Nadie THEN Reserva(FALSE, Nadie, B)
                          ELSE IF suyos = {} THEN Reserva(TRUE, Nadie, B)
                          ELSE Reserva(TRUE, c[2], B \ suyos)
  BY DEF AlAbrir
<1>3. suyos # {} => c \in B /\ c[1] = quien /\ c[2] \in Alguien
  <2>1. suyos # {} => c \in suyos
    OBVIOUS
  <2>2. suyos # {} => c \in B /\ c[1] = quien
    BY <2>1
  <2>3. \A b \in Personas \X Personas : b[2] \in Personas
    OBVIOUS
  <2>. QED
    BY <1>1, <2>2, <2>3, ValoresSesion
<1>4. B \ suyos \in SUBSET (Personas \X Personas) /\ B \ suyos \subseteq B
  BY <1>1
<1> HIDE DEF suyos, c, B
<1>5. \E a \in BOOLEAN, x \in Alguien, D \in SUBSET (Personas \X Personas) :
         /\ AlAbrir(t, quien) = Reserva(a, x, D)
         /\ D \subseteq B
         /\ x = Nadie \/ (\E b \in B : b[1] = quien /\ b[2] = x)
  BY <1>1, <1>2, <1>3, <1>4, ValoresSesion
<1>6. PICK a \in BOOLEAN, x \in Alguien, D \in SUBSET (Personas \X Personas) :
         /\ AlAbrir(t, quien) = Reserva(a, x, D)
         /\ D \subseteq B
         /\ x = Nadie \/ (\E b \in B : b[1] = quien /\ b[2] = x)
  BY <1>5
<1>7. AlAbrir(t, quien) \in TReserva /\ AlAbrir(t, quien).borradores = D
      /\ AlAbrir(t, quien).texto = x
  BY <1>6, ReservaVale
<1>. QED
  BY <1>6, <1>7 DEF B

\* A tab that reads who is remembered shows them, and asks at most about them.
LEMMA LeerGuardadoVale ==
    ASSUME SesionEnOrden, NEW t \in Pestanas, NEW R \in TReserva, LeerGuardado(t),
           reserva' = [reserva EXCEPT ![t] = R],
           cruzadas' = cruzadas \/ cruzadas' = cruzadas \cup {t},
           PestanaPropia(t)'
    PROVE  SesionEnOrden'
<1> DEFINE quien == IF recordado # Nadie THEN recordado ELSE pestana[t].usuario
           visto == pestana[t].comprobada \/ recordado # Nadie
           P == Pestana(TRUE, quien, visto)
           C == Comprobacion("va", cookie, Nadie, TRUE, FALSE)
           pregunta == recordado # Nadie /\ ~pestana[t].comprobada
<1>1. /\ UNCHANGED <<dueno, validas, cookie, recordado, avisadas, entrada, salida, envio,
                     cuenta, dentro>>
      /\ pestana' = [pestana EXCEPT ![t] = P]
      /\ comprobacion' = IF pregunta THEN [comprobacion EXCEPT ![t] = C] ELSE comprobacion
  BY DEF LeerGuardado
<1>2. P \in TPestana /\ P.usuario = quien /\ P.cargada = TRUE
  <2>1. quien \in Alguien /\ visto \in BOOLEAN
    BY AntesSesion, AntesPestana DEF Usuario
  <2> HIDE DEF quien, visto
  <2>. QED
    BY <2>1, PestanaVale
<1>3. C \in TComprobacion
  BY AntesSesion, ValoresSesion DEF Comprobacion, TComprobacion
<1>4. pregunta => recordado # Nadie
  OBVIOUS
<1>5. quien = IF recordado # Nadie THEN recordado ELSE Usuario(t)
  BY DEF Usuario
<1> HIDE DEF P, C, pregunta, quien
<1>6. /\ pestana' \in [Pestanas -> TPestana] /\ comprobacion' \in [Pestanas -> TComprobacion]
      /\ reserva' \in [Pestanas -> TReserva] /\ cruzadas' \subseteq Pestanas
      /\ pestana'[t] = P /\ (comprobacion'[t] = IF pregunta THEN C ELSE comprobacion[t])
  BY <1>1, <1>2, <1>3, AntesSesion
<1>7. TipoSesion'
  BY <1>1, <1>6, AntesSesion, TipoSesionSigue
<1>8. \A u \in Pestanas \ {t} : SigueIgual(u)
  BY <1>1, AntesSesion DEF SigueIgual
<1>9. PestanaBien(t)'
  <2>1. /\ pestana'[t].cargada = TRUE /\ pestana'[t].usuario = quien
        /\ recordado' = recordado /\ avisadas' = avisadas /\ envio' = envio
    BY <1>1, <1>2, <1>6
  <2>2. PestanaBien(t)
    BY AntesSesion
  <2>3. quien = recordado \/ t \in avisadas
    BY <1>5, <2>2, AntesPestana DEF PestanaBien
  <2>4. pregunta => quien # Nadie
    BY <1>4, <1>5
  <2>5. ~pregunta /\ Comprueba(t) /\ comprobacion[t].vigente => quien # Nadie
    BY <1>5, <2>2 DEF PestanaBien
  <2>. QED
    BY <1>6, <2>1, <2>2, <2>3, <2>4, <2>5 DEF PestanaBien, Cargada, Usuario, Comprueba
<1>. QED
  BY <1>7, <1>8, <1>9, PorPestanas

\* A page that loads shows who is remembered, and recovers their draft.
LEMMA CargarSesion ==
    ASSUME SesionEnOrden, NEW t \in Pestanas, Cargar(t) PROVE SesionEnOrden'
<1> DEFINE R == IF reserva[t].abierta THEN AlAbrir(t, recordado) ELSE reserva[t]
<1>1. R \in TReserva /\ reserva' = [reserva EXCEPT ![t] = R] /\ reserva'[t] = R
  <2>1. AlAbrir(t, recordado) \in TReserva /\ reserva[t] \in TReserva
    BY AntesSesion, AlAbrirVale
  <2>2. reserva' = IF reserva[t].abierta
                   THEN [reserva EXCEPT ![t] = AlAbrir(t, recordado)] ELSE reserva
    BY DEF Cargar
  <2>3. reserva' = [reserva EXCEPT ![t] = R]
    BY <2>2, AntesSesion
  <2>. QED
    BY <2>1, <2>3, AntesSesion
<1>2. pestana'[t].usuario = recordado
  <2>1. Usuario(t) = Nadie
    BY AntesSesion DEF Cargar, PestanaBien
  <2>2. pestana'[t] = Pestana(TRUE, recordado, pestana[t].comprobada \/ recordado # Nadie)
    BY <2>1, AntesSesion DEF Cargar, LeerGuardado, Usuario
  <2>. QED
    BY <2>2 DEF Pestana
<1>3. t \notin cruzadas => R.texto \in {Nadie, recordado} /\ \A b \in R.borradores : b[1] = b[2]
  <2>1. AlAbrir(t, recordado).borradores \subseteq reserva[t].borradores
        /\ ((\A b \in reserva[t].borradores : b[1] = b[2])
               => AlAbrir(t, recordado).texto \in {Nadie, recordado})
    BY AntesSesion, AlAbrirVale
  <2>2. reserva[t].texto = Nadie /\ PestanaPropia(t)
    BY AntesSesion DEF Cargar, PestanaBien
  <2>. QED
    BY <2>1, <2>2 DEF PestanaPropia
<1>4. cruzadas' = cruzadas /\ LeerGuardado(t)
  BY DEF Cargar
<1> HIDE DEF R
<1>5. PestanaPropia(t)'
  BY <1>1, <1>2, <1>3, <1>4 DEF PestanaPropia, Usuario
<1>. QED
  BY <1>1, <1>4, <1>5, LeerGuardadoVale

\* Another page leaves what was written in this one.
LEMMA PasarSesion ==
    ASSUME SesionEnOrden, NEW t \in Pestanas, Pasar(t) PROVE SesionEnOrden'
<1> DEFINE R == Reserva(FALSE, Nadie, reserva[t].borradores)
<1>1. R \in TReserva /\ R.texto = Nadie /\ R.borradores = reserva[t].borradores
  BY AntesPestana, PaginaVacia
<1>2. /\ LeerGuardado(t) /\ reserva' = [reserva EXCEPT ![t] = R]
      /\ cruzadas' = cruzadas \/ cruzadas' = cruzadas \cup {t}
  BY DEF Pasar, Expulsa, Cruza
<1> HIDE DEF R
<1>3. PestanaPropia(t)'
  BY <1>1, <1>2, AntesSesion DEF PestanaPropia
<1>. QED
  BY <1>1, <1>2, <1>3, LeerGuardadoVale

\* The page opened has nothing, or a draft of who is in; and who is in goes on being.
LEMMA AbrirReservaSesion ==
    ASSUME SesionEnOrden, NEW t \in Pestanas, AbrirReserva(t) PROVE SesionEnOrden'
<1> DEFINE id == IdRecordado(t)
           R == AlAbrir(t, id)
<1>1. id \in Alguien /\ id = IF Usuario(t) # Nadie THEN Usuario(t) ELSE recordado
  BY AntesSesion, AntesPestana DEF IdRecordado
<1>2. /\ LeerGuardado(t) /\ reserva' = [reserva EXCEPT ![t] = R] /\ reserva'[t] = R
      /\ cruzadas' = IF recordado \in {Nadie, Usuario(t)} THEN cruzadas ELSE cruzadas \cup {t}
      /\ id # Nadie
  BY AntesSesion DEF AbrirReserva, Cruza
<1>3. /\ R \in TReserva /\ R.borradores \subseteq reserva[t].borradores
      /\ (\A b \in reserva[t].borradores : b[1] = b[2]) => R.texto \in {Nadie, id}
  <2> HIDE DEF id
  <2>. QED
    BY <1>1, AlAbrirVale
<1> HIDE DEF R, id
<1>4. pestana'[t].usuario = IF recordado # Nadie THEN recordado ELSE Usuario(t)
  BY <1>2, AntesSesion DEF LeerGuardado, Pestana, Usuario
<1>5. PestanaPropia(t)'
  BY <1>1, <1>2, <1>3, <1>4, AntesSesion DEF PestanaPropia, Usuario
<1>. QED
  BY <1>2, <1>3, <1>5, LeerGuardadoVale

\* A step of the page that asks for a booking.
LEMMA PasaEnReservaVale ==
    ASSUME SesionEnOrden, NEW t \in Pestanas, NEW R \in TReserva, PasaEnReserva(t, R),
           envio' \in [Pestanas -> TEnvio], \A u \in Pestanas \ {t} : envio'[u] = envio[u],
           envio'[t].texto = Nadie => envio'[t] = SinEnvio,
           cruzadas' = cruzadas \/ cruzadas' = cruzadas \cup {t},
           Cargada(t) \/ R.texto = Nadie \/ R.texto = reserva[t].texto,
           t \notin cruzadas' =>
               /\ R.texto # Nadie => R.texto = Usuario(t)
               /\ \A b \in R.borradores : b[1] = b[2]
    PROVE  SesionEnOrden'
<1>1. /\ UNCHANGED <<dueno, validas, cookie, recordado, avisadas, pestana, entrada, salida,
                     comprobacion, cuenta, dentro>>
      /\ reserva' = [reserva EXCEPT ![t] = R]
  BY DEF PasaEnReserva
<1>2. TipoSesion'
  <2>1. reserva' \in [Pestanas -> TReserva] /\ cruzadas' \subseteq Pestanas
    BY <1>1, AntesSesion
  <2>. QED
    BY <1>1, <2>1, AntesSesion, TipoSesionSigue
<1>3. \A u \in Pestanas \ {t} : SigueIgual(u)
  BY <1>1, AntesSesion DEF SigueIgual
<1>4. reserva'[t] = R
  BY <1>1, AntesSesion
<1>5. PestanaBien(t)'
  BY <1>1, <1>4, AntesSesion DEF PestanaBien, Cargada, Usuario, Comprueba
<1>6. PestanaPropia(t)'
  BY <1>1, <1>4 DEF PestanaPropia, Usuario
<1>. QED
  BY <1>2, <1>3, <1>5, <1>6, PorPestanas

\* What is written, by who is in; and a page left, with nothing written.
LEMMA RedactarSesion ==
    ASSUME SesionEnOrden, NEW t \in Pestanas, Redactar(t) \/ Dejar(t) PROVE SesionEnOrden'
<1> DEFINE R == Reserva(TRUE, Usuario(t), reserva[t].borradores)
           S == Reserva(FALSE, Nadie, reserva[t].borradores)
<1>1. /\ R \in TReserva /\ R.texto = Usuario(t) /\ R.borradores = reserva[t].borradores
      /\ S \in TReserva /\ S.texto = Nadie /\ S.borradores = reserva[t].borradores
  <2>1. R \in TReserva /\ R.texto = Usuario(t) /\ R.borradores = reserva[t].borradores
    BY AntesPestana DEF Reserva, TReserva
  <2>2. S \in TReserva /\ S.texto = Nadie /\ S.borradores = reserva[t].borradores
    BY AntesPestana, PaginaVacia
  <2>. QED
    BY <2>1, <2>2
<1>2. /\ PasaEnReserva(t, R) \/ PasaEnReserva(t, S)
      /\ Cargada(t) /\ envio' = envio /\ cruzadas' = cruzadas
  BY DEF Redactar, Dejar
<1> HIDE DEF R, S
<1>3. PestanaBien(t) /\ PestanaPropia(t) /\ envio \in [Pestanas -> TEnvio]
  BY AntesSesion
<1>. QED
  BY <1>1, <1>2, <1>3, PasaEnReservaVale DEF PestanaBien, PestanaPropia

\* A booking sent, and answered with anything but that the session is over.
LEMMA EnviarSesion ==
    ASSUME SesionEnOrden, NEW t \in Pestanas, Enviar(t) \/ SeCrea(t) \/ NoSeCrea(t)
    PROVE  SesionEnOrden'
<1> DEFINE S == Reserva(FALSE, Nadie, reserva[t].borradores)
           E == Envio(reserva[t].texto, cookie)
<1>1. S \in TReserva /\ S.texto = Nadie /\ S.borradores = reserva[t].borradores
      /\ reserva[t] \in TReserva
  BY AntesSesion, AntesPestana, PaginaVacia
<1>2. E \in TEnvio /\ E.texto = reserva[t].texto
  BY AntesSesion, AntesPestana DEF Envio, TEnvio
<1>3. /\ PasaEnReserva(t, reserva[t]) \/ PasaEnReserva(t, S)
      /\ cruzadas' = cruzadas
      /\ \/ envio' = [envio EXCEPT ![t] = E] /\ reserva[t].texto # Nadie
         \/ envio' = [envio EXCEPT ![t] = SinEnvio]
  BY DEF Enviar, SeCrea, NoSeCrea, Contestado
<1> HIDE DEF S, E
<1>4. /\ envio' \in [Pestanas -> TEnvio] /\ \A u \in Pestanas \ {t} : envio'[u] = envio[u]
      /\ envio'[t].texto = Nadie => envio'[t] = SinEnvio
  BY <1>2, <1>3, AntesSesion, ValoresSesion
<1>5. PestanaPropia(t)
  BY AntesSesion
<1>. QED
  BY <1>1, <1>3, <1>4, <1>5, PasaEnReservaVale DEF PestanaPropia

\* What is kept when the session is over is under the account that wrote it, if it is
\* still the one in.
LEMMA SesionCaducadaSesion ==
    ASSUME SesionEnOrden, NEW t \in Pestanas, SesionCaducada(t) PROVE SesionEnOrden'
<1> DEFINE x == envio[t].texto
           B == reserva[t].borradores
           G == GuardarBorrador(t, x)
           R == [reserva[t] EXCEPT !.borradores = G]
<1>1. /\ envio[t] # SinEnvio /\ envio' = [envio EXCEPT ![t] = SinEnvio]
      /\ PasaEnReserva(t, R)
      /\ cruzadas' = IF Usuario(t) = x THEN cruzadas ELSE cruzadas \cup {t}
  BY DEF SesionCaducada, Contestado
<1>2. x \in Personas /\ x # Nadie
  BY <1>1, AntesSesion, AntesPestana, ValoresSesion DEF PestanaBien
<1>3. ClaveDe(t) \subseteq Personas
      /\ (Usuario(t) # Nadie => \A p \in ClaveDe(t) : p = Usuario(t))
  BY DEF ClaveDe, IdRecordado
<1>4. /\ G \in SUBSET (Personas \X Personas)
      /\ \A b \in G : b \in B \/ (b[1] \in ClaveDe(t) /\ b[2] = x)
  BY <1>2, <1>3, AntesPestana DEF GuardarBorrador
<1> HIDE DEF G
<1>5. R \in TReserva /\ R.texto = reserva[t].texto /\ R.borradores = G
  <2>1. reserva[t] \in TReserva
    BY AntesSesion
  <2>. QED
    BY <1>4, <2>1 DEF TReserva
<1> HIDE DEF R
<1>6. /\ envio' \in [Pestanas -> TEnvio] /\ \A u \in Pestanas \ {t} : envio'[u] = envio[u]
      /\ envio'[t] = SinEnvio
  BY <1>1, AntesSesion, ValoresSesion
<1>7. t \notin cruzadas' =>
          /\ R.texto # Nadie => R.texto = Usuario(t)
          /\ \A b \in R.borradores : b[1] = b[2]
  <2>1. SUFFICES ASSUME t \notin cruzadas'
                 PROVE  /\ R.texto # Nadie => R.texto = Usuario(t)
                        /\ \A b \in R.borradores : b[1] = b[2]
    OBVIOUS
  <2>2. Usuario(t) = x /\ t \notin cruzadas
    BY <1>1, <2>1
  <2>3. /\ reserva[t].texto # Nadie => reserva[t].texto = Usuario(t)
        /\ \A b \in B : b[1] = b[2]
    BY <2>2, AntesSesion DEF PestanaPropia
  <2>. QED
    BY <1>2, <1>3, <1>4, <1>5, <2>2, <2>3
<1>8. cruzadas' = cruzadas \/ cruzadas' = cruzadas \cup {t}
  BY <1>1
<1>. QED
  BY <1>1, <1>5, <1>6, <1>7, <1>8, PasaEnReservaVale

\* At the beginning no tab has loaded.
LEMMA SesionEmpieza ==
    ASSUME InitSesion PROVE SesionEnOrden
<1>1. /\ recordado \in Alguien /\ avisadas = {} /\ cruzadas = {}
      /\ cookie \in 0 .. MaxEntradas /\ validas \subseteq Sesiones
      /\ 1 \in Sesiones
  <2>1. MaxEntradas \in Nat \ {0}
    BY SesionOK
  <2>2. 0 \in 0 .. MaxEntradas /\ 1 \in 0 .. MaxEntradas /\ 1 \in 1 .. MaxEntradas
    BY <2>1
  <2>. QED
    BY <2>2 DEF InitSesion, Sesiones
<1>2. Reserva(FALSE, Nadie, {}) \in TReserva /\ Reserva(FALSE, Nadie, {}).texto = Nadie
      /\ Reserva(FALSE, Nadie, {}).borradores = {}
  BY PaginaVacia
<1>3. /\ \A t \in Pestanas :
            /\ pestana[t] = EnBlanco /\ comprobacion[t] = SinComprobar /\ envio[t] = SinEnvio
            /\ reserva[t] = Reserva(FALSE, Nadie, {})
      /\ pestana \in [Pestanas -> TPestana] /\ comprobacion \in [Pestanas -> TComprobacion]
      /\ envio \in [Pestanas -> TEnvio] /\ reserva \in [Pestanas -> TReserva]
      /\ entrada \in [Pestanas -> TEntrada] /\ salida \in [Pestanas -> TSalida]
  BY <1>2, ValoresSesion DEF InitSesion
<1>4. cuenta \in TCuenta /\ dentro \in 0 .. MaxEntradas
  <2>1. 0 \in 0 .. MaxSalidas /\ 0 \in 0 .. MaxCargas /\ 0 \in 0 .. MaxCierres /\ 0 \in 0 .. MaxMudas
    BY SesionOK
  <2>. QED
    BY <1>1, <2>1 DEF InitSesion, TCuenta
<1>5. dueno \in [Sesiones -> Alguien]
  BY <1>1, ValoresSesion DEF InitSesion
<1>6. TipoSesion
  BY <1>1, <1>3, <1>4, <1>5, TipoSesionEs
<1>7. ASSUME NEW t \in Pestanas PROVE PestanaBien(t) /\ PestanaPropia(t)
  BY <1>2, <1>3, ValoresSesion DEF PestanaBien, PestanaPropia, Cargada, Usuario, Comprueba
<1>. QED
  BY <1>6, <1>7 DEF SesionEnOrden

\* Every step of the browser.
LEMMA SesionSigue ==
    ASSUME SesionEnOrden, [NextSesion]_varsSesion PROVE SesionEnOrden'
<1>1. CASE UNCHANGED varsSesion
  <2>1. TipoSesion' /\ UNCHANGED varsPestana
    BY <1>1, AntesSesion, TipoSesionSigue DEF varsSesion, varsPestana, varsReserva
  <2>. QED
    BY <2>1, SinTocar
<1>2. ASSUME NEW s \in Sesiones, CerrarUna(s) PROVE SesionEnOrden'
  <2>1. TipoSesion' /\ UNCHANGED varsPestana
    BY <1>2, AntesSesion, CuentaUna, TipoSesionSigue DEF CerrarUna, varsPestana, varsReserva
  <2>. QED
    BY <2>1, SinTocar
<1>3. ASSUME NEW t \in Pestanas,
             Recargar(t) \/ AtenderAviso(t) \/ Cargar(t) \/ Pasar(t) \/ Entrar(t) \/ Salir(t)
      PROVE  SesionEnOrden'
  BY <1>3, RecargarSesion, AtenderAvisoSesion, CargarSesion, PasarSesion, EntrarSesion, SalirSesion
<1>4. ASSUME NEW t \in Pestanas,
             \/ \E quien \in Personas : PedirEntrada(t, quien)
             \/ ServirEntrada(t) \/ NoEntra(t) \/ LlegaEntrada(t)
             \/ ServirSalida(t) \/ LlegaSalida(t) \/ NoLlegaSalida(t)
      PROVE  SesionEnOrden'
  BY <1>4, DelServidor
<1>5. ASSUME NEW t \in Pestanas,
             ServirComprobacion(t) \/ NoLlegaComprobacion(t) \/ Comprobar(t)
      PROVE  SesionEnOrden'
  BY <1>5, ServirComprobacionSesion, NoLlegaComprobacionSesion, ComprobarSesion
<1>6. ASSUME NEW t \in Pestanas,
             \/ AbrirReserva(t) \/ Redactar(t) \/ Dejar(t) \/ Enviar(t)
             \/ SeCrea(t) \/ SesionCaducada(t) \/ NoSeCrea(t)
      PROVE  SesionEnOrden'
  BY <1>6, AbrirReservaSesion, RedactarSesion, EnviarSesion, SesionCaducadaSesion
<1>. QED
  BY <1>1, <1>2, <1>3, <1>4, <1>5, <1>6 DEF NextSesion

\* The invariant of the session holds in every state of the browser, with any number of
\* tabs, accounts, sign-ins, sign-outs, reloads, closed sessions and lost calls, and
\* whatever each tab hears first.
THEOREM SesionInvariante == SpecSesion => []SesionEnOrden
<1>1. InitSesion => SesionEnOrden
  BY SesionEmpieza
<1>2. SesionEnOrden /\ [NextSesion]_varsSesion => SesionEnOrden'
  BY SesionSigue
<1>. QED
  BY <1>1, <1>2, PTL DEF SpecSesion

\* auth-store.ts:133-138: in a tab nobody is in, the answer to a question asked before
\* changes nothing: neither what it shows nor who is remembered.
THEOREM NadieVuelveASuPestana ==
    SpecSesion => [][\A t \in Pestanas : Comprobar(t) /\ Usuario(t) = Nadie
                        => UNCHANGED <<recordado, pestana, reserva>>]_varsSesion
<1>1. SesionEnOrden =>
          [\A t \in Pestanas : Comprobar(t) /\ Usuario(t) = Nadie
              => UNCHANGED <<recordado, pestana, reserva>>]_varsSesion
  <2>1. SUFFICES ASSUME SesionEnOrden, NEW t \in Pestanas, Comprobar(t), Usuario(t) = Nadie
                 PROVE  UNCHANGED <<recordado, pestana, reserva>>
    OBVIOUS
  <2>2. ~comprobacion[t].vigente
    BY <2>1, AntesSesion DEF Comprobar, PestanaBien, Comprueba
  <2>. QED
    BY <2>1, <2>2 DEF Comprobar
<1>. QED
  BY <1>1, SesionInvariante, PTL

\* auth-store.ts:87-103: a tab that shows somebody else than is remembered is about to
\* hear of it, whatever order the answers and the notices of the other tabs come in.
THEOREM QuienSeQuedaAtrasSeEntera ==
    SpecSesion => [](\A t \in Pestanas :
                        Cargada(t) /\ Usuario(t) # recordado => t \in avisadas)
<1>1. SesionEnOrden =>
          \A t \in Pestanas : Cargada(t) /\ Usuario(t) # recordado => t \in avisadas
  BY AntesSesion DEF PestanaBien
<1>. QED
  BY <1>1, SesionInvariante, PTL

\* borrador.ts:13-14, ElBorradorEsSuyo: in a tab that has not changed of account by
\* itself, what is written in the booking page is of the account the tab shows.
THEOREM SiempreElBorradorEsSuyo == SpecSesion => []ElBorradorEsSuyo
<1>1. SesionEnOrden => ElBorradorEsSuyo
  BY AntesSesion DEF PestanaPropia, ElBorradorEsSuyo
<1>. QED
  BY <1>1, SesionInvariante, PTL

-----------------------------------------------------------------------------
(* The screens that list things.                                           *)

\* The types of what the screens keep.
Ganchos == {"lista", "metricas"}
EstadosGancho == {"cargando", "listo", "error", "sesion"}
Cargas == [gancho : Ganchos, refresco : BOOLEAN, etapa : {"va", "leida"}, datos : SUBSET Cosas,
           version : Nat, vigente : BOOLEAN]
Hechos == [lista : Nat, metricas : Nat, perdida : BOOLEAN]
Acciones == [op : {"alternar", "crear", "cambiar", "quitar", "cerrar"}, cosa : Cosas,
             etapa : {"va", "sin cobro", "hecha"}, version : Nat, montada : BOOLEAN,
             donde : Visitadas]
Datos == [estado : EstadosGancho, datos : SUBSET Cosas, version : Nat]

\* The types, and no version is of a change yet to be made.
VersionesBien ==
    /\ servidor \in [hay : [Visitadas -> SUBSET Cosas], version : Nat]
    /\ seccion \in Visitadas
    /\ lista \in Datos /\ metricas \in Datos
    /\ cargas \subseteq Cargas /\ acciones \subseteq Acciones
    /\ hecho \in Hechos
    /\ hecho.lista <= servidor.version /\ hecho.metricas <= servidor.version
    /\ \A a \in acciones : a.etapa = "hecha" => a.version <= servidor.version
    /\ veces \in [visitas : Nat, pulsaciones : Nat, ajenos : Nat, fallos : Nat]

\* An answer that counts was read after the last change known to be done; the figures
\* are never asked for as a refreshing.
RespuestasAlDia ==
    \A c \in cargas :
        /\ c.gancho = "metricas" => c.refresco = FALSE
        /\ c.vigente /\ c.etapa = "leida" => c.version >= hecho[c.gancho]

\* The inductive invariant of the screens.
PantallasEnOrden == VersionesBien /\ RespuestasAlDia /\ LoHechoSeVe

\* What is asked for now is all that counts of its list.
LEMMA LanzarBien ==
    ASSUME NEW C \in SUBSET Cargas, NEW g \in Ganchos, NEW r \in BOOLEAN
    PROVE  /\ Lanzar(g, r, C) \subseteq Cargas
           /\ \E c \in Lanzar(g, r, C) : c.gancho = g /\ c.vigente
           /\ \A c \in Lanzar(g, r, C) :
                 \/ c.gancho # g /\ c \in C
                 \/ c.gancho = g /\ ~c.vigente /\ (\E d \in C : d.gancho = g /\ d.refresco = c.refresco)
                 \/ c.gancho = g /\ c.etapa = "va" /\ c.refresco = r
           /\ \A c \in C : c.gancho # g => c \in Lanzar(g, r, C)
<1>. DEFINE n == Carga(g, r, "va", {}, 0, TRUE)
            F(c) == IF c.gancho = g THEN [c EXCEPT !.vigente = FALSE] ELSE c
<1>1. /\ n \in Cargas /\ n.gancho = g /\ n.vigente = TRUE /\ n.etapa = "va" /\ n.refresco = r
  BY DEF Carga, Cargas
<1>2. ASSUME NEW c \in C, c.gancho = g
      PROVE  F(c) \in Cargas /\ F(c).gancho = g /\ F(c).vigente = FALSE /\ F(c).refresco = c.refresco
  BY <1>2 DEF Cargas
<1>3. ASSUME NEW c \in C, c.gancho # g PROVE F(c) = c
  BY <1>3
<1>4. Lanzar(g, r, C) = {F(c) : c \in C} \cup {n}
  BY DEF Lanzar
<1>. HIDE DEF n, F
<1>5. Lanzar(g, r, C) \subseteq Cargas
  BY <1>1, <1>2, <1>3, <1>4
<1>6. \E c \in Lanzar(g, r, C) : c.gancho = g /\ c.vigente
  BY <1>1, <1>4
<1>7. ASSUME NEW c \in Lanzar(g, r, C)
      PROVE  \/ c.gancho # g /\ c \in C
             \/ /\ c.gancho = g /\ ~c.vigente
                /\ \E d \in C : d.gancho = g /\ d.refresco = c.refresco
             \/ c.gancho = g /\ c.etapa = "va" /\ c.refresco = r
  <2>1. CASE c = n
    BY <1>1, <2>1
  <2>2. CASE \E d \in C : c = F(d)
    <3>1. PICK d \in C : c = F(d)
      BY <2>2
    <3>. QED
      BY <1>2, <1>3, <3>1
  <2>. QED
    BY <1>4, <2>1, <2>2
<1>8. \A c \in C : c.gancho # g => c \in Lanzar(g, r, C)
  BY <1>3, <1>4
<1>. QED
  BY <1>5, <1>6, <1>7, <1>8

\* At the beginning nothing has been read.
LEMMA IniciaPantallas == InitPantallas => PantallasEnOrden
<1>. SUFFICES ASSUME InitPantallas PROVE PantallasEnOrden
  OBVIOUS
<1>1. /\ lista = SinDatos /\ metricas = SinDatos /\ seccion \in Visitadas /\ acciones = {}
      /\ servidor = [hay |-> [s \in Visitadas |-> Cosas], version |-> 1]
      /\ hecho = [lista |-> 0, metricas |-> 0, perdida |-> FALSE]
      /\ cargas = Lanzar("lista", FALSE,
                      IF EnElPanel(seccion) THEN Lanzar("metricas", FALSE, {}) ELSE {})
  BY DEF InitPantallas
<1>2. ASSUME NEW C \in SUBSET Cargas, NEW g \in Ganchos,
             \A c \in C : c.refresco = FALSE /\ (c.vigente => c.etapa = "va")
      PROVE  /\ Lanzar(g, FALSE, C) \in SUBSET Cargas
             /\ \A c \in Lanzar(g, FALSE, C) : c.refresco = FALSE /\ (c.vigente => c.etapa = "va")
  <2>1. FALSE \in BOOLEAN
    OBVIOUS
  <2>. DEFINE D == Lanzar(g, FALSE, C)
  <2>2. /\ D \subseteq Cargas
        /\ \A c \in D :
              \/ c.gancho # g /\ c \in C
              \/ /\ c.gancho = g /\ ~c.vigente
                 /\ \E d \in C : d.gancho = g /\ d.refresco = c.refresco
              \/ c.gancho = g /\ c.etapa = "va" /\ c.refresco = FALSE
    BY <2>1, LanzarBien
  <2>. HIDE DEF D
  <2>3. ASSUME NEW c \in D PROVE c.refresco = FALSE /\ (c.vigente => c.etapa = "va")
    BY <1>2, <2>2
  <2>. QED
    BY <2>2, <2>3 DEF D
<1>3. /\ cargas \subseteq Cargas
      /\ \A c \in cargas : c.refresco = FALSE /\ (c.vigente => c.etapa = "va")
  <2>. DEFINE M == IF EnElPanel(seccion) THEN Lanzar("metricas", FALSE, {}) ELSE {}
  <2>1. M \in SUBSET Cargas /\ \A c \in M : c.refresco = FALSE /\ (c.vigente => c.etapa = "va")
    BY <1>2 DEF Ganchos
  <2>2. cargas = Lanzar("lista", FALSE, M)
    BY <1>1
  <2>. HIDE DEF M
  <2>. QED
    BY <1>2, <2>1, <2>2 DEF Ganchos
<1>4. VersionesBien
  <2>1. /\ servidor \in [hay : [Visitadas -> SUBSET Cosas], version : Nat]
        /\ servidor.version = 1 /\ hecho.lista = 0 /\ hecho.metricas = 0 /\ hecho \in Hechos
    BY <1>1 DEF Hechos
  <2>2. SinDatos \in Datos
    BY DEF SinDatos, Gancho, EstadosGancho, Datos
  <2>3. hecho.lista <= servidor.version /\ hecho.metricas <= servidor.version
    BY <2>1
  <2>4. veces \in [visitas : Nat, pulsaciones : Nat, ajenos : Nat, fallos : Nat]
    BY DEF InitPantallas
  <2>. QED
    BY <1>1, <1>3, <2>1, <2>2, <2>3, <2>4 DEF VersionesBien
<1>5. RespuestasAlDia
  BY <1>3 DEF RespuestasAlDia
<1>6. LoHechoSeVe
  BY <1>1 DEF LoHechoSeVe, SinDatos, Gancho
<1>. QED
  BY <1>4, <1>5, <1>6 DEF PantallasEnOrden

\* What neither asks, nor reads, nor changes what there is, nor is told done.
LEMMA PulsarPantallas ==
    ASSUME PantallasEnOrden,
           UNCHANGED <<servidor, seccion, lista, metricas, cargas, hecho>>,
           acciones' \subseteq Acciones,
           \A a \in acciones' : a.etapa = "hecha" => a \in acciones,
           veces' \in [visitas : Nat, pulsaciones : Nat, ajenos : Nat, fallos : Nat]
    PROVE  PantallasEnOrden'
<1>1. VersionesBien'
  BY DEF PantallasEnOrden, VersionesBien
<1>2. RespuestasAlDia' /\ LoHechoSeVe'
  BY DEF PantallasEnOrden, RespuestasAlDia, LoHechoSeVe, Pendiente
<1>. QED
  BY <1>1, <1>2 DEF PantallasEnOrden

\* What is read is of the version there is.
LEMMA LeerCargaPantallas ==
    ASSUME PantallasEnOrden, NEW c \in cargas, LeerCarga(c) PROVE PantallasEnOrden'
<1>. DEFINE n == Carga(c.gancho, c.refresco, "leida",
                       IF c.gancho = "lista" THEN servidor.hay[seccion] ELSE {},
                       servidor.version, c.vigente)
<1>1. /\ VersionesBien /\ RespuestasAlDia /\ LoHechoSeVe
      /\ cargas' = (cargas \ {c}) \cup {n}
      /\ UNCHANGED <<servidor, seccion, lista, metricas, acciones, hecho, veces>>
  BY DEF LeerCarga, PantallasEnOrden
<1>2. /\ n \in Cargas /\ n.gancho = c.gancho /\ n.refresco = c.refresco
      /\ n.vigente = c.vigente /\ n.version = servidor.version
  <2>1. c \in Cargas /\ servidor.version \in Nat /\ servidor.hay[seccion] \subseteq Cosas
    BY <1>1 DEF VersionesBien
  <2>. QED
    BY <2>1 DEF Carga, Cargas
<1>3. servidor.version >= hecho[c.gancho] /\ hecho[c.gancho] \in Nat
  BY <1>1 DEF VersionesBien, Cargas, Ganchos, Hechos
<1>. HIDE DEF n
<1>4. VersionesBien'
  BY <1>1, <1>2 DEF VersionesBien
<1>5. RespuestasAlDia'
  <2>1. n.gancho = "metricas" => n.refresco = FALSE
    BY <1>1, <1>2 DEF RespuestasAlDia
  <2>2. n.version >= hecho[n.gancho]
    BY <1>2, <1>3
  <2>. QED
    BY <1>1, <2>1, <2>2 DEF RespuestasAlDia
<1>6. LoHechoSeVe'
  <2>1. \A g : Pendiente(g) => Pendiente(g)'
    BY <1>1, <1>2 DEF Pendiente
  <2>. QED
    BY <1>1, <2>1 DEF LoHechoSeVe
<1>. QED
  BY <1>4, <1>5, <1>6 DEF PantallasEnOrden

\* What is not asked for now may go without anything changing.
LEMMA YaNoCuenta ==
    ASSUME PantallasEnOrden, NEW c \in cargas, c.vigente = FALSE, cargas' = cargas \ {c},
           UNCHANGED <<servidor, seccion, lista, metricas, acciones, hecho>>,
           veces' \in [visitas : Nat, pulsaciones : Nat, ajenos : Nat, fallos : Nat]
    PROVE  PantallasEnOrden'
<1>1. VersionesBien'
  BY DEF PantallasEnOrden, VersionesBien
<1>2. RespuestasAlDia'
  BY DEF PantallasEnOrden, RespuestasAlDia
<1>3. \A g : Pendiente(g) => Pendiente(g)'
  BY DEF Pendiente
<1>4. LoHechoSeVe'
  BY <1>3 DEF PantallasEnOrden, LoHechoSeVe
<1>. QED
  BY <1>1, <1>2, <1>4 DEF PantallasEnOrden

\* An answer that counts is shown, and is of the last change done.
LEMMA LlegaLaCargaPantallas ==
    ASSUME PantallasEnOrden, NEW c \in cargas, LlegaLaCarga(c) PROVE PantallasEnOrden'
<1>1. /\ VersionesBien /\ RespuestasAlDia /\ LoHechoSeVe
      /\ c.etapa = "leida" /\ cargas' = cargas \ {c} /\ c \in Cargas
      /\ UNCHANGED <<servidor, seccion, acciones, veces>>
  BY DEF LlegaLaCarga, PantallasEnOrden, VersionesBien
<1>2. CASE c.vigente = FALSE
  BY <1>1, <1>2, YaNoCuenta DEF LlegaLaCarga, VersionesBien
<1>3. CASE c.vigente = TRUE
  <2>. DEFINE n == Gancho("listo", c.datos, c.version)
              b == hecho.perdida /\ c.gancho # "lista"
  <2>1. /\ n \in Datos /\ n.version = c.version
        /\ c.version >= hecho[c.gancho] /\ c.gancho \in Ganchos
    BY <1>1, <1>3 DEF Gancho, Datos, EstadosGancho, Cargas, RespuestasAlDia
  <2>2. /\ \/ c.gancho = "lista" /\ lista' = n /\ metricas' = metricas
           \/ c.gancho = "metricas" /\ metricas' = n /\ lista' = lista
        /\ hecho' = [hecho EXCEPT !.perdida = b]
    BY <1>3, <2>1 DEF LlegaLaCarga, Ganchos
  <2>3. b \in BOOLEAN /\ (c.gancho = "metricas" /\ ~b => ~hecho.perdida)
    OBVIOUS
  <2>. HIDE DEF n, b
  <2>4. /\ hecho' \in Hechos /\ hecho'.perdida = b
        /\ hecho'.lista = hecho.lista /\ hecho'.metricas = hecho.metricas
    BY <1>1, <2>2, <2>3 DEF VersionesBien, Hechos
  <2>5. VersionesBien'
    BY <1>1, <2>1, <2>2, <2>4 DEF VersionesBien
  <2>6. RespuestasAlDia'
    <3>1. \A d \in cargas : hecho'[d.gancho] = hecho[d.gancho]
      BY <1>1, <2>4 DEF VersionesBien, Cargas, Ganchos
    <3>. QED
      BY <1>1, <3>1 DEF RespuestasAlDia
  <2>7. \A g : g # c.gancho => (Pendiente(g) => Pendiente(g)')
    BY <1>1 DEF Pendiente
  <2>8. LoHechoSeVe'
    BY <1>1, <2>1, <2>2, <2>3, <2>4, <2>7 DEF LoHechoSeVe
  <2>. QED
    BY <2>5, <2>6, <2>8 DEF PantallasEnOrden
<1>. QED
  BY <1>1, <1>2, <1>3 DEF Cargas

\* An answer that does not come says so, or leaves what there was.
LEMMA NoLlegaLaCargaPantallas ==
    ASSUME PantallasEnOrden, NEW c \in cargas, NoLlegaLaCarga(c) PROVE PantallasEnOrden'
<1>1. /\ VersionesBien /\ RespuestasAlDia /\ LoHechoSeVe
      /\ cargas' = cargas \ {c} /\ c \in Cargas
      /\ UNCHANGED <<servidor, seccion, acciones>>
  BY DEF NoLlegaLaCarga, PantallasEnOrden, VersionesBien
<1>2. veces' \in [visitas : Nat, pulsaciones : Nat, ajenos : Nat, fallos : Nat]
  BY <1>1 DEF NoLlegaLaCarga, VersionesBien
<1>3. CASE c.vigente = FALSE
  BY <1>1, <1>2, <1>3, YaNoCuenta DEF NoLlegaLaCarga
<1>4. CASE c.vigente = TRUE
  <2>1. \A g : g # c.gancho => (Pendiente(g) => Pendiente(g)')
    BY <1>1 DEF Pendiente
  <2>2. c.gancho \in Ganchos
    BY <1>1 DEF Cargas
  <2>3. CASE c.refresco = TRUE
    <3>1. /\ hecho' = [hecho EXCEPT !.perdida = TRUE] /\ UNCHANGED <<lista, metricas>>
          /\ c.gancho = "lista"
      BY <1>1, <1>4, <2>2, <2>3 DEF NoLlegaLaCarga, RespuestasAlDia, Ganchos
    <3>2. /\ hecho' \in Hechos /\ hecho'.perdida = TRUE
          /\ hecho'.lista = hecho.lista /\ hecho'.metricas = hecho.metricas
      BY <1>1, <3>1 DEF VersionesBien, Hechos
    <3>3. VersionesBien'
      BY <1>1, <1>2, <3>1, <3>2 DEF VersionesBien
    <3>4. \A d \in cargas : hecho'[d.gancho] = hecho[d.gancho]
      BY <1>1, <3>2 DEF VersionesBien, Cargas, Ganchos
    <3>5. RespuestasAlDia'
      BY <1>1, <3>4 DEF RespuestasAlDia
    <3>6. LoHechoSeVe'
      BY <1>1, <2>1, <3>1, <3>2 DEF LoHechoSeVe
    <3>. QED
      BY <3>3, <3>5, <3>6 DEF PantallasEnOrden
  <2>4. CASE c.refresco = FALSE
    <3>1. PICK e \in {"error", "sesion"} :
            IF c.gancho = "lista"
            THEN lista' = [lista EXCEPT !.estado = e] /\ UNCHANGED metricas
            ELSE metricas' = [metricas EXCEPT !.estado = e] /\ UNCHANGED lista
      BY <1>4, <2>4 DEF NoLlegaLaCarga
    <3>2. hecho' = hecho
      BY <1>4, <2>4 DEF NoLlegaLaCarga
    <3>3. /\ lista' \in Datos /\ metricas' \in Datos
          /\ c.gancho = "lista" => lista'.estado = e /\ metricas' = metricas
          /\ c.gancho # "lista" => metricas'.estado = e /\ lista' = lista
      BY <1>1, <3>1 DEF VersionesBien, Datos, EstadosGancho
    <3>4. VersionesBien'
      BY <1>1, <1>2, <3>2, <3>3 DEF VersionesBien
    <3>5. RespuestasAlDia'
      BY <1>1, <3>2 DEF RespuestasAlDia
    <3>6. LoHechoSeVe'
      BY <1>1, <2>1, <2>2, <3>2, <3>3 DEF LoHechoSeVe, Ganchos
    <3>. QED
      BY <3>4, <3>5, <3>6 DEF PantallasEnOrden
  <2>. QED
    BY <1>1, <2>3, <2>4 DEF Cargas
<1>. QED
  BY <1>1, <1>3, <1>4 DEF Cargas

\* What is asked for now counts, and nothing else of its list: it is yet to be read.
LEMMA LanzarPantallas ==
    ASSUME PantallasEnOrden, NEW C \in SUBSET Cargas, NEW g \in Ganchos, NEW r \in BOOLEAN,
           \A c \in C : /\ c.gancho = "metricas" => c.refresco = FALSE
                        /\ c.gancho # g /\ c.vigente /\ c.etapa = "leida" =>
                              c.version >= hecho'[c.gancho],
           g = "metricas" => r = FALSE,
           cargas' = Lanzar(g, r, C)
    PROVE  /\ cargas' \subseteq Cargas
           /\ Pendiente(g)'
           /\ RespuestasAlDia'
<1>1. /\ cargas' \subseteq Cargas
      /\ \E c \in cargas' : c.gancho = g /\ c.vigente
      /\ \A c \in cargas' :
            \/ c.gancho # g /\ c \in C
            \/ c.gancho = g /\ ~c.vigente /\ (\E d \in C : d.gancho = g /\ d.refresco = c.refresco)
            \/ c.gancho = g /\ c.etapa = "va" /\ c.refresco = r
  BY LanzarBien
<1>2. ASSUME NEW c \in cargas'
      PROVE  /\ c.gancho = "metricas" => c.refresco = FALSE
             /\ c.vigente /\ c.etapa = "leida" => c.version >= hecho'[c.gancho]
  BY <1>1, <1>2
<1>. QED
  BY <1>1, <1>2 DEF Pendiente, RespuestasAlDia

\* Asking again by hand, or for another page, leaves what is done as it was.
LEMMA VaciarPantallas ==
    ASSUME PantallasEnOrden, lista' = Vacia(lista), cargas' = Lanzar("lista", FALSE, cargas),
           UNCHANGED <<servidor, seccion, metricas, acciones, hecho>>,
           veces' \in [visitas : Nat, pulsaciones : Nat, ajenos : Nat, fallos : Nat]
    PROVE  PantallasEnOrden'
<1>1. VersionesBien /\ RespuestasAlDia /\ LoHechoSeVe
  BY DEF PantallasEnOrden
<1>2. cargas \in SUBSET Cargas /\ "lista" \in Ganchos /\ FALSE \in BOOLEAN
  BY <1>1 DEF VersionesBien, Ganchos
<1>3. cargas' \subseteq Cargas /\ RespuestasAlDia'
  <2>1. \A c \in cargas : /\ c.gancho = "metricas" => c.refresco = FALSE
                          /\ c.vigente /\ c.etapa = "leida" => c.version >= hecho'[c.gancho]
    BY <1>1 DEF RespuestasAlDia
  <2>. QED
    BY <1>2, <2>1, LanzarPantallas
<1>4. lista' \in Datos /\ lista'.estado = "cargando"
  BY <1>1 DEF VersionesBien, Vacia, Datos, EstadosGancho
<1>5. VersionesBien'
  BY <1>1, <1>3, <1>4 DEF VersionesBien
<1>6. Pendiente("metricas") => Pendiente("metricas")'
  BY <1>2, LanzarBien DEF Pendiente
<1>7. LoHechoSeVe'
  BY <1>1, <1>4, <1>6 DEF LoHechoSeVe
<1>. QED
  BY <1>3, <1>5, <1>7 DEF PantallasEnOrden

\* Another screen asks for its own list.
LEMMA IrASeccionPantallas ==
    ASSUME PantallasEnOrden, NEW s \in Visitadas, IrASeccion(s) PROVE PantallasEnOrden'
<1>. DEFINE C == {c \in cargas : c.gancho # "lista"}
<1>1. /\ VersionesBien /\ RespuestasAlDia /\ LoHechoSeVe
      /\ seccion' = s /\ lista' = SinDatos /\ cargas' = Lanzar("lista", FALSE, C)
      /\ acciones' = {[a EXCEPT !.montada = FALSE] : a \in acciones}
      /\ hecho' = [hecho EXCEPT !.lista = 0, !.perdida = FALSE]
      /\ UNCHANGED <<servidor, metricas>>
  BY DEF IrASeccion, PantallasEnOrden
<1>2. veces' \in [visitas : Nat, pulsaciones : Nat, ajenos : Nat, fallos : Nat]
  BY <1>1 DEF IrASeccion, VersionesBien
<1>3. C \in SUBSET Cargas /\ "lista" \in Ganchos /\ FALSE \in BOOLEAN
  BY <1>1 DEF VersionesBien, Ganchos
<1>4. /\ hecho' \in Hechos /\ hecho'.lista = 0 /\ hecho'.metricas = hecho.metricas
      /\ servidor.version \in Nat
  BY <1>1 DEF VersionesBien, Hechos
<1>5. cargas' \subseteq Cargas /\ RespuestasAlDia'
  <2>1. ASSUME NEW c \in C
        PROVE  /\ c.gancho = "metricas" => c.refresco = FALSE
               /\ c.vigente /\ c.etapa = "leida" => c.version >= hecho'[c.gancho]
    <3>1. c \in cargas /\ c.gancho = "metricas"
      BY <1>3 DEF Cargas, Ganchos
    <3>. QED
      BY <1>1, <1>4, <3>1 DEF RespuestasAlDia
  <2>. HIDE DEF C
  <2>. QED
    BY <1>1, <1>3, <2>1, LanzarPantallas
<1>6. SinDatos \in Datos /\ SinDatos.estado = "cargando"
  BY DEF SinDatos, Gancho, Datos, EstadosGancho
<1>7. /\ acciones' \subseteq Acciones
      /\ \A a \in acciones' : a.etapa = "hecha" => a.version <= servidor.version
  <2>1. ASSUME NEW a \in acciones
        PROVE  /\ [a EXCEPT !.montada = FALSE] \in Acciones
               /\ [a EXCEPT !.montada = FALSE].etapa = "hecha" =>
                    [a EXCEPT !.montada = FALSE].version <= servidor.version
    BY <1>1 DEF VersionesBien, Acciones
  <2>. QED
    BY <1>1, <2>1
<1>8. VersionesBien'
  <2>1. hecho'.lista <= servidor.version
    BY <1>4
  <2>. QED
    BY <1>1, <1>2, <1>4, <1>5, <1>6, <1>7, <2>1 DEF VersionesBien
<1>9. Pendiente("metricas") => Pendiente("metricas")'
  <2>1. Pendiente("metricas") => \E c \in C : c.gancho = "metricas" /\ c.vigente
    BY DEF Pendiente
  <2>. HIDE DEF C
  <2>. QED
    BY <1>1, <1>3, <2>1, LanzarBien DEF Pendiente
<1>10. LoHechoSeVe'
  BY <1>1, <1>4, <1>6, <1>9 DEF LoHechoSeVe
<1>. QED
  BY <1>5, <1>8, <1>10 DEF PantallasEnOrden

\* What there is changes, and no one is told of it yet.
LEMMA CambiaPantallas ==
    ASSUME PantallasEnOrden,
           UNCHANGED <<seccion, lista, metricas, cargas, hecho>>,
           servidor' \in [hay : [Visitadas -> SUBSET Cosas], version : Nat],
           servidor'.version = servidor.version + 1,
           acciones' \subseteq Acciones,
           \A a \in acciones' : a.etapa = "hecha" => a.version <= servidor.version + 1,
           veces' \in [visitas : Nat, pulsaciones : Nat, ajenos : Nat, fallos : Nat]
    PROVE  PantallasEnOrden'
<1>1. VersionesBien'
  <2>1. /\ hecho.lista \in Nat /\ hecho.metricas \in Nat /\ servidor.version \in Nat
        /\ hecho.lista <= servidor.version /\ hecho.metricas <= servidor.version
    BY DEF PantallasEnOrden, VersionesBien, Hechos
  <2>2. hecho.lista <= servidor'.version /\ hecho.metricas <= servidor'.version
    BY <2>1
  <2>. QED
    BY <2>2 DEF PantallasEnOrden, VersionesBien
<1>2. RespuestasAlDia' /\ LoHechoSeVe'
  BY DEF PantallasEnOrden, RespuestasAlDia, LoHechoSeVe, Pendiente
<1>. QED
  BY <1>1, <1>2 DEF PantallasEnOrden

\* The API makes the change, and the version is another.
LEMMA HacerAccionPantallas ==
    ASSUME PantallasEnOrden, NEW a \in acciones, HacerAccion(a) PROVE PantallasEnOrden'
<1>. DEFINE n == Accion(a.op, a.cosa, "hecha", servidor.version + 1, a.montada, a.donde)
            H == [servidor.hay EXCEPT ![a.donde] =
                     IF Queda(a) THEN @ \cup {a.cosa} ELSE @ \ {a.cosa}]
<1>1. /\ VersionesBien
      /\ servidor' = [hay |-> H, version |-> servidor.version + 1]
      /\ acciones' = (acciones \ {a}) \cup {n}
      /\ UNCHANGED <<seccion, lista, metricas, cargas, hecho, veces>>
  BY DEF HacerAccion, PantallasEnOrden
<1>2. a \in Acciones /\ servidor.version \in Nat /\ servidor.hay \in [Visitadas -> SUBSET Cosas]
  BY <1>1 DEF VersionesBien
<1>3. n \in Acciones /\ n.version = servidor.version + 1
  <2>1. servidor.version + 1 \in Nat
    BY <1>2
  <2>. QED
    BY <1>2, <2>1 DEF Accion, Acciones
<1>4. H \in [Visitadas -> SUBSET Cosas]
  BY <1>2 DEF Acciones
<1>. HIDE DEF n, H
<1>5. /\ servidor' \in [hay : [Visitadas -> SUBSET Cosas], version : Nat]
      /\ servidor'.version = servidor.version + 1
  BY <1>1, <1>2, <1>4
<1>6. /\ acciones' \subseteq Acciones
      /\ \A b \in acciones' : b.etapa = "hecha" => b.version <= servidor.version + 1
  <2>1. ASSUME NEW b \in acciones, b.etapa = "hecha" PROVE b.version <= servidor.version + 1
    <3>1. b.version \in Nat /\ b.version <= servidor.version
      BY <1>1, <2>1 DEF VersionesBien, Acciones
    <3>. QED
      BY <1>2, <3>1
  <2>. QED
    BY <1>1, <1>2, <1>3, <2>1 DEF VersionesBien
<1>7. veces' \in [visitas : Nat, pulsaciones : Nat, ajenos : Nat, fallos : Nat]
  BY <1>1 DEF VersionesBien
<1>. QED
  BY <1>1, <1>5, <1>6, <1>7, CambiaPantallas

\* Somebody else makes a change.
LEMMA CambioAjenoPantallas ==
    ASSUME PantallasEnOrden, NEW x \in Cosas, CambioAjeno(x) PROVE PantallasEnOrden'
<1>. DEFINE H == [servidor.hay EXCEPT ![seccion] =
                     IF x \in @ THEN @ \ {x} ELSE @ \cup {x}]
<1>1. /\ VersionesBien
      /\ servidor' = [hay |-> H, version |-> servidor.version + 1]
      /\ UNCHANGED <<seccion, lista, metricas, cargas, acciones, hecho>>
  BY DEF CambioAjeno, PantallasEnOrden
<1>2. servidor.version \in Nat /\ servidor.hay \in [Visitadas -> SUBSET Cosas]
  BY <1>1 DEF VersionesBien
<1>3. veces' \in [visitas : Nat, pulsaciones : Nat, ajenos : Nat, fallos : Nat]
  BY <1>1 DEF CambioAjeno, VersionesBien
<1>4. H \in [Visitadas -> SUBSET Cosas]
  BY <1>2
<1>. HIDE DEF H
<1>5. /\ servidor' \in [hay : [Visitadas -> SUBSET Cosas], version : Nat]
      /\ servidor'.version = servidor.version + 1
  BY <1>1, <1>2, <1>4
<1>6. ASSUME NEW b \in acciones', b.etapa = "hecha" PROVE b.version <= servidor.version + 1
  <2>1. b.version \in Nat /\ b.version <= servidor.version
    BY <1>1, <1>6 DEF VersionesBien, Acciones
  <2>. QED
    BY <1>2, <2>1
<1>7. acciones' \subseteq Acciones
  BY <1>1 DEF VersionesBien
<1>. QED
  BY <1>1, <1>3, <1>5, <1>6, <1>7, CambiaPantallas

\* Whoever is told that something is done asks again for what shows it: what was asked
\* for before no longer counts.
LEMMA ContestadaPantallas ==
    ASSUME PantallasEnOrden, NEW a \in acciones, Contestada(a) PROVE PantallasEnOrden'
<1>. DEFINE s == Secciones[a.donde]
            C == IF s.avisa THEN Lanzar("metricas", FALSE, cargas) ELSE cargas
            Vuelve == a.montada /\ s.recarga \in {"reintentar", "refrescar"}
            r == (s.recarga = "refrescar")
<1>1. /\ VersionesBien /\ RespuestasAlDia /\ LoHechoSeVe
      /\ a.etapa = "hecha" /\ acciones' = acciones \ {a}
      /\ lista' = IF a.montada /\ s.recarga = "reintentar" THEN Vacia(lista) ELSE lista
      /\ metricas' = IF s.avisa THEN Vacia(metricas) ELSE metricas
      /\ cargas' = IF Vuelve THEN Lanzar("lista", r, C) ELSE C
      /\ hecho' = [hecho EXCEPT !.lista = IF Vuelve THEN a.version ELSE @,
                                !.metricas = IF s.avisa THEN a.version ELSE @]
      /\ UNCHANGED <<servidor, seccion, veces>>
  BY DEF Contestada, PantallasEnOrden
<1>2. a.version \in Nat /\ a.version <= servidor.version
  BY <1>1 DEF VersionesBien, Acciones
<1>3. /\ hecho' \in Hechos
      /\ hecho'.lista = IF Vuelve THEN a.version ELSE hecho.lista
      /\ hecho'.metricas = IF s.avisa THEN a.version ELSE hecho.metricas
      /\ hecho'.perdida = hecho.perdida
  BY <1>1, <1>2 DEF VersionesBien, Hechos
<1>4. /\ lista' \in Datos /\ metricas' \in Datos
      /\ lista' = lista \/ (Vuelve /\ lista'.estado = "cargando")
      /\ IF s.avisa THEN metricas'.estado = "cargando" ELSE metricas' = metricas
  BY <1>1 DEF VersionesBien, Vacia, Datos, EstadosGancho
<1>5. /\ cargas \in SUBSET Cargas /\ {"lista", "metricas"} = Ganchos /\ FALSE \in BOOLEAN
      /\ r \in BOOLEAN
  BY <1>1 DEF VersionesBien, Ganchos
<1>6. /\ C \in SUBSET Cargas
      /\ \A c \in C : /\ c.gancho = "metricas" => c.refresco = FALSE
                      /\ c.gancho = "metricas" /\ c.vigente /\ c.etapa = "leida" =>
                            c.version >= hecho'.metricas
                      /\ c.gancho = "lista" => c \in cargas
      /\ \A c \in cargas : c.gancho = "lista" => c \in C
      /\ IF s.avisa THEN \E c \in C : c.gancho = "metricas" /\ c.vigente ELSE C = cargas
  <2>1. CASE s.avisa
    <3>1. C = Lanzar("metricas", FALSE, cargas)
      BY <2>1
    <3>2. \A c \in cargas : c.gancho = "metricas" => c.refresco = FALSE
      BY <1>1 DEF RespuestasAlDia
    <3>. HIDE DEF C
    <3>3. /\ C \subseteq Cargas
          /\ \E c \in C : c.gancho = "metricas" /\ c.vigente
          /\ \A c \in C :
                \/ c.gancho # "metricas" /\ c \in cargas
                \/ /\ c.gancho = "metricas" /\ ~c.vigente
                   /\ \E d \in cargas : d.gancho = "metricas" /\ d.refresco = c.refresco
                \/ c.gancho = "metricas" /\ c.etapa = "va" /\ c.refresco = FALSE
          /\ \A c \in cargas : c.gancho # "metricas" => c \in C
      BY <1>5, <3>1, LanzarBien
    <3>4. ASSUME NEW c \in C
          PROVE  /\ c.gancho = "metricas" => c.refresco = FALSE
                 /\ c.gancho = "metricas" /\ c.vigente => c.etapa = "va"
                 /\ c.gancho = "lista" => c \in cargas
      BY <3>2, <3>3
    <3>. HIDE DEF s
    <3>. QED
      BY <2>1, <3>3, <3>4
  <2>2. CASE ~s.avisa
    <3>1. C = cargas /\ hecho'.metricas = hecho.metricas
      BY <1>3, <2>2
    <3>2. \A c \in cargas :
             /\ c.gancho = "metricas" => c.refresco = FALSE
             /\ c.gancho = "metricas" /\ c.vigente /\ c.etapa = "leida" =>
                   c.version >= hecho.metricas
      BY <1>1 DEF RespuestasAlDia
    <3>. HIDE DEF C
    <3>. QED
      BY <1>5, <2>2, <3>1, <3>2
  <2>. QED
    BY <2>1, <2>2
<1>. HIDE DEF C, r, Vuelve, s
<1>7. /\ cargas' \subseteq Cargas /\ RespuestasAlDia'
      /\ Vuelve => Pendiente("lista")'
      /\ ~Vuelve => (Pendiente("lista") => Pendiente("lista")')
      /\ IF s.avisa THEN Pendiente("metricas")'
         ELSE (Pendiente("metricas") => Pendiente("metricas")')
  <2>1. CASE Vuelve
    <3>1. cargas' = Lanzar("lista", r, C)
      BY <1>1, <2>1
    <3>2. \A c \in C : /\ c.gancho = "metricas" => c.refresco = FALSE
                       /\ c.gancho # "lista" /\ c.vigente /\ c.etapa = "leida" =>
                             c.version >= hecho'[c.gancho]
      BY <1>5, <1>6 DEF Cargas
    <3>3. cargas' \subseteq Cargas /\ RespuestasAlDia' /\ Pendiente("lista")'
      BY <1>5, <1>6, <3>1, <3>2, LanzarPantallas
    <3>4. \A c \in C : c.gancho # "lista" => c \in cargas'
      BY <1>5, <1>6, <3>1, LanzarBien
    <3>. QED
      BY <1>6, <2>1, <3>3, <3>4 DEF Pendiente
  <2>2. CASE ~Vuelve
    <3>1. cargas' = C /\ hecho'.lista = hecho.lista
      BY <1>1, <1>3, <2>2
    <3>2. RespuestasAlDia'
      BY <1>1, <1>5, <1>6, <3>1 DEF RespuestasAlDia, Cargas
    <3>. QED
      BY <1>6, <2>2, <3>1, <3>2 DEF Pendiente
  <2>. QED
    BY <2>1, <2>2
<1>8. VersionesBien'
  <2>1. hecho'.lista <= servidor.version /\ hecho'.metricas <= servidor.version
    BY <1>1, <1>2, <1>3 DEF VersionesBien
  <2>. QED
    BY <1>1, <1>3, <1>4, <1>7, <2>1 DEF VersionesBien
<1>9. LoHechoSeVe'
  BY <1>1, <1>3, <1>4, <1>7 DEF LoHechoSeVe
<1>. QED
  BY <1>7, <1>8, <1>9 DEF PantallasEnOrden

\* Every step of the screens.
LEMMA NextPantallasEnOrden ==
    ASSUME PantallasEnOrden, [NextPantallas]_varsPantallas PROVE PantallasEnOrden'
<1>. DEFINE Contadas == [visitas : Nat, pulsaciones : Nat, ajenos : Nat, fallos : Nat]
<1>0. VersionesBien /\ veces \in Contadas
  BY DEF PantallasEnOrden, VersionesBien
<1>1. CASE ReintentarCarga \/ IrAPagina
  <2>1. veces' = veces \/ veces' = [veces EXCEPT !.visitas = @ + 1]
    BY <1>1 DEF ReintentarCarga, IrAPagina
  <2>2. veces' \in Contadas
    BY <1>0, <2>1
  <2>. QED
    BY <1>1, <2>2, VaciarPantallas DEF ReintentarCarga, IrAPagina
<1>2. CASE \E s \in Visitadas : IrASeccion(s)
  BY <1>2, IrASeccionPantallas
<1>3. CASE \E x \in Cosas : CambioAjeno(x)
  BY <1>3, CambioAjenoPantallas
<1>4. ASSUME NEW op \in {"alternar", "crear", "cambiar", "quitar", "cerrar"}, NEW x \in Cosas,
             Pulsar(op, x)
      PROVE  PantallasEnOrden'
  <2>. DEFINE n == Accion(op, x, "va", veces.pulsaciones, TRUE, seccion)
  <2>1. n \in Acciones /\ n.etapa = "va"
    BY <1>0 DEF Accion, Acciones, VersionesBien
  <2>2. veces' \in Contadas
    BY <1>0, <1>4 DEF Pulsar
  <2>3. /\ acciones' = acciones \cup {n}
        /\ UNCHANGED <<servidor, seccion, lista, metricas, cargas, hecho>>
    BY <1>4 DEF Pulsar
  <2>. HIDE DEF n
  <2>4. acciones' \subseteq Acciones /\ \A a \in acciones' : a.etapa = "hecha" => a \in acciones
    BY <1>0, <2>1, <2>3 DEF VersionesBien
  <2>. QED
    BY <2>2, <2>3, <2>4, PulsarPantallas
<1>5. CASE \E c \in cargas : LeerCarga(c) \/ LlegaLaCarga(c) \/ NoLlegaLaCarga(c)
  BY <1>5, LeerCargaPantallas, LlegaLaCargaPantallas, NoLlegaLaCargaPantallas
<1>6. ASSUME NEW a \in acciones, PreguntarSinCobro(a) \/ Fallida(a) PROVE PantallasEnOrden'
  <2>. DEFINE n == [a EXCEPT !.etapa = "sin cobro"]
  <2>1. n \in Acciones /\ n.etapa = "sin cobro"
    BY <1>0 DEF Acciones, VersionesBien
  <2>2. veces' \in Contadas
    <3>1. \/ veces' = veces
          \/ \E k \in {0, 1} : veces' = [veces EXCEPT !.fallos = @ + k]
      BY <1>6 DEF PreguntarSinCobro, Fallida
    <3>. QED
      BY <1>0, <3>1
  <2>3. /\ acciones' = acciones \ {a} \/ acciones' = (acciones \ {a}) \cup {n}
        /\ UNCHANGED <<servidor, seccion, lista, metricas, cargas, hecho>>
    BY <1>6 DEF PreguntarSinCobro, Fallida
  <2>. HIDE DEF n
  <2>4. acciones' \subseteq Acciones /\ \A b \in acciones' : b.etapa = "hecha" => b \in acciones
    BY <1>0, <2>1, <2>3 DEF VersionesBien
  <2>. QED
    BY <2>2, <2>3, <2>4, PulsarPantallas
<1>7. ASSUME NEW a \in acciones, HacerAccion(a) \/ Contestada(a) PROVE PantallasEnOrden'
  BY <1>7, HacerAccionPantallas, ContestadaPantallas
<1>8. CASE UNCHANGED varsPantallas
  BY <1>0, <1>8, PulsarPantallas DEF varsPantallas, VersionesBien
<1>. QED
  BY <1>1, <1>2, <1>3, <1>4, <1>5, <1>6, <1>7, <1>8 DEF NextPantallas

\* The invariant of the screens holds in every state, with any number of lists, answers,
\* reloads, changes of their own and of others, and failures.
THEOREM PantallasInvariante == SpecPantallas => []PantallasEnOrden
<1>1. InitPantallas => PantallasEnOrden
  BY IniciaPantallas
<1>2. PantallasEnOrden /\ [NextPantallas]_varsPantallas => PantallasEnOrden'
  BY NextPantallasEnOrden
<1>. QED
  BY <1>1, <1>2, PTL DEF SpecPantallas

\* lib/carga.ts:88-106, LoHechoSeVe: a list that is ready, with no answer on its way and no
\* refreshing lost, has what somebody was told is done: no answer of before hides it.
THEOREM SiempreSeVe == SpecPantallas => []LoHechoSeVe
<1>1. PantallasEnOrden => LoHechoSeVe
  BY DEF PantallasEnOrden
<1>. QED
  BY <1>1, PantallasInvariante, PTL

\* What has been asked for and is not done yet.
SinHacer == {a \in acciones : a.etapa # "hecha"}

\* Each change was pressed or is of others, and what is to be done has been pressed.
CambiosContados ==
    /\ IsFiniteSet(SinHacer)
    /\ servidor.version + Cardinality(SinHacer) <= 1 + veces.pulsaciones + veces.ajenos
    /\ veces.pulsaciones <= MaxPulsaciones /\ veces.ajenos <= MaxAjenos

\* What is read is of a version there has been.
LoLeidoHaSido ==
    /\ servidor.version >= 1
    /\ lista.version <= servidor.version /\ metricas.version <= servidor.version
    /\ \A c \in cargas : c.version <= servidor.version

CosasBien == enCurso \in Cosas \cup {Ninguna} /\ recientes \subseteq Cosas

\* The count, before a step.
LEMMA AntesCuenta ==
    ASSUME VersionesBien, CambiosContados
    PROVE  /\ servidor.version \in Nat /\ Cardinality(SinHacer) \in Nat
           /\ veces.pulsaciones \in Nat /\ veces.ajenos \in Nat
           /\ MaxPulsaciones \in Nat /\ MaxAjenos \in Nat
<1>1. servidor.version \in Nat /\ veces.pulsaciones \in Nat /\ veces.ajenos \in Nat
  BY DEF VersionesBien
<1>2. Cardinality(SinHacer) \in Nat
  BY FS_CardinalityType DEF CambiosContados
<1>. QED
  BY <1>1, <1>2, PantallasOK

\* Nothing more to be done, and the same changes.
LEMMA IgualDeContados ==
    ASSUME VersionesBien, CambiosContados,
           servidor'.version = servidor.version, IsFiniteSet(SinHacer'),
           Cardinality(SinHacer') <= Cardinality(SinHacer),
           veces'.pulsaciones = veces.pulsaciones, veces'.ajenos = veces.ajenos
    PROVE  CambiosContados'
<1>1. Cardinality(SinHacer') \in Nat
  BY FS_CardinalityType
<1>2. PICK k \in Nat : k = Cardinality(SinHacer')
  BY <1>1
<1>3. PICK m \in Nat : m = Cardinality(SinHacer)
  BY AntesCuenta
<1>4. PICK v \in Nat, p \in Nat, q \in Nat :
        v = servidor.version /\ p = veces.pulsaciones /\ q = veces.ajenos
  BY AntesCuenta
<1>5. v + m <= 1 + p + q /\ k <= m
  BY <1>2, <1>3, <1>4 DEF CambiosContados
<1>6. v + k <= 1 + p + q
  BY <1>5
<1>. QED
  BY <1>2, <1>4, <1>6 DEF CambiosContados

\* Fewer to be done.
LEMMA MenosQueHacer ==
    ASSUME VersionesBien, CambiosContados,
           servidor'.version = servidor.version, SinHacer' \subseteq SinHacer,
           veces'.pulsaciones = veces.pulsaciones, veces'.ajenos = veces.ajenos
    PROVE  CambiosContados'
<1>1. IsFiniteSet(SinHacer)
  BY DEF CambiosContados
<1>2. IsFiniteSet(SinHacer') /\ Cardinality(SinHacer') <= Cardinality(SinHacer)
  BY <1>1, FS_Subset
<1>. QED
  BY <1>2, IgualDeContados

\* One of them is asked again whether to go on.
LEMMA OtraPorUna ==
    ASSUME VersionesBien, CambiosContados, NEW a \in SinHacer, NEW n,
           servidor'.version = servidor.version, SinHacer' = (SinHacer \ {a}) \cup {n},
           veces'.pulsaciones = veces.pulsaciones, veces'.ajenos = veces.ajenos
    PROVE  CambiosContados'
<1>1. IsFiniteSet(SinHacer)
  BY DEF CambiosContados
<1>2. /\ IsFiniteSet(SinHacer \ {a})
      /\ Cardinality(SinHacer \ {a}) = Cardinality(SinHacer) - 1
  BY <1>1, FS_RemoveElement
<1>3. /\ IsFiniteSet(SinHacer')
      /\ Cardinality(SinHacer') = IF n \in SinHacer \ {a} THEN Cardinality(SinHacer \ {a})
                                  ELSE Cardinality(SinHacer \ {a}) + 1
  BY <1>2, FS_AddElement
<1>4. Cardinality(SinHacer) \in Nat
  BY AntesCuenta
<1>5. Cardinality(SinHacer') <= Cardinality(SinHacer)
  BY <1>2, <1>3, <1>4
<1>. QED
  BY <1>3, <1>5, IgualDeContados

\* A button is pressed.
LEMMA UnaMasQueHacer ==
    ASSUME VersionesBien, CambiosContados, NEW n,
           servidor'.version = servidor.version, SinHacer' = SinHacer \cup {n},
           veces.pulsaciones < MaxPulsaciones,
           veces'.pulsaciones = veces.pulsaciones + 1, veces'.ajenos = veces.ajenos
    PROVE  CambiosContados'
<1>1. IsFiniteSet(SinHacer)
  BY DEF CambiosContados
<1>2. /\ IsFiniteSet(SinHacer')
      /\ Cardinality(SinHacer') = IF n \in SinHacer THEN Cardinality(SinHacer)
                                  ELSE Cardinality(SinHacer) + 1
  BY <1>1, FS_AddElement
<1>3. PICK m \in Nat, v \in Nat, p \in Nat, q \in Nat :
        /\ m = Cardinality(SinHacer)
        /\ v = servidor.version /\ p = veces.pulsaciones /\ q = veces.ajenos
  BY AntesCuenta
<1>4. PICK k \in Nat : k = Cardinality(SinHacer')
  BY <1>2, FS_CardinalityType
<1>5. v + m <= 1 + p + q /\ k <= m + 1
  BY <1>2, <1>3, <1>4 DEF CambiosContados
<1>6. v + k <= 1 + (p + 1) + q
  BY <1>5
<1>7. p + 1 <= MaxPulsaciones
  BY <1>3, PantallasOK
<1>. QED
  BY <1>2, <1>3, <1>4, <1>6, <1>7 DEF CambiosContados

\* Something is done.
LEMMA UnaHecha ==
    ASSUME VersionesBien, CambiosContados, NEW a \in SinHacer,
           servidor'.version = servidor.version + 1, SinHacer' = SinHacer \ {a},
           veces' = veces
    PROVE  CambiosContados'
<1>1. IsFiniteSet(SinHacer)
  BY DEF CambiosContados
<1>2. IsFiniteSet(SinHacer') /\ Cardinality(SinHacer') = Cardinality(SinHacer) - 1
  BY <1>1, FS_RemoveElement
<1>3. PICK m \in Nat, v \in Nat, p \in Nat, q \in Nat :
        /\ m = Cardinality(SinHacer)
        /\ v = servidor.version /\ p = veces.pulsaciones /\ q = veces.ajenos
  BY AntesCuenta
<1>4. v + m <= 1 + p + q
  BY <1>3 DEF CambiosContados
<1>5. (v + 1) + (m - 1) <= 1 + p + q
  BY <1>4
<1>. QED
  BY <1>2, <1>3, <1>5 DEF CambiosContados

\* Others change something.
LEMMA UnaAjena ==
    ASSUME VersionesBien, CambiosContados, SinHacer' = SinHacer,
           servidor'.version = servidor.version + 1, veces.ajenos < MaxAjenos,
           veces'.pulsaciones = veces.pulsaciones, veces'.ajenos = veces.ajenos + 1
    PROVE  CambiosContados'
<1>1. PICK m \in Nat, v \in Nat, p \in Nat, q \in Nat :
        /\ m = Cardinality(SinHacer)
        /\ v = servidor.version /\ p = veces.pulsaciones /\ q = veces.ajenos
  BY AntesCuenta
<1>2. v + m <= 1 + p + q
  BY <1>1 DEF CambiosContados
<1>3. (v + 1) + m <= 1 + p + (q + 1)
  BY <1>2
<1>4. q + 1 <= MaxAjenos
  BY <1>1, PantallasOK
<1>. QED
  BY <1>1, <1>3, <1>4 DEF CambiosContados

\* To leave the screen leaves as much to be done.
LEMMA IrASeccionContados ==
    ASSUME VersionesBien, CambiosContados, NEW s, IrASeccion(s) PROVE CambiosContados'
<1>. DEFINE F(a) == [a EXCEPT !.montada = FALSE]
<1>1. /\ acciones' = {F(a) : a \in acciones} /\ servidor' = servidor
      /\ veces' = [veces EXCEPT !.visitas = @ + 1] /\ acciones \subseteq Acciones
  BY DEF IrASeccion, VersionesBien
<1>2. ASSUME NEW a \in acciones PROVE F(a).etapa = a.etapa
  BY <1>1 DEF Acciones
<1>. HIDE DEF F
<1>3. SinHacer' = {F(a) : a \in SinHacer}
  BY <1>1, <1>2 DEF SinHacer
<1>4. PICK f : f = [a \in SinHacer |-> F(a)]
  OBVIOUS
<1>5. f \in Surjection(SinHacer, SinHacer')
  BY <1>3, <1>4 DEF Surjection
<1>6. IsFiniteSet(SinHacer)
  BY DEF CambiosContados
<1>7. IsFiniteSet(SinHacer') /\ Cardinality(SinHacer') <= Cardinality(SinHacer)
  BY <1>5, <1>6, FS_Surjection
<1>8. veces'.pulsaciones = veces.pulsaciones /\ veces'.ajenos = veces.ajenos
  BY <1>1 DEF VersionesBien
<1>. QED
  BY <1>1, <1>7, <1>8, IgualDeContados

\* Every step keeps the count.
LEMMA ContadosSigue ==
    ASSUME VersionesBien, CambiosContados, [NextPantallas]_varsPantallas PROVE CambiosContados'
<1>0. /\ veces \in [visitas : Nat, pulsaciones : Nat, ajenos : Nat, fallos : Nat]
      /\ acciones \subseteq Acciones
  BY DEF VersionesBien
<1>1. CASE \/ ReintentarCarga \/ IrAPagina \/ UNCHANGED varsPantallas
           \/ \E c \in cargas : LeerCarga(c) \/ LlegaLaCarga(c) \/ NoLlegaLaCarga(c)
  <2>1. servidor' = servidor /\ acciones' = acciones
    BY <1>1 DEF ReintentarCarga, IrAPagina, LeerCarga, LlegaLaCarga, NoLlegaLaCarga, varsPantallas
  <2>2. \/ veces' = veces \/ veces' = [veces EXCEPT !.visitas = @ + 1]
        \/ veces' = [veces EXCEPT !.fallos = @ + 1]
    BY <1>1 DEF ReintentarCarga, IrAPagina, LeerCarga, LlegaLaCarga, NoLlegaLaCarga, varsPantallas
  <2>3. veces'.pulsaciones = veces.pulsaciones /\ veces'.ajenos = veces.ajenos
    BY <1>0, <2>2
  <2>4. SinHacer' \subseteq SinHacer
    BY <2>1 DEF SinHacer
  <2>. QED
    BY <2>1, <2>3, <2>4, MenosQueHacer
<1>2. CASE \E s \in Visitadas : IrASeccion(s)
  BY <1>2, IrASeccionContados
<1>3. ASSUME NEW x \in Cosas, CambioAjeno(x) PROVE CambiosContados'
  <2>1. /\ acciones' = acciones /\ servidor'.version = servidor.version + 1
        /\ veces.ajenos < MaxAjenos /\ veces' = [veces EXCEPT !.ajenos = @ + 1]
    BY <1>3 DEF CambioAjeno
  <2>2. veces'.pulsaciones = veces.pulsaciones /\ veces'.ajenos = veces.ajenos + 1
    BY <1>0, <2>1
  <2>3. SinHacer' = SinHacer
    BY <2>1 DEF SinHacer
  <2>. QED
    BY <2>1, <2>2, <2>3, UnaAjena
<1>4. ASSUME NEW op, NEW x \in Cosas, Pulsar(op, x) PROVE CambiosContados'
  <2>. DEFINE n == Accion(op, x, "va", veces.pulsaciones, TRUE, seccion)
  <2>1. /\ acciones' = acciones \cup {n} /\ servidor' = servidor
        /\ veces.pulsaciones < MaxPulsaciones /\ veces' = [veces EXCEPT !.pulsaciones = @ + 1]
    BY <1>4 DEF Pulsar
  <2>2. veces'.pulsaciones = veces.pulsaciones + 1 /\ veces'.ajenos = veces.ajenos
    BY <1>0, <2>1
  <2>3. n.etapa # "hecha"
    BY DEF Accion
  <2>. HIDE DEF n
  <2>4. SinHacer' = SinHacer \cup {n}
    BY <2>1, <2>3 DEF SinHacer
  <2>. QED
    BY <2>1, <2>2, <2>4, UnaMasQueHacer
<1>5. ASSUME NEW a \in acciones, HacerAccion(a) PROVE CambiosContados'
  <2>. DEFINE n == Accion(a.op, a.cosa, "hecha", servidor.version + 1, a.montada, a.donde)
  <2>1. /\ acciones' = (acciones \ {a}) \cup {n} /\ servidor'.version = servidor.version + 1
        /\ veces' = veces /\ a.etapa # "hecha"
    BY <1>5 DEF HacerAccion
  <2>2. n.etapa = "hecha"
    BY DEF Accion
  <2>. HIDE DEF n
  <2>3. SinHacer' = SinHacer \ {a} /\ a \in SinHacer
    BY <2>1, <2>2 DEF SinHacer
  <2>. QED
    BY <2>1, <2>3, UnaHecha
<1>6. ASSUME NEW a \in acciones, PreguntarSinCobro(a) PROVE CambiosContados'
  <2>. DEFINE n == [a EXCEPT !.etapa = "sin cobro"]
  <2>1. /\ acciones' = (acciones \ {a}) \cup {n} \/ acciones' = acciones \ {a}
        /\ servidor' = servidor /\ veces' = veces /\ a.etapa = "va"
    BY <1>6 DEF PreguntarSinCobro
  <2>2. n.etapa # "hecha"
    BY <1>0, <2>1 DEF Acciones
  <2>. HIDE DEF n
  <2>3. \/ SinHacer' = (SinHacer \ {a}) \cup {n} /\ a \in SinHacer
        \/ SinHacer' \subseteq SinHacer
    BY <2>1, <2>2 DEF SinHacer
  <2>. QED
    BY <2>1, <2>3, OtraPorUna, MenosQueHacer
<1>7. ASSUME NEW a \in acciones, Contestada(a) \/ Fallida(a) PROVE CambiosContados'
  <2>1. acciones' = acciones \ {a} /\ servidor' = servidor
    BY <1>7 DEF Contestada, Fallida
  <2>2. veces' = veces \/ \E k \in {0, 1} : veces' = [veces EXCEPT !.fallos = @ + k]
    BY <1>7 DEF Contestada, Fallida
  <2>3. veces'.pulsaciones = veces.pulsaciones /\ veces'.ajenos = veces.ajenos
    BY <1>0, <2>2
  <2>4. SinHacer' \subseteq SinHacer
    BY <2>1 DEF SinHacer
  <2>. QED
    BY <2>1, <2>3, <2>4, MenosQueHacer
<1>. QED
  BY <1>1, <1>2, <1>3, <1>4, <1>5, <1>6, <1>7 DEF NextPantallas

\* What Lanzar asks for has not been read, and the rest is of before.
LEMMA LanzarHaSido ==
    ASSUME NEW C \in SUBSET Cargas, NEW g, NEW r, NEW v \in Nat, \A c \in C : c.version <= v
    PROVE  \A c \in Lanzar(g, r, C) : c.version <= v
<1>. DEFINE n == Carga(g, r, "va", {}, 0, TRUE)
            F(c) == IF c.gancho = g THEN [c EXCEPT !.vigente = FALSE] ELSE c
<1>1. n.version = 0
  BY DEF Carga
<1>2. ASSUME NEW c \in C PROVE F(c).version = c.version
  BY DEF Cargas
<1>3. Lanzar(g, r, C) = {F(c) : c \in C} \cup {n}
  BY DEF Lanzar
<1>. HIDE DEF n, F
<1>4. n.version <= v
  BY <1>1
<1>. QED
  BY <1>2, <1>3, <1>4

\* Whoever asks for something, or reads no more than there is.
LEMMA HaSido ==
    ASSUME VersionesBien, LoLeidoHaSido,
           servidor'.version = servidor.version \/ servidor'.version = servidor.version + 1,
           lista'.version \in Nat, lista'.version <= servidor.version,
           metricas'.version \in Nat, metricas'.version <= servidor.version,
           \A c \in cargas' : c.version \in Nat /\ c.version <= servidor.version
    PROVE  LoLeidoHaSido'
<1>1. servidor.version \in Nat
  BY DEF VersionesBien
<1>2. servidor.version <= servidor'.version /\ servidor'.version \in Nat /\ servidor'.version >= 1
  BY <1>1 DEF LoLeidoHaSido
<1>3. lista'.version <= servidor'.version /\ metricas'.version <= servidor'.version
  BY <1>1, <1>2
<1>4. ASSUME NEW c \in cargas' PROVE c.version <= servidor'.version
  <2>1. c.version \in Nat /\ c.version <= servidor.version
    OBVIOUS
  <2>. QED
    BY <1>1, <1>2, <2>1
<1>. QED
  BY <1>2, <1>3, <1>4 DEF LoLeidoHaSido

\* What is asked for or read is asked for of what there is.
LEMMA HaSidoSigue ==
    ASSUME VersionesBien, VersionesBien', LoLeidoHaSido, [NextPantallas]_varsPantallas
    PROVE  LoLeidoHaSido'
<1>0. /\ cargas \in SUBSET Cargas /\ servidor.version \in Nat /\ acciones \subseteq Acciones
      /\ \A c \in cargas : c.version \in Nat /\ c.version <= servidor.version
      /\ lista.version \in Nat /\ metricas.version \in Nat
      /\ lista.version <= servidor.version /\ metricas.version <= servidor.version
      /\ lista \in Datos /\ metricas \in Datos
  BY DEF VersionesBien, LoLeidoHaSido, Cargas, Datos
<1>1. /\ cargas' \in SUBSET Cargas /\ \A c \in cargas' : c.version \in Nat
      /\ lista'.version \in Nat /\ metricas'.version \in Nat
  BY DEF VersionesBien, Cargas, Datos
<1>2. ASSUME /\ lista' \in {lista, Vacia(lista), SinDatos}
             /\ metricas' \in {metricas, Vacia(metricas)}
      PROVE  lista'.version <= servidor.version /\ metricas'.version <= servidor.version
  <2>1. /\ Vacia(lista).version = lista.version /\ Vacia(metricas).version = metricas.version
        /\ SinDatos.version = 0
    BY <1>0 DEF Vacia, Datos, SinDatos, Gancho
  <2>. QED
    BY <1>0, <1>2, <2>1
<1>3. ASSUME servidor' = servidor, lista' = SinDatos \/ lista' = Vacia(lista), metricas' = metricas,
             NEW C \in SUBSET cargas, cargas' = Lanzar("lista", FALSE, C)
      PROVE  LoLeidoHaSido'
  <2>1. \A c \in cargas' : c.version <= servidor.version
    BY <1>0, <1>3, LanzarHaSido
  <2>. QED
    BY <1>2, <1>3, <1>1, <2>1, HaSido
<1>4. CASE ReintentarCarga \/ IrAPagina
  BY <1>3, <1>4 DEF ReintentarCarga, IrAPagina
<1>5. CASE \E s \in Visitadas : IrASeccion(s)
  <2>. DEFINE C == {c \in cargas : c.gancho # "lista"}
  <2>1. C \in SUBSET cargas
    OBVIOUS
  <2>2. /\ servidor' = servidor /\ lista' = SinDatos /\ metricas' = metricas
        /\ cargas' = Lanzar("lista", FALSE, C)
    BY <1>5 DEF IrASeccion
  <2>. HIDE DEF C
  <2>. QED
    BY <1>3, <2>1, <2>2
<1>6. ASSUME /\ servidor'.version = servidor.version \/ servidor'.version = servidor.version + 1
             /\ UNCHANGED <<lista, metricas, cargas>>
      PROVE  LoLeidoHaSido'
  BY <1>0, <1>6, HaSido
<1>7. CASE \/ \E x \in Cosas : CambioAjeno(x)
           \/ \E a \in acciones : HacerAccion(a)
  <2>1. \E H : servidor' = [hay |-> H, version |-> servidor.version + 1]
    BY <1>7 DEF CambioAjeno, HacerAccion
  <2>2. UNCHANGED <<lista, metricas, cargas>>
    BY <1>7 DEF CambioAjeno, HacerAccion
  <2>. QED
    BY <1>6, <2>1, <2>2
<1>8. CASE UNCHANGED varsPantallas
  BY <1>6, <1>8 DEF varsPantallas
<1>9. ASSUME NEW op, NEW x, Pulsar(op, x) PROVE LoLeidoHaSido'
  BY <1>6, <1>9 DEF Pulsar
<1>10. ASSUME NEW a \in acciones, PreguntarSinCobro(a) \/ Fallida(a) PROVE LoLeidoHaSido'
  <2>1. servidor' = servidor /\ UNCHANGED <<lista, metricas, cargas>>
    BY <1>10 DEF PreguntarSinCobro, Fallida
  <2>. QED
    BY <1>6, <2>1
<1>11. ASSUME NEW c \in cargas, LeerCarga(c) PROVE LoLeidoHaSido'
  <2>. DEFINE n == Carga(c.gancho, c.refresco, "leida",
                         IF c.gancho = "lista" THEN servidor.hay[seccion] ELSE {},
                         servidor.version, c.vigente)
  <2>1. /\ cargas' = (cargas \ {c}) \cup {n} /\ UNCHANGED <<servidor, lista, metricas>>
    BY <1>11 DEF LeerCarga
  <2>2. n.version = servidor.version
    BY DEF Carga
  <2>. HIDE DEF n
  <2>3. \A d \in cargas' : d.version \in Nat /\ d.version <= servidor.version
    BY <1>0, <2>1, <2>2
  <2>. QED
    BY <1>0, <2>1, <2>3, HaSido
<1>12. ASSUME NEW c \in cargas, LlegaLaCarga(c) \/ NoLlegaLaCarga(c) PROVE LoLeidoHaSido'
  <2>1. cargas' = cargas \ {c} /\ servidor' = servidor
    BY <1>12 DEF LlegaLaCarga, NoLlegaLaCarga
  <2>2. /\ \/ lista' = lista \/ lista' = Gancho("listo", c.datos, c.version)
           \/ \E e : lista' = [lista EXCEPT !.estado = e]
        /\ \/ metricas' = metricas \/ metricas' = Gancho("listo", c.datos, c.version)
           \/ \E e : metricas' = [metricas EXCEPT !.estado = e]
    BY <1>12 DEF LlegaLaCarga, NoLlegaLaCarga
  <2>3. /\ lista'.version \in {lista.version, c.version}
        /\ metricas'.version \in {metricas.version, c.version}
    BY <1>0, <2>2 DEF Gancho, Datos
  <2>. QED
    BY <1>0, <2>1, <2>3, HaSido
<1>13. ASSUME NEW a \in acciones, Contestada(a) PROVE LoLeidoHaSido'
  <2>. DEFINE s == Secciones[a.donde]
              C == IF s.avisa THEN Lanzar("metricas", FALSE, cargas) ELSE cargas
              r == (s.recarga = "refrescar")
  <2>1. /\ servidor' = servidor
        /\ lista' = IF a.montada /\ s.recarga = "reintentar" THEN Vacia(lista) ELSE lista
        /\ metricas' = IF s.avisa THEN Vacia(metricas) ELSE metricas
        /\ cargas' = IF a.montada /\ s.recarga \in {"reintentar", "refrescar"}
                     THEN Lanzar("lista", r, C) ELSE C
    BY <1>13 DEF Contestada
  <2>2. C \subseteq Cargas /\ \A c \in C : c.version <= servidor.version
    <3>1. FALSE \in BOOLEAN /\ "metricas" \in Ganchos
      BY DEF Ganchos
    <3>. QED
      BY <1>0, <3>1, LanzarBien, LanzarHaSido
  <2>. HIDE DEF s, C, r
  <2>3. \A c \in cargas' : c.version <= servidor.version
    BY <1>0, <2>1, <2>2, LanzarHaSido
  <2>4. lista' \in {lista, Vacia(lista), SinDatos} /\ metricas' \in {metricas, Vacia(metricas)}
    BY <2>1
  <2>. QED
    BY <1>1, <1>2, <2>1, <2>3, <2>4, HaSido
<1>. QED
  BY <1>4, <1>5, <1>7, <1>8, <1>9, <1>10, <1>11, <1>12, <1>13 DEF NextPantallas

\* The buttons that are off are of things there may be.
LEMMA CosasSigue ==
    ASSUME VersionesBien, CosasBien, [NextPantallas]_varsPantallas PROVE CosasBien'
<1>0. \A a \in acciones : a.cosa \in Cosas
  BY DEF VersionesBien, Acciones
<1>1. CASE \/ ReintentarCarga \/ IrAPagina \/ UNCHANGED varsPantallas
           \/ \E x \in Cosas : CambioAjeno(x)
           \/ \E c \in cargas : LeerCarga(c) \/ LlegaLaCarga(c) \/ NoLlegaLaCarga(c)
  BY <1>1 DEF CosasBien, ReintentarCarga, IrAPagina, CambioAjeno, LeerCarga, LlegaLaCarga,
              NoLlegaLaCarga, varsPantallas
<1>2. CASE \E s \in Visitadas : IrASeccion(s)
  BY <1>2 DEF CosasBien, IrASeccion
<1>3. ASSUME NEW op, NEW x \in Cosas, Pulsar(op, x) PROVE CosasBien'
  BY <1>3 DEF CosasBien, Pulsar
<1>4. ASSUME NEW a \in acciones, HacerAccion(a) PROVE CosasBien'
  BY <1>4 DEF CosasBien, HacerAccion
<1>5. ASSUME NEW a \in acciones, PreguntarSinCobro(a) \/ Fallida(a) PROVE CosasBien'
  BY <1>5 DEF CosasBien, PreguntarSinCobro, Fallida
<1>6. ASSUME NEW a \in acciones, Contestada(a) PROVE CosasBien'
  BY <1>0, <1>6 DEF CosasBien, Contestada
<1>. QED
  BY <1>1, <1>2, <1>3, <1>4, <1>5, <1>6 DEF NextPantallas

\* The screens' types, which are of the count and of the versions.
PantallasTipadas == PantallasEnOrden /\ CambiosContados /\ LoLeidoHaSido /\ CosasBien

\* What is said of the screens is their type.
LEMMA EsTipoPantallas == ASSUME PantallasTipadas PROVE TipoPantallas
<1>1. /\ VersionesBien /\ CambiosContados /\ LoLeidoHaSido /\ CosasBien
  BY DEF PantallasTipadas, PantallasEnOrden
<1>2. servidor.version \in 1 .. 1 + MaxPulsaciones + MaxAjenos
  <2>1. PICK m \in Nat, v \in Nat, p \in Nat, q \in Nat :
          /\ m = Cardinality(SinHacer)
          /\ v = servidor.version /\ p = veces.pulsaciones /\ q = veces.ajenos
    BY <1>1, AntesCuenta
  <2>2. PICK a \in Nat, b \in Nat : a = MaxPulsaciones /\ b = MaxAjenos
    BY PantallasOK
  <2>3. v + m <= 1 + p + q /\ p <= a /\ q <= b /\ v >= 1
    BY <1>1, <2>1, <2>2 DEF CambiosContados, LoLeidoHaSido
  <2>4. v \in 1 .. 1 + a + b
    BY <2>3
  <2>. QED
    BY <2>1, <2>2, <2>4
<1>3. servidor.version \in Nat /\ seccion \in Visitadas
  BY <1>1 DEF VersionesBien
<1>4. ASSUME NEW g \in {lista, metricas}
      PROVE  /\ g.estado \in {"cargando", "listo", "error", "sesion"}
             /\ g.datos \subseteq Cosas /\ g.version \in 0 .. servidor.version
  <2>1. g \in Datos /\ g.version <= servidor.version
    BY <1>1 DEF VersionesBien, LoLeidoHaSido
  <2>. QED
    BY <1>3, <2>1 DEF Datos, EstadosGancho
<1>5. /\ \A c \in cargas : c.etapa \in {"va", "leida"}
      /\ \A a \in acciones : a.etapa \in {"va", "sin cobro", "hecha"}
  BY <1>1 DEF VersionesBien, Cargas, Acciones
<1>. QED
  BY <1>1, <1>2, <1>3, <1>4, <1>5 DEF TipoPantallas, CosasBien

\* The types of the screens hold in every state.
THEOREM PantallasTipos == SpecPantallas => []PantallasTipadas
<1>1. InitPantallas => PantallasTipadas
  <2>. SUFFICES ASSUME InitPantallas PROVE PantallasTipadas
    OBVIOUS
  <2>1. /\ servidor.version = 1 /\ veces.pulsaciones = 0 /\ veces.ajenos = 0 /\ acciones = {}
        /\ lista = SinDatos /\ metricas = SinDatos
    BY DEF InitPantallas
  <2>2. SinHacer = {}
    BY <2>1 DEF SinHacer
  <2>3. IsFiniteSet(SinHacer) /\ Cardinality(SinHacer) = 0
    BY <2>2, FS_EmptySet
  <2>4. CambiosContados
    BY <2>1, <2>3, PantallasOK DEF CambiosContados
  <2>5. LoLeidoHaSido
    <3>. DEFINE M == IF EnElPanel(seccion) THEN Lanzar("metricas", FALSE, {}) ELSE {}
    <3>1. cargas = Lanzar("lista", FALSE, M)
      BY DEF InitPantallas
    <3>2. M \in SUBSET Cargas /\ \A c \in M : c.version <= 1
      <4>1. FALSE \in BOOLEAN /\ "metricas" \in Ganchos /\ {} \in SUBSET Cargas
            /\ \A c \in {} : c.version <= 1
        BY DEF Ganchos
      <4>2. /\ Lanzar("metricas", FALSE, {}) \in SUBSET Cargas
            /\ \A c \in Lanzar("metricas", FALSE, {}) : c.version <= 1
        BY <4>1, LanzarBien, LanzarHaSido
      <4>. QED
        BY <4>2
    <3>. HIDE DEF M
    <3>3. \A c \in cargas : c.version <= 1
      BY <3>1, <3>2, LanzarHaSido
    <3>4. lista.version = 0 /\ metricas.version = 0
      BY <2>1 DEF SinDatos, Gancho
    <3>. QED
      BY <2>1, <3>3, <3>4 DEF LoLeidoHaSido
  <2>6. CosasBien
    BY DEF InitPantallas, CosasBien
  <2>. QED
    BY <2>4, <2>5, <2>6, IniciaPantallas DEF PantallasTipadas
<1>2. PantallasTipadas /\ [NextPantallas]_varsPantallas => PantallasTipadas'
  <2>. SUFFICES ASSUME PantallasTipadas, [NextPantallas]_varsPantallas PROVE PantallasTipadas'
    OBVIOUS
  <2>1. PantallasEnOrden /\ VersionesBien /\ CambiosContados /\ LoLeidoHaSido /\ CosasBien
    BY DEF PantallasTipadas, PantallasEnOrden
  <2>2. PantallasEnOrden'
    BY <2>1, NextPantallasEnOrden
  <2>3. VersionesBien'
    BY <2>2 DEF PantallasEnOrden
  <2>. QED
    BY <2>1, <2>2, <2>3, ContadosSigue, HaSidoSigue, CosasSigue DEF PantallasTipadas
<1>. QED
  BY <1>1, <1>2, PTL DEF SpecPantallas

-----------------------------------------------------------------------------
(* The search.                                                             *)

\* Of two services, one goes before the other, whatever the order asked for.
LEMMA UnoDelante ==
    ASSUME publicado \in Catalogos, NEW i \in DOMAIN publicado, NEW j \in DOMAIN publicado, NEW f
    PROVE  /\ ~Delante(i, i, f)
           /\ i # j => Delante(i, j, f) \/ Delante(j, i, f)
<1> DEFINE a == publicado[i]
           b == publicado[j]
<1>1. /\ i \in Int /\ j \in Int
      /\ a.lejos \in Int /\ a.precio \in Int /\ a.nota \in Int /\ a.fecha \in Int
      /\ b.lejos \in Int /\ b.precio \in Int /\ b.nota \in Int /\ b.fecha \in Int
  BY CatalogosOK
<1>2. \A x, y \in DOMAIN publicado :
         Delante(x, y, f) <=>
            LET p == publicado[x] q == publicado[y] IN
            IF Criterio(f) = "distance" THEN p.lejos < q.lejos \/ (p.lejos = q.lejos /\ x < y)
            ELSE IF Criterio(f) = "price" THEN p.precio < q.precio \/ (p.precio = q.precio /\ x < y)
            ELSE IF Criterio(f) = "rating" THEN p.nota > q.nota \/ (p.nota = q.nota /\ x < y)
            ELSE p.fecha > q.fecha \/ (p.fecha = q.fecha /\ x > y)
  BY DEF Delante
<1> HIDE DEF a, b
<1>3. /\ Delante(i, i, f) <=>
            IF Criterio(f) = "distance" THEN a.lejos < a.lejos \/ (a.lejos = a.lejos /\ i < i)
            ELSE IF Criterio(f) = "price" THEN a.precio < a.precio \/ (a.precio = a.precio /\ i < i)
            ELSE IF Criterio(f) = "rating" THEN a.nota > a.nota \/ (a.nota = a.nota /\ i < i)
            ELSE a.fecha > a.fecha \/ (a.fecha = a.fecha /\ i > i)
      /\ Delante(i, j, f) <=>
            IF Criterio(f) = "distance" THEN a.lejos < b.lejos \/ (a.lejos = b.lejos /\ i < j)
            ELSE IF Criterio(f) = "price" THEN a.precio < b.precio \/ (a.precio = b.precio /\ i < j)
            ELSE IF Criterio(f) = "rating" THEN a.nota > b.nota \/ (a.nota = b.nota /\ i < j)
            ELSE a.fecha > b.fecha \/ (a.fecha = b.fecha /\ i > j)
      /\ Delante(j, i, f) <=>
            IF Criterio(f) = "distance" THEN b.lejos < a.lejos \/ (b.lejos = a.lejos /\ j < i)
            ELSE IF Criterio(f) = "price" THEN b.precio < a.precio \/ (b.precio = a.precio /\ j < i)
            ELSE IF Criterio(f) = "rating" THEN b.nota > a.nota \/ (b.nota = a.nota /\ j < i)
            ELSE b.fecha > a.fecha \/ (b.fecha = a.fecha /\ j > i)
  BY <1>2 DEF a, b
<1>. QED
  BY <1>1, <1>3

\* What is in order is all of the set, each once.
LEMMA EnOrdenEs ==
    ASSUME NEW C, IsFiniteSet(C), NEW f, NEW s \in EnOrden(C, f)
    PROVE  /\ Cardinality(C) \in Nat
           /\ s \in [1 .. Cardinality(C) -> C] /\ s \in Seq(C) /\ Len(s) = Cardinality(C)
           /\ \A m, n \in 1 .. Cardinality(C) : m # n => s[m] # s[n]
           /\ \A j \in C : \E n \in 1 .. Cardinality(C) : s[n] = j
           /\ \A m, n \in 1 .. Cardinality(C) : m < n => ~Delante(s[n], s[m], f)
<1> DEFINE k == Cardinality(C)
<1>1. k \in Nat
  BY FS_CardinalityType
<1> HIDE DEF k
<1>2. /\ s \in [1 .. k -> C] /\ \A m, n \in 1 .. k : m # n => s[m] # s[n]
      /\ \A m, n \in 1 .. Len(s) : m < n => ~Delante(s[n], s[m], f)
  BY DEF EnOrden, SetToSeqs, k
<1>3. s \in Seq(C) /\ Len(s) = k
  BY <1>1, <1>2
<1>4. IsFiniteSet(1 .. k) /\ Cardinality(1 .. k) = k
  BY <1>1, FS_Interval
<1>5. s \in Injection(1 .. k, C)
  BY <1>2 DEF Injection, IsInjective
<1>6. s \in Surjection(1 .. k, C)
  BY <1>4, <1>5, FS_Injection DEF k
<1>7. \A j \in C : \E n \in 1 .. k : s[n] = j
  BY <1>6 DEF Surjection
<1>. QED
  BY <1>1, <1>2, <1>3, <1>7 DEF k

\* The place of a service in the order is how many go before it: whichever way the
\* database orders what it does not say, it is the same.
LEMMA ElPuesto ==
    ASSUME publicado \in Catalogos, NEW C \in SUBSET DOMAIN publicado, NEW f,
           NEW s \in EnOrden(C, f), NEW n \in 1 .. Cardinality(C)
    PROVE  Cardinality({j \in C : Delante(j, s[n], f)}) = n - 1
<1> DEFINE k == Cardinality(C)
           T == {j \in C : Delante(j, s[n], f)}
           g == [m \in 1 .. n - 1 |-> s[m]]
<1>1. IsFiniteSet(C)
  BY CatalogosOK, FS_Subset
<1>2. /\ k \in Nat /\ s \in [1 .. k -> C]
      /\ \A m, p \in 1 .. k : m # p => s[m] # s[p]
      /\ \A j \in C : \E m \in 1 .. k : s[m] = j
      /\ \A m, p \in 1 .. k : m < p => ~Delante(s[p], s[m], f)
  BY <1>1, EnOrdenEs
<1> HIDE DEF k
<1>3. n \in 1 .. k
  BY DEF k
<1>4. \A m \in 1 .. k : Delante(s[m], s[n], f) <=> m < n
  <2>1. ASSUME NEW m \in 1 .. k PROVE Delante(s[m], s[n], f) <=> m < n
    <3>1. s[m] \in DOMAIN publicado /\ s[n] \in DOMAIN publicado
      BY <1>2, <1>3
    <3>2. /\ ~Delante(s[n], s[n], f)
          /\ s[m] # s[n] => Delante(s[m], s[n], f) \/ Delante(s[n], s[m], f)
      BY <3>1, UnoDelante
    <3>3. CASE m < n
      BY <1>2, <1>3, <3>2, <3>3
    <3>4. CASE m = n
      BY <1>2, <1>3, <3>2, <3>4
    <3>5. CASE n < m
      BY <1>2, <1>3, <3>2, <3>5
    <3>. QED
      BY <1>2, <1>3, <3>3, <3>4, <3>5
  <2>. QED
    BY <2>1
<1>5. T = {s[m] : m \in 1 .. n - 1}
  <2>1. ASSUME NEW m \in 1 .. n - 1 PROVE s[m] \in T
    BY <1>2, <1>3, <1>4
  <2>2. ASSUME NEW j \in T PROVE \E m \in 1 .. n - 1 : j = s[m]
    <3>1. PICK m \in 1 .. k : s[m] = j
      BY <1>2
    <3>2. m < n
      BY <1>4, <3>1
    <3>. QED
      BY <1>2, <1>3, <3>1, <3>2
  <2>. QED
    BY <2>1, <2>2
<1>6. g \in Bijection(1 .. n - 1, T)
  <2>1. \A m \in 1 .. n - 1 : m \in 1 .. k
    BY <1>2, <1>3
  <2>2. g \in [1 .. n - 1 -> T]
    BY <1>5
  <2>3. \A m, p \in 1 .. n - 1 : g[m] = g[p] => m = p
    BY <1>2, <2>1
  <2>4. \A j \in T : \E m \in 1 .. n - 1 : g[m] = j
    BY <1>5
  <2> HIDE DEF g, T
  <2>. QED
    BY <2>2, <2>3, <2>4 DEF Bijection, Injection, Surjection, IsInjective
<1>7. ExistsBijection(1 .. n - 1, T)
  BY <1>6 DEF ExistsBijection
<1>8. IsFiniteSet(1 .. n - 1) /\ Cardinality(1 .. n - 1) = n - 1
  <2>1. n - 1 \in Nat /\ n \in Int
    BY <1>2, <1>3
  <2>2. IsFiniteSet(1 .. n - 1) /\ Cardinality(1 .. n - 1) = IF 1 > n - 1 THEN 0 ELSE (n - 1) - 1 + 1
    BY <2>1, FS_Interval
  <2>. QED
    BY <2>1, <2>2
<1>9. Cardinality(T) = Cardinality(1 .. n - 1)
  BY <1>7, <1>8, FS_Bijection
<1>. QED
  BY <1>8, <1>9

\* What is in a page is in the order, between its two ends.
LEMMA EnLaHoja ==
    ASSUME NEW S, NEW s \in Seq(S), NEW q, q.pagina \in Nat \ {0}, q.limite \in Nat \ {0},
           NEW i \in Range(Trozo(s, q))
    PROVE  \E k \in 1 .. Len(s) :
              s[k] = i /\ (q.pagina - 1) * q.limite < k /\ k <= q.pagina * q.limite
<1> DEFINE a == (q.pagina - 1) * q.limite + 1
           b == Minimo(q.pagina * q.limite, Len(s))
           t == SubSeq(s, a, b)
<1>1. /\ (q.pagina - 1) * q.limite \in Nat /\ q.pagina * q.limite \in Nat /\ Len(s) \in Nat
  <2>1. q.pagina - 1 \in Nat
    OBVIOUS
  <2>. QED
    BY <2>1
<1>2. a \in Nat /\ a >= 1 /\ b \in Nat /\ b <= Len(s) /\ b <= q.pagina * q.limite
  BY <1>1 DEF Minimo
<1>3. t = [m \in 1 .. (b - a + 1) |-> s[a + m - 1]]
  BY <1>2, SMTT(30)
<1>4. Trozo(s, q) = t
  BY DEF Trozo
<1> HIDE DEF t
<1>5. PICK m \in DOMAIN t : i = t[m]
  BY <1>4 DEF Range
<1>6. m \in 1 .. (b - a + 1) /\ i = s[a + m - 1]
  BY <1>3, <1>5
<1> DEFINE k == a + m - 1
<1>7. k \in 1 .. Len(s) /\ (q.pagina - 1) * q.limite < k /\ k <= q.pagina * q.limite
  <2>1. (q.pagina - 1) * q.limite = a - 1
    BY <1>1
  <2> HIDE DEF a, b
  <2>2. m \in Int /\ 1 <= m /\ m <= b - a + 1
    BY <1>2, <1>6
  <2>. QED
    BY <1>1, <1>2, <2>1, <2>2, SMTT(30)
<1>. QED
  BY <1>6, <1>7

\* Two pages share nothing, whichever way each was ordered.
LEMMA HojasDisjuntas ==
    ASSUME publicado \in Catalogos, NEW C \in SUBSET DOMAIN publicado, NEW f,
           NEW s \in EnOrden(C, f), NEW t \in EnOrden(C, f),
           NEW p, NEW q, p.limite \in Nat \ {0}, q.limite = p.limite,
           p.pagina \in Nat \ {0}, q.pagina \in Nat \ {0}, p.pagina < q.pagina
    PROVE  Range(Trozo(s, p)) \cap Range(Trozo(t, q)) = {}
<1>1. SUFFICES ASSUME NEW i, i \in Range(Trozo(s, p)), i \in Range(Trozo(t, q)) PROVE FALSE
  OBVIOUS
<1>2. IsFiniteSet(C)
  BY CatalogosOK, FS_Subset
<1>3. /\ s \in Seq(C) /\ Len(s) = Cardinality(C) /\ t \in Seq(C) /\ Len(t) = Cardinality(C)
  BY <1>2, EnOrdenEs
<1>4. PICK k \in 1 .. Len(s) :
        s[k] = i /\ (p.pagina - 1) * p.limite < k /\ k <= p.pagina * p.limite
  BY <1>1, <1>3, EnLaHoja
<1>5. PICK h \in 1 .. Len(t) :
        t[h] = i /\ (q.pagina - 1) * q.limite < h /\ h <= q.pagina * q.limite
  BY <1>1, <1>3, EnLaHoja
<1>6. Cardinality({j \in C : Delante(j, i, f)}) = k - 1
  <2>1. k \in 1 .. Cardinality(C) /\ s[k] = i
    BY <1>3, <1>4
  <2>2. Cardinality({j \in C : Delante(j, s[k], f)}) = k - 1
    BY <2>1, ElPuesto
  <2>. QED
    BY <2>1, <2>2
<1>7. Cardinality({j \in C : Delante(j, i, f)}) = h - 1
  <2>1. h \in 1 .. Cardinality(C) /\ t[h] = i
    BY <1>3, <1>5
  <2>2. Cardinality({j \in C : Delante(j, t[h], f)}) = h - 1
    BY <2>1, ElPuesto
  <2>. QED
    BY <2>1, <2>2
<1>8. k \in Nat /\ h \in Nat /\ k = h
  <2>1. Len(s) \in Nat /\ Len(t) \in Nat
    BY <1>3
  <2>. QED
    BY <1>6, <1>7, <2>1
<1>9. p.pagina * p.limite <= (q.pagina - 1) * p.limite
  <2>1. \A x, y, z \in Nat : x <= y => x * z <= y * z
    BY SMTT(30)
  <2>2. p.pagina <= q.pagina - 1 /\ q.pagina - 1 \in Nat
    OBVIOUS
  <2>. QED
    BY <2>1, <2>2
<1>10. p.pagina * p.limite \in Int /\ (q.pagina - 1) * p.limite \in Int
  <2>1. \A x, z \in Int : x * z \in Int
    OBVIOUS
  <2>. QED
    BY <2>1
<1>. QED
  BY <1>4, <1>5, <1>8, <1>9, <1>10

\* Filters, and a view with its page, as the page may have them.
FiltroBien(f) ==
    /\ f = Filtros(f.texto, f.oficio, f.ciudad, f.punto, f.radio, f.nota, f.precio, f.orden)
    /\ f.punto \/ f.radio = 0
    /\ f.orden \in Ordenes \cup {Nada}

VistaBien(v, p) == v \in {"list", "map"} /\ p \in Nat \ {0} /\ (v = "map" => p = 1)

\* What an address says.
LEMMA DeUrlBien ==
    ASSUME NEW u, u.page \in Int
    PROVE  FiltroBien(FiltrosDeUrl(u)) /\ VistaBien(VistaDeUrl(u), PaginaDeUrl(u))
<1>1. FiltroBien(FiltrosDeUrl(u))
  <2> DEFINE o == IF u.sort \in Ordenes THEN u.sort ELSE Nada
             r == IF u.punto THEN u.radius ELSE 0
  <2>1. o \in Ordenes \cup {Nada} /\ (u.punto \/ r = 0)
    OBVIOUS
  <2> HIDE DEF o, r
  <2>2. FiltrosDeUrl(u) = Filtros(u.q, u.category, u.city, u.punto, r, u.rating, u.maxPrice, o)
    BY DEF FiltrosDeUrl, o, r
  <2>. QED
    BY <2>1, <2>2 DEF FiltroBien, Filtros
<1>2. VistaBien(VistaDeUrl(u), PaginaDeUrl(u))
  BY DEF VistaBien, VistaDeUrl, PaginaDeUrl
<1>. QED
  BY <1>1, <1>2

\* What is written in an address is read from it.
LEMMA IdaYVuelta ==
    ASSUME NEW f, NEW v, NEW p, FiltroBien(f), VistaBien(v, p)
    PROVE  LET u == UrlDeBusqueda(f, v, p) IN
           /\ u.page \in Int
           /\ PeticionDeUrl(u) = PeticionDeBusqueda(f, v, p)
           /\ Clave(u) = u
<1> DEFINE u == UrlDeBusqueda(f, v, p)
           s == IF OrdenVigente(f) = OrdenPorDefecto(f) THEN Nada ELSE OrdenVigente(f)
           g == FiltrosDeUrl(u)
<1>1. /\ u.q = f.texto /\ u.category = f.oficio /\ u.city = f.ciudad /\ u.punto = f.punto
      /\ u.radius = (IF f.punto THEN f.radio ELSE 0) /\ u.rating = f.nota
      /\ u.maxPrice = f.precio /\ u.sort = s
      /\ u.view = (IF v = "map" THEN "map" ELSE Nada)
      /\ u.page = (IF v # "map" /\ p > 1 THEN p ELSE 0)
  BY DEF UrlDeBusqueda
<1>2. (IF f.punto THEN f.radio ELSE 0) = f.radio
  BY DEF FiltroBien
<1>3. OrdenVigente(f) \in Ordenes /\ s \in Ordenes \cup {Nada}
  BY DEF FiltroBien, OrdenVigente, OrdenPorDefecto, Ordenes
<1> HIDE DEF u
<1>4. /\ g.texto = f.texto /\ g.oficio = f.oficio /\ g.ciudad = f.ciudad /\ g.punto = f.punto
      /\ g.radio = f.radio /\ g.nota = f.nota /\ g.precio = f.precio /\ g.orden = s
  BY <1>1, <1>2, <1>3, EnlacesOK DEF FiltrosDeUrl, Filtros
<1>5. /\ OrdenPorDefecto(g) = OrdenPorDefecto(f)
      /\ OrdenVigente(g) = OrdenVigente(f)
  <2>1. OrdenPorDefecto(g) = OrdenPorDefecto(f)
    BY <1>4 DEF OrdenPorDefecto
  <2>2. CASE OrdenVigente(f) = OrdenPorDefecto(f)
    BY <1>4, <2>1, <2>2 DEF OrdenVigente
  <2>3. CASE OrdenVigente(f) # OrdenPorDefecto(f)
    <3>1. s = OrdenVigente(f) /\ s # Nada
      BY <1>3, <2>3, EnlacesOK
    <3>2. ~(s = "distance" /\ ~f.punto)
      BY <3>1 DEF OrdenVigente, OrdenPorDefecto
    <3>3. OrdenVigente(g) = g.orden
      BY <1>4, <3>1, <3>2 DEF OrdenVigente
    <3>. QED
      BY <1>4, <2>1, <3>1, <3>3
  <2>. QED
    BY <2>1, <2>2, <2>3
<1>6. VistaDeUrl(u) = v /\ PaginaDeUrl(u) = p
  BY <1>1, EnlacesOK DEF VistaBien, VistaDeUrl, PaginaDeUrl
<1>7. FiltroBien(g)
  <2>1. u.page \in Int
    BY <1>1 DEF VistaBien
  <2>. QED
    BY <2>1, DeUrlBien
<1> HIDE DEF g, s
<1>8. PeticionDeBusqueda(g, v, p) = PeticionDeBusqueda(f, v, p)
  <2> DEFINE o == IF OrdenVigente(f) = "newest" THEN Nada ELSE OrdenVigente(f)
  <2>1. [g EXCEPT !.orden = o] = [f EXCEPT !.orden = o]
    BY <1>4, <1>7 DEF FiltroBien, Filtros
  <2>. QED
    BY <1>5, <2>1 DEF PeticionDeBusqueda
<1>9. PeticionDeUrl(u) = PeticionDeBusqueda(f, v, p)
  BY <1>6, <1>8 DEF PeticionDeUrl, g
<1>10. UrlDeBusqueda(g, v, p) = UrlDeBusqueda(f, v, p)
  BY <1>4, <1>5 DEF UrlDeBusqueda
<1>11. Clave(u) = u
  BY <1>6, <1>10 DEF Clave, u, g
<1>12. u.page \in Int
  BY <1>1 DEF VistaBien
<1>. QED
  BY <1>9, <1>11, <1>12 DEF u

\* What the page writes of an address says all that is asked for with it.
LEMMA ClaveBasta ==
    ASSUME NEW u, NEW w, u.page \in Int, w.page \in Int, Clave(u) = Clave(w)
    PROVE  PeticionDeUrl(u) = PeticionDeUrl(w)
<1>1. ASSUME NEW x, x.page \in Int PROVE PeticionDeUrl(Clave(x)) = PeticionDeUrl(x)
  BY <1>1, DeUrlBien, IdaYVuelta DEF Clave, PeticionDeUrl
<1>. QED
  BY <1>1

\* Every entry of the history asks for what was meant when it was written.
EntradaBien(e) ==
    /\ e.url.page \in Int
    /\ PeticionDeUrl(e.url) = PeticionDeBusqueda(e.filtros, e.vista, e.pagina)

HistorialBien ==
    /\ \E S : historial \in Seq(S)
    /\ lugar \in DOMAIN historial
    /\ \A n \in DOMAIN historial : EntradaBien(historial[n])

\* The search on the screen is that of the address; whoever asked and is still there
\* asked for it.
PantallaBien ==
    /\ pantalla.clave = Clave(Url) /\ pantalla.peticion = PeticionDeUrl(Url)
    /\ pantalla = Pantalla(pantalla.clave, pantalla.peticion, pantalla.repeticion,
                           pantalla.intento, pantalla.estado, pantalla.datos)
    /\ pantalla.estado = "datos" => pantalla.datos.peticion = pantalla.peticion

PeticionesBien ==
    \A r \in peticiones :
        /\ r = Peticion(r.origen, r.peticion, r.etapa, r.ids, r.total, r.vigente)
        /\ (r.vigente = FALSE) \/ r.peticion = pantalla.peticion

\* The inductive invariant of the search.
BusquedaEnOrden ==
    publicado \in Catalogos /\ HistorialBien /\ PantallaBien /\ PeticionesBien

\* What nobody waits for any more.
LEMMA DesatendidasBien ==
    ASSUME PeticionesBien, NEW d \in Desatendidas
    PROVE  /\ d = Peticion(d.origen, d.peticion, d.etapa, d.ids, d.total, d.vigente)
           /\ d.vigente = FALSE
<1>1. PICK r \in peticiones : d = [r EXCEPT !.vigente = FALSE]
  BY DEF Desatendidas
<1>2. r = Peticion(r.origen, r.peticion, r.etapa, r.ids, r.total, r.vigente)
  BY DEF PeticionesBien
<1>. QED
  BY <1>1, <1>2 DEF Peticion

\* Going to an address puts its search on the screen.
LEMMA MontaBien ==
    ASSUME BusquedaEnOrden, NEW u, u.page \in Int, Monta(u), Url' = u
    PROVE  PantallaBien' /\ PeticionesBien'
<1> DEFINE p == PeticionDeUrl(u)
           guardada == {r \in frescas : r.peticion = p}
           n == Peticion("sitio", p, "va", <<>>, 0, TRUE)
<1>0. PantallaBien /\ PeticionesBien /\ Url.page \in Int
  BY DEF BusquedaEnOrden, HistorialBien, EntradaBien, Url
<1>1. CASE Clave(u) = pantalla.clave /\ UNCHANGED <<pantalla, peticiones>>
  <2>1. p = PeticionDeUrl(Url)
    BY <1>0, <1>1, ClaveBasta DEF PantallaBien
  <2>2. Clave(u) = pantalla.clave /\ pantalla' = pantalla /\ peticiones' = peticiones
    BY <1>1
  <2> HIDE DEF p
  <2>3. PantallaBien'
    BY <1>0, <2>1, <2>2 DEF PantallaBien, p
  <2>. QED
    BY <1>0, <2>2, <2>3 DEF PeticionesBien
<1>2. CASE /\ pantalla'.clave = Clave(u) /\ pantalla'.peticion = p
           /\ pantalla' = Pantalla(pantalla'.clave, pantalla'.peticion, pantalla'.repeticion,
                                   pantalla'.intento, pantalla'.estado, pantalla'.datos)
           /\ pantalla'.estado = "datos" => pantalla'.datos.peticion = p
           /\ peticiones' \subseteq Desatendidas \cup {n}
  <2>1. PantallaBien'
    BY <1>2 DEF PantallaBien
  <2>2. ASSUME NEW r \in peticiones'
        PROVE  /\ r = Peticion(r.origen, r.peticion, r.etapa, r.ids, r.total, r.vigente)
               /\ (r.vigente = FALSE) \/ r.peticion = pantalla'.peticion
    <3>1. CASE r \in Desatendidas
      BY <1>0, <3>1, DesatendidasBien
    <3>2. CASE r = n
      BY <1>2, <3>2 DEF Peticion
    <3>. QED
      BY <1>2, <3>1, <3>2
  <2>. QED
    BY <2>1, <2>2 DEF PeticionesBien
<1>3. CASE /\ guardada # {}
           /\ pantalla' = Pantalla(Clave(u), p, 0, 0, "datos", CHOOSE r \in guardada : TRUE)
           /\ peticiones' = Desatendidas
  <2> DEFINE d == CHOOSE r \in guardada : TRUE
  <2>1. d \in guardada
    BY <1>3
  <2>2. d.peticion = p
    BY <2>1
  <2> HIDE DEF d, p, n
  <2>3. pantalla' = Pantalla(Clave(u), p, 0, 0, "datos", d)
    BY <1>3 DEF d
  <2>. QED
    BY <1>2, <1>3, <2>2, <2>3 DEF Pantalla
<1>4. CASE /\ pantalla' = Pantalla(Clave(u), p, 0, 0, "servidor", Nada)
           /\ peticiones' = Desatendidas \cup {n}
  <2> HIDE DEF p, n
  <2>. QED
    BY <1>2, <1>4 DEF Pantalla
<1>. QED
  BY <1>1, <1>3, <1>4 DEF Monta

\* What the address on screen says.
LEMMA VigenteBien ==
    ASSUME BusquedaEnOrden
    PROVE  /\ Url.page \in Int /\ FiltroBien(FiltrosVigentes) /\ VistaBien(Vista, Pagina)
           /\ FiltrosVigentes.orden \in Ordenes \cup {Nada}
<1>1. Url.page \in Int
  BY DEF BusquedaEnOrden, HistorialBien, EntradaBien, Url
<1>2. FiltroBien(FiltrosVigentes) /\ VistaBien(Vista, Pagina)
  BY <1>1, DeUrlBien DEF FiltrosVigentes, Vista, Pagina
<1>. QED
  BY <1>1, <1>2 DEF FiltroBien

\* Going somewhere writes an address that asks for what is meant.
LEMMA IrBien ==
    ASSUME BusquedaEnOrden, NEW f, NEW v, NEW p, NEW modo, FiltroBien(f), VistaBien(v, p),
           Ir(f, v, p, modo)
    PROVE  BusquedaEnOrden'
<1> DEFINE u == UrlDeBusqueda(f, v, p)
           d == Direccion(u, f, v, p)
<1>1. /\ u.page \in Int /\ PeticionDeUrl(u) = PeticionDeBusqueda(f, v, p)
  BY IdaYVuelta
<1>2. /\ publicado' = publicado /\ Monta(u)
      /\ \/ /\ historial' = Append(SubSeq(historial, 1, lugar), d) /\ lugar' = lugar + 1
         \/ historial' = [historial EXCEPT ![lugar] = d] /\ lugar' = lugar
  BY DEF Ir
<1>3. d.url = u /\ EntradaBien(d)
  BY <1>1 DEF EntradaBien, Direccion
<1> HIDE DEF u, d
<1>4. PICK S : historial \in Seq(S)
  BY DEF BusquedaEnOrden, HistorialBien
<1>5. /\ lugar \in DOMAIN historial /\ lugar \in 1 .. Len(historial) /\ Len(historial) \in Nat
      /\ \A n \in DOMAIN historial : EntradaBien(historial[n])
  BY <1>4 DEF BusquedaEnOrden, HistorialBien
<1>6. HistorialBien' /\ historial'[lugar'] = d
  <2> DEFINE T == S \cup {d}
  <2>1. historial \in Seq(T)
    BY <1>4
  <2>2. CASE historial' = Append(SubSeq(historial, 1, lugar), d) /\ lugar' = lugar + 1
    <3> DEFINE s == SubSeq(historial, 1, lugar)
    <3>1. s \in Seq(T) /\ Len(s) = lugar /\ \A n \in 1 .. lugar : s[n] = historial[n]
      BY <1>5, <2>1
    <3>2. d \in T
      OBVIOUS
    <3> HIDE DEF s, T
    <3>3. /\ historial' \in Seq(T) /\ Len(historial') = lugar + 1
          /\ DOMAIN historial' = 1 .. lugar + 1
          /\ historial'[lugar + 1] = d /\ \A n \in 1 .. lugar : historial'[n] = s[n]
      BY <1>5, <2>2, <3>1, <3>2 DEF s
    <3>4. \A n \in DOMAIN historial' : EntradaBien(historial'[n])
      BY <1>3, <1>5, <3>1, <3>3
    <3>5. lugar' \in DOMAIN historial' /\ historial'[lugar'] = d
      BY <1>5, <2>2, <3>3
    <3>6. \A n \in DOMAIN historial' : EntradaBien(historial[n])'
      BY <3>4 DEF EntradaBien, PeticionDeUrl, PeticionDeBusqueda, FiltrosDeUrl, VistaDeUrl,
                  PaginaDeUrl, OrdenVigente, OrdenPorDefecto
    <3>. QED
      BY <3>3, <3>5, <3>6 DEF HistorialBien
  <2>3. CASE historial' = [historial EXCEPT ![lugar] = d] /\ lugar' = lugar
    <3>2. d \in T
      OBVIOUS
    <3> HIDE DEF T
    <3>3. /\ historial' \in Seq(T) /\ DOMAIN historial' = DOMAIN historial
          /\ historial'[lugar] = d
          /\ \A n \in DOMAIN historial : n # lugar => historial'[n] = historial[n]
      BY <1>5, <2>1, <2>3, <3>2
    <3>4. \A n \in DOMAIN historial' : EntradaBien(historial'[n])
      BY <1>3, <1>5, <3>3
    <3>5. lugar' \in DOMAIN historial' /\ historial'[lugar'] = d
      BY <1>5, <2>3, <3>3
    <3>6. \A n \in DOMAIN historial' : EntradaBien(historial[n])'
      BY <3>4 DEF EntradaBien, PeticionDeUrl, PeticionDeBusqueda, FiltrosDeUrl, VistaDeUrl,
                  PaginaDeUrl, OrdenVigente, OrdenPorDefecto
    <3>. QED
      BY <3>3, <3>5, <3>6 DEF HistorialBien
  <2>. QED
    BY <1>2, <2>2, <2>3
<1>7. Url' = u
  BY <1>3, <1>6 DEF Url
<1>8. PantallaBien' /\ PeticionesBien'
  BY <1>1, <1>2, <1>7, MontaBien
<1>. QED
  BY <1>2, <1>6, <1>8 DEF BusquedaEnOrden

\* To go back or forward is to go to an address that was written before.
LEMMA VolverBien ==
    ASSUME BusquedaEnOrden, NEW n \in DOMAIN historial, VolverA(n)
    PROVE  BusquedaEnOrden'
<1>1. /\ historial' = historial /\ lugar' = n /\ publicado' = publicado
      /\ Monta(historial[n].url)
  BY DEF VolverA
<1>2. historial[n].url.page \in Int
  BY DEF BusquedaEnOrden, HistorialBien, EntradaBien
<1>3. Url' = historial[n].url
  BY <1>1 DEF Url
<1>4. PantallaBien' /\ PeticionesBien'
  BY <1>1, <1>2, <1>3, MontaBien
<1>5. HistorialBien'
  BY <1>1 DEF BusquedaEnOrden, HistorialBien, EntradaBien
<1>. QED
  BY <1>1, <1>4, <1>5 DEF BusquedaEnOrden

\* The same address, and another search of it.
LEMMA MismaDireccion ==
    ASSUME BusquedaEnOrden, historial' = historial, lugar' = lugar, publicado' \in Catalogos,
           pantalla' = Pantalla(pantalla.clave, pantalla.peticion, pantalla'.repeticion,
                                pantalla'.intento, pantalla'.estado, pantalla'.datos),
           pantalla'.estado = "datos" => pantalla'.datos.peticion = pantalla.peticion,
           \A r \in peticiones' :
              \/ r \in peticiones
              \/ /\ r = Peticion(r.origen, r.peticion, r.etapa, r.ids, r.total, r.vigente)
                 /\ (r.vigente = FALSE) \/ r.peticion = pantalla.peticion
    PROVE  BusquedaEnOrden'
<1>1. HistorialBien' /\ Url' = Url
  BY DEF BusquedaEnOrden, HistorialBien, EntradaBien, Url
<1>2. pantalla'.clave = pantalla.clave /\ pantalla'.peticion = pantalla.peticion
  BY DEF Pantalla
<1>3. PantallaBien'
  BY <1>1, <1>2 DEF BusquedaEnOrden, PantallaBien
<1>4. PeticionesBien'
  BY <1>2 DEF BusquedaEnOrden, PeticionesBien
<1>. QED
  BY <1>1, <1>3, <1>4 DEF BusquedaEnOrden

\* To search anew is to go to another address, or to ask again.
LEMMA BuscarBien ==
    ASSUME BusquedaEnOrden, NEW f, FiltroBien(f), Buscar(f)
    PROVE  BusquedaEnOrden'
<1>1. VistaBien(Vista, 1)
  BY VigenteBien DEF VistaBien
<1>2. CASE UrlDeBusqueda(f, Vista, 1) # pantalla.clave
  <2>1. Ir(f, Vista, 1, "replace")
    BY <1>2 DEF Buscar
  <2>. QED
    BY <1>1, <2>1, IrBien
<1>3. CASE UrlDeBusqueda(f, Vista, 1) = pantalla.clave
  <2>1. /\ pantalla' = Pantalla(pantalla.clave, pantalla.peticion, pantalla.repeticion + 1, 0,
                                "navegador", Nada)
        /\ peticiones' = Desatendidas
        /\ historial' = historial /\ lugar' = lugar /\ publicado' = publicado
    BY <1>3 DEF Buscar
  <2>2. /\ pantalla'.repeticion = pantalla.repeticion + 1 /\ pantalla'.intento = 0
        /\ pantalla'.estado = "navegador" /\ pantalla'.datos = Nada
    BY <2>1 DEF Pantalla
  <2>3. publicado' \in Catalogos /\ PeticionesBien
    BY <2>1 DEF BusquedaEnOrden
  <2>. QED
    BY <2>1, <2>2, <2>3, DesatendidasBien, MismaDireccion
<1>. QED
  BY <1>2, <1>3

\* To search for words, from any view, is to list what there is of them.
LEMMA BuscarTextoBien ==
    ASSUME BusquedaEnOrden, NEW texto \in Textos, BuscarTexto(texto) PROVE BusquedaEnOrden'
<1>1. FiltroBien([FiltrosVigentes EXCEPT !.texto = texto])
  BY VigenteBien DEF FiltroBien, Filtros
<1>. QED
  BY <1>1, BuscarBien DEF BuscarTexto

\* To apply the panel's filters keeps the words and the order of the address.
LEMMA AplicarFiltrosBien ==
    ASSUME BusquedaEnOrden, NEW g \in Peticiones, AplicarFiltros(g) PROVE BusquedaEnOrden'
<1> DEFINE f == [g EXCEPT !.texto = FiltrosVigentes.texto, !.orden = FiltrosVigentes.orden]
<1>1. /\ g = Filtros(g.texto, g.oficio, g.ciudad, g.punto, g.radio, g.nota, g.precio, g.orden)
      /\ g.punto \/ g.radio = 0
  BY EnlacesOK
<1>2. FiltroBien(f)
  <2> DEFINE x == FiltrosVigentes.texto
             o == FiltrosVigentes.orden
  <2>1. o \in Ordenes \cup {Nada}
    BY VigenteBien
  <2> HIDE DEF x, o
  <2>2. f = Filtros(x, g.oficio, g.ciudad, g.punto, g.radio, g.nota, g.precio, o)
    <3>1. [Filtros(g.texto, g.oficio, g.ciudad, g.punto, g.radio, g.nota, g.precio, g.orden)
              EXCEPT !.texto = x, !.orden = o] =
              Filtros(x, g.oficio, g.ciudad, g.punto, g.radio, g.nota, g.precio, o)
      <4> DEFINE t == g.texto
                 a == g.oficio
                 b == g.ciudad
                 c == g.punto
                 d == g.radio
                 e == g.nota
                 h == g.precio
                 k == g.orden
      <4> HIDE DEF t, a, b, c, d, e, h, k
      <4>1. [Filtros(t, a, b, c, d, e, h, k) EXCEPT !.texto = x, !.orden = o] =
                [[Filtros(t, a, b, c, d, e, h, k) EXCEPT !.texto = x] EXCEPT !.orden = o]
        OBVIOUS
      <4>2. [Filtros(t, a, b, c, d, e, h, k) EXCEPT !.texto = x] = Filtros(x, a, b, c, d, e, h, k)
        BY DEF Filtros
      <4>3. [Filtros(x, a, b, c, d, e, h, k) EXCEPT !.orden = o] = Filtros(x, a, b, c, d, e, h, o)
        BY DEF Filtros
      <4>4. [Filtros(t, a, b, c, d, e, h, k) EXCEPT !.texto = x, !.orden = o] =
                Filtros(x, a, b, c, d, e, h, o)
        BY <4>1, <4>2, <4>3
      <4>. QED
        BY <4>4 DEF t, a, b, c, d, e, h, k
    <3>. QED
      BY <1>1, <3>1 DEF x, o
  <2>. QED
    BY <1>1, <2>1, <2>2 DEF FiltroBien, Filtros
<1>. QED
  BY <1>2, BuscarBien DEF AplicarFiltros

\* To change the view keeps what is searched for.
LEMMA CambiarVistaBien ==
    ASSUME BusquedaEnOrden, NEW vista \in {"list", "map"}, CambiarVista(vista)
    PROVE  BusquedaEnOrden'
BY VigenteBien, IrBien DEF CambiarVista, VistaBien

\* To change the order goes to the first page of it.
LEMMA CambiarOrdenBien ==
    ASSUME BusquedaEnOrden, NEW orden \in Ordenes, CambiarOrden(orden) PROVE BusquedaEnOrden'
<1>1. FiltroBien([FiltrosVigentes EXCEPT !.orden = orden])
  BY VigenteBien DEF FiltroBien, Filtros
<1>2. VistaBien(Vista, 1)
  BY VigenteBien DEF VistaBien
<1>. QED
  BY <1>1, <1>2, IrBien DEF CambiarOrden

\* To change the page keeps all the rest.
LEMMA CambiarPaginaBien ==
    ASSUME BusquedaEnOrden, NEW n \in 1 .. TopeConteo, CambiarPagina(n) PROVE BusquedaEnOrden'
<1>1. VistaBien(Vista, n)
  BY BusquedaOK DEF CambiarPagina, VistaBien
<1>. QED
  BY <1>1, VigenteBien, IrBien DEF CambiarPagina

\* The browser asks for what is on the screen.
LEMMA PedirBien == ASSUME BusquedaEnOrden, Pedir PROVE BusquedaEnOrden'
<1> DEFINE n == Peticion("navegador", pantalla.peticion, "va", <<>>, 0, TRUE)
<1>1. /\ pantalla' = pantalla /\ peticiones' = peticiones \cup {n}
      /\ historial' = historial /\ lugar' = lugar /\ publicado' = publicado
  BY DEF Pedir
<1>2. /\ n = Peticion(n.origen, n.peticion, n.etapa, n.ids, n.total, n.vigente)
      /\ n.peticion = pantalla.peticion
  BY DEF Peticion
<1> HIDE DEF n
<1>3. /\ publicado' \in Catalogos
      /\ pantalla' = Pantalla(pantalla.clave, pantalla.peticion, pantalla'.repeticion,
                                pantalla'.intento, pantalla'.estado, pantalla'.datos)
      /\ pantalla'.estado = "datos" => pantalla'.datos.peticion = pantalla.peticion
  BY <1>1 DEF BusquedaEnOrden, PantallaBien
<1>. QED
  BY <1>1, <1>2, <1>3, MismaDireccion

\* To try again is to ask for the same.
LEMMA ReintentarBien == ASSUME BusquedaEnOrden, Reintentar PROVE BusquedaEnOrden'
<1>1. /\ pantalla' = Pantalla(pantalla.clave, pantalla.peticion, pantalla.repeticion,
                              pantalla.intento + 1, "navegador", Nada)
      /\ peticiones' = peticiones
      /\ historial' = historial /\ lugar' = lugar /\ publicado' = publicado
  BY DEF Reintentar
<1>2. /\ pantalla'.repeticion = pantalla.repeticion /\ pantalla'.intento = pantalla.intento + 1
      /\ pantalla'.estado = "navegador" /\ pantalla'.datos = Nada
  BY <1>1 DEF Pantalla
<1>3. publicado' \in Catalogos
  BY <1>1 DEF BusquedaEnOrden
<1>. QED
  BY <1>1, <1>2, <1>3, MismaDireccion

\* What leaves the screen as it is, and asks for nothing new.
LEMMA PantallaIgual ==
    ASSUME BusquedaEnOrden, historial' = historial, lugar' = lugar, publicado' \in Catalogos,
           pantalla' = pantalla, peticiones' \subseteq peticiones
    PROVE  BusquedaEnOrden'
<1>1. /\ pantalla' = Pantalla(pantalla.clave, pantalla.peticion, pantalla'.repeticion,
                                pantalla'.intento, pantalla'.estado, pantalla'.datos)
      /\ pantalla'.estado = "datos" => pantalla'.datos.peticion = pantalla.peticion
  BY DEF BusquedaEnOrden, PantallaBien
<1>. QED
  BY <1>1, MismaDireccion

\* The API works on a request without changing what it asks for.
LEMMA PasaABien ==
    ASSUME BusquedaEnOrden, NEW r \in peticiones, NEW etapa, NEW ids, NEW total,
           PasaA(r, etapa, ids, total)
    PROVE  BusquedaEnOrden'
<1> DEFINE n == Peticion(r.origen, r.peticion, etapa, ids, total, r.vigente)
<1>1. /\ pantalla' = pantalla /\ peticiones' = (peticiones \ {r}) \cup {n}
      /\ historial' = historial /\ lugar' = lugar /\ publicado' = publicado
  BY DEF PasaA
<1>2. (r.vigente = FALSE) \/ r.peticion = pantalla.peticion
  BY DEF BusquedaEnOrden, PeticionesBien
<1>3. /\ n = Peticion(n.origen, n.peticion, n.etapa, n.ids, n.total, n.vigente)
      /\ (n.vigente = FALSE) \/ n.peticion = pantalla.peticion
  BY <1>2 DEF Peticion
<1> HIDE DEF n
<1>4. /\ publicado' \in Catalogos
      /\ pantalla' = Pantalla(pantalla.clave, pantalla.peticion, pantalla'.repeticion,
                                pantalla'.intento, pantalla'.estado, pantalla'.datos)
      /\ pantalla'.estado = "datos" => pantalla'.datos.peticion = pantalla.peticion
  BY <1>1 DEF BusquedaEnOrden, PantallaBien
<1>. QED
  BY <1>1, <1>3, <1>4, MismaDireccion

\* An answer that is shown is to what is on the screen.
LEMMA SeMuestraBien ==
    ASSUME BusquedaEnOrden, NEW r \in peticiones, NEW datos, datos.peticion = r.peticion,
           historial' = historial, lugar' = lugar, publicado' = publicado,
           peticiones' = peticiones \ {r},
           pantalla' = IF r.vigente THEN [pantalla EXCEPT !.estado = "datos", !.datos = datos]
                       ELSE pantalla
    PROVE  BusquedaEnOrden'
<1>1. publicado' \in Catalogos
  BY DEF BusquedaEnOrden
<1>2. CASE ~r.vigente
  BY <1>1, <1>2, PantallaIgual
<1>3. CASE r.vigente
  <2>1. r.peticion = pantalla.peticion
    BY <1>3 DEF BusquedaEnOrden, PeticionesBien
  <2>2. pantalla = Pantalla(pantalla.clave, pantalla.peticion, pantalla.repeticion,
                            pantalla.intento, pantalla.estado, pantalla.datos)
    BY DEF BusquedaEnOrden, PantallaBien
  <2>3. pantalla' = [pantalla EXCEPT !.estado = "datos", !.datos = datos]
    BY <1>3
  <2>4. /\ pantalla' = Pantalla(pantalla.clave, pantalla.peticion, pantalla'.repeticion,
                                pantalla'.intento, pantalla'.estado, pantalla'.datos)
        /\ pantalla'.datos = datos
    BY <2>2, <2>3 DEF Pantalla
  <2>. QED
    BY <1>1, <2>1, <2>4, MismaDireccion
<1>. QED
  BY <1>2, <1>3

\* An answer shown is that of the request the screen waits for.
LEMMA LlegaBien ==
    ASSUME BusquedaEnOrden, NEW r \in peticiones, Llega(r) \/ LlegaAlSitio(r)
    PROVE  BusquedaEnOrden'
<1> DEFINE datos == Resultado(r.peticion, r.ids, r.total)
<1>1. /\ historial' = historial /\ lugar' = lugar /\ publicado' = publicado
      /\ peticiones' = peticiones \ {r}
      /\ pantalla' = IF r.vigente THEN [pantalla EXCEPT !.estado = "datos", !.datos = datos]
                     ELSE pantalla
  BY DEF Llega, LlegaAlSitio
<1>2. datos.peticion = r.peticion
  BY DEF Resultado
<1> HIDE DEF datos
<1>. QED
  BY <1>1, <1>2, SeMuestraBien

\* One that does not come leaves the search it was for.
LEMMA NoLlegaBien ==
    ASSUME BusquedaEnOrden, NEW r \in peticiones, NoLlega(r) PROVE BusquedaEnOrden'
<1> DEFINE e == IF r.origen = "sitio" THEN "navegador" ELSE "fallo"
<1>1. /\ historial' = historial /\ lugar' = lugar /\ publicado' = publicado
      /\ peticiones' = peticiones \ {r}
      /\ pantalla' = IF ~r.vigente THEN pantalla ELSE [pantalla EXCEPT !.estado = e]
  BY DEF NoLlega
<1>2. publicado' \in Catalogos
  BY <1>1 DEF BusquedaEnOrden
<1>3. CASE ~r.vigente
  BY <1>1, <1>2, <1>3, PantallaIgual
<1>4. CASE r.vigente
  <2>1. pantalla = Pantalla(pantalla.clave, pantalla.peticion, pantalla.repeticion,
                            pantalla.intento, pantalla.estado, pantalla.datos)
    BY DEF BusquedaEnOrden, PantallaBien
  <2>2. e # "datos"
    OBVIOUS
  <2> HIDE DEF e
  <2>3. pantalla' = [pantalla EXCEPT !.estado = e]
    BY <1>1, <1>4
  <2>4. /\ pantalla' = Pantalla(pantalla.clave, pantalla.peticion, pantalla'.repeticion,
                                pantalla'.intento, pantalla'.estado, pantalla'.datos)
        /\ pantalla'.estado = e
    BY <2>1, <2>3 DEF Pantalla
  <2>. QED
    BY <1>1, <1>2, <2>2, <2>4, MismaDireccion
<1>. QED
  BY <1>3, <1>4

\* The page opens with the search of its address.
LEMMA BusquedaEmpieza == InitBusqueda => BusquedaEnOrden
<1> SUFFICES ASSUME InitBusqueda PROVE BusquedaEnOrden
  OBVIOUS
<1>1. PICK u \in Enlaces :
        /\ historial = <<Direccion(u, FiltrosDeUrl(u), VistaDeUrl(u), PaginaDeUrl(u))>>
        /\ pantalla = Pantalla(Clave(u), PeticionDeUrl(u), 0, 0, "servidor", Nada)
        /\ peticiones = {Peticion("sitio", PeticionDeUrl(u), "va", <<>>, 0, TRUE)}
  BY DEF InitBusqueda
<1> DEFINE d == Direccion(u, FiltrosDeUrl(u), VistaDeUrl(u), PaginaDeUrl(u))
<1>2. EntradaBien(d) /\ d.url = u
  <2>1. /\ d.url = u /\ d.filtros = FiltrosDeUrl(u) /\ d.vista = VistaDeUrl(u)
        /\ d.pagina = PaginaDeUrl(u)
    BY DEF Direccion
  <2>. QED
    BY <2>1, EnlacesOK DEF EntradaBien, PeticionDeUrl
<1>3. historial = <<d>>
  BY <1>1
<1> HIDE DEF d
<1>4. historial \in Seq({d}) /\ DOMAIN historial = {1} /\ historial[1] = d
  BY <1>3
<1>5. lugar = 1 /\ publicado \in Catalogos
  BY DEF InitBusqueda
<1>6. HistorialBien /\ Url = u
  BY <1>2, <1>4, <1>5 DEF HistorialBien, Url
<1>7. PantallaBien
  BY <1>1, <1>6 DEF PantallaBien, Pantalla
<1>8. PeticionesBien
  <2>1. pantalla.peticion = PeticionDeUrl(u)
    BY <1>1 DEF Pantalla
  <2>2. ASSUME NEW r \in peticiones
        PROVE  /\ r = Peticion(r.origen, r.peticion, r.etapa, r.ids, r.total, r.vigente)
               /\ r.peticion = pantalla.peticion
    <3>1. r = Peticion("sitio", PeticionDeUrl(u), "va", <<>>, 0, TRUE)
      BY <1>1
    <3>. QED
      BY <2>1, <3>1 DEF Peticion
  <2>. QED
    BY <2>2 DEF PeticionesBien
<1>. QED
  BY <1>5, <1>6, <1>7, <1>8 DEF BusquedaEnOrden

\* No step of the visitor, of the site or of the API disturbs it.
LEMMA BusquedaSigue == BusquedaEnOrden /\ [NextBusqueda]_varsBusqueda => BusquedaEnOrden'
<1> SUFFICES ASSUME BusquedaEnOrden, [NextBusqueda]_varsBusqueda PROVE BusquedaEnOrden'
  OBVIOUS
<1>0. publicado \in Catalogos
  BY DEF BusquedaEnOrden
<1>1. ASSUME NEW texto \in Textos, BuscarTexto(texto) PROVE BusquedaEnOrden'
  BY <1>1, BuscarTextoBien
<1>2. ASSUME NEW g \in Peticiones, AplicarFiltros(g) PROVE BusquedaEnOrden'
  BY <1>2, AplicarFiltrosBien
<1>3. ASSUME NEW vista \in {"list", "map"}, CambiarVista(vista) PROVE BusquedaEnOrden'
  BY <1>3, CambiarVistaBien
<1>4. ASSUME NEW orden \in Ordenes, CambiarOrden(orden) PROVE BusquedaEnOrden'
  BY <1>4, CambiarOrdenBien
<1>5. ASSUME NEW n \in 1 .. TopeConteo, CambiarPagina(n) PROVE BusquedaEnOrden'
  BY <1>5, CambiarPaginaBien
<1>6. ASSUME NEW n \in DOMAIN historial, VolverA(n) PROVE BusquedaEnOrden'
  BY <1>6, VolverBien
<1>7. CASE Pedir
  BY <1>7, PedirBien
<1>8. CASE Reintentar
  BY <1>8, ReintentarBien
<1>9. CASE CambiaLoPublicado
  BY <1>9, PantallaIgual DEF CambiaLoPublicado
<1>10. ASSUME NEW r \in peticiones, LeerPagina(r) PROVE BusquedaEnOrden'
  <2>1. PICK s \in EnOrden(Casan(r.peticion.filtros), r.peticion.filtros) :
          PasaA(r, "leida", Trozo(s, r.peticion), 0)
    BY <1>10 DEF LeerPagina
  <2>. QED
    BY <2>1, PasaABien
<1>11. ASSUME NEW r \in peticiones, RechazarPeticion(r) \/ ContarHasta(r)
       PROVE  BusquedaEnOrden'
  BY <1>11, PasaABien DEF RechazarPeticion, ContarHasta
<1>12. ASSUME NEW r \in peticiones, Llega(r) \/ LlegaAlSitio(r) PROVE BusquedaEnOrden'
  BY <1>12, LlegaBien
<1>13. ASSUME NEW r \in peticiones, NoLlega(r) PROVE BusquedaEnOrden'
  BY <1>13, NoLlegaBien
<1>14. ASSUME NEW g \in frescas, PasaElMinuto(g) PROVE BusquedaEnOrden'
  BY <1>0, <1>14, PantallaIgual DEF PasaElMinuto
<1>15. CASE UNCHANGED varsBusqueda
  BY <1>0, <1>15, PantallaIgual DEF varsBusqueda
<1>. QED
  BY <1>1, <1>2, <1>3, <1>4, <1>5, <1>6, <1>7, <1>8, <1>9, <1>10, <1>11, <1>12, <1>13, <1>14,
     <1>15 DEF NextBusqueda

\* The search keeps that order (buscador.tsx, lib/busqueda.ts): every entry of the
\* history asks for what was meant with it, the screen is that of the address, and
\* whoever asked and is still there asked for what is on the screen.
THEOREM BusquedaInvariante == SpecBusqueda => []BusquedaEnOrden
BY BusquedaEmpieza, BusquedaSigue, PTL DEF SpecBusqueda

\* What is on the screen is what its address says.
LEMMA DireccionManda == BusquedaEnOrden => LaDireccionManda
BY DEF BusquedaEnOrden, HistorialBien, EntradaBien, PantallaBien, LaDireccionManda

\* And its pages share nothing.
LEMMA NoSeRepite == BusquedaEnOrden => NingunoSeRepite
<1> SUFFICES ASSUME BusquedaEnOrden PROVE NingunoSeRepite
  OBVIOUS
<1> DEFINE p == pantalla.peticion
           C == Casan(p.filtros)
           Hoja(s, n) == Trozo(s, [p EXCEPT !.pagina = n])
<1>1. p = PeticionDeBusqueda(FiltrosDeUrl(Url), VistaDeUrl(Url), PaginaDeUrl(Url))
  BY DEF BusquedaEnOrden, PantallaBien, PeticionDeUrl
<1>2. /\ p.limite \in Nat \ {0}
      /\ \A n \in Nat : [p EXCEPT !.pagina = n].pagina = n
                        /\ [p EXCEPT !.pagina = n].limite = p.limite
  <2>1. Limite \in Nat \ {0} /\ LimiteMapa \in Nat \ {0}
    BY BusquedaOK
  <2>. QED
    BY <1>1, <2>1 DEF PeticionDeBusqueda
<1>3. C \in SUBSET DOMAIN publicado /\ publicado \in Catalogos
  BY DEF Casan, BusquedaEnOrden
<1> HIDE DEF p, C
<1>4. ASSUME NEW s \in EnOrden(C, p.filtros), NEW t \in EnOrden(C, p.filtros),
             NEW m \in 1 .. TopeConteo, NEW n \in 1 .. TopeConteo, m < n
      PROVE  Range(Hoja(s, m)) \cap Range(Hoja(t, n)) = {}
  <2> DEFINE a == [p EXCEPT !.pagina = m]
             b == [p EXCEPT !.pagina = n]
  <2>1. m \in Nat \ {0} /\ n \in Nat \ {0}
    BY BusquedaOK
  <2>2. /\ a.pagina = m /\ b.pagina = n /\ a.limite = p.limite /\ b.limite = p.limite
    BY <1>2, <2>1
  <2> HIDE DEF a, b
  <2>3. Range(Trozo(s, a)) \cap Range(Trozo(t, b)) = {}
    BY <1>2, <1>3, <1>4, <2>1, <2>2, HojasDisjuntas
  <2>. QED
    BY <2>3 DEF a, b
<1>. QED
  BY <1>4 DEF NingunoSeRepite, p, C

\* Whatever is on the screen answers the address it is at (buscador.tsx:80-88,
\* lib/busqueda.ts), and the pages of one search share no service, whichever way the
\* database orders each (services.service.ts:503-514), for any catalogues, addresses,
\* filters, page sizes, answers that do not come and changes of what is published.
THEOREM SiempreCuadraLaBusqueda == SpecBusqueda => []LaBusquedaCuadra
<1>1. BusquedaEnOrden => LaBusquedaCuadra
  BY DireccionManda, NoSeRepite DEF LaBusquedaCuadra
<1>. QED
  BY <1>1, BusquedaInvariante, PTL

\* What the screen says as long as somebody waits for an answer.
Espera(origen) == IF origen = "sitio" THEN "servidor" ELSE "navegador"

\* One request at most is waited for, as the screen says.
UnaEspera ==
    \A r \in peticiones :
        /\ r.origen \in {"sitio", "navegador"}
        /\ r.etapa \in {"va", "leida", "servida", "rechazada"}
        /\ r.vigente \in BOOLEAN
        /\ r.vigente => /\ pantalla.estado = Espera(r.origen)
                        /\ \A q \in peticiones : q.vigente => q = r

EsResultado(d) == d = Resultado(d.peticion, d.ids, d.total)

\* There are data on the screen when it says so, and those kept are answers.
DatosBien ==
    /\ pantalla.estado \in {"servidor", "navegador", "datos", "fallo"}
    /\ pantalla.estado = "datos" => EsResultado(pantalla.datos)
    /\ pantalla.estado # "datos" => pantalla.datos = Nada
    /\ \A g \in frescas : EsResultado(g)

GastosBien ==
    /\ version \in 0 .. MaxCambios
    /\ gastos \in [pasos : 0 .. MaxPasos, sinRespuesta : 0 .. MaxSinRespuesta]

EsperasBien == UnaEspera /\ DatosBien

\* Nobody waits any more.
LEMMA NadieEspera ==
    ASSUME BusquedaEnOrden, UnaEspera, NEW d \in Desatendidas
    PROVE  /\ d.vigente = FALSE /\ d.origen \in {"sitio", "navegador"}
           /\ d.etapa \in {"va", "leida", "servida", "rechazada"}
<1>1. PICK r \in peticiones : d = [r EXCEPT !.vigente = FALSE]
  BY DEF Desatendidas
<1>2. r = Peticion(r.origen, r.peticion, r.etapa, r.ids, r.total, r.vigente)
  BY DEF BusquedaEnOrden, PeticionesBien
<1>3. d.vigente = FALSE /\ d.origen = r.origen /\ d.etapa = r.etapa
  BY <1>1, <1>2 DEF Peticion
<1>. QED
  BY <1>3 DEF UnaEspera

\* Another is asked for, and nobody waits for those there were.
LEMMA OtraPantalla ==
    ASSUME BusquedaEnOrden, EsperasBien, NEW n, peticiones' \subseteq Desatendidas \cup {n},
           n.origen \in {"sitio", "navegador"}, n.etapa = "va", n.vigente = TRUE,
           n \in peticiones' => pantalla'.estado = Espera(n.origen),
           pantalla'.estado \in {"servidor", "navegador", "datos", "fallo"},
           pantalla'.estado = "datos" => EsResultado(pantalla'.datos),
           pantalla'.estado # "datos" => pantalla'.datos = Nada,
           frescas' = frescas
    PROVE  EsperasBien'
<1>1. ASSUME NEW r \in peticiones'
      PROVE  r = n \/ /\ r.vigente = FALSE /\ r.origen \in {"sitio", "navegador"}
                      /\ r.etapa \in {"va", "leida", "servida", "rechazada"}
  BY NadieEspera DEF EsperasBien
<1>2. UnaEspera'
  BY <1>1 DEF UnaEspera
<1>3. DatosBien'
  BY DEF EsperasBien, DatosBien
<1>. QED
  BY <1>2, <1>3 DEF EsperasBien

\* The page of another address.
LEMMA MontaEspera ==
    ASSUME BusquedaEnOrden, EsperasBien, NEW u, Monta(u), frescas' = frescas
    PROVE  EsperasBien'
<1> DEFINE p == PeticionDeUrl(u)
           guardada == {r \in frescas : r.peticion = p}
           n == Peticion("sitio", p, "va", <<>>, 0, TRUE)
<1>0. n.origen = "sitio" /\ n.etapa = "va" /\ n.vigente = TRUE
  BY DEF Peticion
<1>1. CASE UNCHANGED <<pantalla, peticiones>>
  BY <1>1 DEF EsperasBien, UnaEspera, DatosBien
<1>2. CASE /\ guardada # {}
           /\ pantalla' = Pantalla(Clave(u), p, 0, 0, "datos", CHOOSE r \in guardada : TRUE)
           /\ peticiones' = Desatendidas
  <2> DEFINE d == CHOOSE r \in guardada : TRUE
  <2>1. d \in frescas
    BY <1>2
  <2>2. EsResultado(d)
    BY <2>1 DEF EsperasBien, DatosBien
  <2>3. pantalla'.estado = "datos" /\ pantalla'.datos = d
    BY <1>2 DEF Pantalla
  <2>4. n \notin Desatendidas
    BY <1>0, NadieEspera DEF EsperasBien
  <2> HIDE DEF d, n
  <2>. QED
    BY <1>0, <1>2, <2>2, <2>3, <2>4, OtraPantalla
<1>3. CASE /\ pantalla' = Pantalla(Clave(u), p, 0, 0, "servidor", Nada)
           /\ peticiones' = Desatendidas \cup {n}
  <2>1. pantalla'.estado = "servidor" /\ pantalla'.datos = Nada /\ Espera(n.origen) = "servidor"
    BY <1>0, <1>3 DEF Pantalla, Espera
  <2> HIDE DEF n
  <2>. QED
    BY <1>0, <1>3, <2>1, OtraPantalla
<1>. QED
  BY <1>1, <1>2, <1>3 DEF Monta

\* What neither asks nor answers.
LEMMA EsperaIgual ==
    ASSUME EsperasBien, pantalla' = pantalla, peticiones' \subseteq peticiones,
           frescas' \subseteq frescas
    PROVE  EsperasBien'
BY DEF EsperasBien, UnaEspera, DatosBien

\* To search is to go to another address, or to ask for the same again.
LEMMA BuscarEspera ==
    ASSUME BusquedaEnOrden, EsperasBien, NEW f, Buscar(f) PROVE EsperasBien'
<1>1. CASE \E u : Monta(u) /\ frescas' = frescas
  BY <1>1, MontaEspera
<1>2. CASE /\ pantalla' = Pantalla(pantalla.clave, pantalla.peticion, pantalla.repeticion + 1, 0,
                                   "navegador", Nada)
           /\ peticiones' = Desatendidas /\ frescas' = frescas
  <2>1. pantalla'.estado = "navegador" /\ pantalla'.datos = Nada
    BY <1>2 DEF Pantalla
  <2>2. ASSUME NEW r \in peticiones'
        PROVE  /\ r.vigente = FALSE /\ r.origen \in {"sitio", "navegador"}
               /\ r.etapa \in {"va", "leida", "servida", "rechazada"}
    BY <1>2, NadieEspera DEF EsperasBien
  <2>3. UnaEspera'
    BY <2>2 DEF UnaEspera
  <2>. QED
    BY <1>2, <2>1, <2>3 DEF EsperasBien, DatosBien
<1>. QED
  BY <1>1, <1>2 DEF Buscar, Ir

\* The API works on a request.
LEMMA PasaAEspera ==
    ASSUME EsperasBien, NEW r \in peticiones,
           NEW etapa \in {"leida", "servida", "rechazada"}, NEW ids, NEW total,
           PasaA(r, etapa, ids, total)
    PROVE  EsperasBien'
<1> DEFINE n == Peticion(r.origen, r.peticion, etapa, ids, total, r.vigente)
<1>1. /\ pantalla' = pantalla /\ frescas' = frescas
      /\ peticiones' = (peticiones \ {r}) \cup {n}
  BY DEF PasaA
<1>2. n.origen = r.origen /\ n.etapa = etapa /\ n.vigente = r.vigente
  BY DEF Peticion
<1> HIDE DEF n
<1>3. UnaEspera'
  BY <1>1, <1>2 DEF EsperasBien, UnaEspera
<1>. QED
  BY <1>1, <1>3 DEF EsperasBien, DatosBien

\* An answer comes, or it does not, and the screen says so.
LEMMA AtendidaEspera ==
    ASSUME BusquedaEnOrden, EsperasBien, NEW r \in peticiones, NEW e, NEW d,
           peticiones' = peticiones \ {r}, \A g \in frescas' : EsResultado(g),
           e \in {"navegador", "datos", "fallo"},
           e = "datos" => EsResultado(d), e # "datos" => d = Nada,
           IF ~r.vigente THEN pantalla' = pantalla
           ELSE pantalla'.estado = e /\ pantalla'.datos = d
    PROVE  EsperasBien'
<1>1. CASE ~r.vigente
  BY <1>1 DEF EsperasBien, UnaEspera, DatosBien
<1>2. CASE r.vigente
  <2>1. ASSUME NEW q \in peticiones' PROVE ~q.vigente
    BY <1>2 DEF EsperasBien, UnaEspera
  <2>2. UnaEspera'
    BY <2>1 DEF EsperasBien, UnaEspera
  <2>. QED
    BY <1>2, <2>2 DEF EsperasBien, DatosBien
<1>. QED
  BY <1>1, <1>2

\* Every step leaves one who waits at most, and answers where they are said to be.
LEMMA EsperasSigue ==
    ASSUME BusquedaEnOrden, EsperasBien, [NextBusqueda]_varsBusqueda PROVE EsperasBien'
<1>0. /\ pantalla = Pantalla(pantalla.clave, pantalla.peticion, pantalla.repeticion,
                             pantalla.intento, pantalla.estado, pantalla.datos)
  BY DEF BusquedaEnOrden, PantallaBien
<1>1. CASE \/ \E texto \in Textos : BuscarTexto(texto)
           \/ \E g \in Peticiones : AplicarFiltros(g)
  BY <1>1, BuscarEspera DEF BuscarTexto, AplicarFiltros
<1>2. CASE \/ \E vista \in {"list", "map"} : CambiarVista(vista)
           \/ \E orden \in Ordenes : CambiarOrden(orden)
           \/ \E n \in 1 .. TopeConteo : CambiarPagina(n)
           \/ \E n \in DOMAIN historial : VolverA(n)
  <2>1. \E u : Monta(u) /\ frescas' = frescas
    BY <1>2 DEF CambiarVista, CambiarOrden, CambiarPagina, VolverA, Ir
  <2>. QED
    BY <2>1, MontaEspera
<1>3. CASE Pedir
  <2> DEFINE n == Peticion("navegador", pantalla.peticion, "va", <<>>, 0, TRUE)
  <2>1. /\ pantalla' = pantalla /\ frescas' = frescas /\ peticiones' = peticiones \cup {n}
        /\ pantalla.estado = "navegador" /\ \A r \in peticiones : ~r.vigente
    BY <1>3 DEF Pedir
  <2>2. n.origen = "navegador" /\ n.etapa = "va" /\ n.vigente = TRUE
    BY DEF Peticion
  <2> HIDE DEF n
  <2>3. UnaEspera'
    BY <2>1, <2>2 DEF EsperasBien, UnaEspera, Espera
  <2>. QED
    BY <2>1, <2>3 DEF EsperasBien, DatosBien
<1>4. CASE Reintentar
  <2>1. /\ pantalla.estado = "fallo" /\ pantalla'.estado = "navegador" /\ pantalla'.datos = Nada
        /\ peticiones' = peticiones /\ frescas' = frescas
    BY <1>4 DEF Reintentar, Pantalla
  <2>2. \A r \in peticiones : ~r.vigente
    BY <2>1 DEF EsperasBien, UnaEspera, Espera
  <2>. QED
    BY <2>1, <2>2 DEF EsperasBien, UnaEspera, DatosBien
<1>5. CASE CambiaLoPublicado \/ UNCHANGED varsBusqueda \/ \E g \in frescas : PasaElMinuto(g)
  BY <1>5, EsperaIgual DEF CambiaLoPublicado, PasaElMinuto, varsBusqueda
<1>6. ASSUME NEW r \in peticiones, LeerPagina(r) \/ RechazarPeticion(r) \/ ContarHasta(r)
      PROVE  EsperasBien'
  BY <1>6, PasaAEspera DEF LeerPagina, RechazarPeticion, ContarHasta
<1>7. ASSUME NEW r \in peticiones, Llega(r) \/ LlegaAlSitio(r) PROVE EsperasBien'
  <2> DEFINE d == Resultado(r.peticion, r.ids, r.total)
  <2>1. EsResultado(d)
    BY DEF EsResultado, Resultado
  <2>2. /\ peticiones' = peticiones \ {r}
        /\ pantalla' = IF r.vigente THEN [pantalla EXCEPT !.estado = "datos", !.datos = d]
                       ELSE pantalla
        /\ frescas' \subseteq frescas \cup {d}
    BY <1>7 DEF Llega, LlegaAlSitio
  <2> HIDE DEF d
  <2>3. r.vigente => pantalla'.estado = "datos" /\ pantalla'.datos = d
    BY <1>0, <2>2 DEF Pantalla
  <2>4. \A g \in frescas' : EsResultado(g)
    BY <2>1, <2>2 DEF EsperasBien, DatosBien
  <2>. QED
    BY <2>1, <2>2, <2>3, <2>4, AtendidaEspera
<1>8. ASSUME NEW r \in peticiones, NoLlega(r) PROVE EsperasBien'
  <2> DEFINE e == IF r.origen = "sitio" THEN "navegador" ELSE "fallo"
  <2>1. /\ peticiones' = peticiones \ {r} /\ frescas' = frescas
        /\ pantalla' = IF ~r.vigente THEN pantalla ELSE [pantalla EXCEPT !.estado = e]
    BY <1>8 DEF NoLlega
  <2>2. e \in {"navegador", "datos", "fallo"} /\ e # "datos"
    OBVIOUS
  <2> HIDE DEF e
  <2>3. r.vigente => pantalla'.estado = e /\ pantalla'.datos = pantalla.datos
    BY <1>0, <2>1 DEF Pantalla
  <2>4. r.vigente => pantalla.datos = Nada
    BY DEF EsperasBien, UnaEspera, DatosBien, Espera
  <2>5. \A g \in frescas' : EsResultado(g)
    BY <2>1 DEF EsperasBien, DatosBien
  <2>. QED
    BY <2>1, <2>2, <2>3, <2>4, <2>5, AtendidaEspera
<1>. QED
  BY <1>1, <1>2, <1>3, <1>4, <1>5, <1>6, <1>7, <1>8 DEF NextBusqueda

\* Every step counts what is bounded.
LEMMA GastosSigue ==
    ASSUME GastosBien, [NextBusqueda]_varsBusqueda PROVE GastosBien'
<1>0. /\ gastos \in [pasos : 0 .. MaxPasos, sinRespuesta : 0 .. MaxSinRespuesta]
      /\ version \in 0 .. MaxCambios
      /\ MaxPasos \in Nat /\ MaxSinRespuesta \in Nat /\ MaxCambios \in Nat
  BY BusquedaOK DEF GastosBien
<1>1. CASE gastos.pasos < MaxPasos /\ gastos' = [gastos EXCEPT !.pasos = @ + 1] /\ version' = version
  <2>1. gastos.pasos + 1 \in 0 .. MaxPasos
    BY <1>0, <1>1
  <2>. QED
    BY <1>0, <1>1, <2>1 DEF GastosBien
<1>2. CASE UNCHANGED <<gastos, version>>
  BY <1>0, <1>2 DEF GastosBien
<1>3. CASE gastos' = gastos /\ version < MaxCambios /\ version' = version + 1
  BY <1>0, <1>3 DEF GastosBien
<1>4. ASSUME NEW r, NoLlega(r) PROVE GastosBien'
  <2>1. version' = version
    BY <1>4 DEF NoLlega
  <2>2. CASE r.etapa = "rechazada"
    <3>1. gastos' = [gastos EXCEPT !.sinRespuesta = @ + 0]
      BY <1>4, <2>2 DEF NoLlega
    <3>2. gastos.sinRespuesta + 0 \in 0 .. MaxSinRespuesta
      BY <1>0
    <3>. QED
      BY <1>0, <2>1, <3>1, <3>2 DEF GastosBien
  <2>3. CASE r.etapa # "rechazada"
    <3>1. /\ gastos.sinRespuesta < MaxSinRespuesta
          /\ gastos' = [gastos EXCEPT !.sinRespuesta = @ + 1]
      BY <1>4, <2>3 DEF NoLlega
    <3>2. gastos.sinRespuesta + 1 \in 0 .. MaxSinRespuesta
      BY <1>0, <3>1
    <3>. QED
      BY <1>0, <2>1, <3>1, <3>2 DEF GastosBien
  <2>. QED
    BY <2>2, <2>3
<1>5. ASSUME NEW f, Buscar(f) PROVE GastosBien'
  BY <1>1, <1>2, <1>5 DEF Buscar, Ir
<1>6. CASE \/ \E vista \in {"list", "map"} : CambiarVista(vista)
           \/ \E orden \in Ordenes : CambiarOrden(orden)
           \/ \E n \in 1 .. TopeConteo : CambiarPagina(n)
           \/ \E n \in DOMAIN historial : VolverA(n)
  BY <1>1, <1>6 DEF CambiarVista, CambiarOrden, CambiarPagina, VolverA, Ir
<1>7. CASE \/ \E texto \in Textos : BuscarTexto(texto)
           \/ \E g \in Peticiones : AplicarFiltros(g)
  BY <1>5, <1>7 DEF BuscarTexto, AplicarFiltros
<1>8. CASE Pedir \/ Reintentar \/ UNCHANGED varsBusqueda \/ \E g \in frescas : PasaElMinuto(g)
  BY <1>2, <1>8 DEF Pedir, Reintentar, PasaElMinuto, varsBusqueda
<1>9. CASE CambiaLoPublicado
  BY <1>3, <1>9 DEF CambiaLoPublicado
<1>10. ASSUME NEW r \in peticiones,
              LeerPagina(r) \/ RechazarPeticion(r) \/ ContarHasta(r) \/ Llega(r) \/ LlegaAlSitio(r)
       PROVE  GastosBien'
  <2>1. UNCHANGED <<gastos, version>>
    BY <1>10 DEF LeerPagina, RechazarPeticion, ContarHasta, PasaA, Llega, LlegaAlSitio
  <2>. QED
    BY <1>2, <2>1
<1>. QED
  BY <1>4, <1>6, <1>7, <1>8, <1>9, <1>10 DEF NextBusqueda

\* The inductive invariant of the search, with its types.
BusquedaTipada == BusquedaEnOrden /\ EsperasBien /\ GastosBien

\* What is said of the search is its type.
LEMMA EsTipoBusqueda == ASSUME BusquedaTipada PROVE TipoBusqueda
BY DEF BusquedaTipada, BusquedaEnOrden, HistorialBien, EsperasBien, UnaEspera, DatosBien,
       EsResultado, GastosBien, TipoBusqueda

\* The types of the search hold in every state.
THEOREM BusquedaTipos == SpecBusqueda => []BusquedaTipada
<1>1. InitBusqueda => BusquedaTipada
  <2>. SUFFICES ASSUME InitBusqueda PROVE BusquedaTipada
    OBVIOUS
  <2>1. PICK u \in Enlaces :
          /\ pantalla = Pantalla(Clave(u), PeticionDeUrl(u), 0, 0, "servidor", Nada)
          /\ peticiones = {Peticion("sitio", PeticionDeUrl(u), "va", <<>>, 0, TRUE)}
    BY DEF InitBusqueda
  <2>2. pantalla.estado = "servidor" /\ pantalla.datos = Nada
    BY <2>1 DEF Pantalla
  <2>3. ASSUME NEW r \in peticiones
        PROVE  r.origen = "sitio" /\ r.etapa = "va" /\ r.vigente = TRUE
    BY <2>1 DEF Peticion
  <2>4. \A q, r \in peticiones : q = r
    BY <2>1
  <2>5. UnaEspera
    BY <2>2, <2>3, <2>4 DEF UnaEspera, Espera
  <2>6. DatosBien
    BY <2>2 DEF DatosBien, InitBusqueda
  <2>7. GastosBien
    BY BusquedaOK DEF InitBusqueda, GastosBien
  <2>. QED
    BY <2>5, <2>6, <2>7, BusquedaEmpieza DEF BusquedaTipada, EsperasBien
<1>2. BusquedaTipada /\ [NextBusqueda]_varsBusqueda => BusquedaTipada'
  BY BusquedaSigue, EsperasSigue, GastosSigue DEF BusquedaTipada
<1>. QED
  BY <1>1, <1>2, PTL DEF SpecBusqueda

-----------------------------------------------------------------------------
(* The assistant.                                                          *)

\* The ladder has a first search, and the last asks for the trade and no more, if a
\* trade was understood.
LEMMA LaEscaleraBaja ==
    ASSUME NEW n, NEW t
    PROVE  /\ Len(Escalera(n, t)) \in Nat \ {0}
           /\ n.oficio # Nada =>
                  Escalera(n, t)[Len(Escalera(n, t))] = Peldano(n.oficio, Nada, Nada)
           /\ n.oficio = Nada =>
                  Escalera(n, t)[Len(Escalera(n, t))].oficio = Nada
<1> DEFINE a == Peldano(n.oficio, n.ciudad, t)
           b == Peldano(n.oficio, n.ciudad, Nada)
           c == Peldano(n.oficio, Nada, Nada)
<1>1. a.oficio = n.oficio
  BY DEF Peldano, Filtros
<1>2. /\ n.ciudad = Nada => b = c
      /\ n.ciudad = Nada /\ t = Nada => a = c
  OBVIOUS
<1>3. Escalera(n, t) =
         <<a>> \o (IF n.oficio # Nada /\ t # Nada THEN <<b>> ELSE <<>>)
               \o (IF n.oficio # Nada /\ n.ciudad # Nada THEN <<c>> ELSE <<>>)
  BY DEF Escalera
<1>4. c = Peldano(n.oficio, Nada, Nada)
  OBVIOUS
<1> HIDE DEF a, b, c
<1>5. CASE n.oficio = Nada
  <2>1. Escalera(n, t) = <<a>> \o <<>> \o <<>>
    BY <1>3, <1>5
  <2>2. <<a>> \o <<>> \o <<>> = <<a>>
    OBVIOUS
  <2>. QED
    BY <1>1, <1>5, <2>1, <2>2
<1>6. CASE n.oficio # Nada /\ t = Nada /\ n.ciudad = Nada
  <2>1. Escalera(n, t) = <<a>> \o <<>> \o <<>>
    BY <1>3, <1>6
  <2>2. <<a>> \o <<>> \o <<>> = <<a>>
    OBVIOUS
  <2>. QED
    BY <1>2, <1>4, <1>6, <2>1, <2>2
<1>7. CASE n.oficio # Nada /\ t # Nada /\ n.ciudad = Nada
  <2>1. Escalera(n, t) = <<a>> \o <<b>> \o <<>>
    BY <1>3, <1>7
  <2>2. Len(<<a>> \o <<b>>) = 2 /\ (<<a>> \o <<b>>)[2] = b
    OBVIOUS
  <2>3. <<a>> \o <<b>> \in Seq({a, b})
    OBVIOUS
  <2>4. <<a>> \o <<b>> \o <<>> = <<a>> \o <<b>>
    BY <2>3
  <2>. QED
    BY <1>2, <1>4, <1>7, <2>1, <2>2, <2>4
<1>8. CASE n.oficio # Nada /\ t = Nada /\ n.ciudad # Nada
  <2>1. Escalera(n, t) = <<a>> \o <<>> \o <<c>>
    BY <1>3, <1>8
  <2>2. Len(<<a>> \o <<c>>) = 2 /\ (<<a>> \o <<c>>)[2] = c
    OBVIOUS
  <2>3. <<a>> \o <<>> = <<a>>
    OBVIOUS
  <2>. QED
    BY <1>4, <1>8, <2>1, <2>2, <2>3
<1>9. CASE n.oficio # Nada /\ t # Nada /\ n.ciudad # Nada
  <2>1. Escalera(n, t) = <<a>> \o <<b>> \o <<c>>
    BY <1>3, <1>9
  <2> DEFINE w == <<a>> \o <<b>>
             S == {a, b, c}
  <2>2. w \in Seq(S) /\ Len(w) = 2 /\ c \in S
    OBVIOUS
  <2> HIDE DEF w, S
  <2>3. Len(w \o <<c>>) = 3 /\ (w \o <<c>>)[3] = c
    BY <2>2, SMTT(30)
  <2>4. Escalera(n, t) = w \o <<c>>
    BY <2>1 DEF w
  <2>. QED
    BY <1>4, <1>9, <2>3, <2>4
<1>. QED
  BY <1>5, <1>6, <1>7, <1>8, <1>9

\* The trade and no more is met by all that is offered in it.
LEMMA ElOficioBasta ==
    ASSUME NEW s, NEW o, ~Casa(s, Peldano(o, Nada, Nada))
    PROVE  ~(s.activo /\ s.titular /\ s.oficio = o)
<1> DEFINE f == Peldano(o, Nada, Nada)
<1>1. /\ f.texto = Nada /\ f.oficio = o /\ f.ciudad = Nada /\ f.punto = FALSE
      /\ f.nota = 0 /\ f.precio = 0
  BY DEF Peldano, Filtros
<1> HIDE DEF f
<1>2. ~Casa(s, f)
  BY DEF f
<1>. QED
  BY <1>1, <1>2 DEF Casa, CasaTexto, Alcanza

\* The first page: all in it are of the set, and it is empty only if the set is.
LEMMA PrimeraHoja ==
    ASSUME NEW C, IsFiniteSet(C), NEW f, NEW s \in EnOrden(C, f), NEW l \in Nat \ {0}
    PROVE  LET t == Trozo(s, [pagina |-> 1, limite |-> l]) IN
           /\ \A k \in DOMAIN t : t[k] \in C
           /\ t = <<>> => C = {}
<1> DEFINE q == [pagina |-> 1, limite |-> l]
           t == Trozo(s, q)
<1>1. q.pagina = 1 /\ q.limite = l
  OBVIOUS
<1> HIDE DEF q
<1>2. s \in Seq(C) /\ Len(s) = Cardinality(C) /\ Cardinality(C) \in Nat
  BY EnOrdenEs
<1>3. ASSUME NEW k \in DOMAIN t PROVE t[k] \in C
  <2>1. t[k] \in Range(t)
    BY DEF Range
  <2>2. q.pagina \in Nat \ {0} /\ q.limite \in Nat \ {0}
    BY <1>1
  <2>3. \E m \in 1 .. Len(s) : s[m] = t[k] /\ (q.pagina - 1) * q.limite < m
                               /\ m <= q.pagina * q.limite
    BY <1>2, <2>1, <2>2, EnLaHoja
  <2>. QED
    BY <1>2, <2>3
<1>4. ASSUME t = <<>> PROVE C = {}
  <2>1. SUFFICES ASSUME Len(s) # 0 PROVE FALSE
    BY <1>2, FS_EmptySet
  <2>2. t = SubSeq(s, (1 - 1) * l + 1, Minimo(1 * l, Len(s)))
    BY <1>1 DEF Trozo
  <2>3. (1 - 1) * l + 1 = 1 /\ 1 * l = l
    OBVIOUS
  <2>4. t = SubSeq(s, 1, Minimo(l, Len(s)))
    BY <2>2, <2>3
  <2>5. Minimo(l, Len(s)) \in 1 .. Len(s)
    BY <1>2, <2>1 DEF Minimo
  <2> DEFINE m == Minimo(l, Len(s))
  <2> HIDE DEF m, t
  <2>6. Len(SubSeq(s, 1, m)) = m
    BY <1>2, <2>5 DEF m
  <2>. QED
    BY <1>4, <2>4, <2>5, <2>6 DEF m
<1>. QED
  BY <1>3, <1>4 DEF q

\* The inductive invariant of the assistant: what it has is of a search of the
\* ladder, by the services there were, all of the page meeting it, and none left out
\* if the page is empty; what goes on being offered is in every catalogue; and what
\* the panel shows is as it should.
ConsultaBien ==
    /\ consulta = Consulta(consulta.etapa, consulta.mensaje, consulta.ciudades,
                           consulta.intencion, consulta.modo, consulta.peldano,
                           consulta.ids, consulta.segun, consulta.siguen)
    /\ consulta.siguen \subseteq DOMAIN publicado
    /\ consulta.etapa \in {"nada", "recibida", "leida"} => consulta.peldano = 1
    /\ consulta.peldano \in Nat \ {0}
    /\ consulta.etapa = "cuenta" =>
           /\ DOMAIN consulta.segun = DOMAIN publicado
           /\ \A k \in DOMAIN consulta.ids : Casa(consulta.segun[consulta.ids[k]], Elegido)
           /\ consulta.ids = <<>> =>
                  \A i \in DOMAIN consulta.segun : ~Casa(consulta.segun[i], Elegido)

RespuestaBien ==
    panel = Panel(panel.abierto, panel.enviando, panel.error, panel.respuesta) /\ ElAsistenteCuadra

AsistenteEnOrden == publicado \in Catalogos /\ ConsultaBien /\ RespuestaBien

\* Nothing has been asked.
LEMMA AsistenteCallado ==
    ASSUME publicado \in Catalogos, InitAsistente PROVE AsistenteEnOrden
<1>1. ConsultaBien
  BY DEF InitAsistente, SinConsulta, Consulta, ConsultaBien
<1>2. RespuestaBien
  <2>1. /\ panel.respuesta = Nada
        /\ panel = Panel(panel.abierto, panel.enviando, panel.error, panel.respuesta)
    BY DEF InitAsistente, Panel
  <2>. QED
    BY <2>1 DEF RespuestaBien, ElAsistenteCuadra
<1>. QED
  BY <1>1, <1>2 DEF AsistenteEnOrden

\* So it is at the beginning.
LEMMA AsistenteEmpieza == InitBusqueda /\ InitAsistente => AsistenteEnOrden
BY AsistenteCallado DEF InitBusqueda

\* To have nothing to answer is in order.
LEMMA SinConsultaBien ==
    ASSUME consulta' = SinConsulta PROVE ConsultaBien'
BY DEF SinConsulta, Consulta, ConsultaBien

\* A question not counted yet, whose search is of the ladder.
LEMMA SinContarBien ==
    ASSUME publicado' = publicado, ConsultaBien,
           consulta' = Consulta(consulta'.etapa, consulta'.mensaje, consulta'.ciudades,
                                consulta'.intencion, consulta'.modo, consulta'.peldano,
                                consulta'.ids, consulta'.segun, consulta'.siguen),
           consulta'.etapa # "cuenta", consulta'.siguen \subseteq DOMAIN publicado,
           consulta'.peldano \in Nat \ {0},
           consulta'.etapa \in {"nada", "recibida", "leida"} => consulta'.peldano = 1
    PROVE  ConsultaBien'
BY DEF ConsultaBien

\* Only an answer changes what the panel shows.
LEMMA MismaRespuesta ==
    ASSUME RespuestaBien,
           panel' = Panel(panel'.abierto, panel'.enviando, panel'.error, panel'.respuesta),
           panel'.respuesta = panel.respuesta \/ panel'.respuesta = Nada
    PROVE  RespuestaBien'
BY DEF RespuestaBien, ElAsistenteCuadra

\* Nor does one that does not touch the panel.
LEMMA MismoPanel == ASSUME RespuestaBien, panel' = panel PROVE RespuestaBien'
BY DEF RespuestaBien, ElAsistenteCuadra

\* What is said of a search of the ladder is of what was understood of the message.
LEMMA MismoElegido ==
    ASSUME consulta'.intencion = consulta.intencion, consulta'.mensaje = consulta.mensaje,
           consulta'.peldano = consulta.peldano
    PROVE  Elegido' = Elegido
BY DEF Elegido, LaEscalera

\* The page is of what there was when it was asked for.
LEMMA BuscarPeldanoBien == ASSUME AsistenteEnOrden, BuscarPeldano PROVE AsistenteEnOrden'
<1> DEFINE C == Casan(Elegido)
<1>0. /\ publicado \in Catalogos /\ ConsultaBien /\ RespuestaBien
      /\ publicado' = publicado /\ panel' = panel
  BY DEF AsistenteEnOrden, BuscarPeldano, varsBusqueda
<1>1. PICK s \in EnOrden(C, Elegido) :
        consulta' = [consulta EXCEPT !.etapa = "cuenta", !.segun = publicado,
                         !.ids = Trozo(s, [pagina |-> 1, limite |-> LimiteAsistente])]
  BY DEF BuscarPeldano
<1> DEFINE t == Trozo(s, [pagina |-> 1, limite |-> LimiteAsistente])
<1>2. IsFiniteSet(C) /\ C \subseteq DOMAIN publicado
  <2>1. C \subseteq DOMAIN publicado
    BY DEF Casan
  <2>2. IsFiniteSet(DOMAIN publicado)
    BY <1>0, CatalogosOK
  <2>. QED
    BY <2>1, <2>2, FS_Subset
<1>3. /\ \A k \in DOMAIN t : t[k] \in C
      /\ t = <<>> => C = {}
  <2>1. LimiteAsistente \in Nat \ {0}
    BY AsistenteOK
  <2> HIDE DEF C
  <2>. QED
    BY <1>2, <2>1, PrimeraHoja
<1> HIDE DEF t
<1>4. /\ consulta'.etapa = "cuenta" /\ consulta'.segun = publicado /\ consulta'.ids = t
      /\ consulta'.mensaje = consulta.mensaje /\ consulta'.intencion = consulta.intencion
      /\ consulta'.peldano = consulta.peldano /\ consulta'.siguen = consulta.siguen
      /\ consulta' = Consulta(consulta'.etapa, consulta'.mensaje, consulta'.ciudades,
                           consulta'.intencion, consulta'.modo, consulta'.peldano,
                           consulta'.ids, consulta'.segun, consulta'.siguen)
  BY <1>0, <1>1 DEF ConsultaBien, Consulta, t
<1>5. Elegido' = Elegido
  BY <1>4, MismoElegido
<1>6. ConsultaBien'
  <2>1. \A k \in DOMAIN t : Casa(publicado[t[k]], Elegido)
    BY <1>3 DEF Casan
  <2>2. t = <<>> => \A i \in DOMAIN publicado : ~Casa(publicado[i], Elegido)
    BY <1>3 DEF Casan
  <2>. QED
    BY <1>0, <1>4, <1>5, <2>1, <2>2 DEF ConsultaBien
<1>7. RespuestaBien'
  BY <1>0, MismoPanel
<1>. QED
  BY <1>0, <1>6, <1>7 DEF AsistenteEnOrden

\* What is answered is what was found, and none only from the last search.
LEMMA ContestarBien == ASSUME AsistenteEnOrden, Contestar PROVE AsistenteEnOrden'
<1> DEFINE r == [modo |-> consulta.modo, criterios |-> Elegido,
                 ids |-> consulta.ids, total |-> Contados(Elegido),
                 segun |-> consulta.segun, siguen |-> consulta.siguen]
<1>0. /\ publicado \in Catalogos /\ ConsultaBien
      /\ publicado' = publicado /\ consulta' = SinConsulta /\ consulta.etapa = "cuenta"
      /\ Contados(Elegido) > 0 \/ consulta.peldano = Len(LaEscalera)
      /\ panel' = Panel(panel.abierto, FALSE, FALSE, r)
  BY DEF AsistenteEnOrden, Contestar, varsBusqueda
<1>1. panel'.respuesta = r
  BY <1>0 DEF Panel
<1>2. /\ r.criterios = Elegido /\ r.ids = consulta.ids /\ r.total = Contados(Elegido)
      /\ r.segun = consulta.segun /\ r.siguen = consulta.siguen
  OBVIOUS
<1> HIDE DEF r
<1>3. /\ \A k \in DOMAIN consulta.ids : Casa(consulta.segun[consulta.ids[k]], Elegido)
      /\ consulta.ids = <<>> =>
             \A i \in DOMAIN consulta.segun : ~Casa(consulta.segun[i], Elegido)
      /\ consulta.siguen \subseteq DOMAIN consulta.segun
  BY <1>0 DEF ConsultaBien
<1>4. ASSUME r.ids = <<>>, r.total = 0, r.criterios.oficio # Nada, NEW i \in r.siguen
      PROVE  ~(r.segun[i].activo /\ r.segun[i].titular /\ r.segun[i].oficio = r.criterios.oficio)
  <2> DEFINE n == consulta.intencion
             t == TextoDe(consulta.intencion, consulta.mensaje)
  <2>1. Elegido = Escalera(n, t)[Len(Escalera(n, t))]
    BY <1>0, <1>2, <1>4 DEF Elegido, LaEscalera
  <2> HIDE DEF n, t
  <2>2. Elegido = Peldano(n.oficio, Nada, Nada)
    BY <1>2, <1>4, <2>1, LaEscaleraBaja
  <2>3. Elegido.oficio = n.oficio
    BY <2>2 DEF Peldano, Filtros
  <2>4. ~Casa(consulta.segun[i], Peldano(n.oficio, Nada, Nada))
    BY <1>2, <1>3, <1>4, <2>2
  <2>. QED
    BY <1>2, <2>3, <2>4, ElOficioBasta
<1>5. RespuestaBien'
  <2>0. panel' = Panel(panel'.abierto, panel'.enviando, panel'.error, panel'.respuesta)
    BY <1>0 DEF Panel
  <2>1. \A k \in DOMAIN r.ids : Casa(r.segun[r.ids[k]], r.criterios)
    BY <1>2, <1>3
  <2>. QED
    BY <1>1, <1>4, <2>0, <2>1 DEF RespuestaBien, ElAsistenteCuadra
<1>. QED
  BY <1>0, <1>5, SinConsultaBien DEF AsistenteEnOrden

\* The catalogue changes, and with it what goes on being offered.
LEMMA CambiaElCatalogoBien == ASSUME AsistenteEnOrden, CambiaElCatalogo PROVE AsistenteEnOrden'
<1>0. /\ publicado \in Catalogos /\ ConsultaBien /\ RespuestaBien
      /\ publicado' \in Catalogos /\ panel' = panel
  BY DEF AsistenteEnOrden, CambiaElCatalogo, CambiaLoPublicado
<1> DEFINE S == {i \in consulta.siguen : publicado'[i].activo /\ publicado'[i].titular
                                         /\ publicado[i].activo /\ publicado[i].titular}
<1>1. DOMAIN publicado' = DOMAIN publicado
  BY <1>0, CatalogosOK
<1>2. consulta' = [consulta EXCEPT !.siguen = S]
  BY DEF CambiaElCatalogo
<1>3. S \subseteq consulta.siguen
  OBVIOUS
<1> HIDE DEF S
<1>4. /\ consulta'.etapa = consulta.etapa /\ consulta'.segun = consulta.segun
      /\ consulta'.ids = consulta.ids
      /\ consulta'.mensaje = consulta.mensaje /\ consulta'.intencion = consulta.intencion
      /\ consulta'.peldano = consulta.peldano /\ consulta'.siguen = S
      /\ consulta' = Consulta(consulta'.etapa, consulta'.mensaje, consulta'.ciudades,
                           consulta'.intencion, consulta'.modo, consulta'.peldano,
                           consulta'.ids, consulta'.segun, consulta'.siguen)
  BY <1>0, <1>2 DEF ConsultaBien, Consulta
<1>5. Elegido' = Elegido
  BY <1>4, MismoElegido
<1>6. ConsultaBien'
  BY <1>0, <1>1, <1>3, <1>4, <1>5 DEF ConsultaBien
<1>7. RespuestaBien'
  BY <1>0, MismoPanel
<1>. QED
  BY <1>0, <1>6, <1>7 DEF AsistenteEnOrden

\* No step of the visitor, of the API or of the catalogue disturbs it.
LEMMA AsistenteSigue ==
    AsistenteEnOrden /\ [NextAsistente]_<<varsBusqueda, varsAsistente>> => AsistenteEnOrden'
<1> SUFFICES ASSUME AsistenteEnOrden, [NextAsistente]_<<varsBusqueda, varsAsistente>>
             PROVE  AsistenteEnOrden'
  OBVIOUS
<1> DEFINE Entera(k) == k = Consulta(k.etapa, k.mensaje, k.ciudades, k.intencion, k.modo,
                                     k.peldano, k.ids, k.segun, k.siguen)
<1>0. publicado \in Catalogos /\ ConsultaBien /\ RespuestaBien /\ Entera(consulta)
  BY DEF AsistenteEnOrden, ConsultaBien
<1>1. CASE AbrirPanel \/ CerrarPanel
  <2>1. /\ publicado' = publicado /\ consulta' = consulta
        /\ panel' = [panel EXCEPT !.abierto = TRUE] \/ panel' = [panel EXCEPT !.abierto = FALSE]
    BY <1>1 DEF AbrirPanel, CerrarPanel, varsBusqueda
  <2>2. /\ panel'.respuesta = panel.respuesta
        /\ panel' = Panel(panel'.abierto, panel'.enviando, panel'.error, panel'.respuesta)
    BY <1>0, <2>1 DEF RespuestaBien, Panel
  <2>3. ConsultaBien'
    BY <1>0, <2>1 DEF ConsultaBien, Elegido, LaEscalera
  <2>. QED
    BY <1>0, <2>1, <2>2, <2>3, MismaRespuesta DEF AsistenteEnOrden
<1>2. ASSUME NEW m \in Mensajes, EnviarMensaje(m) PROVE AsistenteEnOrden'
  <2>1. /\ publicado' = publicado /\ panel' = Panel(TRUE, TRUE, FALSE, panel.respuesta)
        /\ consulta' = [SinConsulta EXCEPT !.etapa = "recibida", !.mensaje = m,
                                           !.siguen = DOMAIN publicado]
    BY <1>2 DEF EnviarMensaje, varsBusqueda
  <2>2. /\ consulta'.etapa = "recibida" /\ consulta'.peldano = 1
        /\ consulta'.siguen = DOMAIN publicado /\ Entera(consulta')
    BY <2>1 DEF SinConsulta, Consulta
  <2>3. /\ panel'.respuesta = panel.respuesta
        /\ panel' = Panel(panel'.abierto, panel'.enviando, panel'.error, panel'.respuesta)
    BY <2>1 DEF Panel
  <2>4. ConsultaBien'
    BY <1>0, <2>1, <2>2, SinContarBien
  <2>. QED
    BY <1>0, <2>1, <2>3, <2>4, MismaRespuesta DEF AsistenteEnOrden
<1>3. CASE LeerCatalogo
  <2>1. /\ publicado' = publicado /\ panel' = panel /\ consulta.etapa = "recibida"
    BY <1>3 DEF LeerCatalogo, varsBusqueda
  <2>2. PICK n : consulta' = [consulta EXCEPT !.etapa = "leida", !.intencion = n,
                                              !.ciudades = CiudadesConOferta]
    BY <1>3 DEF LeerCatalogo
  <2>3. /\ consulta'.etapa = "leida" /\ consulta'.peldano = consulta.peldano
        /\ consulta'.siguen = consulta.siguen /\ Entera(consulta')
    BY <1>0, <2>2 DEF Consulta
  <2>4. ConsultaBien'
    <3>1. consulta.peldano = 1 /\ consulta.siguen \subseteq DOMAIN publicado
      BY <1>0, <2>1 DEF ConsultaBien
    <3>. QED
      BY <1>0, <2>1, <2>3, <3>1, SinContarBien
  <2>. QED
    BY <1>0, <2>1, <2>4, MismoPanel DEF AsistenteEnOrden
<1>4. ASSUME SinModelo \/ \E o \in Salidas : ContestaElModelo(o)
      PROVE  AsistenteEnOrden'
  <2>1. /\ publicado' = publicado /\ panel' = panel
    BY <1>4 DEF SinModelo, ContestaElModelo, varsBusqueda
  <2>2. /\ consulta'.etapa = "busca" /\ consulta'.peldano = consulta.peldano
        /\ consulta'.siguen = consulta.siguen /\ Entera(consulta')
    <3>1. CASE SinModelo
      BY <1>0, <3>1 DEF SinModelo, Consulta
    <3>2. CASE \E o \in Salidas : ContestaElModelo(o)
      <4>1. PICK n : consulta' = [consulta EXCEPT !.etapa = "busca", !.modo = "ia",
                                                  !.intencion = n]
        BY <3>2 DEF ContestaElModelo
      <4>. QED
        BY <1>0, <4>1 DEF Consulta
    <3>. QED
      BY <1>4, <3>1, <3>2
  <2>3. ConsultaBien'
    <3>1. consulta.peldano \in Nat \ {0} /\ consulta.siguen \subseteq DOMAIN publicado
      BY <1>0 DEF ConsultaBien
    <3>. QED
      BY <1>0, <2>1, <2>2, <3>1, SinContarBien
  <2>. QED
    BY <1>0, <2>1, <2>3, MismoPanel DEF AsistenteEnOrden
<1>5. CASE Bajar
  <2>1. /\ publicado' = publicado /\ panel' = panel
        /\ consulta' = [consulta EXCEPT !.etapa = "busca", !.peldano = consulta.peldano + 1]
    BY <1>5 DEF Bajar, varsBusqueda
  <2>2. /\ consulta'.etapa = "busca" /\ consulta'.peldano = consulta.peldano + 1
        /\ consulta'.siguen = consulta.siguen /\ Entera(consulta')
    BY <1>0, <2>1 DEF Consulta
  <2>3. ConsultaBien'
    <3>1. consulta.peldano \in Nat \ {0} /\ consulta.siguen \subseteq DOMAIN publicado
      BY <1>0 DEF ConsultaBien
    <3>2. consulta'.peldano \in Nat \ {0}
      BY <2>2, <3>1
    <3>. QED
      BY <1>0, <2>1, <2>2, <3>1, <3>2, SinContarBien
  <2>. QED
    BY <1>0, <2>1, <2>3, MismoPanel DEF AsistenteEnOrden
<1>6. CASE NoContesta
  <2>1. /\ publicado' = publicado /\ consulta' = SinConsulta
        /\ panel' = Panel(panel.abierto, FALSE, TRUE, Nada)
    BY <1>6 DEF NoContesta, varsBusqueda
  <2>2. /\ panel'.respuesta = Nada
        /\ panel' = Panel(panel'.abierto, panel'.enviando, panel'.error, panel'.respuesta)
    BY <2>1 DEF Panel
  <2>. QED
    BY <1>0, <2>1, <2>2, SinConsultaBien, MismaRespuesta DEF AsistenteEnOrden
<1>7. CASE UNCHANGED <<varsBusqueda, varsAsistente>>
  <2>1. publicado' = publicado /\ consulta' = consulta /\ panel' = panel
    BY <1>7 DEF varsBusqueda, varsAsistente
  <2>2. ConsultaBien'
    BY <1>0, <2>1 DEF ConsultaBien, Elegido, LaEscalera
  <2>. QED
    BY <1>0, <2>1, <2>2, MismoPanel DEF AsistenteEnOrden
<1>. QED
  BY <1>1, <1>2, <1>3, <1>4, <1>5, <1>6, <1>7, BuscarPeldanoBien, ContestarBien,
     CambiaElCatalogoBien DEF NextAsistente

\* Every answer in the making is by the services there were when its page was asked
\* for (asistente.service.ts:147-205), whatever is published meanwhile.
THEOREM AsistenteInvariante == SpecAsistente => []AsistenteEnOrden
BY AsistenteEmpieza, AsistenteSigue, PTL DEF SpecAsistente

\* All that the assistant shows meets what it says it searched by, and it says that
\* there is nothing only of a trade of which nothing was offered all along
\* (asistente.service.ts:147-205), for any catalogues, messages, answers of the model
\* and sizes of a page.
THEOREM SiempreCuadraElAsistente == SpecAsistente => []ElAsistenteCuadra
<1>1. AsistenteEnOrden => ElAsistenteCuadra
  BY DEF AsistenteEnOrden, RespuestaBien
<1>. QED
  BY <1>1, AsistenteInvariante, PTL

\* The types of the panel and of what is asked of it.
TConsulta(k) ==
    /\ k.etapa \in {"nada", "recibida", "leida", "busca", "cuenta"}
    /\ k.modo \in {"basico", "ia"}
    /\ k.peldano \in 1 .. 3

TPanel(p) == p.abierto \in BOOLEAN /\ p.enviando \in BOOLEAN /\ p.error \in BOOLEAN

\* The ladder has three rungs at most.
LEMMA TresPeldanos == ASSUME NEW n, NEW t PROVE Len(Escalera(n, t)) \in 0 .. 3
<1> DEFINE a == <<Peldano(n.oficio, n.ciudad, t)>>
           b == IF n.oficio # Nada /\ t # Nada THEN <<Peldano(n.oficio, n.ciudad, Nada)>> ELSE <<>>
           c == IF n.oficio # Nada /\ n.ciudad # Nada THEN <<Peldano(n.oficio, Nada, Nada)>>
                ELSE <<>>
<1>1. PICK S : S = {Peldano(n.oficio, n.ciudad, t), Peldano(n.oficio, n.ciudad, Nada),
                    Peldano(n.oficio, Nada, Nada)}
  OBVIOUS
<1>2. a \in Seq(S) /\ Len(a) = 1
  BY <1>1
<1>3. b \in Seq(S) /\ Len(b) \in {0, 1}
  <2>1. PICK p \in S : p = Peldano(n.oficio, n.ciudad, Nada)
    BY <1>1
  <2>2. b = <<>> \/ b = <<p>>
    BY <2>1
  <2> HIDE DEF b
  <2>3. CASE b = <<>>
    BY <2>3
  <2>4. CASE b = <<p>>
    BY <2>4
  <2>. QED
    BY <2>2, <2>3, <2>4
<1>4. c \in Seq(S) /\ Len(c) \in {0, 1}
  <2>1. PICK p \in S : p = Peldano(n.oficio, Nada, Nada)
    BY <1>1
  <2>2. c = <<>> \/ c = <<p>>
    BY <2>1
  <2> HIDE DEF c
  <2>3. CASE c = <<>>
    BY <2>3
  <2>4. CASE c = <<p>>
    BY <2>4
  <2>. QED
    BY <2>2, <2>3, <2>4
<1>5. Escalera(n, t) = (a \o b) \o c
  BY DEF Escalera
<1> HIDE DEF a, b, c
<1>6. a \o b \in Seq(S) /\ Len(a \o b) \in 1 .. 2
  <2>1. a \in Seq(S) /\ b \in Seq(S)
    BY <1>2, <1>3
  <2>2. a \o b \in Seq(S) /\ Len(a \o b) = Len(a) + Len(b)
    BY <2>1
  <2>. QED
    BY <1>2, <1>3, <2>2
<1>7. Len((a \o b) \o c) = Len(a \o b) + Len(c)
  BY <1>4, <1>6
<1>. QED
  BY <1>2, <1>3, <1>4, <1>5, <1>6, <1>7

\* Nothing is being asked.
LEMMA SinConsultaTipo ==
    TConsulta(SinConsulta) /\ SinConsulta.etapa = "nada"
BY DEF SinConsulta, Consulta, TConsulta

\* At the beginning nothing is being sent.
LEMMA InitAsistenteTipo == ASSUME InitAsistente PROVE TipoAsistente
BY SinConsultaTipo, AsistenteOK DEF InitAsistente, Panel, TConsulta, TipoAsistente

\* Every step keeps the types, and the panel sends as long as there is an answer to come.
LEMMA AsistenteTipoSigue ==
    ASSUME AsistenteEnOrden, TipoAsistente, [NextAsistente]_<<varsBusqueda, varsAsistente>>
    PROVE  TipoAsistente'
<1> DEFINE Cuenta == enviados \in 0 .. MaxConsultas
           Envia(p, k) == p.enviando <=> k.etapa # "nada"
<1>0. /\ TConsulta(consulta) /\ TPanel(panel) /\ Cuenta /\ Envia(panel, consulta)
      /\ MaxConsultas \in Nat
      /\ consulta = Consulta(consulta.etapa, consulta.mensaje, consulta.ciudades,
                             consulta.intencion, consulta.modo, consulta.peldano,
                             consulta.ids, consulta.segun, consulta.siguen)
      /\ panel = Panel(panel.abierto, panel.enviando, panel.error, panel.respuesta)
  BY AsistenteOK DEF TipoAsistente, TConsulta, TPanel, AsistenteEnOrden, ConsultaBien, RespuestaBien
<1>1. ASSUME TConsulta(consulta'), TPanel(panel'), Cuenta', Envia(panel', consulta')
      PROVE  TipoAsistente'
  BY <1>1 DEF TipoAsistente, TConsulta, TPanel
<1>2. CASE AbrirPanel \/ CerrarPanel
  <2>1. /\ consulta' = consulta /\ enviados' = enviados
        /\ panel' = [panel EXCEPT !.abierto = TRUE] \/ panel' = [panel EXCEPT !.abierto = FALSE]
    BY <1>2 DEF AbrirPanel, CerrarPanel
  <2>2. TPanel(panel') /\ panel'.enviando = panel.enviando
    BY <1>0, <2>1 DEF Panel, TPanel
  <2>. QED
    BY <1>0, <1>1, <2>1, <2>2
<1>3. ASSUME NEW m \in Mensajes, EnviarMensaje(m) PROVE TipoAsistente'
  <2>1. /\ enviados < MaxConsultas /\ enviados' = enviados + 1
        /\ panel' = Panel(TRUE, TRUE, FALSE, panel.respuesta)
        /\ consulta' = [SinConsulta EXCEPT !.etapa = "recibida", !.mensaje = m,
                                           !.siguen = DOMAIN publicado]
    BY <1>3 DEF EnviarMensaje
  <2>2. TConsulta(consulta') /\ consulta'.etapa = "recibida"
    BY <2>1 DEF SinConsulta, Consulta, TConsulta
  <2>3. TPanel(panel') /\ panel'.enviando = TRUE
    BY <2>1 DEF Panel, TPanel
  <2>4. Cuenta'
    BY <1>0, <2>1
  <2>. QED
    BY <1>1, <2>2, <2>3, <2>4
<1>4. ASSUME panel' = panel, enviados' = enviados, consulta.etapa # "nada",
             TConsulta(consulta'), consulta'.etapa # "nada"
      PROVE  TipoAsistente'
  BY <1>0, <1>1, <1>4
<1>5. CASE LeerCatalogo
  <2>1. /\ panel' = panel /\ enviados' = enviados /\ consulta.etapa = "recibida"
        /\ \E n, c : consulta' = [consulta EXCEPT !.etapa = "leida", !.intencion = n,
                                                  !.ciudades = c]
    BY <1>5 DEF LeerCatalogo
  <2>2. TConsulta(consulta') /\ consulta'.etapa = "leida"
    BY <1>0, <2>1 DEF Consulta, TConsulta
  <2>. QED
    BY <1>4, <2>1, <2>2
<1>6. CASE SinModelo \/ \E o \in Salidas : ContestaElModelo(o)
  <2>1. /\ panel' = panel /\ enviados' = enviados /\ consulta.etapa = "leida"
        /\ \/ consulta' = [consulta EXCEPT !.etapa = "busca"]
           \/ \E n : consulta' = [consulta EXCEPT !.etapa = "busca", !.modo = "ia",
                                                  !.intencion = n]
    BY <1>6 DEF SinModelo, ContestaElModelo
  <2>2. TConsulta(consulta') /\ consulta'.etapa = "busca"
    BY <1>0, <2>1 DEF Consulta, TConsulta
  <2>. QED
    BY <1>4, <2>1, <2>2
<1>7. CASE BuscarPeldano
  <2>1. /\ panel' = panel /\ enviados' = enviados /\ consulta.etapa = "busca"
        /\ \E i : consulta' = [consulta EXCEPT !.etapa = "cuenta", !.segun = publicado, !.ids = i]
    BY <1>7 DEF BuscarPeldano
  <2>2. TConsulta(consulta') /\ consulta'.etapa = "cuenta"
    BY <1>0, <2>1 DEF Consulta, TConsulta
  <2>. QED
    BY <1>4, <2>1, <2>2
<1>8. CASE Bajar
  <2>1. /\ panel' = panel /\ enviados' = enviados /\ consulta.etapa = "cuenta"
        /\ consulta.peldano < Len(LaEscalera)
        /\ consulta' = [consulta EXCEPT !.etapa = "busca", !.peldano = @ + 1]
    BY <1>8 DEF Bajar
  <2>2. Len(LaEscalera) \in 0 .. 3
    BY TresPeldanos DEF LaEscalera
  <2>3. consulta.peldano + 1 \in 1 .. 3
    <3>1. PICK l \in 0 .. 3 : l = Len(LaEscalera)
      BY <2>2
    <3>2. consulta.peldano \in 1 .. 3 /\ consulta.peldano < l
      BY <1>0, <2>1, <3>1 DEF TConsulta
    <3>. QED
      BY <3>2
  <2>4. TConsulta(consulta') /\ consulta'.etapa = "busca"
    BY <1>0, <2>1, <2>3 DEF Consulta, TConsulta
  <2>. QED
    BY <1>4, <2>1, <2>4
<1>9. CASE Contestar \/ NoContesta
  <2>1. /\ consulta' = SinConsulta /\ enviados' = enviados
        /\ \E e \in BOOLEAN : \E r : panel' = Panel(panel.abierto, FALSE, e, r)
    BY <1>9 DEF Contestar, NoContesta
  <2>2. TPanel(panel') /\ panel'.enviando = FALSE
    BY <1>0, <2>1 DEF Panel, TPanel
  <2>. QED
    BY <1>0, <1>1, <2>1, <2>2, SinConsultaTipo
<1>10. CASE CambiaElCatalogo
  <2>1. /\ panel' = panel /\ enviados' = enviados
        /\ \E s : consulta' = [consulta EXCEPT !.siguen = s]
    BY <1>10 DEF CambiaElCatalogo
  <2>2. TConsulta(consulta') /\ consulta'.etapa = consulta.etapa
    BY <1>0, <2>1 DEF Consulta, TConsulta
  <2>. QED
    BY <1>0, <1>1, <2>1, <2>2
<1>11. CASE UNCHANGED <<varsBusqueda, varsAsistente>>
  BY <1>11 DEF TipoAsistente, varsAsistente
<1>. QED
  BY <1>2, <1>3, <1>5, <1>6, <1>7, <1>8, <1>9, <1>10, <1>11 DEF NextAsistente

\* The types of the assistant hold in every state.
THEOREM AsistenteTipos == SpecAsistente => []TipoAsistente
<1>1. InitBusqueda /\ InitAsistente => TipoAsistente
  BY InitAsistenteTipo
<1>2. AsistenteEnOrden /\ TipoAsistente /\ [NextAsistente]_<<varsBusqueda, varsAsistente>>
          => TipoAsistente'
  BY AsistenteTipoSigue
<1>. QED
  BY <1>1, <1>2, AsistenteInvariante, PTL DEF SpecAsistente

-----------------------------------------------------------------------------
(* All of it together, as it is run.                                       *)

\* Who does not ask the assistant has asked it nothing.
AsistenteQuieto == parte # "asistente" => InitAsistente

AsistenteBien == AsistenteEnOrden /\ TipoAsistente /\ AsistenteQuieto

NadaPreguntado == publicado \in Catalogos /\ InitAsistente

\* Nothing asked is in order.
LEMMA NadaEstaBien == NadaPreguntado => AsistenteBien
BY AsistenteCallado, InitAsistenteTipo DEF NadaPreguntado, AsistenteBien, AsistenteQuieto

\* What the browser does of other things leaves the assistant as it is.
LEMMA AsistenteBienSigue ==
    ASSUME AsistenteBien, BusquedaEnOrden', [Next]_vars
    PROVE  AsistenteBien' \/ NadaPreguntado'
<1>1. CASE ElAsistente \/ UNCHANGED vars
  <2>1. [NextAsistente]_<<varsBusqueda, varsAsistente>>
    BY <1>1 DEF ElAsistente, vars
  <2>2. AsistenteEnOrden' /\ TipoAsistente'
    BY <2>1, AsistenteSigue, AsistenteTipoSigue DEF AsistenteBien
  <2>3. AsistenteQuieto'
    BY <1>1 DEF AsistenteBien, AsistenteQuieto, ElAsistente, InitAsistente, vars, varsAsistente
  <2>. QED
    BY <2>2, <2>3 DEF AsistenteBien
<1>2. CASE Next /\ ~ElAsistente
  <2>1. UNCHANGED varsAsistente /\ parte # "asistente"
    BY <1>2 DEF Next, UnaPestana, EnDos, EntranDos, SaleUna, VuelveLoEscrito, Direcciones,
           Respuestas, LasPantallas
  <2>2. InitAsistente'
    BY <2>1 DEF AsistenteBien, AsistenteQuieto, InitAsistente, varsAsistente
  <2>. QED
    BY <2>2 DEF BusquedaEnOrden, NadaPreguntado
<1>. QED
  BY <1>1, <1>2

\* A behaviour of the browser is one of its session, of its search and of its screens, and
\* the assistant asks of what is published: it meets what each promises, for any accounts,
\* tabs, addresses, messages and lists.
THEOREM ElNavegadorCumple ==
    Spec => [](TypeOK /\ ElBorradorEsSuyo /\ LaBusquedaCuadra
               /\ ElAsistenteCuadra /\ LoHechoSeVe)
<1>1. Init => InitSesion /\ InitBusqueda /\ InitAsistente /\ InitPantallas
  BY DEF Init
<1>2. [Next]_vars => /\ [NextSesion]_varsSesion /\ [NextBusqueda]_varsBusqueda
                     /\ [NextPantallas]_varsPantallas
  <2>1. NextAsistente => [NextBusqueda]_varsBusqueda
    BY DEF NextAsistente, AbrirPanel, CerrarPanel, EnviarMensaje, LeerCatalogo, SinModelo,
           ContestaElModelo, BuscarPeldano, Bajar, Contestar, NoContesta, CambiaElCatalogo,
           NextBusqueda
  <2>. QED
    BY <2>1 DEF Next, UnaPestana, EnDos, EntranDos, SaleUna, VuelveLoEscrito, Direcciones,
                Respuestas, ElAsistente, LasPantallas, vars
<1>3. Spec => SpecSesion /\ SpecBusqueda /\ SpecPantallas
  BY <1>1, <1>2, PTL DEF Spec, SpecSesion, SpecBusqueda, SpecPantallas
<1>4. Init => NadaPreguntado
  BY <1>1 DEF NadaPreguntado, InitBusqueda
<1>5. BusquedaTipada => BusquedaEnOrden
  BY DEF BusquedaTipada
<1>6. AsistenteBien /\ BusquedaEnOrden' /\ [Next]_vars => AsistenteBien' \/ NadaPreguntado'
  BY AsistenteBienSigue
<1>7. Spec => []AsistenteBien
  BY <1>3, <1>4, <1>5, <1>6, NadaEstaBien, BusquedaTipos, PTL DEF Spec
<1>8. SesionEnOrden /\ BusquedaTipada /\ AsistenteBien /\ PantallasTipadas
          => TypeOK /\ ElAsistenteCuadra
  BY EsTipoBusqueda, EsTipoPantallas
  DEF SesionEnOrden, AsistenteBien, AsistenteEnOrden, RespuestaBien, TypeOK
<1>. QED
  BY <1>3, <1>7, <1>8, SesionInvariante, BusquedaTipos, PantallasTipos,
     SiempreElBorradorEsSuyo, SiempreCuadraLaBusqueda, SiempreSeVe, PTL
=============================================================================
