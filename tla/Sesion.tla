-------------------------------- MODULE Sesion --------------------------------
(***************************************************************************)
(* The session as one browser sees it.                                     *)
(*                                                                         *)
(* All its tabs share the cookie of the session, which no script can read, *)
(* and who is remembered to be in, which every script can.  A tab shows    *)
(* who is remembered when it loads and asks the API, once, whether that is *)
(* so; it loads again when it is told that another tab has changed it.     *)
(* The API may take a minute to wake up, so that answers come when they    *)
(* come; the cookie an answer brings is set before the tab hears of it;    *)
(* and nothing says which is first in a tab, what it is told of another or *)
(* an answer of its own.                                                   *)
(***************************************************************************)
EXTENDS Naturals, FiniteSets

CONSTANTS
    Personas,       \* accounts
    Nadie,          \* and no account
    Pestanas,       \* tabs of the browser
    Reservando,     \* tabs that open the page to ask for a booking
    MaxEntradas,    \* bound: sessions opened, the one there was included
    MaxSalidas,     \* bound: sign-outs
    MaxCargas,      \* bound: reloads somebody asks for
    MaxCierres,     \* bound: sessions the server closes by itself
    MaxMudas        \* bound: calls without an answer

ASSUME SesionOK ==
    /\ Nadie \notin Personas
    /\ Reservando \subseteq Pestanas
    /\ MaxEntradas \in Nat \ {0}
    /\ {MaxSalidas, MaxCargas, MaxCierres, MaxMudas} \subseteq Nat

VARIABLES
    dueno,          \* whose each session opened is
    validas,        \* the sessions that are open
    cookie,         \* the session of the browser; 0, none
    recordado,      \* localStorage: who is in
    avisadas,       \* tabs yet to hear that it has changed, however many times
    pestana,        \* what each tab shows
    entrada,        \* the sign-in each tab has under way
    salida,         \* its sign-out
    comprobacion,   \* its question to the API of who is in
    reserva,        \* its booking page, and the drafts it keeps: key, whose
    envio,          \* the booking it has sent: whose it is, with what session
    cuenta,         \* how many of each bounded thing there have been
    dentro,         \* history: the session of the last who went in; 0, left
    cruzadas        \* history: tabs that changed of account without loading again
                    \* nor signing in, or got an answer somebody else had asked for

varsReserva == <<reserva, envio, cruzadas>>
varsPestana == <<recordado, avisadas, pestana, comprobacion, varsReserva>>
varsSesion == <<dueno, validas, cookie, varsPestana, entrada, salida, cuenta, dentro>>

Sesiones == 1 .. MaxEntradas
Alguien == Personas \cup {Nadie}

\* cargada: loadFromStorage has run; comprobada: and has asked, or need not.
Pestana(cargada, usuario, comprobada) ==
    [cargada |-> cargada, usuario |-> usuario, comprobada |-> comprobada]
EnBlanco == Pestana(FALSE, Nadie, FALSE)

\* Sent, and answered by the API.  The cookie of a sign-in is set before the tab
\* hears of it.
Entrada(etapa, quien, sesion) == [etapa |-> etapa, quien |-> quien, sesion |-> sesion]
Salida(etapa, sesion) == [etapa |-> etapa, sesion |-> sesion]
\* vigente: generacion is the one it was sent with.
Comprobacion(etapa, sesion, quien, vigente, repetida) ==
    [etapa |-> etapa, sesion |-> sesion, quien |-> quien, vigente |-> vigente,
     repetida |-> repetida]
SinEntrada == Entrada("no", Nadie, 0)
SinSalida == Salida("no", 0)
SinComprobar == Comprobacion("no", 0, Nadie, FALSE, FALSE)
Reserva(abierta, texto, borradores) ==
    [abierta |-> abierta, texto |-> texto, borradores |-> borradores]
Envio(texto, sesion) == [texto |-> texto, sesion |-> sesion]
SinEnvio == Envio(Nadie, 0)

TipoSesion ==
    /\ dueno \in [Sesiones -> Alguien]
    /\ validas \subseteq Sesiones
    /\ cookie \in 0 .. MaxEntradas
    /\ recordado \in Alguien
    /\ avisadas \subseteq Pestanas
    /\ pestana \in [Pestanas -> [cargada : BOOLEAN, usuario : Alguien, comprobada : BOOLEAN]]
    /\ entrada \in [Pestanas -> [etapa : {"no", "va", "servida", "llegada"}, quien : Alguien,
                                 sesion : 0 .. MaxEntradas]]
    /\ salida \in [Pestanas -> [etapa : {"no", "va", "servida"}, sesion : 0 .. MaxEntradas]]
    /\ comprobacion \in [Pestanas -> [etapa : {"no", "va", "servida"},
                                      sesion : 0 .. MaxEntradas, quien : Alguien,
                                      vigente : BOOLEAN, repetida : BOOLEAN]]
    /\ reserva \in [Pestanas -> [abierta : BOOLEAN, texto : Alguien,
                                 borradores : SUBSET (Personas \X Personas)]]
    /\ cuenta \in [entradas : 0 .. MaxEntradas, salidas : 0 .. MaxSalidas,
                   cargas : 0 .. MaxCargas, cierres : 0 .. MaxCierres, mudas : 0 .. MaxMudas]
    /\ envio \in [Pestanas -> [texto : Alguien, sesion : 0 .. MaxEntradas]]
    /\ dentro \in 0 .. MaxEntradas
    /\ cruzadas \subseteq Pestanas

\* Somebody may have gone in before, and the session may still be open.
InitSesion ==
    /\ recordado \in Alguien
    /\ dueno = [s \in Sesiones |-> IF s = 1 THEN recordado ELSE Nadie]
    /\ cookie = IF recordado = Nadie THEN 0 ELSE 1
    /\ validas \in SUBSET ({cookie} \cap Sesiones)
    /\ avisadas = {}
    /\ pestana = [t \in Pestanas |-> EnBlanco]
    /\ entrada = [t \in Pestanas |-> SinEntrada]
    /\ salida = [t \in Pestanas |-> SinSalida]
    /\ comprobacion = [t \in Pestanas |-> SinComprobar]
    /\ reserva = [t \in Pestanas |-> Reserva(FALSE, Nadie, {})]
    /\ cuenta = [entradas |-> cookie, salidas |-> 0, cargas |-> 0, cierres |-> 0, mudas |-> 0]
    /\ envio = [t \in Pestanas |-> SinEnvio]
    /\ dentro = cookie
    /\ cruzadas = {}

-----------------------------------------------------------------------------

Usuario(t) == pestana[t].usuario
Cargada(t) == pestana[t].cargada
Comprueba(t) == comprobacion[t].etapa # "no"

\* localStorage tells the other tabs that listen, when what it holds changes.
Recuerda(t, quien) ==
    /\ recordado' = quien
    /\ avisadas' = IF quien = recordado THEN avisadas
                   ELSE avisadas \cup {u \in Pestanas \ {t} : Cargada(u)}

\* Whoever goes in or out leaves the answer of the question under way without
\* effect: in this tab.
Olvidar(t) == comprobacion' = [comprobacion EXCEPT ![t] =
                  Comprobacion(@.etapa, @.sesion, @.quien, FALSE, @.repetida)]

\* The page is left, and what was written in it: a protected page with nobody in
\* sends to the sign-in.
Expulsa(t) == reserva' = [reserva EXCEPT ![t] = Reserva(FALSE, Nadie, @.borradores)]

\* idRecordado.
IdRecordado(t) == IF Usuario(t) # Nadie THEN Usuario(t) ELSE recordado

\* The tab goes straight to another account, with what it has.
Cruza(t, quien) ==
    cruzadas' = IF quien \in {Nadie, Usuario(t)} THEN cruzadas ELSE cruzadas \cup {t}

\* useBorrador, on opening the page: the draft is recovered and forgotten.
AlAbrir(t, quien) ==
    LET suyos == {b \in reserva[t].borradores : b[1] = quien} IN
    IF quien = Nadie THEN Reserva(FALSE, Nadie, reserva[t].borradores)
    ELSE IF suyos = {} THEN Reserva(TRUE, Nadie, reserva[t].borradores)
    ELSE Reserva(TRUE, (CHOOSE b \in suyos : TRUE)[2], reserva[t].borradores \ suyos)

-----------------------------------------------------------------------------
(* A tab loads.                                                            *)

\* Everything of the page goes: also its calls, but not what they did at the API,
\* nor the drafts.
Recarga(t) ==
    /\ pestana' = [pestana EXCEPT ![t] = EnBlanco]
    /\ entrada' = [entrada EXCEPT ![t] = SinEntrada]
    /\ salida' = [salida EXCEPT ![t] = SinSalida]
    /\ comprobacion' = [comprobacion EXCEPT ![t] = SinComprobar]
    /\ reserva' = [reserva EXCEPT ![t] = Reserva(@.abierta, Nadie, @.borradores)]
    /\ envio' = [envio EXCEPT ![t] = SinEnvio]
    /\ avisadas' = avisadas \ {t}
    /\ UNCHANGED cruzadas

\* Somebody reloads it.
Recargar(t) ==
    /\ Cargada(t)
    /\ cuenta.cargas < MaxCargas
    /\ cuenta' = [cuenta EXCEPT !.cargas = @ + 1]
    /\ Recarga(t)
    /\ UNCHANGED <<dueno, validas, cookie, recordado, dentro>>

\* Bug: a tab hears that another has changed it, and stays as it was.
AtenderSinRecargar(t) ==
    /\ t \in avisadas
    /\ avisadas' = avisadas \ {t}
    /\ UNCHANGED <<dueno, validas, cookie, recordado, pestana, entrada, salida, comprobacion,
                   varsReserva, cuenta, dentro>>

\* alCambiarOtraPestana: it loads again if the other one has somebody else.
AtenderAviso(t) ==
    /\ t \in avisadas
    /\ IF Usuario(t) # recordado
       THEN Recarga(t)
       ELSE /\ avisadas' = avisadas \ {t}
            /\ UNCHANGED <<pestana, entrada, salida, comprobacion, varsReserva>>
    /\ UNCHANGED <<dueno, validas, cookie, recordado, cuenta, dentro>>

\* loadFromStorage: it shows who is remembered, if anybody, and asks once.
LeerGuardado(t) ==
    /\ pestana' = [pestana EXCEPT ![t] =
           Pestana(TRUE, IF recordado # Nadie THEN recordado ELSE @.usuario,
                   @.comprobada \/ recordado # Nadie)]
    /\ comprobacion' = IF recordado # Nadie /\ ~pestana[t].comprobada
                       THEN [comprobacion EXCEPT ![t] =
                                Comprobacion("va", cookie, Nadie, TRUE, FALSE)]
                       ELSE comprobacion
    /\ UNCHANGED <<dueno, validas, cookie, recordado, avisadas, entrada, salida, envio,
                   cuenta, dentro>>

\* When the page is there...
Cargar(t) ==
    /\ ~Cargada(t)
    /\ LeerGuardado(t)
    /\ reserva' = IF reserva[t].abierta
                  THEN [reserva EXCEPT ![t] = AlAbrir(t, recordado)] ELSE reserva
    /\ UNCHANGED cruzadas

\* ...and again on going to another one, if it is of those that ask for an account.
Pasar(t) ==
    /\ Cargada(t) /\ recordado \notin {Nadie, Usuario(t)}
    /\ LeerGuardado(t)
    /\ Expulsa(t) /\ Cruza(t, recordado)

-----------------------------------------------------------------------------
(* The sign-in and the registration.                                       *)

PedirEntrada(t, quien) ==
    /\ Cargada(t) /\ ~reserva[t].abierta /\ entrada[t] = SinEntrada
    /\ cuenta.entradas < MaxEntradas
    /\ entrada' = [entrada EXCEPT ![t] = Entrada("va", quien, 0)]
    /\ UNCHANGED <<dueno, validas, cookie, varsPestana, salida, cuenta, dentro>>

\* The API opens a session, or refuses.
ServirEntrada(t) ==
    /\ entrada[t].etapa = "va"
    /\ cuenta.entradas < MaxEntradas
    /\ LET nueva == cuenta.entradas + 1 IN
       /\ cuenta' = [cuenta EXCEPT !.entradas = nueva]
       /\ dueno' = [dueno EXCEPT ![nueva] = entrada[t].quien]
       /\ validas' = validas \cup {nueva}
       /\ entrada' = [entrada EXCEPT ![t] = Entrada("servida", @.quien, nueva)]
    /\ UNCHANGED <<cookie, varsPestana, salida, dentro>>

NoEntra(t) ==
    /\ entrada[t].etapa = "va"
    /\ entrada' = [entrada EXCEPT ![t] = SinEntrada]
    /\ UNCHANGED <<dueno, validas, cookie, varsPestana, salida, cuenta, dentro>>

\* The answer brings its cookie...
LlegaEntrada(t) ==
    /\ entrada[t].etapa = "servida"
    /\ cookie' = entrada[t].sesion
    /\ entrada' = [entrada EXCEPT ![t].etapa = "llegada"]
    /\ UNCHANGED <<dueno, validas, varsPestana, salida, cuenta, dentro>>

\* ...and then entrar, and from there to where it was going: no form of before is
\* left.
Entrar(t) ==
    /\ entrada[t].etapa = "llegada"
    /\ Recuerda(t, entrada[t].quien)
    /\ pestana' = [pestana EXCEPT ![t] = Pestana(TRUE, entrada[t].quien, TRUE)]
    /\ Olvidar(t)
    /\ dentro' = entrada[t].sesion
    /\ entrada' = [entrada EXCEPT ![t] = SinEntrada]
    /\ Expulsa(t)
    /\ UNCHANGED <<dueno, validas, cookie, salida, envio, cuenta, cruzadas>>

-----------------------------------------------------------------------------
(* The sign-out: at once in the tab, and at the API when it answers.       *)

\* salir, the drafts, and the call, which takes the cookie along.
Salir(t) ==
    /\ Usuario(t) # Nadie /\ salida[t] = SinSalida
    /\ cuenta.salidas < MaxSalidas
    /\ cuenta' = [cuenta EXCEPT !.salidas = @ + 1]
    /\ Recuerda(t, Nadie)
    /\ pestana' = [pestana EXCEPT ![t] = Pestana(@.cargada, Nadie, @.comprobada)]
    /\ Olvidar(t)
    /\ salida' = [salida EXCEPT ![t] = Salida("va", cookie)]
    /\ reserva' = [reserva EXCEPT ![t] = Reserva(FALSE, Nadie, {})]
    /\ dentro' = 0
    /\ UNCHANGED <<dueno, validas, cookie, entrada, envio, cruzadas>>

ServirSalida(t) ==
    /\ salida[t].etapa = "va"
    /\ validas' = validas \ {salida[t].sesion}
    /\ salida' = [salida EXCEPT ![t] = Salida("servida", @.sesion)]
    /\ UNCHANGED <<dueno, cookie, varsPestana, entrada, cuenta, dentro>>

\* Its answer deletes the cookie there is.
LlegaSalida(t) ==
    /\ salida[t].etapa = "servida"
    /\ cookie' = 0
    /\ salida' = [salida EXCEPT ![t] = SinSalida]
    /\ UNCHANGED <<dueno, validas, varsPestana, entrada, cuenta, dentro>>

NoLlegaSalida(t) ==
    /\ salida[t].etapa # "no"
    /\ cuenta.mudas < MaxMudas
    /\ cuenta' = [cuenta EXCEPT !.mudas = @ + 1]
    /\ salida' = [salida EXCEPT ![t] = SinSalida]
    /\ UNCHANGED <<dueno, validas, cookie, varsPestana, entrada, dentro>>

-----------------------------------------------------------------------------
(* The question of who is in.                                              *)

\* Bug: a session that is over is answered as if it were somebody.
DeCualquiera(sesion) == IF sesion \in validas THEN dueno[sesion] ELSE sesion

De(sesion) == IF sesion \in validas THEN dueno[sesion] ELSE Nadie

ServirComprobacion(t) ==
    /\ comprobacion[t].etapa = "va"
    /\ comprobacion' = [comprobacion EXCEPT ![t] =
           Comprobacion("servida", 0, De(@.sesion), @.vigente, @.repetida)]
    /\ UNCHANGED <<dueno, validas, cookie, recordado, avisadas, pestana, entrada, salida,
                   varsReserva, cuenta, dentro>>

\* A reading without an answer is asked once more; then it is left.
NoLlegaComprobacion(t) ==
    /\ Comprueba(t)
    /\ cuenta.mudas < MaxMudas
    /\ cuenta' = [cuenta EXCEPT !.mudas = @ + 1]
    /\ comprobacion' = [comprobacion EXCEPT ![t] =
           IF @.repetida THEN SinComprobar
           ELSE Comprobacion("va", cookie, Nadie, @.vigente, TRUE)]
    /\ UNCHANGED <<dueno, validas, cookie, recordado, avisadas, pestana, entrada, salida,
                   varsReserva, dentro>>

\* Who it says, with entrar, or nobody, with salir: the answer is applied.
Aplicar(t) ==
    LET quien == comprobacion[t].quien IN
    /\ Recuerda(t, quien)
    /\ pestana' = [pestana EXCEPT ![t] = Pestana(TRUE, quien, TRUE)]
    /\ IF quien = Nadie THEN Expulsa(t) ELSE reserva' = reserva
    /\ IF Usuario(t) = Nadie THEN UNCHANGED cruzadas ELSE Cruza(t, quien)

\* Bug: an answer is applied whoever has gone in or out meanwhile.
ComprobarSinMirar(t) ==
    /\ comprobacion[t].etapa = "servida"
    /\ Aplicar(t)
    /\ comprobacion' = [comprobacion EXCEPT ![t] = SinComprobar]
    /\ UNCHANGED <<dueno, validas, cookie, entrada, salida, envio, cuenta, dentro>>

Comprobar(t) ==
    /\ comprobacion[t].etapa = "servida"
    /\ IF comprobacion[t].vigente
       THEN Aplicar(t)
       ELSE UNCHANGED <<recordado, avisadas, pestana, reserva, cruzadas>>
    /\ comprobacion' = [comprobacion EXCEPT ![t] = SinComprobar]
    /\ UNCHANGED <<dueno, validas, cookie, entrada, salida, envio, cuenta, dentro>>

\* A session ends by itself: it expires, or the password changes elsewhere.
CerrarUna(s) ==
    /\ s \in validas
    /\ cuenta.cierres < MaxCierres
    /\ cuenta' = [cuenta EXCEPT !.cierres = @ + 1]
    /\ validas' = validas \ {s}
    /\ UNCHANGED <<dueno, cookie, varsPestana, entrada, salida, dentro>>

-----------------------------------------------------------------------------
(* The page that asks for a booking.                                       *)

\* Only what is written, or what of it is kept.
PasaEnReserva(t, pagina) ==
    /\ reserva' = [reserva EXCEPT ![t] = pagina]
    /\ UNCHANGED <<dueno, validas, cookie, recordado, avisadas, pestana, entrada, salida,
                   comprobacion, cuenta, dentro>>

\* The draft is that of who is in; then loadFromStorage, which may show another.
AbrirReserva(t) ==
    /\ t \in Reservando /\ Cargada(t) /\ ~reserva[t].abierta
    /\ IdRecordado(t) # Nadie
    /\ LeerGuardado(t)
    /\ reserva' = [reserva EXCEPT ![t] = AlAbrir(t, IdRecordado(t))]
    /\ Cruza(t, recordado)

Redactar(t) ==
    /\ reserva[t].abierta /\ Cargada(t) /\ Usuario(t) # Nadie /\ reserva[t].texto = Nadie
    /\ PasaEnReserva(t, Reserva(TRUE, Usuario(t), reserva[t].borradores))
    /\ UNCHANGED <<envio, cruzadas>>

\* Bug: the key of a draft does not say whose it is.
ClaveSinCuenta(t) == Personas

\* claveDe: under whom a draft is kept.  With nobody in, under no account, and no
\* account recovers it.
ClaveDe(t) == {IdRecordado(t)} \cap Personas

\* guardarBorrador: in place of the one there was under the key.
GuardarBorrador(t, texto) ==
    {b \in reserva[t].borradores : b[1] \notin ClaveDe(t)} \cup (ClaveDe(t) \X {texto})

\* (Bound: one booking under way in each tab.)
Enviar(t) ==
    /\ reserva[t].texto # Nadie /\ Cargada(t) /\ envio[t] = SinEnvio
    /\ envio' = [envio EXCEPT ![t] = Envio(reserva[t].texto, cookie)]
    /\ PasaEnReserva(t, reserva[t])
    /\ UNCHANGED cruzadas

Contestado(t) == envio[t] # SinEnvio /\ envio' = [envio EXCEPT ![t] = SinEnvio]

\* The booking is created, and from there to its payment, wherever one was by then.
SeCrea(t) ==
    /\ Contestado(t) /\ envio[t].sesion \in validas
    /\ PasaEnReserva(t, Reserva(FALSE, Nadie, reserva[t].borradores))
    /\ UNCHANGED cruzadas

\* The session was over: what was written is kept, for who is in by then, and so is
\* the form if it is there.
SesionCaducada(t) ==
    /\ Contestado(t) /\ envio[t].sesion \notin validas
    /\ PasaEnReserva(t, [reserva[t] EXCEPT !.borradores = GuardarBorrador(t, envio[t].texto)])
    /\ cruzadas' = IF Usuario(t) = envio[t].texto THEN cruzadas ELSE cruzadas \cup {t}

\* It is refused for another reason, or not answered.
NoSeCrea(t) ==
    /\ Contestado(t)
    /\ PasaEnReserva(t, reserva[t])
    /\ UNCHANGED cruzadas

\* To the sign-in, or anywhere else.
Dejar(t) ==
    /\ reserva[t].abierta /\ Cargada(t)
    /\ PasaEnReserva(t, Reserva(FALSE, Nadie, reserva[t].borradores))
    /\ UNCHANGED <<envio, cruzadas>>

NextSesion ==
    \/ \E s \in Sesiones : CerrarUna(s)
    \/ \E t \in Pestanas :
           \/ Recargar(t) \/ AtenderAviso(t) \/ Cargar(t) \/ Pasar(t)
           \/ \E quien \in Personas : PedirEntrada(t, quien)
           \/ ServirEntrada(t) \/ NoEntra(t) \/ LlegaEntrada(t) \/ Entrar(t)
           \/ Salir(t) \/ ServirSalida(t) \/ LlegaSalida(t) \/ NoLlegaSalida(t)
           \/ ServirComprobacion(t) \/ NoLlegaComprobacion(t) \/ Comprobar(t)
           \/ AbrirReserva(t) \/ Redactar(t) \/ Dejar(t)
           \/ Enviar(t) \/ SeCrea(t) \/ SesionCaducada(t) \/ NoSeCrea(t)

SpecSesion == InitSesion /\ [][NextSesion]_varsSesion

-----------------------------------------------------------------------------

\* auth-store.ts:133-138.  The last thing somebody did prevails over what the API was
\* asked before, as long as it answers and its cookie is deleted: who left ends up
\* nowhere in.  Not at once: an answer that comes to another tab before it hears of it
\* brings them back, until the tab they left from loads again and asks; which is not
\* if it opens a page before it hears of that (cruzadas).
LoUltimoVale ==
    <>[](\/ cuenta.mudas > 0 \/ dentro # 0 \/ cookie # 0 \/ cruzadas # {}
         \/ recordado = Nadie /\ \A t \in Pestanas : Usuario(t) = Nadie)

\* auth-store.ts:87-92.  Once nobody goes in or out, no tab shows one account
\* while the cookie is of another, as long as the API answers, and no tab changed
\* of account by itself (one that does has nobody ask again).
LasPestanasCoinciden ==
    <>[](cuenta.mudas > 0 \/ cookie = 0 \/ cruzadas # {}
         \/ \A t \in Pestanas : Usuario(t) \in {Nadie, dueno[cookie]})

\* borrador.ts:13-14.  What somebody had written is recovered by nobody else, in a tab
\* that has not changed of account by itself, nor been answered when somebody else was
\* in it: with who signs in after a session is over, whoever that is.
ElBorradorEsSuyo ==
    \A t \in Pestanas \ cruzadas :
        Cargada(t) /\ reserva[t].texto # Nadie => reserva[t].texto = Usuario(t)
=============================================================================
