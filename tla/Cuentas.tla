------------------------------- MODULE Cuentas --------------------------------
(***************************************************************************)
(* One account: its row, its sessions and its recovery links.              *)
(*                                                                         *)
(* A session is a token that says when it was issued, in seconds; it is    *)
(* good until it expires, unless it was closed, the account is inactive or *)
(* the password has changed since.  Changing the password, recovering it   *)
(* and deleting the account write their columns; saving the profile and    *)
(* moderating the account read the whole row, compare what they read with  *)
(* the row as it is by then and write every column that differs.           *)
(***************************************************************************)
EXTENDS Integers, Sequences, FiniteSets

CONSTANTS
    Peticiones,     \* what can be served at once
    Tics,           \* ticks of the clock in a second
    DuracionSesion, \* what a token lasts, in seconds
    DuracionEnlace, \* DURACION_ENLACE_MS, in ticks: also the hour of the limit
    EnlacesPorHora, \* ENLACES_POR_HORA
    MaxReloj,       \* bound: ticks
    MaxTokens,      \* bound: tokens issued
    MaxClaves,      \* bound: passwords after the first
    MaxEnlaces,     \* bound: links saved
    MaxServidas     \* bound: requests served in all

ASSUME CuentasOK ==
    /\ IsFiniteSet(Peticiones)
    /\ Tics \in Nat \ {0}
    /\ DuracionSesion \in Nat
    /\ DuracionEnlace \in Nat
    /\ EnlacesPorHora \in Nat \ {0}
    /\ MaxReloj \in Nat
    /\ MaxTokens \in Nat
    /\ MaxClaves \in Nat
    /\ MaxEnlaces \in Nat
    /\ MaxServidas \in Nat

VARIABLES
    reloj,      \* in ticks
    cuenta,     \* the row, as committed
    claves,     \* the passwords set so far
    tokens,     \* those issued: when, with which password, and whether nobody
                \* was changing it meanwhile
    revocadas,  \* tokens in the table of closed sessions
    enlaces,    \* recovery links
    peticion,   \* what each request has in its hands
    servidas,   \* requests begun
    cerradas,   \* history: tokens closed
    usados,     \* history: the link of each recovery
    pisada      \* history: a save has put back an older sesionesDesde

vars == <<reloj, cuenta, claves, tokens, revocadas, enlaces, peticion, servidas,
          cerradas, usados, pisada>>
varsHistoria == <<cerradas, usados, pisada>>

\* desde is sesionesDesde, in seconds.
Filas == [clave : 0 .. MaxClaves, desde : Nat, activa : BOOLEAN, eliminada : BOOLEAN,
          datos : {"suyos", "cambiados", "anonimos"}]
DeAlta == [clave |-> 0, desde |-> 0, activa |-> TRUE, eliminada |-> FALSE, datos |-> "suyos"]

\* leida: what the request keeps of the row, with the changes it makes: the
\* password to enter, all but the password to save.  base: what a save compares
\* it with.  solo: no other request changing the password has coincided.
Trabajos == [que : {"nada", "entra", "cambia", "recupera", "restablece", "elimina", "guarda"},
             etapa : {"leida", "calculada", "escrita", "comparada"},
             leida : Filas, base : Filas, desde : Nat, enlace : 0 .. MaxEnlaces, solo : BOOLEAN]
Trabajo(que, etapa, leida, base, desde, enlace, solo) ==
    [que |-> que, etapa |-> etapa, leida |-> leida, base |-> base, desde |-> desde,
     enlace |-> enlace, solo |-> solo]
Nada == Trabajo("nada", "leida", DeAlta, DeAlta, 0, 0, TRUE)

\* tras: how many recoveries there had been.
Enlaces == [caduca : Nat, creado : Nat, usado : BOOLEAN, tras : Nat]
Emitidos == [iat : Nat, clave : 0 .. MaxClaves, solo : BOOLEAN]

TypeOK ==
    /\ reloj \in 0 .. MaxReloj
    /\ cuenta \in Filas
    /\ claves \in 0 .. MaxClaves
    /\ tokens \in Seq(Emitidos) /\ Len(tokens) <= MaxTokens
    /\ revocadas \subseteq DOMAIN tokens
    /\ enlaces \in Seq(Enlaces) /\ Len(enlaces) <= MaxEnlaces
    /\ peticion \in [Peticiones -> Trabajos]
    /\ servidas \in 0 .. MaxServidas
    /\ cerradas \subseteq DOMAIN tokens
    /\ usados \in Seq(1 .. MaxEnlaces)
    /\ pisada \in BOOLEAN

\* The account has just been registered.
Init ==
    /\ reloj = 0
    /\ cuenta = DeAlta
    /\ claves = 0
    /\ tokens = <<>>
    /\ revocadas = {}
    /\ enlaces = <<>>
    /\ peticion = [p \in Peticiones |-> Nada]
    /\ servidas = 0
    /\ cerradas = {}
    /\ usados = <<>>
    /\ pisada = FALSE

-----------------------------------------------------------------------------
(* Sessions.                                                               *)

Segundo(t) == t \div Tics

\* Bug: a second of margin, for the token issued next.
ConMargen == Segundo(reloj) - 1

\* A token's time of issue has no more precision than this.
SegundoActual == Segundo(reloj)

Caduca(k) == tokens[k].iat + DuracionSesion
Firmado(k) == Segundo(reloj) < Caduca(k)

\* Bug: the moment the password was changed is not looked at.
ValeSinMirarDesde(k) == Firmado(k) /\ cuenta.activa /\ k \notin revocadas

\* JwtStrategy.validate, after the signature and the expiry.
Vale(k) ==
    /\ Firmado(k)
    /\ cuenta.activa
    /\ k \notin revocadas
    /\ tokens[k].iat >= cuenta.desde

ConSesion == \E k \in DOMAIN tokens : Vale(k)

\* Those that have expired are swept on each closing.
Barre(ks) == {k \in ks : ~(Caduca(k) * Tics < reloj)}

\* revocar.  logout has no guard: what is not a valid token is not noted.
CerrarSesion(k) ==
    /\ k \in DOMAIN tokens
    /\ Firmado(k)
    /\ revocadas' = Barre(revocadas \cup {k})
    /\ cerradas' = cerradas \cup {k}
    /\ UNCHANGED <<reloj, servidas, cuenta, claves, tokens, enlaces, peticion, usados, pisada>>

Tic ==
    /\ reloj < MaxReloj
    /\ reloj' = reloj + 1
    /\ UNCHANGED <<servidas, cuenta, claves, tokens, revocadas, enlaces, peticion, varsHistoria>>

-----------------------------------------------------------------------------
(* Requests.                                                               *)

CambianClave == {"cambia", "restablece", "elimina"}
Cambiando(p) == peticion[p].que \in CambianClave

EmitenToken == {"entra", "cambia"}

\* Every request begins by reading the row.
Empieza(p, que, leida, enlace) ==
    /\ peticion[p].que = "nada"
    /\ servidas < MaxServidas
    /\ servidas' = servidas + 1
    /\ peticion' =
          [q \in Peticiones |->
              IF q = p
              THEN Trabajo(que, "leida", leida, DeAlta, 0, enlace,
                           que \notin EmitenToken \/ \A otra \in Peticiones : ~Cambiando(otra))
              ELSE [peticion[q] EXCEPT
                       !.solo = @ /\ ~(que \in CambianClave /\ peticion[q].que \in EmitenToken)]]
    /\ UNCHANGED <<reloj, cuenta, claves, tokens, revocadas, enlaces, varsHistoria>>

En(p, que, etapa) == peticion[p].que = que /\ peticion[p].etapa = etapa
Termina(p) == peticion' = [peticion EXCEPT ![p] = Nada]
Pasa(p, etapa, leida, base, desde) ==
    peticion' = [peticion EXCEPT
        ![p] = Trabajo(@.que, etapa, leida, base, desde, @.enlace, @.solo)]

\* login: the password is that of the row it has read.
Entrar(p) == cuenta.activa /\ Empieza(p, "entra", [DeAlta EXCEPT !.clave = cuenta.clave], 0)

\* generateAuthResponse.
Emitir(p) ==
    /\ En(p, "entra", "leida") \/ En(p, "cambia", "escrita")
    /\ Len(tokens) < MaxTokens
    /\ tokens' = Append(tokens, [iat |-> Segundo(reloj), clave |-> peticion[p].leida.clave,
                                 solo |-> peticion[p].solo])
    /\ Termina(p)
    /\ UNCHANGED <<reloj, servidas, cuenta, claves, revocadas, enlaces, varsHistoria>>

CambiarContrasena(p) == ConSesion /\ Empieza(p, "cambia", DeAlta, 0)

\* The new password is hashed, and then the time is taken.
Calcular(p) ==
    /\ Cambiando(p) /\ peticion[p].etapa = "leida"
    /\ Pasa(p, "calculada", peticion[p].leida, peticion[p].base, SegundoActual)
    /\ UNCHANGED <<reloj, servidas, cuenta, claves, tokens, revocadas, enlaces, varsHistoria>>

\* And both are written; the request goes on to issue its token.
EscribirClave(p) ==
    /\ En(p, "cambia", "calculada")
    /\ claves < MaxClaves
    /\ claves' = claves + 1
    /\ cuenta' = [cuenta EXCEPT !.clave = claves', !.desde = peticion[p].desde]
    /\ Pasa(p, "escrita", [peticion[p].leida EXCEPT !.clave = claves'], peticion[p].base,
            peticion[p].desde)
    /\ UNCHANGED <<reloj, servidas, tokens, revocadas, enlaces, varsHistoria>>

-----------------------------------------------------------------------------
(* Recovery.                                                               *)

Recientes == {l \in DOMAIN enlaces : enlaces[l].creado + DuracionEnlace > reloj}
Recuperable == cuenta.activa /\ ~cuenta.eliminada

\* prepararRecuperacion counts the links of the last hour.
PedirEnlace(p) ==
    /\ Recuperable
    /\ Cardinality(Recientes) < EnlacesPorHora
    /\ Empieza(p, "recupera", DeAlta, 0)

GuardarEnlace(p) ==
    /\ En(p, "recupera", "leida")
    /\ Len(enlaces) < MaxEnlaces
    /\ enlaces' = Append(enlaces, [caduca |-> reloj + DuracionEnlace, creado |-> reloj,
                                   usado |-> FALSE, tras |-> Len(usados)])
    /\ Termina(p)
    /\ UNCHANGED <<reloj, servidas, cuenta, claves, tokens, revocadas, varsHistoria>>

TieneEnlace(p) == peticion[p].que = "restablece"

\* restablecer: the link is locked until the transaction ends, and must be
\* unused and in time.
Restablecer(p, l) ==
    /\ l \in DOMAIN enlaces
    /\ \A q \in Peticiones : TieneEnlace(q) => peticion[q].enlace # l
    /\ ~enlaces[l].usado
    /\ reloj < enlaces[l].caduca
    /\ Recuperable
    /\ Empieza(p, "restablece", DeAlta, l)

\* Bug: only the link of the message is spent.
GastarElPropio(l) == [enlaces EXCEPT ![l] = [@ EXCEPT !.usado = TRUE]]

\* Every link the account had is spent.
Gastar(l) == [i \in DOMAIN enlaces |-> [enlaces[i] EXCEPT !.usado = TRUE]]

\* The other links are spent too: whoever has one of them locked is waited for.
Confirmar(p) ==
    /\ En(p, "restablece", "calculada")
    /\ \A q \in Peticiones \ {p} : ~TieneEnlace(q)
    /\ claves < MaxClaves
    /\ claves' = claves + 1
    /\ cuenta' = [cuenta EXCEPT !.clave = claves', !.desde = peticion[p].desde]
    /\ enlaces' = Gastar(peticion[p].enlace)
    /\ usados' = Append(usados, peticion[p].enlace)
    /\ Termina(p)
    /\ UNCHANGED <<reloj, servidas, tokens, revocadas, cerradas, pisada>>

\* A password too common is refused; of two transactions that wait for each
\* other, with two links of one account, the database undoes one.
Deshacer(p) ==
    /\ \/ En(p, "restablece", "leida")
       \/ /\ peticion[p].que \in {"restablece", "elimina"} /\ peticion[p].etapa = "calculada"
          /\ \E q \in Peticiones \ {p} :
                 /\ peticion[q].que \in {"restablece", "elimina"}
                 /\ peticion[q].etapa = "calculada"
    /\ Termina(p)
    /\ UNCHANGED <<reloj, servidas, cuenta, claves, tokens, revocadas, enlaces, varsHistoria>>

-----------------------------------------------------------------------------
(* The profile, moderation and deletion.                                   *)

\* eliminarCuenta has seen the password and no open booking.
EliminarCuenta(p) ==
    /\ ConSesion
    /\ ~cuenta.eliminada
    /\ Empieza(p, "elimina", DeAlta, 0)

\* Its links are deleted, which waits for whoever has one locked, and the row
\* is left with nobody's data and a password that nobody knows.
Anonimizar(p) ==
    /\ En(p, "elimina", "calculada")
    /\ \A q \in Peticiones : ~TieneEnlace(q)
    /\ claves < MaxClaves
    /\ claves' = claves + 1
    /\ cuenta' = [clave |-> claves', desde |-> peticion[p].desde, activa |-> FALSE,
                  eliminada |-> TRUE, datos |-> "anonimos"]
    /\ enlaces' = [i \in DOMAIN enlaces |-> [enlaces[i] EXCEPT !.usado = TRUE]]
    /\ Termina(p)
    /\ UNCHANGED <<reloj, servidas, tokens, revocadas, varsHistoria>>

\* update, of one's own profile.
GuardarPerfil(p) == ConSesion /\ Empieza(p, "guarda", [cuenta EXCEPT !.clave = 0, !.datos = "cambiados"], 0)

\* toggleActive, by the administration.
Moderar(p) == ~cuenta.eliminada /\ Empieza(p, "guarda", [cuenta EXCEPT !.clave = 0, !.activa = ~@], 0)

Comparar(p) ==
    /\ En(p, "guarda", "leida")
    /\ Pasa(p, "comparada", peticion[p].leida, [cuenta EXCEPT !.clave = 0], 0)
    /\ UNCHANGED <<reloj, servidas, cuenta, claves, tokens, revocadas, enlaces, varsHistoria>>

Columna(leida, base, actual) == IF leida = base THEN actual ELSE leida

\* The password is not among the columns read.
GuardarFila(p) ==
    LET leida == peticion[p].leida
        base  == peticion[p].base
    IN  /\ En(p, "guarda", "comparada")
        /\ cuenta' = [clave |-> cuenta.clave,
                      desde |-> Columna(leida.desde, base.desde, cuenta.desde),
                      activa |-> Columna(leida.activa, base.activa, cuenta.activa),
                      eliminada |-> Columna(leida.eliminada, base.eliminada, cuenta.eliminada),
                      datos |-> Columna(leida.datos, base.datos, cuenta.datos)]
        /\ pisada' = (pisada \/ leida.desde # base.desde)
        /\ Termina(p)
        /\ UNCHANGED <<reloj, servidas, claves, tokens, revocadas, enlaces, cerradas, usados>>

Next ==
    \/ Tic
    \/ \E k \in DOMAIN tokens : CerrarSesion(k)
    \/ \E p \in Peticiones :
           \/ Entrar(p) \/ Emitir(p)
           \/ CambiarContrasena(p) \/ Calcular(p) \/ EscribirClave(p)
           \/ PedirEnlace(p) \/ GuardarEnlace(p)
           \/ \E l \in DOMAIN enlaces : Restablecer(p, l)
           \/ Confirmar(p) \/ Deshacer(p)
           \/ EliminarCuenta(p) \/ Anonimizar(p)
           \/ GuardarPerfil(p) \/ Moderar(p) \/ Comparar(p) \/ GuardarFila(p)

Spec == Init /\ [][Next]_vars

-----------------------------------------------------------------------------

\* A session opened with an older password is no longer good, save in the very
\* second of the change, and save the two cases the code leaves open: it was
\* being opened while the password changed, or a save of the row that had been
\* read before the change has put the older sesionesDesde back.
LaViejaNoAbre ==
    pisada \/ \A k \in DOMAIN tokens :
        (Vale(k) /\ tokens[k].solo) =>
            tokens[k].clave = cuenta.clave \/ tokens[k].iat = cuenta.desde

\* A session opened with the password of today is good until it expires or is
\* closed: whoever changes the password is never left out, whatever else was
\* being written and in whatever part of the second.
LaNuevaAbre ==
    \A k \in DOMAIN tokens :
        (tokens[k].clave = cuenta.clave /\ cuenta.activa /\ Firmado(k)) =>
            Vale(k) \/ k \in cerradas

\* A session that was closed is not good again, although the table of closed
\* sessions is swept.
CerradaNoVuelve == \A k \in cerradas : ~Vale(k)

\* estrategia JWT and auth.service.ts: a session is as good as the password it was
\* opened with, no more and no less.
SoloLaClaveDeHoy == LaViejaNoAbre /\ LaNuevaAbre /\ CerradaNoVuelve

\* A link is used once, and not after any other asked for before its use: no
\* recovery comes between the moment a link is saved and its own.
EnlacesEnOrden == \A i \in DOMAIN usados : enlaces[usados[i]].tras = i - 1

\* In any hour the account gets the links of the limit, and one more for each
\* other request that was counting at the same time.
TopeDeEnlaces == Cardinality(Recientes) < EnlacesPorHora + Cardinality(Peticiones)

\* auth.service.ts:261-349: neither more links than there should be, nor one used
\* out of its turn.
LosEnlacesCuadran == EnlacesEnOrden /\ TopeDeEnlaces

\* users.service.ts:321: what was deleted does not come back.  A save of the
\* row read before the deletion brings it back.
LoEliminadoNoVuelve == [][cuenta.eliminada => cuenta'.eliminada /\ cuenta'.datos = "anonimos"]_vars
=============================================================================
