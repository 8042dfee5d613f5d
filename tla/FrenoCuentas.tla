----------------------------- MODULE FrenoCuentas -----------------------------
(***************************************************************************)
(* The brake on the wrong passwords of one account.                        *)
(*                                                                         *)
(* The count is a key of Redis, which every instance shares and which may  *)
(* not answer a call; an instance that gets no answer counts in its own    *)
(* memory.  The key is incremented in one call and given its expiry in     *)
(* another, and the password is compared between reading the count and     *)
(* adding to it.  A deployment without Redis counts in memory only.        *)
(***************************************************************************)
EXTENDS Naturals, FiniteSets

CONSTANTS
    Instancias,     \* processes of the API
    Intentos,       \* attempts that can be served at once
    Maximo,         \* FRENO_DE_CUENTA.maximo
    Ventana,        \* FRENO_DE_CUENTA.ventanaMs, in ticks
    MaxCaidas,      \* bound: calls to Redis left unanswered, or never made
    MaxTics         \* bound: ticks

ASSUME FrenoOK ==
    /\ IsFiniteSet(Instancias)
    /\ IsFiniteSet(Intentos)
    /\ Maximo \in Nat \ {0}
    /\ Ventana \in Nat \ {0}
    /\ MaxCaidas \in Nat
    /\ MaxTics \in Nat

VARIABLES
    conRedis,   \* whether REDIS_URL is set
    clave,      \* the key in Redis: failures, and ticks it has left
    enMemoria,  \* the count of each instance
    intento,    \* what each attempt is doing, and where
    caidasRedis,\* calls to Redis left unanswered, or never made
    tics,       \* ticks gone by
    falladas    \* history: passwords found wrong since a count was last forgotten

varsFreno == <<conRedis, clave, enMemoria, intento, caidasRedis, tics, falladas>>

SinCaducidad == Ventana + 1
\* No failures: there is no key.
Cuentas == [fallos : Nat, queda : 0 .. SinCaducidad]
SinFallos == [fallos |-> 0, queda |-> 0]
Etapas == {"fuera",
           "compara",   \* comprobar let it pass
           "anota",     \* the password is wrong
           "mira",      \* it has incremented the key, which was there
           "caduca",    \* it has yet to give the key its expiry
           "olvida"}    \* the password is right
Fuera(i) == [etapa |-> "fuera", en |-> i]

TipoFreno ==
    /\ conRedis \in BOOLEAN
    /\ clave \in Cuentas
    /\ enMemoria \in [Instancias -> Cuentas]
    /\ intento \in [Intentos -> [etapa : Etapas, en : Instancias]]
    /\ caidasRedis \in 0 .. MaxCaidas
    /\ tics \in 0 .. MaxTics
    /\ falladas \in Nat

InitFreno ==
    /\ conRedis \in BOOLEAN
    /\ clave = SinFallos
    /\ enMemoria = [i \in Instancias |-> SinFallos]
    /\ intento \in [Intentos -> {Fuera(i) : i \in Instancias}]
    /\ caidasRedis = 0
    /\ tics = 0
    /\ falladas = 0

-----------------------------------------------------------------------------

EnFreno(a, etapa) == intento[a].etapa = etapa
Sigue(a, etapa) == intento' = [intento EXCEPT ![a] = [@ EXCEPT !.etapa = etapa]]
Instancia(a) == intento[a].en

Responde == conRedis /\ caidasRedis' = caidasRedis
NoContesta ==
    \/ ~conRedis /\ caidasRedis' = caidasRedis
    \/ conRedis /\ caidasRedis < MaxCaidas /\ caidasRedis' = caidasRedis + 1

\* comprobar: with the brake on, the password is not compared.
ComprobarFreno(a) ==
    /\ EnFreno(a, "fuera")
    /\ \/ Responde /\ clave.fallos < Maximo
       \/ NoContesta /\ enMemoria[Instancia(a)].fallos < Maximo
    /\ Sigue(a, "compara")
    /\ UNCHANGED <<conRedis, clave, enMemoria, tics, falladas>>

Equivocada(a) ==
    /\ EnFreno(a, "compara")
    /\ falladas' = falladas + 1
    /\ Sigue(a, "anota")
    /\ UNCHANGED <<conRedis, clave, enMemoria, caidasRedis, tics>>

Acertada(a) ==
    /\ EnFreno(a, "compara")
    /\ Sigue(a, "olvida")
    /\ UNCHANGED <<conRedis, clave, enMemoria, caidasRedis, tics, falladas>>

SumarEnMemoria(a) ==
    enMemoria' = [enMemoria EXCEPT
        ![Instancia(a)] = IF @.fallos > 0 THEN [fallos |-> @.fallos + 1, queda |-> @.queda]
                          ELSE [fallos |-> 1, queda |-> Ventana]]

\* Bug: only the first failure gives the key its expiry.
IncrementarSinMirar(a) ==
    /\ EnFreno(a, "anota")
    /\ Responde
    /\ clave' = [fallos |-> clave.fallos + 1,
                 queda |-> IF clave.fallos = 0 THEN SinCaducidad ELSE clave.queda]
    /\ Sigue(a, IF clave.fallos = 0 THEN "caduca" ELSE "fuera")
    /\ UNCHANGED <<conRedis, enMemoria, tics, falladas>>

\* sumar: a new key has no expiry, and one that was there is looked at.
Incrementar(a) ==
    /\ EnFreno(a, "anota")
    /\ Responde
    /\ clave' = [fallos |-> clave.fallos + 1,
                 queda |-> IF clave.fallos = 0 THEN SinCaducidad ELSE clave.queda]
    /\ Sigue(a, IF clave.fallos = 0 THEN "caduca" ELSE "mira")
    /\ UNCHANGED <<conRedis, enMemoria, tics, falladas>>

MirarCaducidad(a) ==
    /\ EnFreno(a, "mira")
    /\ Responde
    /\ Sigue(a, IF clave.fallos = 0 \/ clave.queda = SinCaducidad THEN "caduca" ELSE "fuera")
    /\ UNCHANGED <<conRedis, clave, enMemoria, tics, falladas>>

Caducar(a) ==
    /\ EnFreno(a, "caduca")
    /\ Responde
    /\ clave' = IF clave.fallos = 0 THEN clave ELSE [clave EXCEPT !.queda = Ventana]
    /\ Sigue(a, "fuera")
    /\ UNCHANGED <<conRedis, enMemoria, tics, falladas>>

\* Whichever of those calls fails, the failure is counted in memory.
AnotarSinRedis(a) ==
    /\ intento[a].etapa \in {"anota", "mira", "caduca"}
    /\ NoContesta
    /\ SumarEnMemoria(a)
    /\ Sigue(a, "fuera")
    /\ UNCHANGED <<conRedis, clave, tics, falladas>>

SinCaducar == {a \in Intentos : intento[a].etapa \in {"mira", "caduca"}}

\* The process may die with the key without its expiry.
MorirAnotando(i) ==
    LET cortados == {a \in SinCaducar : Instancia(a) = i} IN
    /\ cortados # {}
    /\ caidasRedis + Cardinality(cortados) <= MaxCaidas
    /\ caidasRedis' = caidasRedis + Cardinality(cortados)
    /\ enMemoria' = [enMemoria EXCEPT ![i] = SinFallos]
    /\ intento' = [a \in Intentos |-> IF Instancia(a) = i THEN Fuera(i) ELSE intento[a]]
    /\ falladas' = 0
    /\ UNCHANGED <<conRedis, clave, tics>>

\* olvidar, in memory and, if it answers, in Redis.
Olvidar(a) ==
    /\ EnFreno(a, "olvida")
    /\ enMemoria' = [enMemoria EXCEPT ![Instancia(a)] = SinFallos]
    /\ \/ Responde /\ clave' = SinFallos
       \/ NoContesta /\ clave' = clave
    /\ falladas' = 0
    /\ Sigue(a, "fuera")
    /\ UNCHANGED <<conRedis, tics>>

\* Over TOPE_EN_MEMORIA, the failures of other accounts push this one out.
Desalojar(i) ==
    /\ enMemoria[i].fallos > 0
    /\ enMemoria' = [enMemoria EXCEPT ![i] = SinFallos]
    /\ falladas' = 0
    /\ UNCHANGED <<conRedis, clave, intento, caidasRedis, tics>>

\* Bug: what is up is not forgotten.
EnvejeceSinOlvidar(c) ==
    IF c.fallos = 0 \/ c.queda = SinCaducidad THEN c ELSE [c EXCEPT !.queda = @ - 1]

Envejece(c) ==
    IF c.fallos = 0 \/ c.queda = SinCaducidad THEN c
    ELSE IF c.queda = 1 THEN SinFallos
    ELSE [c EXCEPT !.queda = @ - 1]

PasaElTiempo ==
    /\ tics < MaxTics
    /\ tics' = tics + 1
    /\ clave' = Envejece(clave)
    /\ enMemoria' = [i \in Instancias |-> Envejece(enMemoria[i])]
    /\ falladas' = IF (clave' = SinFallos /\ clave # SinFallos)
                      \/ \E i \in Instancias : enMemoria[i].fallos > 0 /\ enMemoria'[i] = SinFallos
                   THEN 0 ELSE falladas
    /\ UNCHANGED <<conRedis, intento, caidasRedis>>

NextFreno ==
    \/ PasaElTiempo
    \/ \E i \in Instancias : Desalojar(i) \/ MorirAnotando(i)
    \/ \E a \in Intentos :
           \/ ComprobarFreno(a) \/ Equivocada(a) \/ Acertada(a)
           \/ Incrementar(a) \/ MirarCaducidad(a) \/ Caducar(a)
           \/ AnotarSinRedis(a) \/ Olvidar(a)

SpecFreno == InitFreno /\ [][NextFreno]_varsFreno

-----------------------------------------------------------------------------

\* freno-de-cuentas.ts:134-136.  With the brake on in Redis, and nobody about to
\* give the key its expiry, it has one, unless Redis failed as many times as the
\* brake allows: no account stays locked for ever.
ElFrenoCaduca ==
    (clave.fallos >= Maximo /\ caidasRedis < Maximo
     /\ SinCaducar = {})
        => clave.queda # SinCaducidad

\* How many wrong passwords are compared before a count is forgotten: those of
\* the brake, one more for each attempt that was let pass at the same time and
\* one more for each call that Redis did not answer; without Redis, those of the
\* brake in each instance.
TopeDeIntentos ==
    falladas <= Cardinality(Intentos)
                + (IF conRedis THEN Maximo - 1 + caidasRedis
                   ELSE Cardinality(Instancias) * (Maximo - 1))

\* The brake neither stays for ever nor lets guessing go on.
ElFrenoCumple == ElFrenoCaduca /\ TopeDeIntentos
=============================================================================
