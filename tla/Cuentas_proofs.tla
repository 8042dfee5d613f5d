--------------------------- MODULE Cuentas_proofs ---------------------------
(***************************************************************************)
(* What is proved of Cuentas for any number of requests, passwords, tokens *)
(* and links: a session is as good as the password it was opened with, and *)
(* the recovery links are used in order and within their limit.  And of    *)
(* Reservar, for any rates, editions, days and requests: what the form     *)
(* lets through is refused only for what changed or no form can know.  Of  *)
(* what is read query by query, for any rows: the download, the figures    *)
(* of the panel, which add up, and the pages of the history.  And of the   *)
(* four together, as they are run.                                         *)
(***************************************************************************)
EXTENDS MCCuentas, FiniteSetTheorems, WellFoundedInduction, TLAPS

\* Strengthening of TypeOK: whoever has a link has one that exists.
Tipos ==
    /\ TypeOK
    /\ \A p \in Peticiones : TieneEnlace(p) => peticion[p].enlace \in DOMAIN enlaces

\* A link not yet used was saved after the last recovery; one a request has locked
\* is not used; those used were, in the order of their recoveries.
EnlacesBien ==
    /\ \A l \in DOMAIN enlaces : ~enlaces[l].usado => enlaces[l].tras = Len(usados)
    /\ \A p \in Peticiones : TieneEnlace(p) => ~enlaces[peticion[p].enlace].usado
    /\ \A i \in DOMAIN usados :
         usados[i] \in DOMAIN enlaces /\ enlaces[usados[i]].tras = i - 1

\* The requests that have counted the links and have not saved theirs.
Pidiendo == {p \in Peticiones : peticion[p].que = "recupera"}

\* The links of the last hour and those to come.
EnlacesContados ==
    Cardinality(Recientes) + Cardinality(Pidiendo) < EnlacesPorHora + Cardinality(Peticiones)

\* No time is in the future, and no password is one not yet set.
DelPasado ==
    /\ cuenta.clave = claves /\ cuenta.desde <= SegundoActual
    /\ \A k \in DOMAIN tokens : tokens[k].iat <= SegundoActual /\ tokens[k].clave <= claves
    /\ \A p \in Peticiones :
         /\ peticion[p].desde <= SegundoActual /\ peticion[p].leida.desde <= SegundoActual
         /\ peticion[p].leida.clave <= claves

\* A token of today's password is later than the row's sesionesDesde, and than
\* any other that a save still to be written has read.
NuevaDespues ==
    \A k \in DOMAIN tokens : tokens[k].clave = cuenta.clave =>
        /\ cuenta.desde <= tokens[k].iat
        /\ \A p \in Peticiones : peticion[p].leida.desde <= tokens[k].iat

\* A request that will issue a token with nobody else changing the password has
\* today's.
EmiteLaDeHoy ==
    \A p \in Peticiones : peticion[p].que \in EmitenToken /\ peticion[p].solo =>
        /\ \A q \in Peticiones \ {p} : ~Cambiando(q)
        /\ En(p, "entra", "leida") \/ En(p, "cambia", "escrita") =>
             peticion[p].leida.clave = cuenta.clave

\* A token issued that way is earlier than any change since, done or on its way.
ViejaAntes ==
    \A k \in DOMAIN tokens : tokens[k].solo =>
        /\ pisada \/ tokens[k].clave = cuenta.clave \/ tokens[k].iat <= cuenta.desde
        /\ \A p \in Peticiones : Cambiando(p) /\ peticion[p].etapa = "calculada" =>
             tokens[k].iat <= peticion[p].desde

\* What is swept from the closed sessions has expired.
CerradasBien ==
    /\ revocadas \subseteq cerradas
    /\ \A k \in cerradas : k \in revocadas \/ ~Firmado(k)

-----------------------------------------------------------------------------
(* What a request has in its hands.                                        *)

\* The account as it is registered, and nothing in one's hands.
LEMMA DeAltaBien == DeAlta \in Filas /\ Nada \in Trabajos
BY CuentasOK DEF DeAlta, Filas, Nada, Trabajo, Trabajos

\* All that a request has in its hands but whether it is alone.
Lleva(q) == <<peticion[q].que, peticion[q].etapa, peticion[q].leida, peticion[q].base,
              peticion[q].desde, peticion[q].enlace>>

\* The requests that begin.
Empiezan == {"entra", "cambia", "recupera", "restablece", "elimina", "guarda"}

\* A request begins: the others only learn whether they are alone.
LEMMA EmpiezaHace ==
    ASSUME Tipos, NEW p \in Peticiones, NEW que \in Empiezan, NEW leida \in Filas,
           NEW enlace \in 0 .. MaxEnlaces, Empieza(p, que, leida, enlace)
    PROVE  /\ peticion[p].que = "nada"
           /\ peticion' \in [Peticiones -> Trabajos]
           /\ Lleva(p)' = <<que, "leida", leida, DeAlta, 0, enlace>>
           /\ \A q \in Peticiones \ {p} : Lleva(q)' = Lleva(q)
           /\ que \in EmitenToken /\ peticion'[p].solo => \A q \in Peticiones : ~Cambiando(q)
           /\ \A q \in Peticiones \ {p} : peticion'[q].solo =>
                /\ peticion[q].solo
                /\ que \in CambianClave => peticion[q].que \notin EmitenToken
<1> DEFINE solo == que \notin EmitenToken \/ \A otra \in Peticiones : ~Cambiando(otra)
           suyo(q) == peticion[q].solo /\ ~(que \in CambianClave /\ peticion[q].que \in EmitenToken)
<1>1. peticion' = [q \in Peticiones |->
                     IF q = p THEN Trabajo(que, "leida", leida, DeAlta, 0, enlace, solo)
                     ELSE [peticion[q] EXCEPT !.solo = suyo(q)]]
  BY DEF Empieza
<1>2. solo \in BOOLEAN /\ \A q \in Peticiones : suyo(q) \in BOOLEAN
  OBVIOUS
<1>3. solo /\ que \in EmitenToken => \A q \in Peticiones : ~Cambiando(q)
  OBVIOUS
<1>4. \A q \in Peticiones : suyo(q) =>
        peticion[q].solo /\ (que \in CambianClave => peticion[q].que \notin EmitenToken)
  OBVIOUS
<1> HIDE DEF solo, suyo
<1>5. /\ peticion'[p] = Trabajo(que, "leida", leida, DeAlta, 0, enlace, solo)
      /\ \A q \in Peticiones \ {p} : peticion'[q] = [peticion[q] EXCEPT !.solo = suyo(q)]
  BY <1>1
<1>6. /\ peticion'[p] \in Trabajos /\ peticion'[p].solo = solo
      /\ Lleva(p)' = <<que, "leida", leida, DeAlta, 0, enlace>>
  BY <1>2, <1>5, DeAltaBien DEF Trabajo, Trabajos, Lleva, Empiezan
<1>7. ASSUME NEW q \in Peticiones \ {p}
      PROVE  /\ peticion'[q] \in Trabajos /\ peticion'[q].solo = suyo(q)
             /\ Lleva(q)' = Lleva(q)
  <2>1. peticion[q] \in Trabajos /\ suyo(q) \in BOOLEAN
    BY <1>2 DEF Tipos, TypeOK
  <2>2. peticion'[q] = [peticion[q] EXCEPT !.solo = suyo(q)]
    BY <1>5
  <2>3. peticion'[q] \in Trabajos /\ peticion'[q].solo = suyo(q)
    BY <2>1, <2>2 DEF Trabajos
  <2>4. Lleva(q)' = Lleva(q)
    BY <2>1, <2>2 DEF Trabajos, Lleva
  <2>5. QED
    BY <2>3, <2>4
<1>8. peticion' \in [Peticiones -> Trabajos]
  BY <1>1, <1>6, <1>7
<1>9. peticion[p].que = "nada"
  BY DEF Empieza
<1>10. QED
  BY <1>3, <1>4, <1>6, <1>7, <1>8, <1>9

\* What begins is of its type, and what goes on still is.
LEMMA EmpiezaTipos ==
    ASSUME Tipos, NEW p \in Peticiones, NEW que \in Empiezan, NEW leida \in Filas,
           NEW enlace \in 0 .. MaxEnlaces, que = "restablece" => enlace \in DOMAIN enlaces,
           Empieza(p, que, leida, enlace)
    PROVE  Tipos'
<1>1. /\ peticion' \in [Peticiones -> Trabajos]
      /\ Lleva(p)' = <<que, "leida", leida, DeAlta, 0, enlace>>
      /\ \A q \in Peticiones \ {p} : Lleva(q)' = Lleva(q)
  BY EmpiezaHace
<1>2. \A q \in Peticiones : TieneEnlace(q)' => peticion'[q].enlace \in DOMAIN enlaces
  BY <1>1 DEF Tipos, TieneEnlace, Lleva
<1>3. servidas' \in 0 .. MaxServidas
  BY CuentasOK DEF Empieza, Tipos, TypeOK
<1>4. QED
  BY <1>1, <1>2, <1>3 DEF Empieza, Tipos, TypeOK, varsHistoria

\* A request goes on, keeping its link and whether it is alone.
LEMMA PasaHace ==
    ASSUME Tipos, NEW p \in Peticiones, NEW etapa \in {"leida", "calculada", "escrita", "comparada"},
           NEW leida \in Filas, NEW base \in Filas, NEW desde \in Nat,
           Pasa(p, etapa, leida, base, desde)
    PROVE  /\ peticion' \in [Peticiones -> Trabajos]
           /\ Lleva(p)' = <<peticion[p].que, etapa, leida, base, desde, peticion[p].enlace>>
           /\ peticion'[p].solo = peticion[p].solo
           /\ \A q \in Peticiones \ {p} : peticion'[q] = peticion[q]
<1>1. /\ peticion'[p] = Trabajo(peticion[p].que, etapa, leida, base, desde,
                                peticion[p].enlace, peticion[p].solo)
      /\ \A q \in Peticiones \ {p} : peticion'[q] = peticion[q]
      /\ peticion' = [q \in Peticiones |-> peticion'[q]]
  BY DEF Tipos, TypeOK, Pasa
<1>2. peticion[p] \in Trabajos
  BY DEF Tipos, TypeOK
<1>3. /\ peticion'[p] \in Trabajos /\ peticion'[p].solo = peticion[p].solo
      /\ Lleva(p)' = <<peticion[p].que, etapa, leida, base, desde, peticion[p].enlace>>
  BY <1>1, <1>2 DEF Trabajo, Trabajos, Lleva
<1>4. peticion' \in [Peticiones -> Trabajos]
  BY <1>1, <1>3 DEF Tipos, TypeOK
<1>5. QED
  BY <1>1, <1>3, <1>4

\* A request ends.
LEMMA TerminaHace ==
    ASSUME Tipos, NEW p \in Peticiones, Termina(p)
    PROVE  /\ peticion'[p] = Nada /\ ~TieneEnlace(p)'
           /\ \A q \in Peticiones \ {p} : peticion'[q] = peticion[q]
           /\ peticion' \in [Peticiones -> Trabajos]
BY DeAltaBien DEF Tipos, TypeOK, Termina, TieneEnlace, Nada, Trabajo

\* The second of the clock.
LEMMA SegundoBien ==
    /\ \A t \in Nat : Segundo(t) \in Nat
    /\ \A t \in Nat : Segundo(t) <= Segundo(t + 1)
    /\ \A t, c \in Nat : c * Tics < t => c <= Segundo(t)
<1>1. ASSUME NEW t \in Nat, NEW c \in Nat
      PROVE  /\ t \div Tics \in Nat /\ t \div Tics <= (t + 1) \div Tics
             /\ c * Tics < t => c <= t \div Tics
  BY CuentasOK, SMTT(20)
<1>2. QED
  BY <1>1 DEF Segundo

\* Spending the links spends them and nothing else.
LEMMA GastarHace ==
    ASSUME Tipos, enlaces' = [i \in DOMAIN enlaces |-> [enlaces[i] EXCEPT !.usado = TRUE]]
    PROVE  /\ enlaces' \in Seq(Enlaces) /\ Len(enlaces') = Len(enlaces)
           /\ DOMAIN enlaces' = DOMAIN enlaces
           /\ \A i \in DOMAIN enlaces :
                /\ enlaces'[i].usado /\ enlaces'[i].tras = enlaces[i].tras
                /\ enlaces'[i].creado = enlaces[i].creado
<1>1. enlaces \in Seq(Enlaces) /\ Len(enlaces) \in Nat /\ DOMAIN enlaces = 1 .. Len(enlaces)
  BY DEF Tipos, TypeOK
<1>2. \A i \in DOMAIN enlaces :
        /\ enlaces'[i] = [enlaces[i] EXCEPT !.usado = TRUE] /\ enlaces[i] \in Enlaces
  BY <1>1
<1>3. \A i \in DOMAIN enlaces :
        /\ enlaces'[i] \in Enlaces /\ enlaces'[i].usado = TRUE
        /\ enlaces'[i].tras = enlaces[i].tras /\ enlaces'[i].creado = enlaces[i].creado
  BY <1>2 DEF Enlaces
<1>4. enlaces' \in [1 .. Len(enlaces) -> Enlaces]
  BY <1>1, <1>3
<1>5. enlaces' \in Seq(Enlaces) /\ Len(enlaces') = Len(enlaces)
  BY <1>1, <1>4
<1>6. QED
  BY <1>1, <1>3, <1>5

-----------------------------------------------------------------------------
(* Types.                                                                  *)

\* The requests, as they begin.
LEMMA EmpiezanTipos ==
    ASSUME Tipos, NEW p \in Peticiones,
           \/ Entrar(p) \/ CambiarContrasena(p) \/ PedirEnlace(p) \/ EliminarCuenta(p)
           \/ GuardarPerfil(p) \/ Moderar(p) \/ \E l \in DOMAIN enlaces : Restablecer(p, l)
    PROVE  \E que \in Empiezan, leida \in Filas, enlace \in 0 .. MaxEnlaces :
             /\ Empieza(p, que, leida, enlace)
             /\ que = "restablece" => enlace \in DOMAIN enlaces
<1>1. cuenta \in Filas /\ DeAlta \in Filas
  BY DeAltaBien DEF Tipos, TypeOK
<1>2. /\ [DeAlta EXCEPT !.clave = cuenta.clave] \in Filas
      /\ [cuenta EXCEPT !.clave = 0, !.datos = "cambiados"] \in Filas
      /\ [cuenta EXCEPT !.clave = 0, !.activa = ~@] \in Filas
  <2>1. ASSUME NEW f \in Filas, NEW c \in 0 .. MaxClaves, NEW b \in BOOLEAN
        PROVE  /\ [f EXCEPT !.clave = c] \in Filas
               /\ [f EXCEPT !.datos = "cambiados"] \in Filas
               /\ [f EXCEPT !.activa = b] \in Filas
    BY DEF Filas
  <2>2. 0 \in 0 .. MaxClaves /\ cuenta.clave \in 0 .. MaxClaves /\ (~cuenta.activa) \in BOOLEAN
    BY <1>1, CuentasOK DEF Filas
  <2>3. /\ [cuenta EXCEPT !.clave = 0, !.datos = "cambiados"]
             = [[cuenta EXCEPT !.clave = 0] EXCEPT !.datos = "cambiados"]
        /\ [cuenta EXCEPT !.clave = 0, !.activa = ~@]
             = [[cuenta EXCEPT !.clave = 0] EXCEPT !.activa = ~cuenta.activa]
    BY <1>1 DEF Filas
  <2>4. QED
    BY <1>1, <2>1, <2>2, <2>3
<1>3. 0 \in 0 .. MaxEnlaces /\ DOMAIN enlaces \subseteq 0 .. MaxEnlaces
  BY CuentasOK DEF Tipos, TypeOK
<1>4. CASE Entrar(p)
  BY <1>2, <1>3, <1>4 DEF Entrar, Empiezan
<1>5. CASE CambiarContrasena(p) \/ PedirEnlace(p) \/ EliminarCuenta(p)
  BY <1>1, <1>3, <1>5 DEF CambiarContrasena, PedirEnlace, EliminarCuenta, Empiezan
<1>6. CASE GuardarPerfil(p) \/ Moderar(p)
  BY <1>2, <1>3, <1>6 DEF GuardarPerfil, Moderar, Empiezan
<1>7. CASE \E l \in DOMAIN enlaces : Restablecer(p, l)
  BY <1>1, <1>3, <1>7 DEF Restablecer, Empiezan
<1>8. QED
  BY <1>4, <1>5, <1>6, <1>7

\* A step that leaves the links no shorter leaves those that are locked there.
LEMMA SiguenEnlaces ==
    ASSUME Tipos, NEW p \in Peticiones, peticion' \in [Peticiones -> Trabajos],
           DOMAIN enlaces \subseteq DOMAIN enlaces',
           \A q \in Peticiones \ {p} : Lleva(q)' = Lleva(q),
           TieneEnlace(p)' => peticion'[p].enlace \in DOMAIN enlaces
    PROVE  \A q \in Peticiones : TieneEnlace(q)' => peticion'[q].enlace \in DOMAIN enlaces'
BY DEF Tipos, TieneEnlace, Lleva

\* Every step keeps the types.
LEMMA PasoTipos == Tipos /\ [Next]_vars => Tipos'
<1> SUFFICES ASSUME Tipos, [Next]_vars PROVE Tipos'
  OBVIOUS
<1> USE CuentasOK
<1>0. /\ cuenta \in Filas /\ peticion \in [Peticiones -> Trabajos]
      /\ \A q \in Peticiones :
           peticion[q].leida \in Filas /\ peticion[q].base \in Filas /\ peticion[q].desde \in Nat
      /\ \A q \in Peticiones : peticion[q].solo \in BOOLEAN
      /\ SegundoActual \in Nat
  <2>1. reloj \in Nat
    BY DEF Tipos, TypeOK
  <2>2. SegundoActual \in Nat
    BY <2>1, SegundoBien DEF SegundoActual
  <2>3. QED
    BY <2>2 DEF Tipos, TypeOK, Trabajos
<1>1. CASE UNCHANGED vars
  BY <1>1 DEF vars, varsHistoria, Tipos, TypeOK, TieneEnlace
<1>2. CASE Tic
  BY <1>2 DEF Tic, varsHistoria, Tipos, TypeOK, TieneEnlace
<1>3. ASSUME NEW k \in DOMAIN tokens, CerrarSesion(k) PROVE Tipos'
  BY <1>3 DEF CerrarSesion, Barre, Tipos, TypeOK, TieneEnlace
<1>4. ASSUME NEW p \in Peticiones,
             \/ Entrar(p) \/ CambiarContrasena(p) \/ PedirEnlace(p) \/ EliminarCuenta(p)
             \/ GuardarPerfil(p) \/ Moderar(p) \/ \E l \in DOMAIN enlaces : Restablecer(p, l)
      PROVE  Tipos'
  BY <1>4, EmpiezanTipos, EmpiezaTipos
<1>5. ASSUME NEW p \in Peticiones, Emitir(p) PROVE Tipos'
  <2>1. /\ peticion' \in [Peticiones -> Trabajos] /\ ~TieneEnlace(p)'
        /\ \A q \in Peticiones \ {p} : peticion'[q] = peticion[q]
    BY <1>5, TerminaHace DEF Emitir
  <2>2. [iat |-> Segundo(reloj), clave |-> peticion[p].leida.clave, solo |-> peticion[p].solo]
          \in Emitidos
    <3>1. Segundo(reloj) \in Nat /\ peticion[p].leida.clave \in 0 .. MaxClaves
      BY <1>0 DEF SegundoActual, Filas
    <3>2. peticion[p].solo \in BOOLEAN
      BY <1>0
    <3>3. QED
      BY <3>1, <3>2 DEF Emitidos
  <2>3. /\ tokens' \in Seq(Emitidos) /\ Len(tokens') <= MaxTokens
        /\ DOMAIN tokens \subseteq DOMAIN tokens'
    BY <1>5, <2>2 DEF Emitir, Tipos, TypeOK
  <2>4. \A q \in Peticiones : TieneEnlace(q)' => peticion'[q].enlace \in DOMAIN enlaces
    BY <2>1 DEF Tipos, TieneEnlace
  <2>5. QED
    BY <1>5, <2>1, <2>3, <2>4 DEF Emitir, varsHistoria, Tipos, TypeOK
<1>6. ASSUME NEW p \in Peticiones, Calcular(p) \/ Comparar(p) PROVE Tipos'
  <2>1. SegundoActual \in Nat /\ [cuenta EXCEPT !.clave = 0] \in Filas /\ 0 \in Nat
    BY <1>0 DEF Filas
  <2>2. PICK e \in {"calculada", "comparada"}, leida \in Filas, base \in Filas, d \in Nat :
          Pasa(p, e, leida, base, d)
    BY <1>0, <1>6, <2>1 DEF Calcular, Comparar
  <2>3. /\ peticion' \in [Peticiones -> Trabajos]
        /\ Lleva(p)' = <<peticion[p].que, e, leida, base, d, peticion[p].enlace>>
        /\ \A q \in Peticiones \ {p} : peticion'[q] = peticion[q]
    BY <2>2, PasaHace
  <2>4. \A q \in Peticiones : TieneEnlace(q)' => peticion'[q].enlace \in DOMAIN enlaces
    BY <2>3 DEF Tipos, TieneEnlace, Lleva
  <2>5. QED
    BY <1>6, <2>3, <2>4 DEF Calcular, Comparar, varsHistoria, Tipos, TypeOK
<1>7. ASSUME NEW p \in Peticiones, EscribirClave(p) PROVE Tipos'
  <2>1. claves' \in 0 .. MaxClaves
    BY <1>7 DEF EscribirClave, Tipos, TypeOK
  <2>2. cuenta' \in Filas /\ [peticion[p].leida EXCEPT !.clave = claves'] \in Filas
    BY <1>0, <1>7, <2>1 DEF EscribirClave, Filas
  <2>3. Pasa(p, "escrita", [peticion[p].leida EXCEPT !.clave = claves'], peticion[p].base,
             peticion[p].desde)
    BY <1>7 DEF EscribirClave
  <2>4. /\ peticion' \in [Peticiones -> Trabajos]
        /\ peticion'[p].que = peticion[p].que /\ peticion'[p].enlace = peticion[p].enlace
        /\ \A q \in Peticiones \ {p} : peticion'[q] = peticion[q]
    BY <1>0, <2>2, <2>3, PasaHace DEF Lleva
  <2>5. \A q \in Peticiones : TieneEnlace(q)' => peticion'[q].enlace \in DOMAIN enlaces
    BY <2>4 DEF Tipos, TieneEnlace
  <2>6. QED
    BY <1>7, <2>1, <2>2, <2>4, <2>5 DEF EscribirClave, varsHistoria, Tipos, TypeOK
<1>8. ASSUME NEW p \in Peticiones, GuardarEnlace(p) PROVE Tipos'
  <2>1. /\ peticion' \in [Peticiones -> Trabajos] /\ ~TieneEnlace(p)'
        /\ \A q \in Peticiones \ {p} : peticion'[q] = peticion[q]
    BY <1>8, TerminaHace DEF GuardarEnlace
  <2>2. [caduca |-> reloj + DuracionEnlace, creado |-> reloj, usado |-> FALSE,
         tras |-> Len(usados)] \in Enlaces
    BY DEF Enlaces, Tipos, TypeOK
  <2>3. /\ enlaces' \in Seq(Enlaces) /\ Len(enlaces') <= MaxEnlaces
        /\ DOMAIN enlaces \subseteq DOMAIN enlaces'
    BY <1>8, <2>2 DEF GuardarEnlace, Tipos, TypeOK
  <2>4. \A q \in Peticiones : TieneEnlace(q)' => peticion'[q].enlace \in DOMAIN enlaces'
    BY <2>1, <2>3 DEF Tipos, TieneEnlace
  <2>5. QED
    BY <1>8, <2>1, <2>3, <2>4 DEF GuardarEnlace, varsHistoria, Tipos, TypeOK
<1>9. ASSUME NEW p \in Peticiones, Confirmar(p) PROVE Tipos'
  <2>1. /\ peticion' \in [Peticiones -> Trabajos] /\ ~TieneEnlace(p)'
        /\ \A q \in Peticiones \ {p} : peticion'[q] = peticion[q]
    BY <1>9, TerminaHace DEF Confirmar
  <2>2. claves' \in 0 .. MaxClaves
    BY <1>9 DEF Confirmar, Tipos, TypeOK
  <2>3. cuenta' \in Filas
    BY <1>0, <1>9, <2>2 DEF Confirmar, Filas
  <2>4. enlaces' \in Seq(Enlaces) /\ Len(enlaces') = Len(enlaces) /\ DOMAIN enlaces' = DOMAIN enlaces
    BY <1>9, GastarHace DEF Confirmar, Gastar
  <2>5. usados' \in Seq(1 .. MaxEnlaces)
    <3>1. peticion[p].enlace \in 1 .. MaxEnlaces
      <4>1. peticion[p].enlace \in DOMAIN enlaces
        BY <1>9 DEF Confirmar, En, TieneEnlace, Tipos
      <4>2. DOMAIN enlaces \subseteq 1 .. MaxEnlaces
        BY DEF Tipos, TypeOK
      <4>3. QED
        BY <4>1, <4>2
    <3>2. QED
      BY <1>9, <3>1 DEF Confirmar, Tipos, TypeOK
  <2>6. \A q \in Peticiones : TieneEnlace(q)' => peticion'[q].enlace \in DOMAIN enlaces'
    BY <2>1, <2>4 DEF Tipos, TieneEnlace
  <2>7. QED
    BY <1>9, <2>1, <2>2, <2>3, <2>4, <2>5, <2>6 DEF Confirmar, Tipos, TypeOK
<1>10. ASSUME NEW p \in Peticiones, Deshacer(p) PROVE Tipos'
  <2>1. /\ peticion' \in [Peticiones -> Trabajos] /\ ~TieneEnlace(p)'
        /\ \A q \in Peticiones \ {p} : peticion'[q] = peticion[q]
    BY <1>10, TerminaHace DEF Deshacer
  <2>2. QED
    BY <1>10, <2>1 DEF Deshacer, varsHistoria, Tipos, TypeOK, TieneEnlace
<1>11. ASSUME NEW p \in Peticiones, Anonimizar(p) PROVE Tipos'
  <2>1. /\ peticion' \in [Peticiones -> Trabajos] /\ ~TieneEnlace(p)'
        /\ \A q \in Peticiones \ {p} : peticion'[q] = peticion[q]
    BY <1>11, TerminaHace DEF Anonimizar
  <2>2. claves' \in 0 .. MaxClaves
    BY <1>11 DEF Anonimizar, Tipos, TypeOK
  <2>3. cuenta' \in Filas
    BY <1>0, <1>11, <2>2 DEF Anonimizar, Filas
  <2>4. enlaces' \in Seq(Enlaces) /\ Len(enlaces') = Len(enlaces) /\ DOMAIN enlaces' = DOMAIN enlaces
    BY <1>11, GastarHace DEF Anonimizar
  <2>5. \A q \in Peticiones : TieneEnlace(q)' => peticion'[q].enlace \in DOMAIN enlaces'
    BY <2>1, <2>4 DEF Tipos, TieneEnlace
  <2>6. QED
    BY <1>11, <2>1, <2>2, <2>3, <2>4, <2>5 DEF Anonimizar, varsHistoria, Tipos, TypeOK
<1>12. ASSUME NEW p \in Peticiones, GuardarFila(p) PROVE Tipos'
  <2>1. /\ peticion' \in [Peticiones -> Trabajos] /\ ~TieneEnlace(p)'
        /\ \A q \in Peticiones \ {p} : peticion'[q] = peticion[q]
    BY <1>12, TerminaHace DEF GuardarFila
  <2>2. cuenta' \in Filas
    BY <1>0, <1>12 DEF GuardarFila, Columna, Filas
  <2>3. pisada' \in BOOLEAN
    BY <1>12 DEF GuardarFila
  <2>4. QED
    BY <1>12, <2>1, <2>2, <2>3 DEF GuardarFila, Tipos, TypeOK, TieneEnlace
<1>13. QED
  BY <1>1, <1>2, <1>3, <1>4, <1>5, <1>6, <1>7, <1>8, <1>9, <1>10, <1>11, <1>12 DEF Next

\* The account as registered is of its type.
LEMMA IniciaTipos == Init => Tipos
<1> SUFFICES ASSUME Init PROVE Tipos
  OBVIOUS
<1>1. /\ peticion \in [Peticiones -> Trabajos]
      /\ \A p \in Peticiones : ~TieneEnlace(p)
  BY DeAltaBien DEF Init, TieneEnlace, Nada, Trabajo
<1>2. tokens \in Seq(Emitidos) /\ enlaces \in Seq(Enlaces) /\ usados \in Seq(1 .. MaxEnlaces)
  BY DEF Init
<1>3. Len(tokens) = 0 /\ Len(enlaces) = 0
  BY DEF Init
<1>4. QED
  <2>1. /\ reloj \in 0 .. MaxReloj /\ claves \in 0 .. MaxClaves /\ servidas \in 0 .. MaxServidas
        /\ cuenta \in Filas /\ pisada \in BOOLEAN
    <3>1. 0 \in 0 .. MaxReloj /\ 0 \in 0 .. MaxClaves /\ 0 \in 0 .. MaxServidas
      BY CuentasOK
    <3>2. cuenta \in Filas /\ pisada \in BOOLEAN
      BY DeAltaBien DEF Init
    <3>3. QED
      BY <3>1, <3>2 DEF Init
  <2>2. revocadas \subseteq DOMAIN tokens /\ cerradas \subseteq DOMAIN tokens
    BY DEF Init
  <2>3. QED
    BY <1>1, <1>2, <1>3, <2>1, <2>2, CuentasOK DEF Tipos, TypeOK

\* Type correctness, for any constants.
THEOREM CuentasTipos == Spec => []Tipos
BY IniciaTipos, PasoTipos, PTL DEF Spec

-----------------------------------------------------------------------------
(* Recovery links.                                                         *)

\* No step but locking one gives a request a link, and those that go on keep it.
ConservaEnlaces ==
    \A q \in Peticiones : TieneEnlace(q)' => TieneEnlace(q) /\ peticion'[q].enlace = peticion[q].enlace

\* A request that begins without a link, or ends, is of that kind.
LEMMA EmpiezaSinEnlace ==
    ASSUME Tipos, NEW p \in Peticiones, NEW que \in Empiezan \ {"restablece"}, NEW leida \in Filas,
           NEW enlace \in 0 .. MaxEnlaces, Empieza(p, que, leida, enlace)
    PROVE  ConservaEnlaces
<1>1. /\ Lleva(p)' = <<que, "leida", leida, DeAlta, 0, enlace>>
      /\ \A q \in Peticiones \ {p} : Lleva(q)' = Lleva(q)
  BY EmpiezaHace
<1>2. QED
  BY <1>1 DEF ConservaEnlaces, TieneEnlace, Lleva

\* What ends has no link.
LEMMA TerminaConEnlace ==
    ASSUME Tipos, NEW p \in Peticiones, Termina(p) PROVE ConservaEnlaces
BY TerminaHace DEF ConservaEnlaces, TieneEnlace

\* Every step but locking a link.
LEMMA PasoConservaEnlaces ==
    ASSUME Tipos, [Next]_vars,
           ~ \E p \in Peticiones, l \in DOMAIN enlaces : Restablecer(p, l)
    PROVE  ConservaEnlaces
<1> USE CuentasOK
<1>0. /\ cuenta \in Filas /\ peticion \in [Peticiones -> Trabajos] /\ DeAlta \in Filas
      /\ \A q \in Peticiones :
           peticion[q].leida \in Filas /\ peticion[q].base \in Filas /\ peticion[q].desde \in Nat
  BY DeAltaBien DEF Tipos, TypeOK, Trabajos
<1>1. CASE UNCHANGED peticion
  BY <1>1 DEF ConservaEnlaces, TieneEnlace
<1>2. CASE UNCHANGED vars \/ Tic \/ \E k \in DOMAIN tokens : CerrarSesion(k)
  BY <1>1, <1>2 DEF vars, Tic, CerrarSesion
<1>3. ASSUME NEW p \in Peticiones,
             \/ Entrar(p) \/ CambiarContrasena(p) \/ PedirEnlace(p) \/ EliminarCuenta(p)
             \/ GuardarPerfil(p) \/ Moderar(p)
      PROVE  ConservaEnlaces
  <2>1. PICK que \in Empiezan, leida \in Filas, enlace \in 0 .. MaxEnlaces :
          Empieza(p, que, leida, enlace)
    BY <1>3, EmpiezanTipos
  <2>2. Lleva(p)' = <<que, "leida", leida, DeAlta, 0, enlace>>
    BY <2>1, EmpiezaHace
  <2>3. peticion'[p].que # "restablece"
    <3>1. PICK q, f, e : q \in Empiezan \ {"restablece"} /\ Empieza(p, q, f, e)
      BY <1>3 DEF Entrar, CambiarContrasena, PedirEnlace, EliminarCuenta, GuardarPerfil,
         Moderar, Empiezan
    <3>2. peticion'[p].que = q
      BY <1>0, <3>1 DEF Empieza, Trabajo
    <3>3. QED
      BY <3>1, <3>2
  <2>4. que # "restablece"
    BY <2>2, <2>3 DEF Lleva
  <2>5. QED
    BY <2>1, <2>4, EmpiezaSinEnlace
<1>4. ASSUME NEW p \in Peticiones, Calcular(p) \/ Comparar(p) \/ EscribirClave(p)
      PROVE  ConservaEnlaces
  <2>1. peticion'[p].que = peticion[p].que /\ peticion'[p].enlace = peticion[p].enlace
    BY <1>0, <1>4 DEF Calcular, Comparar, EscribirClave, Pasa, Trabajo
  <2>2. \A q \in Peticiones \ {p} : peticion'[q] = peticion[q]
    BY <1>0, <1>4 DEF Calcular, Comparar, EscribirClave, Pasa
  <2>3. QED
    BY <2>1, <2>2 DEF ConservaEnlaces, TieneEnlace
<1>5. ASSUME NEW p \in Peticiones,
             \/ Emitir(p) \/ GuardarEnlace(p) \/ Confirmar(p) \/ Deshacer(p)
             \/ Anonimizar(p) \/ GuardarFila(p)
      PROVE  ConservaEnlaces
  BY <1>5, TerminaConEnlace
  DEF Emitir, GuardarEnlace, Confirmar, Deshacer, Anonimizar, GuardarFila
<1>6. QED
  BY <1>2, <1>3, <1>4, <1>5 DEF Next

\* The recovery links are used in order, and whoever has one locked has one to use.
LEMMA PasoEnlaces == Tipos /\ EnlacesBien /\ [Next]_vars => EnlacesBien'
<1> SUFFICES ASSUME Tipos, EnlacesBien, [Next]_vars PROVE EnlacesBien'
  OBVIOUS
<1>0. /\ enlaces \in Seq(Enlaces) /\ Len(enlaces) \in Nat /\ DOMAIN enlaces = 1 .. Len(enlaces)
      /\ usados \in Seq(1 .. MaxEnlaces) /\ Len(usados) \in Nat /\ DOMAIN usados = 1 .. Len(usados)
  BY DEF Tipos, TypeOK
<1>1. CASE ConservaEnlaces /\ UNCHANGED <<enlaces, usados>>
  BY <1>1 DEF EnlacesBien, ConservaEnlaces
<1>2. ASSUME NEW p \in Peticiones, NEW l \in DOMAIN enlaces, Restablecer(p, l)
      PROVE  EnlacesBien'
  <2>1. Empieza(p, "restablece", DeAlta, l) /\ ~enlaces[l].usado
    BY <1>2 DEF Restablecer
  <2>2. l \in 0 .. MaxEnlaces /\ DeAlta \in Filas /\ "restablece" \in Empiezan
    BY <1>0, DeAltaBien, CuentasOK DEF Tipos, TypeOK, Empiezan
  <2>3. /\ Lleva(p)' = <<"restablece", "leida", DeAlta, DeAlta, 0, l>>
        /\ \A q \in Peticiones \ {p} : Lleva(q)' = Lleva(q)
    BY <2>1, <2>2, EmpiezaHace
  <2>4. UNCHANGED <<enlaces, usados>>
    BY <2>1 DEF Empieza, varsHistoria
  <2>5. \A q \in Peticiones : TieneEnlace(q)' => ~enlaces[peticion'[q].enlace].usado
    BY <2>1, <2>3 DEF EnlacesBien, TieneEnlace, Lleva
  <2>6. QED
    BY <2>4, <2>5 DEF EnlacesBien
<1>3. CASE ~ \E p \in Peticiones, l \in DOMAIN enlaces : Restablecer(p, l)
  <2>0. ConservaEnlaces
    BY <1>3, PasoConservaEnlaces
  <2>1. ASSUME NEW p \in Peticiones, GuardarEnlace(p) PROVE EnlacesBien'
    <3>1. /\ enlaces' = Append(enlaces, [caduca |-> reloj + DuracionEnlace, creado |-> reloj,
                                         usado |-> FALSE, tras |-> Len(usados)])
          /\ usados' = usados
      BY <2>1 DEF GuardarEnlace, varsHistoria
    <3>2. /\ DOMAIN enlaces' = 1 .. Len(enlaces) + 1
          /\ \A i \in DOMAIN enlaces : enlaces'[i] = enlaces[i]
          /\ enlaces'[Len(enlaces) + 1].tras = Len(usados)
      BY <1>0, <3>1
    <3>3. \A l \in DOMAIN enlaces' : ~enlaces'[l].usado => enlaces'[l].tras = Len(usados)
      BY <1>0, <3>2 DEF EnlacesBien
    <3>4. \A q \in Peticiones : TieneEnlace(q)' => ~enlaces'[peticion'[q].enlace].usado
      BY <2>0, <3>2 DEF EnlacesBien, ConservaEnlaces, Tipos
    <3>5. \A i \in DOMAIN usados :
            usados[i] \in DOMAIN enlaces' /\ enlaces'[usados[i]].tras = i - 1
      BY <1>0, <3>2 DEF EnlacesBien
    <3>6. QED
      BY <3>1, <3>3, <3>4, <3>5 DEF EnlacesBien
  <2>2. ASSUME NEW p \in Peticiones, Confirmar(p) PROVE EnlacesBien'
    <3>1. /\ TieneEnlace(p) /\ \A q \in Peticiones \ {p} : ~TieneEnlace(q)
          /\ usados' = Append(usados, peticion[p].enlace) /\ Termina(p)
          /\ enlaces' = [i \in DOMAIN enlaces |-> [enlaces[i] EXCEPT !.usado = TRUE]]
      BY <2>2 DEF Confirmar, En, TieneEnlace, Gastar
    <3>2. /\ DOMAIN enlaces' = DOMAIN enlaces
          /\ \A i \in DOMAIN enlaces : enlaces'[i].usado /\ enlaces'[i].tras = enlaces[i].tras
      BY <3>1, GastarHace
    <3>3. /\ peticion[p].enlace \in DOMAIN enlaces
          /\ enlaces[peticion[p].enlace].tras = Len(usados)
      BY <3>1 DEF EnlacesBien, Tipos
    <3>4. /\ DOMAIN usados' = 1 .. Len(usados) + 1
          /\ \A i \in DOMAIN usados : usados'[i] = usados[i]
          /\ usados'[Len(usados) + 1] = peticion[p].enlace
      BY <1>0, <3>1
    <3>5. \A q \in Peticiones : ~TieneEnlace(q)'
      BY <2>0, <3>1, TerminaHace DEF ConservaEnlaces
    <3>6. ASSUME NEW i \in DOMAIN usados'
          PROVE  usados'[i] \in DOMAIN enlaces' /\ enlaces'[usados'[i]].tras = i - 1
      <4>1. CASE i \in DOMAIN usados
        BY <3>2, <3>4, <4>1 DEF EnlacesBien
      <4>2. CASE i = Len(usados) + 1
        BY <1>0, <3>2, <3>3, <3>4, <4>2
      <4>3. QED
        BY <1>0, <3>4, <4>1, <4>2
    <3>7. QED
      BY <3>2, <3>5, <3>6 DEF EnlacesBien
  <2>3. ASSUME NEW p \in Peticiones, Anonimizar(p) PROVE EnlacesBien'
    <3>1. /\ \A q \in Peticiones : ~TieneEnlace(q)
          /\ usados' = usados
          /\ enlaces' = [i \in DOMAIN enlaces |-> [enlaces[i] EXCEPT !.usado = TRUE]]
      BY <2>3 DEF Anonimizar, varsHistoria
    <3>2. /\ DOMAIN enlaces' = DOMAIN enlaces
          /\ \A i \in DOMAIN enlaces : enlaces'[i].usado /\ enlaces'[i].tras = enlaces[i].tras
      BY <3>1, GastarHace
    <3>3. QED
      BY <2>0, <3>1, <3>2 DEF EnlacesBien, ConservaEnlaces
  <2>4. CASE UNCHANGED <<enlaces, usados>>
    BY <1>1, <2>0, <2>4
  <2>5. \/ UNCHANGED <<enlaces, usados>>
        \/ \E p \in Peticiones : GuardarEnlace(p) \/ Confirmar(p) \/ Anonimizar(p)
    BY <1>3
    DEF Next, vars, varsHistoria, Tic, CerrarSesion, Empieza, Entrar, Emitir, CambiarContrasena,
        Calcular, EscribirClave, PedirEnlace, Deshacer, EliminarCuenta, GuardarPerfil, Moderar,
        Comparar, GuardarFila
  <2>6. QED
    BY <2>1, <2>2, <2>3, <2>4, <2>5
<1>4. QED
  BY <1>2, <1>3


\* There are as many links and requests as can be counted.
LEMMA Contables ==
    ASSUME Tipos
    PROVE  /\ IsFiniteSet(Recientes) /\ Cardinality(Recientes) \in Nat
           /\ IsFiniteSet(Pidiendo) /\ Cardinality(Pidiendo) \in Nat
           /\ Cardinality(Peticiones) \in Nat
           /\ Cardinality(Pidiendo) <= Cardinality(Peticiones)
<1>1. IsFiniteSet(DOMAIN enlaces)
  BY FS_Interval DEF Tipos, TypeOK
<1>2. Recientes \subseteq DOMAIN enlaces /\ Pidiendo \subseteq Peticiones
  BY DEF Recientes, Pidiendo
<1>3. IsFiniteSet(Peticiones)
  BY CuentasOK
<1>4. QED
  BY <1>1, <1>2, <1>3, FS_Subset, FS_CardinalityType

\* Fewer links of the last hour, or fewer requests for one, stay within the limit.
LEMMA MenosContados ==
    ASSUME Tipos, EnlacesContados, Recientes' \subseteq Recientes, Pidiendo' \subseteq Pidiendo
    PROVE  EnlacesContados'
<1>1. /\ Cardinality(Recientes') <= Cardinality(Recientes) /\ Cardinality(Recientes') \in Nat
      /\ Cardinality(Pidiendo') <= Cardinality(Pidiendo) /\ Cardinality(Pidiendo') \in Nat
  BY Contables, FS_Subset, FS_CardinalityType
<1>2. QED
  BY <1>1, Contables, CuentasOK DEF EnlacesContados

\* The requests that go on asking for a link, or none more, are those there were.
LEMMA PidiendoMenos ==
    ASSUME Tipos, [Next]_vars, \A p \in Peticiones : ~PedirEnlace(p)
    PROVE  Pidiendo' \subseteq Pidiendo
<1> SUFFICES ASSUME NEW q \in Peticiones, peticion'[q].que = "recupera"
             PROVE  peticion[q].que = "recupera"
  BY DEF Pidiendo
<1>0. peticion \in [Peticiones -> Trabajos]
  BY DEF Tipos, TypeOK
<1>1. CASE UNCHANGED vars \/ Tic \/ \E k \in DOMAIN tokens : CerrarSesion(k)
  BY <1>1 DEF vars, Tic, CerrarSesion
<1>2. ASSUME NEW p \in Peticiones, NEW que, NEW f, NEW e, Empieza(p, que, f, e), que # "recupera"
      PROVE  peticion[q].que = "recupera"
  <2>1. peticion'[p].que = que
    BY <1>0, <1>2 DEF Empieza, Trabajo
  <2>2. q # p => peticion'[q].que = peticion[q].que
    BY <1>0, <1>2 DEF Empieza, Trabajos
  <2>3. QED
    BY <1>2, <2>1, <2>2
<1>3. ASSUME NEW p \in Peticiones,
             \/ Entrar(p) \/ CambiarContrasena(p) \/ EliminarCuenta(p)
             \/ GuardarPerfil(p) \/ Moderar(p) \/ \E l \in DOMAIN enlaces : Restablecer(p, l)
      PROVE  peticion[q].que = "recupera"
  BY <1>2, <1>3 DEF Entrar, CambiarContrasena, EliminarCuenta, GuardarPerfil, Moderar, Restablecer
<1>4. ASSUME NEW p \in Peticiones, Calcular(p) \/ Comparar(p) \/ EscribirClave(p)
      PROVE  peticion[q].que = "recupera"
  BY <1>0, <1>4 DEF Calcular, Comparar, EscribirClave, Pasa, Trabajo
<1>5. ASSUME NEW p \in Peticiones,
             \/ Emitir(p) \/ GuardarEnlace(p) \/ Confirmar(p) \/ Deshacer(p)
             \/ Anonimizar(p) \/ GuardarFila(p)
      PROVE  peticion[q].que = "recupera"
  <2>1. Termina(p)
    BY <1>5 DEF Emitir, GuardarEnlace, Confirmar, Deshacer, Anonimizar, GuardarFila
  <2>2. QED
    BY <2>1, TerminaHace DEF Nada, Trabajo
<1>6. QED
  BY <1>1, <1>3, <1>4, <1>5 DEF Next

\* Every step stays within the limit.
LEMMA PasoContados == Tipos /\ EnlacesContados /\ [Next]_vars => EnlacesContados'
<1> SUFFICES ASSUME Tipos, EnlacesContados, [Next]_vars PROVE EnlacesContados'
  OBVIOUS
<1>0. /\ enlaces \in Seq(Enlaces) /\ Len(enlaces) \in Nat /\ DOMAIN enlaces = 1 .. Len(enlaces)
      /\ reloj \in Nat /\ \A l \in DOMAIN enlaces : enlaces[l].creado \in Nat
  <2>1. /\ enlaces \in Seq(Enlaces) /\ reloj \in Nat
    BY DEF Tipos, TypeOK
  <2>2. Len(enlaces) \in Nat /\ DOMAIN enlaces = 1 .. Len(enlaces)
        /\ \A l \in DOMAIN enlaces : enlaces[l] \in Enlaces
    BY <2>1
  <2>3. QED
    BY <2>1, <2>2 DEF Enlaces
<1>1. ASSUME NEW p \in Peticiones, PedirEnlace(p) PROVE EnlacesContados'
  <2>1. /\ Cardinality(Recientes) < EnlacesPorHora /\ UNCHANGED <<enlaces, reloj>>
        /\ Empieza(p, "recupera", DeAlta, 0)
    BY <1>1 DEF PedirEnlace, Empieza
  <2>2. Recientes' = Recientes
    BY <2>1 DEF Recientes
  <2>3. Cardinality(Pidiendo') <= Cardinality(Peticiones) /\ Cardinality(Pidiendo') \in Nat
    <3>1. Pidiendo' \subseteq Peticiones /\ IsFiniteSet(Peticiones)
      BY CuentasOK DEF Pidiendo
    <3>2. QED
      BY <3>1, FS_Subset, FS_CardinalityType
  <2>4. QED
    BY <2>1, <2>2, <2>3, Contables, CuentasOK DEF EnlacesContados
<1>2. ASSUME NEW p \in Peticiones, GuardarEnlace(p) PROVE EnlacesContados'
  <2>1. /\ peticion[p].que = "recupera" /\ Termina(p) /\ reloj' = reloj
        /\ enlaces' = Append(enlaces, [caduca |-> reloj + DuracionEnlace, creado |-> reloj,
                                       usado |-> FALSE, tras |-> Len(usados)])
    BY <1>2 DEF GuardarEnlace, En
  <2>2. /\ DOMAIN enlaces' = 1 .. Len(enlaces) + 1
        /\ \A i \in DOMAIN enlaces : enlaces'[i] = enlaces[i]
    BY <1>0, <2>1
  <2>3. Recientes' \subseteq Recientes \cup {Len(enlaces) + 1}
    BY <1>0, <2>1, <2>2 DEF Recientes
  <2>4. Cardinality(Recientes') <= Cardinality(Recientes) + 1 /\ Cardinality(Recientes') \in Nat
    <3>1. /\ IsFiniteSet(Recientes \cup {Len(enlaces) + 1})
          /\ Cardinality(Recientes \cup {Len(enlaces) + 1}) <= Cardinality(Recientes) + 1
          /\ Cardinality(Recientes \cup {Len(enlaces) + 1}) \in Nat
      <4> DEFINE x == Len(enlaces) + 1
      <4>1. /\ IsFiniteSet(Recientes \cup {x})
            /\ Cardinality(Recientes \cup {x}) = IF x \in Recientes THEN Cardinality(Recientes)
                                                                   ELSE Cardinality(Recientes) + 1
        BY Contables, FS_AddElement
      <4>2. QED
        BY <4>1, Contables
    <3>2. QED
      BY <2>3, <3>1, Contables, FS_Subset, FS_CardinalityType
  <2>5. p \in Pidiendo /\ Pidiendo' \subseteq Pidiendo \ {p}
    BY <2>1, TerminaHace DEF Pidiendo, Nada, Trabajo
  <2>6. Cardinality(Pidiendo') <= Cardinality(Pidiendo) - 1 /\ Cardinality(Pidiendo') \in Nat
    <3>1. /\ IsFiniteSet(Pidiendo \ {p})
          /\ Cardinality(Pidiendo \ {p}) = Cardinality(Pidiendo) - 1
      BY <2>5, Contables, FS_RemoveElement
    <3>2. QED
      BY <2>5, <3>1, FS_Subset, FS_CardinalityType
  <2>7. QED
    BY <2>4, <2>6, Contables, CuentasOK DEF EnlacesContados
<1>3. CASE ~ \E p \in Peticiones : PedirEnlace(p) \/ GuardarEnlace(p)
  <2>1. Pidiendo' \subseteq Pidiendo
    BY <1>3, PidiendoMenos
  <2>2. CASE Tic
    <3>1. Recientes' \subseteq Recientes
      BY <1>0, <2>2, CuentasOK DEF Tic, Recientes
    <3>2. QED
      BY <2>1, <3>1, MenosContados
  <2>3. CASE UNCHANGED <<enlaces, reloj>>
    BY <2>1, <2>3, MenosContados DEF Recientes
  <2>4. ASSUME NEW p \in Peticiones, Confirmar(p) \/ Anonimizar(p) PROVE EnlacesContados'
    <3>1. /\ enlaces' = [i \in DOMAIN enlaces |-> [enlaces[i] EXCEPT !.usado = TRUE]]
          /\ reloj' = reloj
      BY <2>4 DEF Confirmar, Anonimizar, Gastar
    <3>2. Recientes' = Recientes
      BY <3>1, GastarHace DEF Recientes
    <3>3. QED
      BY <2>1, <3>2, MenosContados
  <2>5. \/ Tic \/ UNCHANGED <<enlaces, reloj>>
        \/ \E p \in Peticiones : Confirmar(p) \/ Anonimizar(p)
    BY <1>3
    DEF Next, vars, varsHistoria, CerrarSesion, Empieza, Entrar, Emitir, CambiarContrasena,
        Calcular, EscribirClave, Restablecer, Deshacer, EliminarCuenta, GuardarPerfil, Moderar,
        Comparar, GuardarFila
  <2>6. QED
    BY <2>2, <2>3, <2>4, <2>5
<1>4. QED
  BY <1>1, <1>2, <1>3

\* At the start nobody has asked for one.
LEMMA IniciaEnlaces == Init => EnlacesBien /\ EnlacesContados
<1> SUFFICES ASSUME Init PROVE EnlacesBien /\ EnlacesContados
  OBVIOUS
<1>1. EnlacesBien
  BY DEF Init, EnlacesBien, TieneEnlace, Nada, Trabajo
<1>2. Recientes = {} /\ Pidiendo = {}
  BY DEF Init, Recientes, Pidiendo, Nada, Trabajo
<1>3. EnlacesContados
  BY <1>2, FS_EmptySet, FS_CardinalityType, CuentasOK DEF EnlacesContados
<1>4. QED
  BY <1>1, <1>3

\* The recovery links are used in order and within the limit of the hour, however
\* many requests count them at once.
THEOREM SiempreEnlaces == Spec => []LosEnlacesCuadran
<1>1. Tipos /\ EnlacesBien /\ EnlacesContados => LosEnlacesCuadran
  <2> SUFFICES ASSUME Tipos, EnlacesBien, EnlacesContados PROVE LosEnlacesCuadran
    OBVIOUS
  <2>1. TopeDeEnlaces
    BY Contables, CuentasOK DEF EnlacesContados, TopeDeEnlaces
  <2>2. EnlacesEnOrden
    BY DEF EnlacesBien, EnlacesEnOrden
  <2>3. QED
    BY <2>1, <2>2 DEF LosEnlacesCuadran
<1>2. QED
  BY <1>1, IniciaEnlaces, PasoEnlaces, PasoContados, CuentasTipos, PTL DEF Spec

-----------------------------------------------------------------------------
(* Sessions.                                                               *)

Ordenadas == DelPasado /\ NuevaDespues /\ EmiteLaDeHoy /\ ViejaAntes

\* The types the times and passwords have.
LEMMA Tiempos ==
    ASSUME Tipos
    PROVE  /\ reloj \in Nat /\ SegundoActual \in Nat /\ claves \in Nat
           /\ cuenta.clave \in Nat /\ cuenta.desde \in Nat
           /\ DOMAIN tokens = 1 .. Len(tokens) /\ Len(tokens) \in Nat
           /\ \A k \in DOMAIN tokens : tokens[k].iat \in Nat /\ tokens[k].clave \in Nat
           /\ \A p \in Peticiones :
                /\ peticion[p].desde \in Nat
                /\ peticion[p].leida.desde \in Nat /\ peticion[p].leida.clave \in Nat
<1>1. reloj \in Nat /\ claves \in Nat
  BY CuentasOK DEF Tipos, TypeOK
<1>2. SegundoActual \in Nat
  BY <1>1, SegundoBien DEF SegundoActual
<1>3. cuenta.clave \in Nat /\ cuenta.desde \in Nat
  BY CuentasOK DEF Tipos, TypeOK, Filas
<1>4. /\ DOMAIN tokens = 1 .. Len(tokens) /\ Len(tokens) \in Nat
      /\ \A k \in DOMAIN tokens : tokens[k] \in Emitidos
  BY DEF Tipos, TypeOK
<1>5. \A k \in DOMAIN tokens : tokens[k].iat \in Nat /\ tokens[k].clave \in Nat
  BY <1>4, CuentasOK DEF Emitidos
<1>6. \A p \in Peticiones : peticion[p] \in Trabajos
  BY DEF Tipos, TypeOK
<1>7. \A p \in Peticiones : peticion[p].desde \in Nat /\ peticion[p].leida \in Filas
  BY <1>6 DEF Trabajos
<1>8. \A p \in Peticiones : peticion[p].leida.desde \in Nat /\ peticion[p].leida.clave \in Nat
  BY <1>7, CuentasOK DEF Filas
<1>9. QED
  BY <1>1, <1>2, <1>3, <1>4, <1>5, <1>7, <1>8

\* Whoever has nothing in hand has no time and no password.
LEMMA NadaEsNada ==
    /\ Nada.que = "nada" /\ Nada.desde = 0
    /\ Nada.leida.desde = 0 /\ Nada.leida.clave = 0
    /\ DeAlta.desde = 0 /\ DeAlta.clave = 0
BY DEF Nada, Trabajo, DeAlta

\* The clock goes on.
LEMMA TicOrdenadas == ASSUME Tipos, Ordenadas, Tic PROVE Ordenadas'
<1>1. SegundoActual <= SegundoActual' /\ SegundoActual' \in Nat
  BY Tiempos, SegundoBien DEF Tic, SegundoActual
<1>2. UNCHANGED <<cuenta, claves, tokens, peticion, pisada>>
  BY DEF Tic, varsHistoria
<1>3. DelPasado'
  BY <1>1, <1>2, Tiempos DEF Ordenadas, DelPasado
<1>4. NuevaDespues' /\ EmiteLaDeHoy' /\ ViejaAntes'
  BY <1>2 DEF Ordenadas, NuevaDespues, EmiteLaDeHoy, ViejaAntes, Cambiando, En
<1>5. QED
  BY <1>3, <1>4 DEF Ordenadas

\* A request begins with a copy that is not of the future.
LEMMA EmpiezaOrdenadas ==
    ASSUME Tipos, Ordenadas, NEW p \in Peticiones, NEW que \in Empiezan, NEW leida \in Filas,
           NEW enlace \in 0 .. MaxEnlaces, Empieza(p, que, leida, enlace),
           leida.desde \in {0, cuenta.desde}, leida.clave \in {0, cuenta.clave},
           que = "entra" => leida.clave = cuenta.clave
    PROVE  Ordenadas'
<1>1. UNCHANGED <<reloj, cuenta, claves, tokens, pisada>>
  BY DEF Empieza, varsHistoria
<1>2. /\ Lleva(p)' = <<que, "leida", leida, DeAlta, 0, enlace>>
      /\ \A q \in Peticiones \ {p} : Lleva(q)' = Lleva(q)
  BY EmpiezaHace
<1>3. /\ peticion'[p].que = que /\ peticion'[p].etapa = "leida" /\ peticion'[p].leida = leida
      /\ peticion'[p].desde = 0
      /\ \A q \in Peticiones \ {p} :
           /\ peticion'[q].que = peticion[q].que /\ peticion'[q].etapa = peticion[q].etapa
           /\ peticion'[q].leida = peticion[q].leida /\ peticion'[q].desde = peticion[q].desde
  BY <1>2 DEF Lleva
<1>4. DelPasado'
  BY <1>1, <1>3, Tiempos DEF Ordenadas, DelPasado, SegundoActual
<1>5. NuevaDespues'
  BY <1>1, <1>3, Tiempos, SMTT(30) DEF Ordenadas, NuevaDespues
<1>6. EmiteLaDeHoy'
  <2>1. /\ que \in EmitenToken /\ peticion'[p].solo => \A q \in Peticiones : ~Cambiando(q)
        /\ \A q \in Peticiones \ {p} : peticion'[q].solo =>
             /\ peticion[q].solo
             /\ que \in CambianClave => peticion[q].que \notin EmitenToken
    BY EmpiezaHace
  <2>2. QED
    BY <1>1, <1>3, <2>1 DEF Ordenadas, EmiteLaDeHoy, Cambiando, En
<1>7. ViejaAntes'
  BY <1>1, <1>3 DEF Ordenadas, ViejaAntes, Cambiando
<1>8. QED
  BY <1>4, <1>5, <1>6, <1>7 DEF Ordenadas

\* A request ends, leaving the account as it is.
LEMMA TerminaOrdenadas ==
    ASSUME Tipos, Ordenadas, NEW p \in Peticiones, Termina(p),
           UNCHANGED <<reloj, cuenta, claves, tokens, pisada>>
    PROVE  Ordenadas'
<1>1. peticion'[p] = Nada /\ \A q \in Peticiones \ {p} : peticion'[q] = peticion[q]
  BY TerminaHace
<1>2. DelPasado' /\ NuevaDespues'
  BY <1>1, NadaEsNada, Tiempos, SMTT(30) DEF Ordenadas, DelPasado, NuevaDespues, SegundoActual
<1>3. EmiteLaDeHoy' /\ ViejaAntes'
  BY <1>1, NadaEsNada
  DEF Ordenadas, EmiteLaDeHoy, ViejaAntes, Cambiando, En, EmitenToken, CambianClave
<1>4. QED
  BY <1>2, <1>3 DEF Ordenadas

\* A new password is written by a request that had taken its time, and goes on to
\* issue its token or ends.
LEMMA EscribeOrdenadas ==
    ASSUME Tipos, Ordenadas, NEW p \in Peticiones, NEW t,
           Cambiando(p), peticion[p].etapa = "calculada",
           claves' = claves + 1, cuenta'.clave = claves', cuenta'.desde = peticion[p].desde,
           UNCHANGED <<reloj, tokens, pisada>>,
           peticion'[p] = t, \A q \in Peticiones \ {p} : peticion'[q] = peticion[q],
           t.desde <= SegundoActual, t.leida.desde \in {0, peticion[p].leida.desde},
           \/ t.que = "nada" /\ t.leida.clave = 0
           \/ t.que = "cambia" /\ t.etapa = "escrita" /\ t.leida.clave = claves'
              /\ peticion[p].que = "cambia" /\ t.solo = peticion[p].solo
    PROVE  Ordenadas'
<1>1. DelPasado'
  BY Tiempos DEF Ordenadas, DelPasado, SegundoActual
<1>2. NuevaDespues'
  BY Tiempos DEF Ordenadas, DelPasado, NuevaDespues
<1>3. EmiteLaDeHoy'
  <2>1. ASSUME NEW q \in Peticiones \ {p}, peticion'[q].que \in EmitenToken, peticion'[q].solo
        PROVE  FALSE
    BY <2>1 DEF Ordenadas, EmiteLaDeHoy
  <2>2. ASSUME peticion'[p].que \in EmitenToken, peticion'[p].solo
        PROVE  /\ \A q \in Peticiones \ {p} : ~Cambiando(q)'
               /\ peticion'[p].leida.clave = cuenta'.clave
    BY <2>2 DEF Ordenadas, EmiteLaDeHoy, EmitenToken, Cambiando
  <2>3. QED
    BY <2>1, <2>2 DEF EmiteLaDeHoy
<1>4. ViejaAntes'
  BY DEF Ordenadas, ViejaAntes, Cambiando, CambianClave
<1>5. QED
  BY <1>1, <1>2, <1>3, <1>4 DEF Ordenadas

\* A token is issued.
LEMMA EmiteOrdenadas ==
    ASSUME Tipos, Ordenadas, NEW p \in Peticiones, Emitir(p) PROVE Ordenadas'
<1> DEFINE t == [iat |-> Segundo(reloj), clave |-> peticion[p].leida.clave,
                 solo |-> peticion[p].solo]
           n == Len(tokens) + 1
<1>1. /\ tokens' = Append(tokens, t) /\ Termina(p)
      /\ UNCHANGED <<reloj, cuenta, claves, pisada>>
      /\ En(p, "entra", "leida") \/ En(p, "cambia", "escrita")
  BY DEF Emitir, varsHistoria
<1>2. /\ t.iat = SegundoActual /\ t.clave = peticion[p].leida.clave
      /\ t.solo = peticion[p].solo
  BY DEF SegundoActual
<1> HIDE DEF t
<1>3. /\ DOMAIN tokens' = 1 .. n /\ tokens'[n] = t
      /\ \A k \in DOMAIN tokens : tokens'[k] = tokens[k]
      /\ \A k \in DOMAIN tokens' : k = n \/ k \in DOMAIN tokens
  <2>1. tokens \in Seq(Emitidos) /\ Len(tokens) \in Nat /\ DOMAIN tokens = 1 .. Len(tokens)
    BY DEF Tipos, TypeOK
  <2>2. QED
    BY <1>1, <2>1
<1> HIDE DEF n
<1>4. peticion'[p] = Nada /\ \A q \in Peticiones \ {p} : peticion'[q] = peticion[q]
  BY <1>1, TerminaHace
<1>5. /\ t.iat = SegundoActual /\ t.clave <= claves
      /\ cuenta.desde <= t.iat /\ \A q \in Peticiones : peticion[q].leida.desde <= t.iat
  BY <1>2, Tiempos DEF Ordenadas, DelPasado
<1>6. DelPasado'
  <2>1. \A k \in DOMAIN tokens' : tokens'[k].iat <= SegundoActual /\ tokens'[k].clave <= claves
    BY <1>3, <1>5, Tiempos DEF Ordenadas, DelPasado
  <2>2. \A q \in Peticiones :
          /\ peticion'[q].desde <= SegundoActual /\ peticion'[q].leida.desde <= SegundoActual
          /\ peticion'[q].leida.clave <= claves
    BY <1>4, NadaEsNada, Tiempos DEF Ordenadas, DelPasado
  <2>3. QED
    BY <1>1, <2>1, <2>2 DEF Ordenadas, DelPasado, SegundoActual
<1>7. NuevaDespues'
  BY <1>1, <1>3, <1>4, <1>5, NadaEsNada, Tiempos, SMTT(30) DEF Ordenadas, NuevaDespues
<1>8. EmiteLaDeHoy'
  BY <1>1, <1>4, NadaEsNada DEF Ordenadas, EmiteLaDeHoy, Cambiando, En, EmitenToken, CambianClave
<1>9. ViejaAntes'
  <2>1. t.solo => /\ t.clave = cuenta.clave
                  /\ \A q \in Peticiones \ {p} : ~Cambiando(q)
    BY <1>1, <1>2 DEF Ordenadas, EmiteLaDeHoy, EmitenToken, En
  <2>2. ~Cambiando(p)' /\ \A q \in Peticiones \ {p} : Cambiando(q)' <=> Cambiando(q)
    BY <1>4, NadaEsNada DEF Cambiando, CambianClave
  <2>3. ASSUME NEW k \in DOMAIN tokens, tokens[k].solo
        PROVE  /\ pisada' \/ tokens'[k].clave = cuenta'.clave \/ tokens'[k].iat <= cuenta'.desde
               /\ \A q \in Peticiones : Cambiando(q)' /\ peticion'[q].etapa = "calculada" =>
                    tokens'[k].iat <= peticion'[q].desde
    BY <1>1, <1>3, <1>4, <2>2, <2>3 DEF Ordenadas, ViejaAntes
  <2>4. QED
    BY <1>1, <1>3, <2>1, <2>2, <2>3 DEF ViejaAntes
<1>10. QED
  BY <1>6, <1>7, <1>8, <1>9 DEF Ordenadas

\* A request takes the time, or compares what it read with the row.
LEMMA PasaOrdenadas ==
    ASSUME Tipos, Ordenadas, NEW p \in Peticiones, Calcular(p) \/ Comparar(p) PROVE Ordenadas'
<1>1. /\ UNCHANGED <<reloj, cuenta, claves, tokens, pisada>>
      /\ \A q \in Peticiones \ {p} : peticion'[q] = peticion[q]
      /\ peticion'[p].que = peticion[p].que /\ peticion'[p].leida = peticion[p].leida
      /\ peticion'[p].solo = peticion[p].solo
      /\ \/ Cambiando(p) /\ peticion'[p].etapa = "calculada" /\ peticion'[p].desde = SegundoActual
         \/ peticion[p].que = "guarda" /\ peticion'[p].etapa = "comparada" /\ peticion'[p].desde = 0
  BY DEF Calcular, Comparar, Pasa, Trabajo, En, Tipos, TypeOK, varsHistoria
<1>2. DelPasado'
  BY <1>1, Tiempos DEF Ordenadas, DelPasado, SegundoActual
<1>3. NuevaDespues'
  BY <1>1 DEF Ordenadas, NuevaDespues
<1>4. EmiteLaDeHoy'
  BY <1>1 DEF Ordenadas, EmiteLaDeHoy, Cambiando, CambianClave, EmitenToken, En
<1>5. ViejaAntes'
  BY <1>1 DEF Ordenadas, ViejaAntes, DelPasado, Cambiando, CambianClave
<1>6. QED
  BY <1>2, <1>3, <1>4, <1>5 DEF Ordenadas

\* The row is saved: it may put back a sesionesDesde it had read, and says so.
LEMMA GuardaOrdenadas ==
    ASSUME Tipos, Ordenadas, NEW p \in Peticiones, GuardarFila(p) PROVE Ordenadas'
<1>1. /\ UNCHANGED <<reloj, claves, tokens>> /\ Termina(p)
      /\ cuenta'.clave = cuenta.clave
      /\ \/ cuenta'.desde = cuenta.desde
         \/ cuenta'.desde = peticion[p].leida.desde /\ pisada'
      /\ pisada => pisada'
  BY DEF GuardarFila, Columna
<1>2. peticion'[p] = Nada /\ \A q \in Peticiones \ {p} : peticion'[q] = peticion[q]
  BY <1>1, TerminaHace
<1>3. DelPasado'
  BY <1>1, <1>2, NadaEsNada, Tiempos DEF Ordenadas, DelPasado, SegundoActual
<1>4. NuevaDespues'
  BY <1>1, <1>2, NadaEsNada, Tiempos DEF Ordenadas, NuevaDespues
<1>5. EmiteLaDeHoy'
  BY <1>1, <1>2, NadaEsNada
  DEF Ordenadas, EmiteLaDeHoy, Cambiando, En, EmitenToken, CambianClave
<1>6. ViejaAntes'
  BY <1>1, <1>2, NadaEsNada DEF Ordenadas, ViejaAntes, Cambiando, CambianClave
<1>7. QED
  BY <1>3, <1>4, <1>5, <1>6 DEF Ordenadas

\* The ways a new password is written.
LEMMA EscribenOrdenadas ==
    ASSUME Tipos, Ordenadas, NEW p \in Peticiones,
           EscribirClave(p) \/ Confirmar(p) \/ Anonimizar(p)
    PROVE  Ordenadas'
<1>1. /\ Cambiando(p) /\ peticion[p].etapa = "calculada"
      /\ claves' = claves + 1 /\ UNCHANGED <<reloj, tokens, pisada>>
  BY DEF EscribirClave, Confirmar, Anonimizar, En, Cambiando, CambianClave, varsHistoria
<1>2. cuenta'.clave = claves' /\ cuenta'.desde = peticion[p].desde
  <2>1. CASE EscribirClave(p) \/ Confirmar(p)
    <3>1. cuenta \in Filas
          /\ cuenta' = [cuenta EXCEPT !.clave = claves', !.desde = peticion[p].desde]
      BY <2>1 DEF EscribirClave, Confirmar, Tipos, TypeOK
    <3>2. QED
      BY <3>1 DEF Filas
  <2>2. CASE Anonimizar(p)
    BY <2>2 DEF Anonimizar
  <2>3. QED
    BY <2>1, <2>2
<1>3. peticion[p].desde <= SegundoActual /\ peticion[p].leida \in Filas
  BY DEF Ordenadas, DelPasado, Tipos, TypeOK, Trabajos
<1>4. CASE EscribirClave(p)
  <2>1. /\ peticion'[p] = Trabajo("cambia", "escrita", [peticion[p].leida EXCEPT !.clave = claves'],
                                  peticion[p].base, peticion[p].desde, peticion[p].enlace,
                                  peticion[p].solo)
        /\ peticion[p].que = "cambia"
        /\ \A q \in Peticiones \ {p} : peticion'[q] = peticion[q]
    BY <1>4 DEF EscribirClave, En, Pasa, Tipos, TypeOK
  <2>2. /\ peticion'[p].que = "cambia" /\ peticion'[p].etapa = "escrita"
        /\ peticion'[p].desde = peticion[p].desde /\ peticion'[p].solo = peticion[p].solo
        /\ peticion'[p].leida = [peticion[p].leida EXCEPT !.clave = claves']
    BY <2>1 DEF Trabajo
  <2>3. /\ peticion'[p].leida.clave = claves'
        /\ peticion'[p].leida.desde = peticion[p].leida.desde
    BY <1>3, <2>2 DEF Filas
  <2>4. QED
    BY <1>1, <1>2, <1>3, <2>1, <2>2, <2>3, EscribeOrdenadas
<1>5. CASE Confirmar(p) \/ Anonimizar(p)
  <2>1. peticion'[p] = Nada /\ \A q \in Peticiones \ {p} : peticion'[q] = peticion[q]
    BY <1>5, TerminaHace DEF Confirmar, Anonimizar
  <2>2. 0 <= SegundoActual
    BY Tiempos
  <2>3. QED
    BY <1>1, <1>2, <2>1, <2>2, NadaEsNada, EscribeOrdenadas
<1>6. QED
  BY <1>4, <1>5

\* The ways a request begins.
LEMMA EmpiezanOrdenadas ==
    ASSUME Tipos, Ordenadas, NEW p \in Peticiones,
           \/ Entrar(p) \/ CambiarContrasena(p) \/ PedirEnlace(p) \/ EliminarCuenta(p)
           \/ GuardarPerfil(p) \/ Moderar(p) \/ \E l \in DOMAIN enlaces : Restablecer(p, l)
    PROVE  Ordenadas'
<1>1. PICK que \in Empiezan, leida \in Filas, enlace \in 0 .. MaxEnlaces :
        Empieza(p, que, leida, enlace)
  BY EmpiezanTipos
<1>2. cuenta \in Filas /\ DeAlta \in Filas
  BY DeAltaBien DEF Tipos, TypeOK
<1>3. \E q, f, e :
        /\ Empieza(p, q, f, e)
        /\ f.desde \in {0, cuenta.desde} /\ f.clave \in {0, cuenta.clave}
        /\ q = "entra" => f.clave = cuenta.clave
  <2>0. DeAlta.desde = 0 /\ DeAlta.clave = 0
    BY DEF DeAlta
  <2>1. CASE Entrar(p)
    <3> DEFINE f == [DeAlta EXCEPT !.clave = cuenta.clave]
    <3>2. f.desde = 0 /\ f.clave = cuenta.clave
      BY DEF DeAlta
    <3>3. Empieza(p, "entra", f, 0)
      BY <2>1 DEF Entrar
    <3>4. QED
      BY <3>2, <3>3
  <2>2. CASE CambiarContrasena(p) \/ PedirEnlace(p) \/ EliminarCuenta(p)
    <3>1. \E q \in {"cambia", "recupera", "elimina"} : Empieza(p, q, DeAlta, 0)
      BY <2>2 DEF CambiarContrasena, PedirEnlace, EliminarCuenta
    <3>2. QED
      BY <2>0, <3>1
  <2>3. CASE \E l \in DOMAIN enlaces : Restablecer(p, l)
    <3>1. \E e : Empieza(p, "restablece", DeAlta, e)
      BY <2>3 DEF Restablecer
    <3>2. QED
      BY <2>0, <3>1
  <2>4. CASE GuardarPerfil(p)
    <3> DEFINE f == [cuenta EXCEPT !.clave = 0, !.datos = "cambiados"]
    <3>2. f.desde \in {0, cuenta.desde} /\ f.clave \in {0, cuenta.clave}
      BY <1>2 DEF Filas
    <3>3. Empieza(p, "guarda", f, 0)
      BY <2>4 DEF GuardarPerfil
    <3> HIDE DEF f
    <3>4. QED
      BY <3>2, <3>3
  <2>5. CASE Moderar(p)
    <3> DEFINE f == [cuenta EXCEPT !.clave = 0, !.activa = ~@]
    <3>2. f.desde \in {0, cuenta.desde} /\ f.clave \in {0, cuenta.clave}
      BY <1>2 DEF Filas
    <3>3. Empieza(p, "guarda", f, 0)
      BY <2>5 DEF Moderar
    <3> HIDE DEF f
    <3>4. QED
      BY <3>2, <3>3
  <2>6. QED
    BY <2>1, <2>2, <2>3, <2>4, <2>5
<1>4. PICK q, f, e :
        /\ Empieza(p, q, f, e)
        /\ f.desde \in {0, cuenta.desde} /\ f.clave \in {0, cuenta.clave}
        /\ q = "entra" => f.clave = cuenta.clave
  BY <1>3
<1>5. peticion'[p].que = que /\ peticion'[p].leida = leida
  BY <1>1 DEF Empieza, Trabajo, Tipos, TypeOK
<1>6. peticion'[p].que = q /\ peticion'[p].leida = f
  BY <1>4 DEF Empieza, Trabajo, Tipos, TypeOK
<1>7. QED
  BY <1>1, <1>4, <1>5, <1>6, EmpiezaOrdenadas

\* Every step keeps the times and the passwords in order.
LEMMA PasoOrdenadas == Tipos /\ Ordenadas /\ [Next]_vars => Ordenadas'
<1> SUFFICES ASSUME Tipos, Ordenadas, [Next]_vars PROVE Ordenadas'
  OBVIOUS
<1>1. CASE UNCHANGED vars \/ \E k \in DOMAIN tokens : CerrarSesion(k)
  <2>1. UNCHANGED <<reloj, cuenta, claves, tokens, peticion, pisada>>
    BY <1>1 DEF vars, CerrarSesion
  <2>2. DelPasado'
    BY <2>1 DEF Ordenadas, DelPasado, SegundoActual
  <2>3. NuevaDespues' /\ EmiteLaDeHoy' /\ ViejaAntes'
    BY <2>1 DEF Ordenadas, NuevaDespues, EmiteLaDeHoy, ViejaAntes, Cambiando, En
  <2>4. QED
    BY <2>2, <2>3 DEF Ordenadas
<1>2. CASE Tic
  BY <1>2, TicOrdenadas
<1>3. ASSUME NEW p \in Peticiones, GuardarEnlace(p) \/ Deshacer(p) PROVE Ordenadas'
  BY <1>3, TerminaOrdenadas DEF GuardarEnlace, Deshacer, varsHistoria
<1>4. QED
  BY <1>1, <1>2, <1>3, EmpiezanOrdenadas, EmiteOrdenadas, PasaOrdenadas, GuardaOrdenadas,
     EscribenOrdenadas DEF Next

\* Every step leaves out of the closed sessions only what has expired.
LEMMA PasoCerradas == Tipos /\ CerradasBien /\ [Next]_vars => CerradasBien'
<1> SUFFICES ASSUME Tipos, CerradasBien, [Next]_vars PROVE CerradasBien'
  OBVIOUS
<1>0. /\ revocadas \subseteq DOMAIN tokens /\ cerradas \subseteq DOMAIN tokens
      /\ \A k \in DOMAIN tokens : Caduca(k) \in Nat
  <2>1. revocadas \subseteq DOMAIN tokens /\ cerradas \subseteq DOMAIN tokens
    BY DEF Tipos, TypeOK
  <2>2. DuracionSesion \in Nat /\ \A k \in DOMAIN tokens : tokens[k].iat \in Nat
    BY Tiempos, CuentasOK
  <2>. QED
    BY <2>1, <2>2 DEF Caduca
<1>1. CASE UNCHANGED <<reloj, tokens, revocadas, cerradas>>
  BY <1>1 DEF CerradasBien, Firmado, Caduca
<1>2. CASE Tic
  <2>1. /\ Segundo(reloj) <= Segundo(reloj') /\ Segundo(reloj) \in Nat /\ Segundo(reloj') \in Nat
        /\ UNCHANGED <<tokens, revocadas, cerradas>>
    BY <1>2, Tiempos, SegundoBien DEF Tic, varsHistoria
  <2>2. \A k \in DOMAIN tokens : Firmado(k)' => Firmado(k)
    BY <1>0, <2>1 DEF Firmado, Caduca
  <2>3. QED
    BY <1>0, <2>1, <2>2 DEF CerradasBien
<1>3. ASSUME NEW k \in DOMAIN tokens, CerrarSesion(k) PROVE CerradasBien'
  <2>1. /\ revocadas' = Barre(revocadas \cup {k}) /\ cerradas' = cerradas \cup {k}
        /\ UNCHANGED <<reloj, tokens>>
    BY <1>3 DEF CerrarSesion
  <2>2. ASSUME NEW j \in DOMAIN tokens, Caduca(j) * Tics < reloj PROVE ~Firmado(j)
    <3>1. Caduca(j) <= Segundo(reloj) /\ Segundo(reloj) \in Nat /\ Caduca(j) \in Nat
      BY <1>0, <2>2, Tiempos, SegundoBien
    <3>2. QED
      BY <3>1 DEF Firmado
  <2>3. \A j \in DOMAIN tokens : Firmado(j)' <=> Firmado(j)
    BY <2>1 DEF Firmado, Caduca
  <2>4. QED
    BY <1>0, <2>1, <2>2, <2>3 DEF CerradasBien, Barre
<1>4. ASSUME NEW p \in Peticiones, Emitir(p) PROVE CerradasBien'
  <2>1. /\ UNCHANGED <<reloj, revocadas, cerradas>>
        /\ \A k \in DOMAIN tokens : tokens'[k] = tokens[k]
    BY <1>4 DEF Emitir, varsHistoria, Tipos, TypeOK
  <2>2. QED
    BY <1>0, <2>1 DEF CerradasBien, Firmado, Caduca
<1>5. \/ UNCHANGED <<reloj, tokens, revocadas, cerradas>> \/ Tic
      \/ \E k \in DOMAIN tokens : CerrarSesion(k)
      \/ \E p \in Peticiones : Emitir(p)
  BY ZenonT(60) DEF Next, vars, varsHistoria, Empieza, Entrar, CambiarContrasena, Calcular, EscribirClave,
     PedirEnlace, GuardarEnlace, Restablecer, Confirmar, Deshacer, EliminarCuenta, Anonimizar,
     GuardarPerfil, Moderar, Comparar, GuardarFila
<1>6. QED
  BY <1>1, <1>2, <1>3, <1>4, <1>5

\* No session has been opened at the start.
LEMMA IniciaSesiones == Init => Ordenadas /\ CerradasBien
<1> SUFFICES ASSUME Init PROVE Ordenadas /\ CerradasBien
  OBVIOUS
<1>1. /\ Tipos /\ DOMAIN tokens = {} /\ claves = 0 /\ cuenta.clave = 0 /\ cuenta.desde = 0
      /\ \A p \in Peticiones : peticion[p] = Nada
  BY IniciaTipos, NadaEsNada DEF Init
<1>2. DelPasado
  BY <1>1, NadaEsNada, Tiempos DEF DelPasado
<1>3. NuevaDespues /\ EmiteLaDeHoy /\ ViejaAntes
  BY <1>1, NadaEsNada DEF NuevaDespues, EmiteLaDeHoy, ViejaAntes, EmitenToken
<1>4. CerradasBien
  BY DEF Init, CerradasBien
<1>5. QED
  BY <1>2, <1>3, <1>4 DEF Ordenadas

\* The inductive invariant behind the sessions.
THEOREM SesionesEnOrden == Spec => [](Ordenadas /\ CerradasBien)
BY IniciaSesiones, PasoOrdenadas, PasoCerradas, CuentasTipos, PTL DEF Spec

\* A session is as good as the password it was opened with, no more and no less,
\* whatever coincides with the change.
THEOREM SiempreLaDeHoy == Spec => []SoloLaClaveDeHoy
<1>1. Tipos /\ Ordenadas /\ CerradasBien => SoloLaClaveDeHoy
  <2> SUFFICES ASSUME Tipos, Ordenadas, CerradasBien PROVE SoloLaClaveDeHoy
    OBVIOUS
  <2>1. LaViejaNoAbre
    BY Tiempos DEF Ordenadas, ViejaAntes, LaViejaNoAbre, Vale
  <2>2. LaNuevaAbre
    BY DEF Ordenadas, NuevaDespues, CerradasBien, LaNuevaAbre, Vale
  <2>3. CerradaNoVuelve
    BY DEF CerradasBien, CerradaNoVuelve, Vale
  <2>4. QED
    BY <2>1, <2>2, <2>3 DEF SoloLaClaveDeHoy
<1>2. QED
  BY <1>1, SesionesEnOrden, CuentasTipos, PTL

-----------------------------------------------------------------------------
(* Asking for a booking.                                                   *)

\* The quotient of a division of naturals, and that it is the largest that fits.
LEMMA Division ==
    ASSUME NEW a \in Nat, NEW n \in Nat \ {0}
    PROVE  /\ a \div n \in Nat
           /\ (a \div n) * n <= a
           /\ a < (a \div n) * n + n
BY SMTT(30)

LEMMA DivisionUnica ==
    ASSUME NEW a \in Nat, NEW n \in Nat \ {0}, NEW q \in Nat, q * n <= a
    PROVE  q <= a \div n
<1>. DEFINE r == a \div n
<1>1. r \in Nat /\ a < r * n + n
  BY Division
<1>. HIDE DEF r
<1>2. SUFFICES ASSUME r + 1 <= q PROVE FALSE
  BY <1>1 DEF r
<1>3. (r + 1) * n <= q * n
  BY <1>1, <1>2, SMTT(30)
<1>4. (r + 1) * n = r * n + n
  BY <1>1, SMTT(30)
<1>. QED
  BY <1>1, <1>3, <1>4, SMTT(30)


EnEdicion(e) == edicion[e].etapa # "libre"

\* Editions one at a time, of rates the right way round, write what they say.
TarifasEnOrden ==
    /\ \A e \in Ediciones : EnEdicion(e) => Horquilla(edicion[e].fundida)
    /\ ~alReves =>
           /\ Horquilla(tarifa)
           /\ \A e, f \in Ediciones : EnEdicion(e) /\ EnEdicion(f) => e = f
           /\ \A e \in Ediciones : edicion[e].etapa = "cotejada" => edicion[e].base = tarifa

\* The page while nothing has changed since it read the service, and what it has sent.
FichaAlDia ==
    /\ ficha.pintada <= Dia(horaActual)
    /\ ~cambiado /\ ficha.etapa # "fuera" =>
           ficha.tarifa = tarifa /\ visible.servicio /\ visible.titular
    /\ solicitud.etapa # "nada" => ficha.etapa = "enviada" /\ FormularioDeja(ficha)
    /\ solicitud.etapa = "leida" /\ ~cambiado => solicitud.tarifa = ficha.tarifa

\* The inductive invariant of asking for a booking.
ReservarEnOrden == TipoReservar /\ TarifasEnOrden /\ FichaAlDia /\ RechazoConCausa

\* The days go on.
LEMMA DiaCrece ==
    ASSUME NEW a \in Nat, NEW b \in Nat, a <= b
    PROVE  Dia(a) \in Nat /\ Dia(b) \in Nat /\ Dia(a) <= Dia(b)
<1>1. Horas \in Nat \ {0}
  BY ReservarOK
<1>2. /\ a \div Horas \in Nat /\ (a \div Horas) * Horas <= a
      /\ b \div Horas \in Nat
  BY <1>1, Division
<1>3. (a \div Horas) * Horas \in Nat
  BY <1>1, <1>2, SMTT(30)
<1>4. (a \div Horas) * Horas <= b
  BY <1>2, <1>3
<1>. QED
  BY <1>1, <1>2, <1>4, DivisionUnica DEF Dia

\* What is past the last hour the API admits is of the last day the form admits,
\* or of a later one.
LEMMA DiaLejano ==
    ASSUME NEW a \in Nat, NEW b \in Nat, b >= a + Antelacion * Horas
    PROVE  Dia(b) >= Dia(a) + Antelacion
<1>1. Horas \in Nat \ {0} /\ Antelacion \in Nat
  BY ReservarOK
<1>2. PICK q \in Nat : q = a \div Horas /\ q * Horas <= a
  BY <1>1, Division
<1>3. (q + Antelacion) * Horas = q * Horas + Antelacion * Horas
  BY <1>1, SMTT(30)
<1>4. q * Horas \in Nat /\ Antelacion * Horas \in Nat
  BY <1>1, SMTT(30)
<1>5. (q + Antelacion) * Horas <= b
  BY <1>2, <1>3, <1>4
<1>6. q + Antelacion \in Nat
  BY <1>1
<1>7. q + Antelacion <= b \div Horas
  BY <1>1, <1>5, <1>6, DivisionUnica
<1>. QED
  BY <1>2, <1>7 DEF Dia

\* The values of the records are of their types.
LEMMA ValoresReservar ==
    /\ Instantes \subseteq Nat /\ 0 \in Instantes
    /\ Tarifa(PrecioMinimo, SinMaximo) \in Tarifas
    /\ SinEditar \in [etapa : EtapasEdicion, fundida : Tarifas, base : Tarifas]
    /\ FueraDeLaFicha \in [etapa : {"fuera", "abierta", "enviada"}, tarifa : Tarifas,
                           pintada : Nat, precio : Nat, cuando : Instantes]
    /\ SinSolicitud \in [etapa : EtapasSolicitud, tarifa : Tarifas, motivo : Motivos]
    /\ SinEditar.etapa = "libre"
    /\ FueraDeLaFicha.etapa = "fuera" /\ FueraDeLaFicha.pintada = 0
    /\ SinSolicitud.etapa = "nada"
<1>1. Instantes \subseteq Nat /\ 0 \in Instantes
  <2>1. (Antelacion + 2) * Horas \in Nat
    BY ReservarOK, SMTT(30)
  <2>2. MaxHoras + (Antelacion + 2) * Horas \in Nat
    BY <2>1, ReservarOK
  <2>. QED
    BY <2>2 DEF Instantes
<1>2. Tarifa(PrecioMinimo, SinMaximo) \in Tarifas
  BY ReservarOK DEF Tarifa, Tarifas, Precios, SinMaximo
<1>. QED
  BY <1>1, <1>2 DEF SinEditar, Editando, EtapasEdicion, FueraDeLaFicha, Pagina, SinSolicitud,
                    Solicitud, EtapasSolicitud, Motivos

\* The first state.
LEMMA IniciaReservar == InitReservar => ReservarEnOrden
<1>. SUFFICES ASSUME InitReservar PROVE ReservarEnOrden
  OBVIOUS
<1>. USE DEF InitReservar
<1>1. Dia(0) \in Nat
  BY DiaCrece
<1>2. alReves \in BOOLEAN /\ (~alReves => Horquilla(tarifa))
  BY DEF Horquilla
<1>3. TipoReservar
  <2>1. /\ tarifa \in Tarifas /\ visible \in [servicio : BOOLEAN, titular : BOOLEAN]
        /\ agenda \in SUBSET Instantes /\ cambiado \in BOOLEAN
    OBVIOUS
  <2>2. horaActual \in 0 .. MaxHoras
    BY ReservarOK
  <2>3. edicion \in [Ediciones -> [etapa : EtapasEdicion, fundida : Tarifas, base : Tarifas]]
    BY ValoresReservar
  <2>4. veces \in [ediciones : 0 .. MaxEdiciones, solicitudes : 0 .. MaxSolicitudes,
                   percances : 0 .. MaxPercances]
    BY ReservarOK
  <2>. QED
    BY <1>2, <2>1, <2>2, <2>3, <2>4, ValoresReservar DEF TipoReservar
<1>4. TarifasEnOrden
  BY <1>2, ValoresReservar DEF TarifasEnOrden, EnEdicion
<1>5. FichaAlDia
  BY <1>1, ValoresReservar DEF FichaAlDia
<1>6. RechazoConCausa
  BY ValoresReservar DEF RechazoConCausa
<1>. QED
  BY <1>3, <1>4, <1>5, <1>6 DEF ReservarEnOrden

\* An edition begun with none under way has a maximum not below its minimum; with one
\* under way it says so in alReves.
LEMMA FundirEdicionReservar ==
    ASSUME ReservarEnOrden, NEW e \in Ediciones, NEW min \in Tecleables, NEW max \in Tecleables,
           FundirEdicion(e, min, max)
    PROVE  ReservarEnOrden'
<1>. USE DEF ReservarEnOrden, FundirEdicion
<1>. DEFINE Otra == \E otra \in Ediciones : edicion[otra].etapa # "libre"
            Nueva == Fundir(min, max)
<1>1. Otra \in BOOLEAN /\ alReves' = (alReves \/ Otra)
  OBVIOUS
<1>2. ASSUME ~Otra, NEW f \in Ediciones PROVE ~EnEdicion(f)
  BY <1>2 DEF EnEdicion
<1>3. /\ edicion' \in [Ediciones -> [etapa : EtapasEdicion, fundida : Tarifas, base : Tarifas]]
      /\ \A f \in Ediciones \ {e} : edicion'[f] = edicion[f]
      /\ \/ edicion'[e] = edicion[e]
         \/ edicion'[e].etapa = "fundida" /\ Horquilla(edicion'[e].fundida)
  <2>1. CASE edicion' = edicion
    BY <2>1 DEF TipoReservar
  <2>2. CASE /\ edicion' = [edicion EXCEPT ![e] = Editando("fundida", Nueva, @.base)]
             /\ Cobrable(min) /\ (max # SinMaximo => Cobrable(max)) /\ Horquilla(Nueva)
    <3>1. Nueva \in Tarifas
      BY <2>2 DEF Cobrable, Fundir, Tarifa, Tarifas, TipoReservar
    <3>2. Editando("fundida", Nueva, edicion[e].base)
            \in [etapa : EtapasEdicion, fundida : Tarifas, base : Tarifas]
      BY <3>1 DEF Editando, EtapasEdicion, TipoReservar
    <3>. QED
      BY <2>2, <3>2 DEF Editando, TipoReservar
  <2>. QED
    BY <2>1, <2>2 DEF TipoReservar
<1>. HIDE DEF Otra
<1>4. TipoReservar'
  <2>1. veces' \in [ediciones : 0 .. MaxEdiciones, solicitudes : 0 .. MaxSolicitudes,
                   percances : 0 .. MaxPercances]
    BY ReservarOK DEF TipoReservar
  <2>. QED
    BY <1>1, <1>3, <2>1 DEF TipoReservar
<1>5. TarifasEnOrden'
  BY <1>1, <1>2, <1>3 DEF TarifasEnOrden, EnEdicion, TipoReservar
<1>6. FichaAlDia' /\ RechazoConCausa'
  BY DEF FichaAlDia, RechazoConCausa, Dia, FormularioDeja, DiaAdmitido, EnTarifa
<1>. QED
  BY <1>4, <1>5, <1>6

\* Read again, the row is the base of the writing.
LEMMA CotejarEdicionReservar ==
    ASSUME ReservarEnOrden, NEW e \in Ediciones, CotejarEdicion(e) PROVE ReservarEnOrden'
<1>. USE DEF ReservarEnOrden, CotejarEdicion
<1>1. /\ Editando("cotejada", edicion[e].fundida, tarifa)
           \in [etapa : EtapasEdicion, fundida : Tarifas, base : Tarifas]
      /\ edicion'[e] = Editando("cotejada", edicion[e].fundida, tarifa)
      /\ \A f \in Ediciones \ {e} : edicion'[f] = edicion[f]
  BY DEF Editando, EtapasEdicion, TipoReservar
<1>2. TipoReservar'
  BY <1>1 DEF TipoReservar
<1>3. TarifasEnOrden'
  BY <1>1 DEF TarifasEnOrden, EnEdicion, Editando
<1>4. FichaAlDia' /\ RechazoConCausa'
  BY DEF FichaAlDia, RechazoConCausa, Dia, FormularioDeja, DiaAdmitido, EnTarifa
<1>. QED
  BY <1>2, <1>3, <1>4

\* Alone, an edition writes the rate it merged, whole: what it does not write is what
\* the row already had.
LEMMA GuardarEdicionReservar ==
    ASSUME ReservarEnOrden, NEW e \in Ediciones, GuardarEdicion(e) PROVE ReservarEnOrden'
<1>. USE DEF ReservarEnOrden, GuardarEdicion
<1>1. /\ edicion' \in [Ediciones -> [etapa : EtapasEdicion, fundida : Tarifas, base : Tarifas]]
      /\ edicion'[e] = SinEditar
      /\ \A f \in Ediciones \ {e} : edicion'[f] = edicion[f]
  BY ValoresReservar DEF TipoReservar
<1>2. tarifa' \in Tarifas
  BY DEF Tarifa, Tarifas, TipoReservar
<1>3. (cambiado \/ tarifa' # tarifa) \in BOOLEAN
  BY DEF TipoReservar
<1>4. TipoReservar'
  BY <1>1, <1>2, <1>3 DEF TipoReservar
<1>5. TarifasEnOrden'
  <2>1. ASSUME ~alReves PROVE tarifa' = edicion[e].fundida /\ Horquilla(tarifa')
    BY <2>1 DEF TarifasEnOrden, EnEdicion, Tarifa, Tarifas, TipoReservar
  <2>. QED
    BY <1>1, <2>1, ValoresReservar DEF TarifasEnOrden, EnEdicion
<1>6. FichaAlDia'
  BY <1>3 DEF FichaAlDia, Dia, FormularioDeja, DiaAdmitido, EnTarifa, TipoReservar
<1>7. RechazoConCausa'
  BY <1>3 DEF RechazoConCausa, Dia, TipoReservar
<1>. QED
  BY <1>4, <1>5, <1>6, <1>7


\* The page has what it has just read.
LEMMA AbrirFichaReservar ==
    ASSUME ReservarEnOrden, NEW precio \in Tecleables, NEW cuando \in Instantes,
           AbrirFicha(precio, cuando)
    PROVE  ReservarEnOrden'
<1>. USE DEF ReservarEnOrden, AbrirFicha
<1>1. Dia(horaActual) \in Nat
  BY DiaCrece, ReservarOK DEF TipoReservar
<1>2. ficha' \in [etapa : {"fuera", "abierta", "enviada"}, tarifa : Tarifas,
                  pintada : Nat, precio : Nat, cuando : Instantes]
  BY <1>1, ReservarOK DEF Pagina, Tecleables, TipoReservar
<1>3. TipoReservar'
  BY <1>2 DEF TipoReservar
<1>4. TarifasEnOrden'
  BY DEF TarifasEnOrden, EnEdicion
<1>5. FichaAlDia'
  BY <1>1 DEF FichaAlDia, Pagina, Dia
<1>6. RechazoConCausa'
  BY DEF RechazoConCausa
<1>. QED
  BY <1>3, <1>4, <1>5, <1>6

\* A key renders the page with the day it is.
LEMMA EscribirReservar ==
    ASSUME ReservarEnOrden, NEW precio \in Tecleables, NEW cuando \in Instantes,
           Escribir(precio, cuando)
    PROVE  ReservarEnOrden'
<1>. USE DEF ReservarEnOrden, Escribir
<1>1. Dia(horaActual) \in Nat
  BY DiaCrece, ReservarOK DEF TipoReservar
<1>2. ficha' \in [etapa : {"fuera", "abierta", "enviada"}, tarifa : Tarifas,
                  pintada : Nat, precio : Nat, cuando : Instantes]
  BY <1>1, ReservarOK DEF Pagina, Tecleables, TipoReservar
<1>3. TipoReservar'
  BY <1>2 DEF TipoReservar
<1>4. TarifasEnOrden'
  BY DEF TarifasEnOrden, EnEdicion
<1>5. FichaAlDia'
  BY <1>1 DEF FichaAlDia, Pagina, Dia
<1>6. RechazoConCausa'
  BY DEF RechazoConCausa, FichaAlDia
<1>. QED
  BY <1>3, <1>4, <1>5, <1>6

\* What is sent is what the form lets through.
LEMMA EnviarFichaReservar ==
    ASSUME ReservarEnOrden, EnviarFicha PROVE ReservarEnOrden'
<1>. USE DEF ReservarEnOrden, EnviarFicha
<1>1. Dia(horaActual) \in Nat
  BY DiaCrece, ReservarOK DEF TipoReservar
<1>2. solicitud.etapa = "nada"
  BY DEF FichaAlDia
<1>3. CASE /\ ~FormularioDeja(ficha)
           /\ ficha' = [ficha EXCEPT !.pintada = Dia(horaActual)]
           /\ UNCHANGED <<solicitud, veces>>
  <2>1. TipoReservar'
    BY <1>1, <1>3 DEF TipoReservar
  <2>2. TarifasEnOrden' /\ RechazoConCausa'
    BY <1>2, <1>3 DEF TarifasEnOrden, EnEdicion, RechazoConCausa
  <2>3. FichaAlDia'
    BY <1>1, <1>2, <1>3 DEF FichaAlDia, TipoReservar, Dia
  <2>. QED
    BY <2>1, <2>2, <2>3
<1>4. CASE /\ FormularioDeja(ficha)
           /\ ficha' = [ficha EXCEPT !.etapa = "enviada"]
           /\ solicitud' = [solicitud EXCEPT !.etapa = "enviada"]
           /\ veces' = [veces EXCEPT !.solicitudes = @ + 1]
  <2>0. veces' \in [ediciones : 0 .. MaxEdiciones, solicitudes : 0 .. MaxSolicitudes,
                   percances : 0 .. MaxPercances]
    BY <1>4, ReservarOK DEF TipoReservar
  <2>1. TipoReservar'
    BY <2>0, <1>4 DEF TipoReservar, EtapasSolicitud
  <2>2. TarifasEnOrden' /\ RechazoConCausa'
    BY <1>4 DEF TarifasEnOrden, EnEdicion, RechazoConCausa, TipoReservar
  <2>3. FormularioDeja(ficha')
    BY <1>4 DEF FormularioDeja, DiaAdmitido, EnTarifa, TipoReservar
  <2>4. FichaAlDia'
    BY <1>4, <2>3 DEF FichaAlDia, TipoReservar, Dia
  <2>. QED
    BY <2>1, <2>2, <2>4
<1>. QED
  BY <1>3, <1>4

\* The answer closes the page or renders it again.
LEMMA LlegaRespuestaReservar ==
    ASSUME ReservarEnOrden, LlegaRespuestaReserva PROVE ReservarEnOrden'
<1>. USE DEF ReservarEnOrden, LlegaRespuestaReserva
<1>1. Dia(horaActual) \in Nat
  BY DiaCrece, ReservarOK DEF TipoReservar
<1>2. /\ ficha' \in [etapa : {"fuera", "abierta", "enviada"}, tarifa : Tarifas,
                     pintada : Nat, precio : Nat, cuando : Instantes]
      /\ ficha'.pintada <= Dia(horaActual)
      /\ ficha'.etapa = "fuera" \/ ficha'.tarifa = ficha.tarifa
  <2>1. CASE ficha' = FueraDeLaFicha
    <3>1. FueraDeLaFicha.pintada <= Dia(horaActual)
      BY <1>1, ValoresReservar
    <3>. QED
      BY <2>1, <3>1, ValoresReservar
  <2>2. CASE ficha' = [ficha EXCEPT !.etapa = "abierta", !.pintada = Dia(horaActual)]
    <3>. DEFINE f == [ficha EXCEPT !.etapa = "abierta"]
    <3>1. /\ f \in [etapa : {"fuera", "abierta", "enviada"}, tarifa : Tarifas,
                    pintada : Nat, precio : Nat, cuando : Instantes]
          /\ f.tarifa = ficha.tarifa
      BY DEF TipoReservar
    <3>2. ficha' = [f EXCEPT !.pintada = Dia(horaActual)]
      BY <2>2
    <3>. HIDE DEF f
    <3>3. /\ ficha'.pintada = Dia(horaActual)
          /\ ficha'.tarifa = f.tarifa
          /\ ficha' \in [etapa : {"fuera", "abierta", "enviada"}, tarifa : Tarifas,
                        pintada : Nat, precio : Nat, cuando : Instantes]
      BY <1>1, <3>1, <3>2
    <3>. QED
      BY <1>1, <3>1, <3>3
  <2>. QED
    BY <2>1, <2>2
<1>3. TipoReservar'
  BY <1>2, ValoresReservar DEF TipoReservar
<1>4. TarifasEnOrden' /\ RechazoConCausa'
  BY ValoresReservar DEF TarifasEnOrden, EnEdicion, RechazoConCausa
<1>5. FichaAlDia'
  BY <1>2, ValoresReservar DEF FichaAlDia, Dia
<1>. QED
  BY <1>3, <1>4, <1>5

\* A step of the API changes the request and nothing else.
LEMMA PasoDeLaApi ==
    ASSUME ReservarEnOrden, SoloSolicitud,
           solicitud.etapa \notin {"nada", "rechazada"}, solicitud'.etapa # "nada",
           solicitud' \in [etapa : EtapasSolicitud, tarifa : Tarifas, motivo : Motivos],
           solicitud'.etapa = "leida" /\ ~cambiado => solicitud'.tarifa = ficha.tarifa,
           RechazoConCausa'
    PROVE  ReservarEnOrden'
<1>. USE DEF ReservarEnOrden, SoloSolicitud
<1>1. TipoReservar'
  BY DEF TipoReservar
<1>2. TarifasEnOrden'
  BY DEF TarifasEnOrden, EnEdicion
<1>3. FormularioDeja(ficha) /\ ficha.etapa = "enviada"
  BY DEF FichaAlDia
<1>4. FichaAlDia'
  BY <1>3 DEF FichaAlDia, Dia, FormularioDeja, DiaAdmitido, EnTarifa, ConTope
<1>. QED
  BY <1>1, <1>2, <1>4

\* What passing the request on, or refusing it, leaves in its record.
LEMMA PasarORechazar ==
    ASSUME TipoReservar
    PROVE  /\ \A etapa \in EtapasSolicitud : PasaSolicitud(etapa) =>
                 /\ solicitud' \in [etapa : EtapasSolicitud, tarifa : Tarifas, motivo : Motivos]
                 /\ solicitud'.etapa = etapa
           /\ \A motivo \in Motivos : Rechaza(motivo) =>
                 /\ solicitud' \in [etapa : EtapasSolicitud, tarifa : Tarifas, motivo : Motivos]
                 /\ solicitud'.etapa = "rechazada" /\ solicitud'.motivo = motivo
<1>1. ASSUME NEW etapa \in EtapasSolicitud, PasaSolicitud(etapa)
      PROVE  /\ solicitud' \in [etapa : EtapasSolicitud, tarifa : Tarifas, motivo : Motivos]
             /\ solicitud'.etapa = etapa
  BY <1>1 DEF PasaSolicitud, TipoReservar
<1>2. ASSUME NEW motivo \in Motivos, Rechaza(motivo)
      PROVE  /\ solicitud' \in [etapa : EtapasSolicitud, tarifa : Tarifas, motivo : Motivos]
             /\ solicitud'.etapa = "rechazada" /\ solicitud'.motivo = motivo
  BY <1>2 DEF Rechaza, EtapasSolicitud, TipoReservar
<1>. QED
  BY <1>1, <1>2

\* The checks of amount and date refuse what the form let through only for the day that
\* ended, the last hours of the last day or an amount above what can be charged.
LEMMA ComprobarFechaReservar ==
    ASSUME ReservarEnOrden, ComprobarFecha PROVE ReservarEnOrden'
<1>. DEFINE f == ficha
<1>1. /\ solicitud.etapa = "enviada" /\ SoloSolicitud /\ TipoReservar
      /\ FormularioDeja(f) /\ f.pintada <= Dia(horaActual)
  BY DEF ComprobarFecha, ReservarEnOrden, FichaAlDia
<1>2. /\ f.precio \in Nat /\ f.pintada \in Nat /\ f.cuando \in Nat /\ horaActual \in Nat
      /\ f.tarifa \in Tarifas
  <2>1. /\ ficha \in [etapa : {"fuera", "abierta", "enviada"}, tarifa : Tarifas,
                     pintada : Nat, precio : Nat, cuando : Instantes]
        /\ horaActual \in 0 .. MaxHoras
    BY <1>1 DEF TipoReservar
  <2>2. f.precio \in Nat /\ f.pintada \in Nat /\ f.cuando \in Instantes /\ f.tarifa \in Tarifas
    BY <2>1
  <2>3. horaActual \in Nat
    BY <2>1, ReservarOK
  <2>. QED
    BY <2>2, <2>3, ValoresReservar
<1>3. /\ Dia(f.cuando) \in Nat /\ Dia(horaActual) \in Nat
      /\ f.cuando <= horaActual => Dia(f.cuando) <= Dia(horaActual)
      /\ Antelacion \in Nat
  BY <1>2, DiaCrece, ReservarOK
<1>4. Dia(f.cuando) >= f.pintada + 1 /\ Dia(f.cuando) <= f.pintada + Antelacion
  BY <1>1, <1>2, <1>3 DEF FormularioDeja, DiaAdmitido
<1>5. CASE ~Cobrable(f.precio) /\ Rechaza("importe sin tope")
  <2>1. f.precio >= f.tarifa.min /\ (ConTope(f.tarifa) => f.precio <= f.tarifa.max)
    BY <1>1 DEF FormularioDeja, EnTarifa
  <2>2. f.precio > PrecioMaximo /\ ~ConTope(f.tarifa)
    <3>1. f.tarifa.min \in Precios /\ (ConTope(f.tarifa) => f.tarifa.max \in Precios)
      BY <1>2 DEF Tarifas, ConTope
    <3>2. f.precio \notin Precios
      BY <1>5 DEF Cobrable
    <3>. QED
      BY <1>2, <2>1, <3>1, <3>2, ReservarOK DEF Precios
  <2>3. /\ solicitud' \in [etapa : EtapasSolicitud, tarifa : Tarifas, motivo : Motivos]
        /\ solicitud'.etapa = "rechazada" /\ solicitud'.motivo = "importe sin tope"
    BY <1>1, <1>5, PasarORechazar DEF Motivos
  <2>4. RechazoConCausa'
    BY <1>1, <2>2, <2>3 DEF RechazoConCausa, SoloSolicitud, ConTope
  <2>. QED
    BY <1>1, <2>3, <2>4, PasoDeLaApi
<1>6. CASE f.cuando <= horaActual /\ Rechaza("fecha pasada")
  <2>1. /\ solicitud' \in [etapa : EtapasSolicitud, tarifa : Tarifas, motivo : Motivos]
        /\ solicitud'.etapa = "rechazada" /\ solicitud'.motivo = "fecha pasada"
    BY <1>1, <1>6, PasarORechazar DEF Motivos
  <2>2. Dia(horaActual) > f.pintada
    <3>1. f.pintada + 1 <= Dia(f.cuando) /\ Dia(f.cuando) <= Dia(horaActual)
      BY <1>3, <1>4, <1>6
    <3>. QED
      BY <1>2, <1>3, <3>1
  <2>3. RechazoConCausa'
    BY <1>1, <2>1, <2>2 DEF RechazoConCausa, SoloSolicitud, Dia
  <2>. QED
    BY <1>1, <2>1, <2>3, PasoDeLaApi
<1>7. CASE EsLejana(f.cuando) /\ Rechaza("fecha lejana")
  <2>1. /\ solicitud' \in [etapa : EtapasSolicitud, tarifa : Tarifas, motivo : Motivos]
        /\ solicitud'.etapa = "rechazada" /\ solicitud'.motivo = "fecha lejana"
    BY <1>1, <1>7, PasarORechazar DEF Motivos
  <2>2. Antelacion * Horas \in Nat
    BY ReservarOK, SMTT(30)
  <2>3. f.cuando >= horaActual + Antelacion * Horas
    <3>1. f.cuando > horaActual + Antelacion * Horas
      BY <1>7 DEF EsLejana
    <3>. QED
      BY <1>2, <2>2, <3>1
  <2>4. Dia(f.cuando) >= Dia(horaActual) + Antelacion
    BY <1>2, <2>3, DiaLejano
  <2>5. Dia(f.cuando) = f.pintada + Antelacion
    BY <1>1, <1>2, <1>3, <1>4, <2>4
  <2>6. RechazoConCausa'
    BY <1>1, <2>1, <2>5 DEF RechazoConCausa, SoloSolicitud, Dia
  <2>. QED
    BY <1>1, <2>1, <2>6, PasoDeLaApi
<1>8. CASE PasaSolicitud("fechada")
  <2>1. /\ solicitud' \in [etapa : EtapasSolicitud, tarifa : Tarifas, motivo : Motivos]
        /\ solicitud'.etapa = "fechada"
    BY <1>1, <1>8, PasarORechazar DEF EtapasSolicitud
  <2>2. RechazoConCausa'
    BY <2>1 DEF RechazoConCausa
  <2>. QED
    BY <1>1, <2>1, <2>2, PasoDeLaApi
<1>. QED
  BY <1>5, <1>6, <1>7, <1>8 DEF ComprobarFecha

\* The API reads what the page read, or something changed.
LEMMA LeerServicioReservar ==
    ASSUME ReservarEnOrden, LeerServicio PROVE ReservarEnOrden'
<1>1. /\ solicitud.etapa = "fechada" /\ SoloSolicitud /\ TipoReservar
      /\ ~cambiado => ficha.tarifa = tarifa /\ visible.servicio
  BY DEF LeerServicio, ReservarEnOrden, FichaAlDia
<1>2. CASE solicitud' = Solicitud("leida", tarifa, "ninguno")
  <2>1. /\ solicitud' \in [etapa : EtapasSolicitud, tarifa : Tarifas, motivo : Motivos]
        /\ solicitud'.etapa = "leida" /\ solicitud'.tarifa = tarifa
    BY <1>1, <1>2 DEF Solicitud, EtapasSolicitud, Motivos, TipoReservar
  <2>2. RechazoConCausa'
    BY <2>1 DEF RechazoConCausa
  <2>. QED
    BY <1>1, <2>1, <2>2, PasoDeLaApi
<1>3. CASE ~visible.servicio /\ Rechaza("no disponible")
  <2>1. /\ solicitud' \in [etapa : EtapasSolicitud, tarifa : Tarifas, motivo : Motivos]
        /\ solicitud'.etapa = "rechazada" /\ solicitud'.motivo = "no disponible"
    BY <1>1, <1>3, PasarORechazar DEF Motivos
  <2>2. RechazoConCausa'
    BY <1>1, <1>3, <2>1 DEF RechazoConCausa, SoloSolicitud
  <2>. QED
    BY <1>1, <2>1, <2>2, PasoDeLaApi
<1>. QED
  BY <1>2, <1>3 DEF LeerServicio

\* The price is compared with the rate just read.
LEMMA LeerPartesReservar ==
    ASSUME ReservarEnOrden, LeerPartes PROVE ReservarEnOrden'
<1>1. /\ solicitud.etapa = "leida" /\ SoloSolicitud /\ TipoReservar
      /\ ~cambiado => visible.titular /\ ComprobarPrecio(solicitud.tarifa, ficha.precio)
  BY DEF LeerPartes, ReservarEnOrden, FichaAlDia, FormularioDeja, EnTarifa, ConTope,
         ComprobarPrecio
<1>2. ASSUME NEW motivo \in {"no disponible", "importe"}, cambiado, Rechaza(motivo)
      PROVE  ReservarEnOrden'
  <2>1. /\ solicitud' \in [etapa : EtapasSolicitud, tarifa : Tarifas, motivo : Motivos]
        /\ solicitud'.etapa = "rechazada" /\ solicitud'.motivo = motivo
    BY <1>1, <1>2, PasarORechazar DEF Motivos
  <2>2. RechazoConCausa'
    BY <1>1, <1>2, <2>1 DEF RechazoConCausa, SoloSolicitud
  <2>. QED
    BY <1>1, <2>1, <2>2, PasoDeLaApi
<1>3. CASE PasaSolicitud("valida")
  <2>1. /\ solicitud' \in [etapa : EtapasSolicitud, tarifa : Tarifas, motivo : Motivos]
        /\ solicitud'.etapa = "valida"
    BY <1>1, <1>3, PasarORechazar DEF EtapasSolicitud
  <2>2. RechazoConCausa'
    BY <2>1 DEF RechazoConCausa
  <2>. QED
    BY <1>1, <2>1, <2>2, PasoDeLaApi
<1>. QED
  BY <1>1, <1>2, <1>3 DEF LeerPartes

\* The slot is looked at as it is.
LEMMA MirarHuecoReservar ==
    ASSUME ReservarEnOrden, MirarHueco PROVE ReservarEnOrden'
<1>1. solicitud.etapa = "valida" /\ SoloSolicitud /\ TipoReservar
  BY DEF MirarHueco, ReservarEnOrden
<1>2. CASE ficha.cuando \in agenda /\ Rechaza("solape")
  <2>1. /\ solicitud' \in [etapa : EtapasSolicitud, tarifa : Tarifas, motivo : Motivos]
        /\ solicitud'.etapa = "rechazada" /\ solicitud'.motivo = "solape"
    BY <1>1, <1>2, PasarORechazar DEF Motivos
  <2>2. RechazoConCausa'
    BY <1>1, <1>2, <2>1 DEF RechazoConCausa, SoloSolicitud
  <2>. QED
    BY <1>1, <2>1, <2>2, PasoDeLaApi
<1>3. CASE PasaSolicitud("guardada")
  <2>1. /\ solicitud' \in [etapa : EtapasSolicitud, tarifa : Tarifas, motivo : Motivos]
        /\ solicitud'.etapa = "guardada"
    BY <1>1, <1>3, PasarORechazar DEF EtapasSolicitud
  <2>2. RechazoConCausa'
    BY <2>1 DEF RechazoConCausa
  <2>. QED
    BY <1>1, <2>1, <2>2, PasoDeLaApi
<1>. QED
  BY <1>2, <1>3 DEF MirarHueco


\* An hour more.
LEMMA PasaUnRatoReservar ==
    ASSUME ReservarEnOrden, PasaUnRato PROVE ReservarEnOrden'
<1>. USE DEF ReservarEnOrden, PasaUnRato
<1>1. /\ horaActual \in Nat /\ horaActual + 1 \in Nat /\ horaActual' = horaActual + 1
      /\ horaActual' \in 0 .. MaxHoras /\ ficha.pintada \in Nat
  BY ReservarOK DEF TipoReservar
<1>2. /\ Dia(horaActual) \in Nat /\ Dia(horaActual + 1) \in Nat
      /\ Dia(horaActual) <= Dia(horaActual + 1)
  BY <1>1, DiaCrece
<1>3. TipoReservar'
  BY <1>1 DEF TipoReservar
<1>4. TarifasEnOrden'
  BY DEF TarifasEnOrden, EnEdicion
<1>5. ficha.pintada <= Dia(horaActual + 1)
  BY <1>1, <1>2 DEF FichaAlDia
<1>6. FichaAlDia'
  BY <1>1, <1>5 DEF FichaAlDia, Dia
<1>7. Dia(horaActual) > ficha.pintada => Dia(horaActual + 1) > ficha.pintada
  BY <1>1, <1>2
<1>8. RechazoConCausa'
  BY <1>1, <1>7 DEF RechazoConCausa, Dia
<1>. QED
  BY <1>3, <1>4, <1>6, <1>8

\* A withdrawal is a change.
LEMMA DejaDeEstarReservar ==
    ASSUME ReservarEnOrden, DejaDeEstar PROVE ReservarEnOrden'
<1>. USE DEF ReservarEnOrden, DejaDeEstar, Percance
<1>1. visible' \in [servicio : BOOLEAN, titular : BOOLEAN]
  BY DEF TipoReservar
<1>2. veces' \in [ediciones : 0 .. MaxEdiciones, solicitudes : 0 .. MaxSolicitudes,
                  percances : 0 .. MaxPercances]
  BY ReservarOK DEF TipoReservar
<1>6. TipoReservar'
  BY <1>1, <1>2 DEF TipoReservar
<1>3. TarifasEnOrden'
  BY DEF TarifasEnOrden, EnEdicion
<1>4. FichaAlDia'
  BY DEF FichaAlDia, Dia
<1>5. RechazoConCausa'
  BY DEF RechazoConCausa, Dia
<1>. QED
  BY <1>3, <1>4, <1>5, <1>6

\* A slot taken stays taken.
LEMMA OcuparHuecoReservar ==
    ASSUME ReservarEnOrden, NEW instante \in Instantes, OcuparHueco(instante)
    PROVE  ReservarEnOrden'
<1>. USE DEF ReservarEnOrden, OcuparHueco, Percance
<1>1. veces' \in [ediciones : 0 .. MaxEdiciones, solicitudes : 0 .. MaxSolicitudes,
                  percances : 0 .. MaxPercances]
  BY ReservarOK DEF TipoReservar
<1>2. TipoReservar'
  BY <1>1 DEF TipoReservar
<1>3. TarifasEnOrden'
  BY DEF TarifasEnOrden, EnEdicion
<1>4. FichaAlDia'
  BY DEF FichaAlDia, Dia
<1>5. RechazoConCausa'
  BY DEF RechazoConCausa, Dia
<1>. QED
  BY <1>2, <1>3, <1>4, <1>5

\* Every step.
LEMMA NextReservarEnOrden ==
    ASSUME ReservarEnOrden, [NextReservar]_varsReservar PROVE ReservarEnOrden'
<1>1. CASE NextEdiciones
  BY <1>1, FundirEdicionReservar, CotejarEdicionReservar, GuardarEdicionReservar
     DEF NextEdiciones
<1>2. CASE NextFicha
  BY <1>2, AbrirFichaReservar, EscribirReservar, EnviarFichaReservar, LlegaRespuestaReservar,
     ComprobarFechaReservar, LeerServicioReservar, LeerPartesReservar, MirarHuecoReservar,
     PasaUnRatoReservar, DejaDeEstarReservar, OcuparHuecoReservar
     DEF NextFicha
<1>3. CASE UNCHANGED varsReservar
  <2>. USE <1>3 DEF varsReservar, ReservarEnOrden
  <2>1. TipoReservar'
    BY DEF TipoReservar
  <2>2. TarifasEnOrden'
    BY DEF TarifasEnOrden, EnEdicion
  <2>3. FichaAlDia' /\ RechazoConCausa'
    BY DEF FichaAlDia, RechazoConCausa, Dia, FormularioDeja, DiaAdmitido, EnTarifa
  <2>. QED
    BY <2>1, <2>2, <2>3
<1>. QED
  BY <1>1, <1>2, <1>3 DEF NextReservar

\* bookings.service.ts create, services.service.ts update and the form of the client:
\* the rates are the right way round but for two editions that cross, the page is of
\* the service as it was read, and a refusal has its cause.
THEOREM ReservarInvariante == SpecReservar => []ReservarEnOrden
<1>1. InitReservar => ReservarEnOrden
  BY IniciaReservar
<1>2. ReservarEnOrden /\ [NextReservar]_varsReservar => ReservarEnOrden'
  BY NextReservarEnOrden
<1>. QED
  BY <1>1, <1>2, PTL DEF SpecReservar

\* bookings.service.ts:76-80, services.service.ts:125-131.  There is always a price that
\* can be paid, a maximum is below the minimum only for a reason, and what the form lets
\* through is refused only for what changed or no form can know.
THEOREM ReservarSiempreCuadra == SpecReservar => []ReservarCuadra
<1>1. ReservarEnOrden => ReservarCuadra
  <2>. SUFFICES ASSUME ReservarEnOrden PROVE ReservarCuadra
    OBVIOUS
  <2>1. tarifa \in Tarifas /\ PrecioMinimo \in Nat /\ PrecioMaximo \in Nat
    BY ReservarOK DEF ReservarEnOrden, TipoReservar
  <2>2. tarifa.min \in Precios /\ EnTarifa(tarifa, tarifa.min) /\ ComprobarPrecio(tarifa, tarifa.min)
    BY <2>1 DEF Tarifas, Precios, EnTarifa, ConTope, ComprobarPrecio, SinMaximo
  <2>3. SiempreHayPrecio
    BY <2>2 DEF SiempreHayPrecio
  <2>4. AlRevesPorAlgo
    BY DEF ReservarEnOrden, TarifasEnOrden, AlRevesPorAlgo
  <2>. QED
    BY <2>3, <2>4 DEF ReservarEnOrden, ReservarCuadra
<1>. QED
  BY <1>1, ReservarInvariante, PTL

-----------------------------------------------------------------------------
(***************************************************************************)
(* The download.  What is there all the while hangs from what is there all *)
(* the while; and who asks for what hangs from something has that already. *)
(***************************************************************************)

\* What is not read is empty; and what the sections read after others start from is.
LeeDespues ==
    /\ \A c \in Apartados \ hechas : descarga[c] = {}
    /\ "recibidas" \in hechas => "servicios" \in hechas
    /\ "mensajes" \in hechas => "conversaciones" \in hechas

DescargaEnOrden ==
    /\ TipoDescarga /\ Enteros(siempre) /\ Enteros(alguna)
    /\ LeeDespues /\ LaDescargaCuadra

LEMMA LosApartados ==
    /\ Apartados = {"servicios", "comoCliente", "comoProfesional", "pagos", "escritas",
                    "recibidas", "conversaciones", "mensajes", "avisos"}
    /\ \A n \in DOMAIN Despues : n \in 1 .. 4
    /\ Despues[1] = "recibidas" /\ Despues[2] = "conversaciones"
    /\ Despues[3] = "mensajes" /\ Despues[4] = "avisos"
<1>1. DOMAIN Despues = {1, 2, 3, 4}
  BY DEF Despues
<1>2. /\ Despues[1] = "recibidas" /\ Despues[2] = "conversaciones"
      /\ Despues[3] = "mensajes" /\ Despues[4] = "avisos"
  BY DEF Despues
<1>. QED
  BY <1>1, <1>2 DEF Apartados, DeGolpe

\* A section is read after what it starts from.
LEMMA LeeEnOrden ==
    ASSUME NEW c, LeerApartado(c)
    PROVE  /\ c \in Apartados
           /\ c = "recibidas" => "servicios" \in hechas
           /\ c = "mensajes" => "conversaciones" \in hechas
<1>1. CASE c \in DeGolpe
  BY <1>1, LosApartados DEF DeGolpe
<1>2. ASSUME NEW n \in DOMAIN Despues, c = Despues[n],
             DeGolpe \cup {Despues[m] : m \in 1 .. n - 1} \subseteq hechas
      PROVE  /\ c \in Apartados
             /\ c = "recibidas" => "servicios" \in hechas
             /\ c = "mensajes" => "conversaciones" \in hechas
  <2>1. c \in Apartados
    BY <1>2 DEF Apartados
  <2>2. "servicios" \in hechas
    BY <1>2 DEF DeGolpe
  <2>3. ASSUME c = "mensajes" PROVE "conversaciones" \in hechas
    <3>1. n = 3
      <4>1. n = 1 \/ n = 2 \/ n = 3 \/ n = 4
        BY LosApartados
      <4>. QED
        BY <1>2, <2>3, <4>1, LosApartados
    <3>2. 2 \in 1 .. n - 1
      BY <3>1
    <3>. QED
      BY <1>2, <3>2, LosApartados
  <2>. QED
    BY <2>1, <2>2, <2>3
<1>. QED
  BY <1>1, <1>2 DEF LeerApartado

\* A section has all that has been there all the while, and nothing of others: what
\* is read from an earlier one, because that one has it.
LEMMA EncuentraLoSuyo ==
    ASSUME DescargaEnOrden, NEW c \in Apartados,
           c = "recibidas" => "servicios" \in hechas,
           c = "mensajes" => "conversaciones" \in hechas
    PROVE  /\ {d \in siempre : EsSuyo(c, d)} \subseteq Encuentra(c)
           /\ Encuentra(c) \subseteq {d \in existentes : EsSuyo(c, d)}
<1>1. /\ siempre \subseteq existentes /\ existentes \subseteq Datos
      /\ descarga \in [Apartados -> SUBSET Datos]
  BY DEF DescargaEnOrden, TipoDescarga
<1>2. ASSUME NEW s, NEW t, NEW r, t \in hechas,
             <<s, t, r>> \in {<<"recibidas", "servicios", "valoraciones">>,
                              <<"mensajes", "conversaciones", "mensajes">>}
      PROVE  /\ {d \in siempre : EsSuyo(s, d)} \subseteq DeLasDe(r, descarga[t])
             /\ DeLasDe(r, descarga[t]) \subseteq {d \in existentes : EsSuyo(s, d)}
  <2>1. \A d : EsSuyo(s, d) <=>
             d.tabla = r /\ \E f \in Datos : f.id = d.de /\ f.tabla = t /\ EsDelQueDescarga(f)
    BY <1>2 DEF EsSuyo
  <2>2. \A f : EsSuyo(t, f) <=> f.tabla = t /\ EsDelQueDescarga(f)
    BY <1>2 DEF EsSuyo
  <2>3. /\ {f \in siempre : EsSuyo(t, f)} \subseteq descarga[t]
        /\ \A f \in descarga[t] : EsSuyo(t, f) /\ f \in Datos
    <3>1. t \in Apartados
      BY <1>2, LosApartados
    <3>. QED
      BY <1>1, <1>2, <3>1 DEF DescargaEnOrden, LaDescargaCuadra
  <2>4. ASSUME NEW d \in siempre, EsSuyo(s, d) PROVE d \in DeLasDe(r, descarga[t])
    <3>1. PICK f \in Datos : f.id = d.de /\ f.tabla = t /\ EsDelQueDescarga(f)
      BY <2>1, <2>4
    <3>2. d.de # 0
      BY <3>1, DescargaOK
    <3>3. PICK g \in siempre : g.id = d.de
      BY <3>2, <2>4 DEF DescargaEnOrden, Enteros
    <3>4. g = f
      BY <1>1, <3>1, <3>3, DescargaOK
    <3>5. f \in descarga[t]
      BY <2>2, <2>3, <3>1, <3>3, <3>4
    <3>. QED
      BY <1>1, <2>1, <2>4, <3>1, <3>5 DEF DeLasDe, Tabla
  <2>5. ASSUME NEW d \in DeLasDe(r, descarga[t]) PROVE d \in existentes /\ EsSuyo(s, d)
    <3>1. d \in existentes /\ d.tabla = r
      BY DEF DeLasDe, Tabla
    <3>2. PICK f \in descarga[t] : f.id = d.de
      BY DEF DeLasDe
    <3>. QED
      BY <2>1, <2>2, <2>3, <3>1, <3>2
  <2>. QED
    BY <2>4, <2>5
<1>3. CASE c = "recibidas"
  BY <1>2, <1>3 DEF Encuentra
<1>4. CASE c = "mensajes"
  BY <1>2, <1>4 DEF Encuentra
<1>5. CASE c \notin {"recibidas", "mensajes"}
  BY <1>1, <1>5, LosApartados DEF Encuentra, EsSuyo, EsDelQueDescarga, Tabla
<1>. QED
  BY <1>3, <1>4, <1>5

LEMMA IniciaDescarga == InitDescarga => DescargaEnOrden
<1> SUFFICES ASSUME InitDescarga PROVE DescargaEnOrden
  OBVIOUS
<1>1. TipoDescarga
  BY DescargaOK DEF InitDescarga, TipoDescarga
<1>2. Enteros(siempre) /\ Enteros(alguna) /\ LeeDespues
  BY LosApartados DEF InitDescarga, LeeDespues
<1>3. LaDescargaCuadra
  BY LosApartados DEF InitDescarga, LaDescargaCuadra
<1>. QED
  BY <1>1, <1>2, <1>3 DEF DescargaEnOrden

\* A section is read.
LEMMA LeerMantiene ==
    ASSUME DescargaEnOrden, NEW c \in Apartados, LeerApartado(c) PROVE DescargaEnOrden'
<1>1. /\ TipoDescarga /\ Enteros(siempre) /\ Enteros(alguna) /\ LeeDespues /\ LaDescargaCuadra
      /\ c \notin hechas
      /\ descarga' = [descarga EXCEPT ![c] = Encuentra(c)] /\ hechas' = hechas \cup {c}
      /\ UNCHANGED <<existentes, siempre, alguna, escrituras>>
  BY DEF DescargaEnOrden, LeerApartado
<1>2. /\ c = "recibidas" => "servicios" \in hechas
      /\ c = "mensajes" => "conversaciones" \in hechas
  BY LeeEnOrden
<1>3. /\ {d \in siempre : EsSuyo(c, d)} \subseteq Encuentra(c)
      /\ Encuentra(c) \subseteq {d \in existentes : EsSuyo(c, d)}
  BY <1>2, EncuentraLoSuyo
<1>4. descarga'[c] = Encuentra(c) /\ \A e \in Apartados \ {c} : descarga'[e] = descarga[e]
  BY <1>1 DEF TipoDescarga
<1>5. TipoDescarga'
  BY <1>1, <1>3 DEF TipoDescarga, Enteros
<1>6. Enteros(siempre)' /\ Enteros(alguna)' /\ LeeDespues'
  BY <1>1, <1>2, <1>4 DEF Enteros, LeeDespues
<1>7. ASSUME NEW e \in hechas'
      PROVE  /\ {d \in siempre : EsSuyo(e, d)} \subseteq descarga'[e]
             /\ descarga'[e] \subseteq {d \in alguna : EsSuyo(e, d)}
  <2>1. CASE e = c
    BY <1>1, <1>3, <1>4, <2>1 DEF TipoDescarga
  <2>2. CASE e # c
    BY <1>1, <1>4, <1>7, <2>2 DEF TipoDescarga, LaDescargaCuadra
  <2>. QED
    BY <2>1, <2>2
<1>8. ASSUME NEW s, NEW t,
             <<s, t>> \in {<<"mensajes", "conversaciones">>, <<"recibidas", "servicios">>},
             \A d \in descarga[s] : \E f \in descarga[t] : f.id = d.de
      PROVE  \A d \in descarga'[s] : \E f \in descarga'[t] : f.id = d.de
  <2>1. s \in Apartados /\ t \in Apartados /\ s # t
    BY <1>8, LosApartados
  <2>2. CASE c = s
    <3>1. descarga'[t] = descarga[t] /\ descarga'[s] = Encuentra(s)
      BY <1>4, <2>1, <2>2
    <3>. QED
      BY <1>8, <3>1 DEF Encuentra, DeLasDe
  <2>3. CASE c = t
    <3>1. s \notin hechas /\ descarga'[s] = {}
      BY <1>1, <1>4, <1>8, <2>1, <2>3 DEF LeeDespues
    <3>. QED
      BY <3>1
  <2>4. CASE c \notin {s, t}
    BY <1>4, <1>8, <2>1, <2>4
  <2>. QED
    BY <2>2, <2>3, <2>4
<1>9. ASSUME NEW d \in Datos, d \in alguna, d.uno = Yo, d.tabla \in {"pagos", "valoraciones"},
             "comoCliente" \in hechas'
      PROVE  CuelgaDe(d, descarga'["comoCliente"] \cup (alguna \ siempre))
  <2>1. d.de # 0
    BY <1>9, DescargaOK
  <2>2. PICK f \in alguna : f.id = d.de
    BY <1>1, <1>9, <2>1 DEF Enteros
  <2>3. CASE f \in siempre
    <3>1. f \in Datos /\ f.tabla = "reservas" /\ f.uno = Yo
      BY <1>1, <1>9, <2>2, <2>3, DescargaOK DEF TipoDescarga
    <3>2. EsSuyo("comoCliente", f)
      BY <3>1 DEF EsSuyo, EsDelQueDescarga
    <3>3. f \in descarga'["comoCliente"]
      BY <1>7, <1>9, <2>3, <3>2
    <3>. QED
      BY <2>2, <3>3 DEF CuelgaDe
  <2>4. CASE f \notin siempre
    BY <2>2, <2>4 DEF CuelgaDe
  <2>. QED
    BY <2>3, <2>4
<1>10. ASSUME "comoCliente" \in hechas',
              NEW d \in descarga'["pagos"] \cup descarga'["escritas"]
       PROVE  CuelgaDe(d, descarga'["comoCliente"] \cup (alguna \ siempre))
  <2>1. PICK e \in {"pagos", "escritas"} : d \in descarga'[e]
    BY <1>10
  <2>2. e \in Apartados /\ e \in hechas'
    BY <1>6, <2>1, LosApartados DEF LeeDespues
  <2>3. d \in alguna /\ EsSuyo(e, d) /\ d \in Datos
    BY <1>1, <1>5, <1>7, <2>1, <2>2 DEF TipoDescarga
  <2>4. d.uno = Yo /\ d.tabla \in {"pagos", "valoraciones"}
    BY <2>1, <2>3 DEF EsSuyo, EsDelQueDescarga
  <2>. QED
    BY <1>9, <1>10, <2>3, <2>4
<1>11. LaDescargaCuadra'
  <2>1. \A d \in descarga'["mensajes"] : \E f \in descarga'["conversaciones"] : f.id = d.de
    <3>1. \A d \in descarga["mensajes"] : \E f \in descarga["conversaciones"] : f.id = d.de
      BY <1>1 DEF LaDescargaCuadra, CuelgaDe
    <3>. QED
      BY ONLY <1>8, <3>1
  <2>2. \A d \in descarga'["recibidas"] : \E f \in descarga'["servicios"] : f.id = d.de
    <3>1. \A d \in descarga["recibidas"] : \E f \in descarga["servicios"] : f.id = d.de
      BY <1>1 DEF LaDescargaCuadra, CuelgaDe
    <3>. QED
      BY ONLY <1>8, <3>1
  <2>. QED
    BY <1>1, <1>7, <1>10, <2>1, <2>2 DEF LaDescargaCuadra, EsSuyo, CuelgaDe
<1>. QED
  BY <1>5, <1>6, <1>11 DEF DescargaEnOrden

\* A row is written or deleted: what there has been all the while is still whole,
\* because no two rows have one identifier.
LEMMA EscribirMantiene ==
    ASSUME DescargaEnOrden, NEW r \in Datos, Escribe(r) PROVE DescargaEnOrden'
<1>1. /\ TipoDescarga /\ Enteros(siempre) /\ Enteros(alguna) /\ LeeDespues /\ LaDescargaCuadra
      /\ escrituras < MaxEscrituras /\ escrituras' = escrituras + 1
      /\ existentes' = IF r \in existentes THEN existentes \ {r} ELSE existentes \cup {r}
      /\ Enteros(existentes')
      /\ siempre' = siempre \cap existentes' /\ alguna' = alguna \cup existentes'
      /\ UNCHANGED <<descarga, hechas>>
  BY DEF DescargaEnOrden, Escribe
<1>2. TipoDescarga'
  <2>1. existentes' \subseteq Datos /\ escrituras' \in 0 .. MaxEscrituras
    BY <1>1, DescargaOK DEF TipoDescarga
  <2>. QED
    BY <1>1, <2>1 DEF TipoDescarga, Enteros
<1>3. ASSUME NEW d \in siempre', d.de # 0 PROVE \E f \in siempre' : f.id = d.de
  <2>1. PICK f \in siempre : f.id = d.de
    BY <1>1, <1>3 DEF Enteros
  <2>2. PICK g \in existentes' : g.id = d.de
    BY <1>1, <1>3 DEF Enteros
  <2>3. f = g
    BY <1>1, <1>2, <2>1, <2>2, DescargaOK DEF TipoDescarga
  <2>. QED
    BY <1>1, <2>1, <2>2, <2>3
<1>4. Enteros(siempre)' /\ Enteros(alguna)' /\ LeeDespues'
  BY <1>1, <1>3 DEF Enteros, LeeDespues
<1>5. LaDescargaCuadra'
  <2>1. alguna \ siempre \subseteq alguna' \ siempre'
    BY <1>1
  <2>. QED
    BY <1>1, <2>1 DEF LaDescargaCuadra, EsSuyo, CuelgaDe
<1>. QED
  BY <1>2, <1>4, <1>5 DEF DescargaEnOrden

\* The inductive invariant of the download.
THEOREM DescargaInvariante == SpecDescarga => []DescargaEnOrden
<1>1. DescargaEnOrden /\ [NextDescarga]_varsDescarga => DescargaEnOrden'
  <2> SUFFICES ASSUME DescargaEnOrden, [NextDescarga]_varsDescarga PROVE DescargaEnOrden'
    OBVIOUS
  <2>1. CASE NextDescarga
    BY <2>1, LeerMantiene, EscribirMantiene DEF NextDescarga
  <2>2. CASE UNCHANGED varsDescarga
    BY <2>2 DEF varsDescarga, DescargaEnOrden, TipoDescarga, Enteros, LeeDespues,
                LaDescargaCuadra, EsSuyo, CuelgaDe
  <2>. QED
    BY <2>1, <2>2
<1>. QED
  BY IniciaDescarga, <1>1, PTL DEF SpecDescarga

\* LaDescargaCuadra (users.service.ts:145-153): a person's file has all that has been
\* theirs all the while and nothing of others; its messages and the reviews received hang
\* from what is in it, and its payments and the reviews written from a booking that is in
\* it or was written or deleted meanwhile.
THEOREM SiempreCuadraLaDescarga == SpecDescarga => []LaDescargaCuadra
<1>1. DescargaEnOrden => LaDescargaCuadra
  BY DEF DescargaEnOrden
<1>. QED
  BY <1>1, DescargaInvariante, PTL

-----------------------------------------------------------------------------
(***************************************************************************)
(* The weeks of the panel.                                                 *)
(***************************************************************************)

\* Weeks begin on Monday, on the day itself or before it.
LEMMA ElLunes ==
    ASSUME NEW d \in Int
    PROVE  /\ SemanaDe(d) \in Int /\ SemanaDe(d) <= d
           /\ \A l \in Int : (d - 6 <= l /\ l <= d /\ l % 7 = 1) => l = SemanaDe(d)
<1>1. \E l \in (d - 6) .. d : l % 7 = 1
  <2>1. d - ((d + 6) % 7) \in (d - 6) .. d /\ (d - ((d + 6) % 7)) % 7 = 1
    BY SMTT(30)
  <2>. QED
    BY <2>1
<1>2. SemanaDe(d) \in (d - 6) .. d /\ SemanaDe(d) % 7 = 1
  BY <1>1 DEF SemanaDe
<1>3. \A l, m \in (d - 6) .. d : (l % 7 = 1 /\ m % 7 = 1) => l = m
  BY SMTT(30)
<1>. QED
  BY <1>2, <1>3

LEMMA LunesDeHoy ==
    ASSUME hoy \in Nat
    PROVE  /\ LunesHace(0) = SemanaDe(hoy)
           /\ \A n \in Nat : LunesHace(n) \in Int /\ LunesHace(n) = LunesHace(0) - n * 7
<1>1. LunesHace(0) \in Int /\ hoy - 6 <= LunesHace(0) /\ LunesHace(0) <= hoy /\ LunesHace(0) % 7 = 1
  BY SMTT(30) DEF LunesHace
<1>2. LunesHace(0) = SemanaDe(hoy)
  BY <1>1, ElLunes
<1>3. \A n \in Nat : LunesHace(n) \in Int /\ LunesHace(n) = LunesHace(0) - n * 7
  BY DEF LunesHace
<1>. QED
  BY <1>2, <1>3

\* A week later, or none.
LEMMA ElLunesCrece ==
    ASSUME hoy \in Nat, hoy' = hoy + 1, NEW n \in Nat
    PROVE  LunesHace(n) <= LunesHace(n)'
BY SMTT(30) DEF LunesHace

\* The series asked for from a day has, of the weeks that begin since, all there is.
SerieEntera(r, desde) ==
    \A w \in Int : desde <= w =>
        /\ w \in DOMAIN r.serie <=> w \in DOMAIN r.entera
        /\ w \in DOMAIN r.serie => r.serie[w] = r.entera[w]

LEMMA LaSerieEsEntera ==
    ASSUME NEW S, NEW desde \in Int, \A c \in S : filas[c].dia \in Int
    PROVE  SerieEntera([serie |-> PorSemana({c \in S : filas[c].dia >= desde}),
                        entera |-> PorSemana(S)], desde)
<1> DEFINE R == {c \in S : filas[c].dia >= desde}
<1> SUFFICES ASSUME NEW w \in Int, desde <= w
             PROVE  /\ w \in DOMAIN PorSemana(R) <=> w \in DOMAIN PorSemana(S)
                    /\ w \in DOMAIN PorSemana(R) => PorSemana(R)[w] = PorSemana(S)[w]
  BY DEF SerieEntera
<1>1. \A c \in S : SemanaDe(filas[c].dia) = w => c \in R
  BY ElLunes
<1>2. {c \in R : SemanaDe(filas[c].dia) = w} = {c \in S : SemanaDe(filas[c].dia) = w}
  BY <1>1
<1>3. \A X : w \in DOMAIN PorSemana(X) <=> \E c \in X : SemanaDe(filas[c].dia) = w
  <2>1. \A X : DOMAIN PorSemana(X) = {SemanaDe(filas[c].dia) : c \in X}
    BY DEF PorSemana
  <2>. QED
    BY <2>1
<1>4. w \in DOMAIN PorSemana(R) <=> w \in DOMAIN PorSemana(S)
  <2>1. R \subseteq S
    OBVIOUS
  <2> HIDE DEF R
  <2>. QED
    BY <1>1, <1>3, <2>1
<1>5. \A X : w \in DOMAIN PorSemana(X) =>
                 PorSemana(X)[w] = LoQueHay({c \in X : SemanaDe(filas[c].dia) = w})
  BY DEF PorSemana
<1>6. LoQueHay({c \in R : SemanaDe(filas[c].dia) = w}) =
          LoQueHay({c \in S : SemanaDe(filas[c].dia) = w})
  BY <1>2
<1>. QED
  BY <1>4, <1>5, <1>6

\* What is answered of the weeks is all there is of those to be shown.
SerieBien ==
    /\ Pedidas = {} \/ (Pedidas = Consultas[grupo] /\ consulta.desde <= LunesHace(SEMANAS - 1))
    /\ (grupo = "reservas" /\ "porSemana" \in Pedidas) =>
           \/ consulta.cifras["porSemana"] = SinLeer
           \/ SerieEntera(Leida("porSemana"), consulta.desde)
    /\ cuadro # SinLeer => Pedidas # {} /\ \A c \in Pedidas : consulta.cifras[c] # SinLeer

SemanasEnOrden == TipoAgregados /\ SerieBien /\ LasSemanasSonEsas

LEMMA IniciaSemanas == InitAgregados => SemanasEnOrden
<1> SUFFICES ASSUME InitAgregados PROVE SemanasEnOrden
  OBVIOUS
<1>1. Pedidas = {} /\ cuadro = SinLeer
  BY DEF InitAgregados, Pedidas, NadaLeido
<1>2. TipoAgregados
  <2>1. hoy \in Nat /\ cambios \in 0 .. MaxCambios
    BY AgregadosOK DEF InitAgregados
  <2>2. lectura \in [pagina : Nat, paginas : Nat, vistas : SUBSET (1 .. MaxAnotadas),
                     alAbrir : 0 .. MaxAnotadas]
    BY AgregadosOK DEF InitAgregados, SinAbrir
  <2>. QED
    BY <2>1, <2>2 DEF InitAgregados, TipoAgregados, NadaLeido
<1>. QED
  BY <1>1, <1>2 DEF SemanasEnOrden, SerieBien, LasSemanasSonEsas

\* What a step that neither asks, nor answers, nor passes the day leaves as it was.
LEMMA SemanasQuietas ==
    ASSUME SemanasEnOrden, TipoAgregados', UNCHANGED <<grupo, consulta, cuadro, hoy>>
    PROVE  SemanasEnOrden'
BY DEF SemanasEnOrden, SerieBien, LasSemanasSonEsas, Pedidas, Leida, LunesHace, SerieEntera,
       SemanaDe

LEMMA PedirMantiene == ASSUME SemanasEnOrden, PedirCifras PROVE SemanasEnOrden'
<1>1. /\ TipoAgregados /\ consulta = NadaLeido
      /\ consulta' = [desde |-> LunesHace(SEMANAS - 1),
                      cifras |-> [c \in Consultas[grupo] |-> SinLeer]]
      /\ UNCHANGED <<grupo, soloDemostracion, filas, hoy, cuadro, anotadas, lectura, cambios>>
  BY DEF SemanasEnOrden, PedirCifras
<1>2. LunesHace(SEMANAS - 1) \in Int /\ LunesHace(SEMANAS - 1)' = LunesHace(SEMANAS - 1)
  BY <1>1, AgregadosOK, LunesDeHoy DEF TipoAgregados, LunesHace
<1>3. TipoAgregados'
  BY <1>1, <1>2 DEF TipoAgregados
<1>4. Pedidas' = Consultas[grupo] /\ \A c \in Consultas[grupo] : consulta'.cifras[c] = SinLeer
  BY <1>1 DEF Pedidas
<1>5. cuadro = SinLeer
  <2>1. Pedidas = {}
    BY <1>1 DEF NadaLeido, Pedidas
  <2>. QED
    BY <2>1 DEF SemanasEnOrden, SerieBien
<1>6. SerieBien'
  BY <1>1, <1>2, <1>4, <1>5 DEF SerieBien
<1>. QED
  BY <1>1, <1>3, <1>5, <1>6 DEF SemanasEnOrden, LasSemanasSonEsas

LEMMA CifraMantiene ==
    ASSUME SemanasEnOrden, NEW c \in Pedidas, LeerCifra(c) PROVE SemanasEnOrden'
<1>1. /\ TipoAgregados /\ consulta.cifras[c] = SinLeer
      /\ consulta' = [consulta EXCEPT !.cifras = [@ EXCEPT ![c] = <<Cifra(c)>>]]
      /\ UNCHANGED <<grupo, soloDemostracion, filas, hoy, cuadro, anotadas, lectura, cambios>>
  BY DEF SemanasEnOrden, LeerCifra
<1>2. /\ DOMAIN consulta = {"desde", "cifras"} /\ consulta.desde \in Int
      /\ filas \in [Claves -> Posibles[grupo] \cup {NoHay}]
  BY <1>1 DEF TipoAgregados
<1>3. /\ consulta'.desde = consulta.desde /\ DOMAIN consulta' = {"desde", "cifras"}
      /\ consulta'.cifras = [consulta.cifras EXCEPT ![c] = <<Cifra(c)>>]
  BY <1>1, <1>2
<1>4. TipoAgregados'
  BY <1>1, <1>3 DEF TipoAgregados
<1>5. /\ Pedidas' = Pedidas /\ consulta'.cifras[c] = <<Cifra(c)>>
      /\ \A e \in Pedidas : e # c => consulta'.cifras[e] = consulta.cifras[e]
  BY <1>3 DEF Pedidas
<1>6. cuadro = SinLeer
  BY <1>1 DEF SemanasEnOrden, SerieBien
<1>7. ASSUME grupo = "reservas", "porSemana" \in Pedidas
      PROVE  \/ consulta'.cifras["porSemana"] = SinLeer
             \/ SerieEntera(Leida("porSemana")', consulta.desde)
  <2>1. CASE c # "porSemana"
    BY <1>5, <1>7, <2>1 DEF SemanasEnOrden, SerieBien, Leida
  <2>2. CASE c = "porSemana"
    <3> DEFINE R == [serie |-> PorSemana({r \in Suyas : filas[r].dia >= consulta.desde}),
                     entera |-> PorSemana(Suyas)]
    <3>1. \A r \in Suyas : filas[r].dia \in Int
      BY <1>2, <1>7, AgregadosOK DEF Suyas, Acotar, Hay
    <3>2. SerieEntera(R, consulta.desde)
      BY <1>2, <3>1, LaSerieEsEntera
    <3>3. Cifra(c) = R
      BY <1>7, <2>2 DEF Cifra, DeReservas
    <3> HIDE DEF R
    <3>. QED
      BY <1>5, <2>2, <3>2, <3>3 DEF Leida
  <2>. QED
    BY <2>1, <2>2
<1>8. LunesHace(SEMANAS - 1)' = LunesHace(SEMANAS - 1)
  BY <1>1 DEF LunesHace
<1>9. SerieBien'
  BY <1>1, <1>3, <1>5, <1>6, <1>7, <1>8 DEF SemanasEnOrden, SerieBien
<1>. QED
  BY <1>1, <1>4, <1>6, <1>9 DEF SemanasEnOrden, LasSemanasSonEsas

\* The answer: the last of its weeks is that of today, and the first is not before the
\* one asked for, although the day may have passed since.
LEMMA ResponderMantiene == ASSUME SemanasEnOrden, Responder PROVE SemanasEnOrden'
<1>1. /\ TipoAgregados /\ SerieBien
      /\ Pedidas # {} /\ \A c \in Pedidas : consulta.cifras[c] # SinLeer
      /\ cuadro' = IF grupo = "reservas" THEN CompletarSemanas(Leida("porSemana").serie)
                   ELSE [i \in 1 .. SEMANAS |-> SinLeer]
      /\ UNCHANGED <<grupo, soloDemostracion, filas, hoy, consulta, anotadas, lectura, cambios>>
  BY DEF SemanasEnOrden, Responder
<1>2. TipoAgregados'
  <2>1. DOMAIN cuadro' = 1 .. SEMANAS
    BY <1>1 DEF CompletarSemanas
  <2>. QED
    BY <1>1, <2>1 DEF TipoAgregados
<1>3. SerieBien'
  <2>1. LunesHace(SEMANAS - 1)' = LunesHace(SEMANAS - 1)
    BY <1>1 DEF LunesHace
  <2>. QED
    BY <1>1, <2>1 DEF SerieBien, Pedidas, Leida, SerieEntera
<1>4. ASSUME grupo = "reservas" PROVE LasSemanasSonEsas'
  <2>1. SEMANAS \in Nat /\ SEMANAS >= 1 /\ hoy \in Nat /\ consulta.desde \in Int
    BY <1>1, AgregadosOK DEF TipoAgregados
  <2>2. Pedidas = Consultas[grupo] /\ "porSemana" \in Pedidas
    BY <1>1, <1>4 DEF SerieBien, Consultas
  <2>3. SerieEntera(Leida("porSemana"), consulta.desde) /\ consulta.desde <= LunesHace(SEMANAS - 1)
    BY <1>1, <1>4, <2>2 DEF SerieBien
  <2>4. PICK R : R = Leida("porSemana")
    OBVIOUS
  <2>5. LunesHace(0) = SemanaDe(hoy) /\ LunesHace(0) \in Int
        /\ \A n \in Nat : LunesHace(n) \in Int /\ LunesHace(n) = LunesHace(0) - n * 7
    BY <2>1, LunesDeHoy
  <2>6. ASSUME NEW i \in 1 .. SEMANAS
        PROVE  /\ cuadro'[i].semana = LunesHace(SEMANAS - i)
               /\ cuadro'[i].semana \in Int /\ cuadro'[i].semana = LunesHace(0) - (SEMANAS - i) * 7
               /\ consulta.desde <= cuadro'[i].semana
               /\ cuadro'[i].reservas = IF cuadro'[i].semana \in DOMAIN R.serie
                                        THEN R.serie[cuadro'[i].semana].reservas ELSE 0
               /\ cuadro'[i].facturado = IF cuadro'[i].semana \in DOMAIN R.serie
                                         THEN R.serie[cuadro'[i].semana].facturado ELSE 0
    <3>1. SEMANAS - i \in Nat /\ SEMANAS - i <= SEMANAS - 1 /\ SEMANAS - 1 \in Nat
      BY <2>1
    <3>2. LunesHace(SEMANAS - 1) <= LunesHace(SEMANAS - i)
      BY <2>5, <3>1
    <3>3. PICK w \in Int : w = LunesHace(SEMANAS - i)
      BY <2>5, <3>1
    <3>4. cuadro'[i] = [semana |-> w,
                       reservas |-> IF w \in DOMAIN R.serie THEN R.serie[w].reservas ELSE 0,
                       facturado |-> IF w \in DOMAIN R.serie THEN R.serie[w].facturado ELSE 0]
      BY <1>1, <1>4, <2>4, <3>3 DEF CompletarSemanas
    <3>5. consulta.desde <= w
      BY <2>1, <2>3, <2>5, <3>1, <3>2, <3>3
    <3>. QED
      BY <2>5, <3>1, <3>3, <3>4, <3>5
  <2>7. Leida("porSemana")' = R /\ hoy' = hoy
    BY <1>1, <2>4 DEF Leida
  <2>8. cuadro'[SEMANAS].semana = SemanaDe(hoy)
    BY <2>1, <2>5, <2>6
  <2>9. \A i \in 2 .. SEMANAS : cuadro'[i].semana = cuadro'[i - 1].semana + 7
    BY <2>1, <2>5, <2>6
  <2>10. ASSUME NEW i \in 1 .. SEMANAS
         PROVE  IF cuadro'[i].semana \in DOMAIN R.entera
                THEN /\ cuadro'[i].reservas = R.entera[cuadro'[i].semana].reservas
                     /\ cuadro'[i].facturado = R.entera[cuadro'[i].semana].facturado
                ELSE cuadro'[i].reservas = 0 /\ cuadro'[i].facturado = 0
    <3>1. PICK w \in Int : w = cuadro'[i].semana
      BY <2>6
    <3>2. /\ w \in DOMAIN R.serie <=> w \in DOMAIN R.entera
          /\ w \in DOMAIN R.serie => R.serie[w] = R.entera[w]
      BY <2>3, <2>4, <2>6, <3>1 DEF SerieEntera
    <3>. QED
      BY <2>6, <3>1, <3>2
  <2>11. SemanaDe(hoy') = SemanaDe(hoy)
    BY <2>7
  <2>. QED
    BY <2>7, <2>8, <2>9, <2>10, <2>11 DEF LasSemanasSonEsas
<1>5. LasSemanasSonEsas'
  BY <1>1, <1>4 DEF LasSemanasSonEsas
<1>. QED
  BY <1>2, <1>3, <1>5 DEF SemanasEnOrden

LEMMA DiaMantiene == ASSUME SemanasEnOrden, PasaElDia PROVE SemanasEnOrden'
<1>1. /\ TipoAgregados /\ SerieBien /\ cuadro = SinLeer /\ hoy' = hoy + 1
      /\ UNCHANGED <<grupo, soloDemostracion, filas, consulta, cuadro, anotadas, lectura, cambios>>
  BY DEF SemanasEnOrden, PasaElDia
<1>2. hoy \in Nat /\ consulta.desde \in Int /\ SEMANAS - 1 \in Nat
  BY <1>1, AgregadosOK DEF TipoAgregados
<1>3. TipoAgregados'
  BY <1>1, <1>2 DEF TipoAgregados
<1>4. LunesHace(SEMANAS - 1) <= LunesHace(SEMANAS - 1)'
  BY <1>1, <1>2, ElLunesCrece
<1>5. LunesHace(SEMANAS - 1) \in Int /\ LunesHace(SEMANAS - 1)' \in Int
  BY <1>1, <1>2 DEF LunesHace
<1>6. SerieBien'
  BY <1>1, <1>2, <1>4, <1>5 DEF SerieBien, Pedidas, Leida, SerieEntera
<1>. QED
  BY <1>1, <1>3, <1>6 DEF SemanasEnOrden, LasSemanasSonEsas

(***************************************************************************)
(* The history, page by page.                                              *)
(***************************************************************************)

\* The entries of a page.
LEMMA LaPagina ==
    ASSUME anotadas \in Nat, NEW p \in Nat, p >= 1
    PROVE  /\ p * LIMITE \in Nat /\ (p - 1) * LIMITE \in Nat
           /\ p * LIMITE = (p - 1) * LIMITE + LIMITE
           /\ \A i \in Nat : i \in EnPagina(p) <=>
                  1 <= i /\ i + (p - 1) * LIMITE <= anotadas /\ anotadas < i + p * LIMITE
<1>1. LIMITE \in Nat \ {0}
  BY AgregadosOK
<1>2. PICK k \in Nat : k = (p - 1) * LIMITE
  BY <1>1
<1>3. p * LIMITE = k + LIMITE
  <2>1. (p - 1) * LIMITE = p * LIMITE - LIMITE
    BY <1>1, SMTT(30)
  <2>2. p * LIMITE \in Int
    BY <1>1
  <2>. QED
    BY <1>1, <1>2, <2>1, <2>2
<1>4. ASSUME NEW a \in Nat PROVE a \div LIMITE = p - 1 <=> k <= a /\ a < k + LIMITE
  <2>1. PICK q \in Nat : q = a \div LIMITE
    BY <1>1, Division
  <2>2. q * LIMITE <= a /\ a < q * LIMITE + LIMITE /\ q * LIMITE \in Nat
    BY <1>1, <2>1, Division
  <2>3. CASE q = p - 1
    BY <1>2, <2>1, <2>2, <2>3
  <2>4. CASE q >= p
    <3>1. p * LIMITE <= q * LIMITE
      BY <1>1, <2>4, SMTT(30)
    <3>. QED
      BY <1>1, <1>3, <2>1, <2>2, <2>4, <3>1
  <2>5. CASE q < p - 1
    <3>1. (q + 1) * LIMITE <= (p - 1) * LIMITE
      BY <1>1, <2>5, SMTT(30)
    <3>2. (q + 1) * LIMITE = q * LIMITE + LIMITE
      BY <1>1, SMTT(30)
    <3>. QED
      BY <1>1, <1>2, <2>1, <2>2, <2>5, <3>1, <3>2
  <2>. QED
    BY <2>1, <2>3, <2>4, <2>5
<1>5. ASSUME NEW i \in Nat
      PROVE  i \in EnPagina(p) <=> 1 <= i /\ i + k <= anotadas /\ anotadas < i + k + LIMITE
  <2>1. i \in EnPagina(p) <=> 1 <= i /\ i <= anotadas /\ (anotadas - i) \div LIMITE = p - 1
    BY DEF EnPagina
  <2>2. CASE i <= anotadas
    <3>1. anotadas - i \in Nat
      BY <2>2
    <3>2. (anotadas - i) \div LIMITE = p - 1 <=> k <= anotadas - i /\ anotadas - i < k + LIMITE
      BY <1>4, <3>1
    <3>. QED
      BY <1>1, <2>1, <2>2, <3>2
  <2>3. CASE ~(i <= anotadas)
    BY <2>1, <2>3
  <2>. QED
    BY <2>2, <2>3
<1>. QED
  BY <1>1, <1>2, <1>3, <1>5

\* What has been seen goes, without a gap, from an entry down to which the pages
\* read have come, or from the first of all.
HastaDonde(m, v, a, k, n) ==
    /\ m \in v /\ \A i \in v : m <= i
    /\ m .. a \subseteq v
    /\ m = 1 \/ m + k <= n + 1

HistoriaEnOrden ==
    /\ soloDemostracion => lectura.vistas = {}
    /\ ~soloDemostracion /\ lectura.vistas = {} => lectura.alAbrir = 0
    /\ lectura.vistas # {} =>
           /\ lectura.pagina >= 1
           /\ \E m \in Nat : HastaDonde(m, lectura.vistas, lectura.alAbrir,
                                       lectura.pagina * LIMITE, anotadas)

LEMMA LeerPaginaMantiene ==
    ASSUME TipoAgregados, HistoriaEnOrden, NEW p \in 1 .. MaxAnotadas, LeerPagina(p)
    PROVE  TipoAgregados' /\ HistoriaEnOrden'
<1>1. /\ anotadas \in Nat /\ anotadas <= MaxAnotadas /\ MaxAnotadas \in Nat /\ p \in Nat /\ p >= 1
      /\ LIMITE \in Nat \ {0}
      /\ lectura \in [pagina : Nat, paginas : Nat, vistas : SUBSET (1 .. MaxAnotadas),
                      alAbrir : 0 .. MaxAnotadas]
  BY AgregadosOK DEF TipoAgregados
<1>2. PICK E : E = IF soloDemostracion THEN {} ELSE EnPagina(p)
  OBVIOUS
<1>3. /\ lectura' = [pagina |-> p, paginas |-> 0,
                     vistas |-> IF p = 1 THEN E ELSE lectura.vistas \cup E,
                     alAbrir |-> IF p = 1 THEN anotadas ELSE lectura.alAbrir]
      /\ p = 1 \/ p = lectura.pagina + 1
      /\ UNCHANGED <<grupo, soloDemostracion, filas, hoy, consulta, cuadro, anotadas, cambios>>
  BY <1>2 DEF LeerPagina
<1>4. E \subseteq 1 .. anotadas /\ E \subseteq Nat
  BY <1>1, <1>2 DEF EnPagina
<1>5. TipoAgregados'
  <2>1. PICK v \in SUBSET (1 .. MaxAnotadas) : v = IF p = 1 THEN E ELSE lectura.vistas \cup E
    <3>1. E \subseteq 1 .. MaxAnotadas
      BY <1>1, <1>4
    <3>. QED
      BY <1>1, <3>1
  <2>2. PICK a \in 0 .. MaxAnotadas : a = IF p = 1 THEN anotadas ELSE lectura.alAbrir
    BY <1>1
  <2>3. lectura' = [pagina |-> p, paginas |-> 0, vistas |-> v, alAbrir |-> a]
    BY <1>3, <2>1, <2>2
  <2>4. lectura' \in [pagina : Nat, paginas : Nat, vistas : SUBSET (1 .. MaxAnotadas),
                      alAbrir : 0 .. MaxAnotadas]
    BY <1>1, <2>3
  <2>. QED
    BY <1>3, <2>4 DEF TipoAgregados
<1>6. PICK k \in Nat : k = (p - 1) * LIMITE /\ p * LIMITE = k + LIMITE
                       /\ \A i \in Nat : i \in EnPagina(p) <=>
                             1 <= i /\ i + k <= anotadas /\ anotadas < i + k + LIMITE
  BY <1>1, LaPagina
\* The page has from its oldest entry to its newest.
<1>7. ASSUME E # {}
      PROVE  \E n \in E : /\ n = 1 \/ n + k + LIMITE = anotadas + 1
                          /\ \A i \in Nat : i \in E <=> n <= i /\ i + k <= anotadas
  <2>1. E = EnPagina(p)
    BY <1>2, <1>7
  <2>2. PICK e \in Nat : e \in E
    BY <1>4, <1>7
  <2>3. 1 <= e /\ e + k <= anotadas /\ anotadas < e + k + LIMITE
    BY <1>6, <2>1, <2>2
  <2>4. CASE anotadas + 1 >= k + LIMITE + 1
    <3>1. PICK n \in Nat : n = anotadas + 1 - k - LIMITE
      BY <1>1, <2>4
    <3>2. \A i \in Nat : i \in E <=> n <= i /\ i + k <= anotadas
      BY <1>1, <1>6, <2>1, <2>4, <3>1
    <3>3. n \in E
      BY <1>1, <2>4, <3>1, <3>2
    <3>. QED
      BY <1>1, <3>1, <3>2, <3>3
  <2>5. CASE anotadas + 1 < k + LIMITE + 1
    <3>1. \A i \in Nat : i \in E <=> 1 <= i /\ i + k <= anotadas
      BY <1>1, <1>6, <2>1, <2>5
    <3>2. 1 \in E
      BY <1>1, <2>2, <2>3, <3>1
    <3>. QED
      BY <3>1, <3>2
  <2>. QED
    BY <1>1, <2>4, <2>5
<1>8. /\ lectura'.pagina = p /\ lectura'.alAbrir = IF p = 1 THEN anotadas ELSE lectura.alAbrir
      /\ lectura'.vistas = IF p = 1 THEN E ELSE lectura.vistas \cup E
  BY <1>3
<1>9. ASSUME lectura'.vistas # {}
      PROVE  \E m \in Nat : HastaDonde(m, lectura'.vistas, lectura'.alAbrir, k + LIMITE, anotadas)
  <2>1. ASSUME E # {}
        PROVE  \E n \in Nat : /\ n \in E
                              /\ n = 1 \/ n + k + LIMITE = anotadas + 1
                              /\ \A i \in Nat : i \in E <=> n <= i /\ i + k <= anotadas
    BY <1>4, <1>7, <2>1
  <2>2. CASE p = 1
    <3>1. k = 0
      BY <1>1, <1>6, <2>2
    <3>2. PICK n \in Nat : /\ n \in E
                           /\ n = 1 \/ n + k + LIMITE = anotadas + 1
                           /\ \A i \in Nat : i \in E <=> n <= i /\ i + k <= anotadas
      BY <1>8, <1>9, <2>1, <2>2
    <3>3. HastaDonde(n, E, anotadas, k + LIMITE, anotadas)
      <4>1. \A i \in n .. anotadas : i \in E
        BY <1>1, <3>1, <3>2
      <4>2. \A i \in E : n <= i
        BY <1>1, <1>4, <3>2
      <4>3. n = 1 \/ n + (k + LIMITE) <= anotadas + 1
        BY <1>1, <3>2
      <4>. QED
        BY <1>1, <3>2, <4>1, <4>2, <4>3 DEF HastaDonde
    <3>. QED
      BY <1>8, <2>2, <3>3
  <2>3. CASE p # 1 /\ lectura.vistas = {}
    <3>1. E # {} /\ ~soloDemostracion
      BY <1>2, <1>8, <1>9, <2>3
    <3>2. lectura'.alAbrir = 0 /\ lectura'.vistas = E
      BY <1>8, <2>3, <3>1 DEF HistoriaEnOrden
    <3>3. PICK n \in Nat : /\ n \in E
                           /\ n = 1 \/ n + k + LIMITE = anotadas + 1
                           /\ \A i \in Nat : i \in E <=> n <= i /\ i + k <= anotadas
      BY <2>1, <3>1
    <3>4. HastaDonde(n, E, 0, k + LIMITE, anotadas)
      <4>1. n .. 0 = {}
        BY <1>1, <1>4, <3>3
      <4>2. \A i \in E : n <= i
        BY <1>1, <1>4, <3>3
      <4>3. n = 1 \/ n + (k + LIMITE) <= anotadas + 1
        BY <1>1, <3>3
      <4>. QED
        BY <1>1, <3>3, <4>1, <4>2, <4>3 DEF HastaDonde
    <3>. QED
      BY <3>2, <3>4
  <2>4. CASE p # 1 /\ lectura.vistas # {}
    <3>1. ~soloDemostracion /\ lectura.pagina = p - 1
      BY <1>1, <1>3, <2>4 DEF HistoriaEnOrden
    <3>2. PICK m \in Nat : HastaDonde(m, lectura.vistas, lectura.alAbrir, k, anotadas)
      BY <1>6, <2>4, <3>1 DEF HistoriaEnOrden
    <3>3. /\ m \in lectura.vistas /\ m \in 1 .. MaxAnotadas
          /\ \A i \in lectura.vistas : m <= i /\ i \in Nat
          /\ \A i \in m .. lectura.alAbrir : i \in lectura.vistas
          /\ m = 1 \/ m + k <= anotadas + 1
      BY <1>1, <3>2 DEF HastaDonde
    <3>4. PICK a \in Nat : a = lectura.alAbrir /\ a = lectura'.alAbrir
      BY <1>1, <1>8, <2>4
    <3>5. PICK v : v = lectura.vistas /\ lectura'.vistas = v \cup E
      BY <1>8, <2>4
    <3>6. CASE E = {}
      <4>1. ~(1 <= anotadas - k)
        <5>1. SUFFICES ASSUME 1 <= anotadas - k PROVE FALSE
          OBVIOUS
        <5>2. PICK i \in Nat : i = anotadas - k
          BY <1>1, <5>1
        <5>3. i \in EnPagina(p)
          BY <1>1, <1>6, <5>1, <5>2
        <5>. QED
          BY <1>2, <3>1, <3>6, <5>3
      <4>2. m = 1
        BY <1>1, <3>3, <4>1
      <4>3. HastaDonde(m, v, a, k + LIMITE, anotadas)
        BY <3>3, <3>4, <3>5, <4>2 DEF HastaDonde
      <4>. QED
        BY <3>4, <3>5, <3>6, <4>3
    <3>7. CASE E # {}
      <4>1. PICK n \in Nat : /\ n \in E
                             /\ n = 1 \/ n + k + LIMITE = anotadas + 1
                             /\ \A i \in Nat : i \in E <=> n <= i /\ i + k <= anotadas
        BY <2>1, <3>7
      <4>2. 1 <= n
        BY <1>1, <1>4, <4>1
      <4>3. CASE m <= n
        <5>1. \A i \in v \cup E : m <= i
          BY <1>1, <1>4, <3>3, <3>5, <4>1, <4>3
        <5>2. m = 1 \/ m + (k + LIMITE) <= anotadas + 1
          BY <1>1, <3>3, <4>1, <4>3
        <5>3. HastaDonde(m, v \cup E, a, k + LIMITE, anotadas)
          BY <3>3, <3>4, <3>5, <5>1, <5>2 DEF HastaDonde
        <5>. QED
          BY <3>4, <3>5, <5>3
      <4>4. CASE n < m
        <5>1. \A i \in v \cup E : n <= i
          BY <1>1, <1>4, <3>3, <3>5, <4>1, <4>4
        <5>2. n = 1 \/ n + (k + LIMITE) <= anotadas + 1
          BY <1>1, <4>1
        <5>3. ASSUME NEW i \in n .. a PROVE i \in v \cup E
          <6>1. CASE i < m
            BY <1>1, <3>3, <4>1, <4>2, <4>4, <5>3, <6>1
          <6>2. CASE m <= i
            BY <3>3, <3>4, <3>5, <5>3, <6>2
          <6>. QED
            BY <3>3, <5>3, <6>1, <6>2
        <5>4. HastaDonde(n, v \cup E, a, k + LIMITE, anotadas)
          BY <1>1, <4>1, <5>1, <5>2, <5>3 DEF HastaDonde
        <5>. QED
          BY <3>4, <3>5, <5>4
      <4>. QED
        BY <3>3, <4>3, <4>4
    <3>. QED
      BY <3>6, <3>7
  <2>. QED
    BY <2>2, <2>3, <2>4
<1>10. /\ soloDemostracion => lectura'.vistas = {}
       /\ ~soloDemostracion /\ lectura'.vistas = {} => lectura'.alAbrir = 0
  <2>1. ASSUME ~soloDemostracion, p = 1, E = {} PROVE anotadas = 0
    <3>1. SUFFICES ASSUME anotadas >= 1 PROVE FALSE
      BY <1>1
    <3>2. k = 0
      BY <1>1, <1>6, <2>1
    <3>3. anotadas \in EnPagina(p)
      BY <1>1, <1>6, <3>1, <3>2
    <3>. QED
      BY <1>2, <2>1, <3>3
  <2>. QED
    BY <1>2, <1>8, <2>1 DEF HistoriaEnOrden
<1>11. HistoriaEnOrden'
  <2>1. UNCHANGED <<soloDemostracion, anotadas>> /\ lectura'.pagina = p /\ p * LIMITE = k + LIMITE
    BY <1>3, <1>6, <1>8
  <2>2. lectura'.vistas # {} =>
            \E m \in Nat : HastaDonde(m, lectura'.vistas, lectura'.alAbrir,
                                      lectura'.pagina * LIMITE, anotadas')
    BY <1>9, <2>1 DEF HastaDonde
  <2>. QED
    BY <1>1, <1>10, <2>1, <2>2 DEF HistoriaEnOrden
<1>. QED
  BY <1>5, <1>11

LEMMA HastaDondeCrece ==
    ASSUME NEW m \in Nat, NEW v, NEW a, NEW k \in Nat, NEW n \in Nat, NEW l \in Nat, n <= l,
           HastaDonde(m, v, a, k, n)
    PROVE  HastaDonde(m, v, a, k, l)
<1>1. m = 1 \/ m + k <= l + 1
  <2>1. m = 1 \/ m + k <= n + 1
    BY DEF HastaDonde
  <2>. QED
    BY <2>1
<1>. QED
  BY <1>1 DEF HastaDonde

\* What a step that does not read the history leaves as it was.
LEMMA HistoriaQuieta ==
    ASSUME TipoAgregados, HistoriaEnOrden, UNCHANGED <<soloDemostracion, lectura>>,
           anotadas' = anotadas \/ anotadas' = anotadas + 1
    PROVE  HistoriaEnOrden'
<1>1. anotadas \in Nat /\ anotadas' \in Nat /\ anotadas <= anotadas' /\ LIMITE \in Nat
      /\ lectura.pagina \in Nat /\ lectura' = lectura /\ soloDemostracion' = soloDemostracion
  BY AgregadosOK DEF TipoAgregados
<1>2. PICK k \in Nat : k = lectura.pagina * LIMITE
  BY <1>1
<1>3. ASSUME NEW m \in Nat, HastaDonde(m, lectura.vistas, lectura.alAbrir, k, anotadas)
      PROVE  HastaDonde(m, lectura.vistas, lectura.alAbrir, k, anotadas')
  BY <1>1, <1>3, HastaDondeCrece
<1>. QED
  BY <1>1, <1>2, <1>3 DEF HistoriaEnOrden

LEMMA NadieSalta == ASSUME TipoAgregados, HistoriaEnOrden PROVE NadaSeSalta
<1>1. SUFFICES ASSUME lectura.vistas # {}
               PROVE  \A i \in Min(lectura.vistas) .. lectura.alAbrir : i \in lectura.vistas
  BY DEF NadaSeSalta
<1>2. PICK m \in Nat :
          HastaDonde(m, lectura.vistas, lectura.alAbrir, lectura.pagina * LIMITE, anotadas)
  BY <1>1 DEF HistoriaEnOrden
<1>3. Min(lectura.vistas) = m
  <2>1. /\ m \in lectura.vistas /\ \A i \in lectura.vistas : m <= i
        /\ \A i \in lectura.vistas : i \in Nat
    BY <1>2, AgregadosOK DEF HastaDonde, TipoAgregados
  <2>2. \A x \in lectura.vistas : (\A y \in lectura.vistas : x <= y) => x = m
    BY <2>1
  <2>. QED
    BY <2>1, <2>2 DEF Min
<1>. QED
  BY <1>2, <1>3 DEF HastaDonde

\* What each step leaves of what is known of the panel.
LEMMA PanelMantiene ==
    ASSUME SemanasEnOrden, HistoriaEnOrden, [NextAgregados]_varsAgregados
    PROVE  SemanasEnOrden' /\ HistoriaEnOrden'
<1>1. TipoAgregados
  BY DEF SemanasEnOrden
<1>2. CASE PedirCifras
  BY <1>1, <1>2, PedirMantiene, HistoriaQuieta DEF PedirCifras
<1>3. ASSUME NEW c \in Pedidas, LeerCifra(c) PROVE SemanasEnOrden' /\ HistoriaEnOrden'
  BY <1>1, <1>3, CifraMantiene, HistoriaQuieta DEF LeerCifra
<1>4. CASE Responder
  BY <1>1, <1>4, ResponderMantiene, HistoriaQuieta DEF Responder
<1>5. ASSUME NEW c \in Claves, NEW fila \in Posibles[grupo] \cup {NoHay}, Cambiar(c, fila)
      PROVE  SemanasEnOrden' /\ HistoriaEnOrden'
  <2>1. /\ filas' = [filas EXCEPT ![c] = fila] /\ cambios < MaxCambios /\ cambios' = cambios + 1
        /\ UNCHANGED <<grupo, soloDemostracion, hoy, consulta, cuadro, anotadas, lectura>>
    BY <1>5 DEF Cambiar
  <2>2. cambios' \in 0 .. MaxCambios
    BY <1>1, <2>1, AgregadosOK DEF TipoAgregados
  <2>3. TipoAgregados'
    BY <1>1, <2>1, <2>2 DEF TipoAgregados
  <2>. QED
    BY <1>1, <2>1, <2>3, SemanasQuietas, HistoriaQuieta
<1>6. CASE PasaElDia
  BY <1>1, <1>6, DiaMantiene, HistoriaQuieta DEF PasaElDia
<1>7. CASE Anotar
  <2>1. /\ anotadas < MaxAnotadas /\ anotadas' = anotadas + 1
        /\ UNCHANGED <<grupo, soloDemostracion, filas, hoy, consulta, cuadro, lectura, cambios>>
    BY <1>7 DEF Anotar
  <2>2. anotadas' \in 0 .. MaxAnotadas
    BY <1>1, <2>1, AgregadosOK DEF TipoAgregados
  <2>3. TipoAgregados'
    BY <1>1, <2>1, <2>2 DEF TipoAgregados
  <2>. QED
    BY <1>1, <2>1, <2>3, SemanasQuietas, HistoriaQuieta
<1>8. ASSUME NEW p \in 1 .. MaxAnotadas, LeerPagina(p) PROVE SemanasEnOrden' /\ HistoriaEnOrden'
  <2>1. TipoAgregados' /\ HistoriaEnOrden'
    BY <1>1, <1>8, LeerPaginaMantiene
  <2>. QED
    BY <1>8, <2>1, SemanasQuietas DEF LeerPagina
<1>9. CASE ContarPaginas
  <2>1. PICK t : t = IF soloDemostracion \/ anotadas = 0 THEN 1
                     ELSE (anotadas + LIMITE - 1) \div LIMITE
    OBVIOUS
  <2>2. /\ lectura' = [lectura EXCEPT !.paginas = t]
        /\ UNCHANGED <<grupo, soloDemostracion, filas, hoy, consulta, cuadro, anotadas, cambios>>
    BY <1>9, <2>1 DEF ContarPaginas
  <2>3. t \in Nat
    <3>1. anotadas \in Nat /\ LIMITE \in Nat \ {0} /\ anotadas + LIMITE - 1 \in Nat
      BY <1>1, AgregadosOK DEF TipoAgregados
    <3>. QED
      BY <2>1, <3>1, Division
  <2>4. TipoAgregados'
    BY <1>1, <2>2, <2>3 DEF TipoAgregados
  <2>5. /\ lectura'.pagina = lectura.pagina /\ lectura'.vistas = lectura.vistas
        /\ lectura'.alAbrir = lectura.alAbrir
    BY <1>1, <2>2 DEF TipoAgregados
  <2>6. HistoriaEnOrden'
    BY <2>2, <2>5 DEF HistoriaEnOrden
  <2>. QED
    BY <2>2, <2>4, <2>6, SemanasQuietas
<1>10. CASE UNCHANGED varsAgregados
  <2>1. TipoAgregados'
    BY <1>1, <1>10 DEF varsAgregados, TipoAgregados
  <2>. QED
    BY <1>1, <1>10, <2>1, SemanasQuietas, HistoriaQuieta DEF varsAgregados
<1>. QED
  BY <1>2, <1>3, <1>4, <1>5, <1>6, <1>7, <1>8, <1>9, <1>10 DEF NextAgregados

\* The inductive invariant of the panel: the weeks read are whole, and what has been
\* seen of the history has no gap.
THEOREM PanelInvariante == SpecAgregados => [](SemanasEnOrden /\ HistoriaEnOrden)
<1>1. InitAgregados => SemanasEnOrden /\ HistoriaEnOrden
  <2>1. InitAgregados => HistoriaEnOrden
    BY DEF InitAgregados, SinAbrir, HistoriaEnOrden
  <2>. QED
    BY <2>1, IniciaSemanas
<1>2. SemanasEnOrden /\ HistoriaEnOrden /\ [NextAgregados]_varsAgregados =>
          SemanasEnOrden' /\ HistoriaEnOrden'
  BY PanelMantiene
<1>. QED
  BY <1>1, <1>2, PTL DEF SpecAgregados

\* LasSemanasSonEsas (admin.service.ts:270-276): the series is of the last weeks, whole,
\* even if the week turns between the reading and the answer.  NadaSeSalta
\* (auditoria.service.ts:70-105): who goes through the history skips nothing that was there.
THEOREM SiempreLasSemanas == SpecAgregados => [](LasSemanasSonEsas /\ NadaSeSalta)
<1>1. SemanasEnOrden /\ HistoriaEnOrden => LasSemanasSonEsas /\ NadaSeSalta
  BY NadieSalta DEF SemanasEnOrden
<1>. QED
  BY <1>1, PanelInvariante, PTL

-----------------------------------------------------------------------------
(***************************************************************************)
(* The figures of the panel add up.  That the sums of the library do what  *)
(* sums do is proved by the smallest set for which they would not.         *)
(***************************************************************************)

\* Some naturals have a least one.
Menores == {p \in Nat \X Nat : p[1] < p[2]}

LEMMA ElMenor ==
    ASSUME NEW T \in SUBSET Nat, T # {} PROVE \E x \in T : \A y \in T : x <= y
<1>1. OpToRel(<, Nat) = Menores
  BY DEF OpToRel, Menores
<1>2. IsWellFoundedOn(Menores, Nat)
  BY <1>1, NatLessThanWellFounded
<1>3. PICK x \in T : \A y \in T : <<y, x>> \notin Menores
  <2> HIDE DEF Menores
  <2>. QED
    BY <1>2, WFMin
<1>4. \A a, b \in Nat : <<a, b>> \in Menores <=> a < b
  BY DEF Menores
<1>5. \A y \in T : ~(y < x) /\ x \in Nat /\ y \in Nat
  BY <1>3, <1>4
<1>. QED
  BY <1>5

\* Among the finite sets of a family there is a smallest.
LEMMA ElMasPequeno ==
    ASSUME NEW F, F # {}, \A s \in F : IsFiniteSet(s)
    PROVE  \E s \in F : \A t \in F : ~(Cardinality(t) < Cardinality(s))
<1> DEFINE T == {Cardinality(s) : s \in F}
<1>1. \A s \in F : Cardinality(s) \in Nat
  BY FS_CardinalityType
<1>2. T \in SUBSET Nat /\ T # {}
  BY <1>1
<1>3. PICK n \in T : \A m \in T : n <= m
  BY <1>2, ElMenor
<1>4. PICK s \in F : n = Cardinality(s)
  OBVIOUS
<1>. QED
  BY <1>1, <1>3, <1>4

-----------------------------------------------------------------------------
(* Sums.                                                                   *)

\* g says, of each part of D, what f adds up to over it.
Suman(g, f, D) ==
    /\ g \in [SUBSET D -> Nat]
    /\ g[{}] = 0
    /\ \A s \in SUBSET D : \A x \in s : g[s] = f[x] + g[s \ {x}]

\* A part of D with one more.
LEMMA SumanConUno ==
    ASSUME NEW D, NEW d \in D, NEW f, \A x \in D : f[x] \in Nat, NEW h, Suman(h, f, D \ {d})
    PROVE  \E g : Suman(g, f, D)
<1> DEFINE g == [s \in SUBSET D |-> IF d \in s THEN f[d] + h[s \ {d}] ELSE h[s]]
<1>1. h \in [SUBSET (D \ {d}) -> Nat] /\ h[{}] = 0
  BY DEF Suman
<1>2. \A s \in SUBSET (D \ {d}) : \A x \in s : h[s] = f[x] + h[s \ {x}]
  BY DEF Suman
<1>3. g \in [SUBSET D -> Nat]
  <2>1. ASSUME NEW s \in SUBSET D PROVE (IF d \in s THEN f[d] + h[s \ {d}] ELSE h[s]) \in Nat
    <3>1. s \ {d} \in SUBSET (D \ {d}) /\ (d \notin s => s \in SUBSET (D \ {d}))
      OBVIOUS
    <3>2. h[s \ {d}] \in Nat /\ (d \notin s => h[s] \in Nat)
      BY <1>1, <3>1
    <3>. QED
      BY <3>2
  <2>. QED
    BY <2>1
<1>4. g[{}] = 0
  BY <1>1
<1>5. ASSUME NEW s \in SUBSET D, NEW x \in s PROVE g[s] = f[x] + g[s \ {x}]
  <2>1. CASE x = d
    <3>1. s \ {x} \in SUBSET D /\ d \notin s \ {x}
      BY <2>1
    <3>. QED
      BY <2>1, <3>1
  <2>2. CASE x # d /\ d \in s
    <3>1. s \ {x} \in SUBSET D /\ d \in s \ {x} /\ x \in s \ {d} /\ s \ {d} \in SUBSET (D \ {d})
          /\ (s \ {x}) \ {d} = (s \ {d}) \ {x} /\ (s \ {d}) \ {x} \in SUBSET (D \ {d})
      BY <2>2
    <3>2. PICK u \in Nat : u = h[(s \ {d}) \ {x}]
      BY <1>1, <3>1
    <3>3. g[s] = f[d] + h[s \ {d}] /\ g[s \ {x}] = f[d] + u
      BY <2>2, <3>1, <3>2
    <3>4. h[s \ {d}] = f[x] + u
      BY <1>2, <3>1, <3>2
    <3>5. f[x] \in Nat /\ f[d] \in Nat
      OBVIOUS
    <3>. QED
      BY <3>3, <3>4, <3>5
  <2>3. CASE x # d /\ d \notin s
    <3>1. s \ {x} \in SUBSET D /\ d \notin s \ {x} /\ s \in SUBSET (D \ {d})
      BY <2>3
    <3>2. g[s] = h[s] /\ g[s \ {x}] = h[s \ {x}]
      BY <2>3, <3>1
    <3>. QED
      BY <1>2, <3>1, <3>2
  <2>. QED
    BY <2>1, <2>2, <2>3
<1> HIDE DEF g
<1>. QED
  BY <1>3, <1>4, <1>5 DEF Suman

\* Sums exist.
LEMMA HaySuma ==
    ASSUME NEW D, IsFiniteSet(D), NEW f, \A x \in D : f[x] \in Nat
    PROVE  \E g : Suman(g, f, D)
<1> DEFINE F == {s \in SUBSET D : ~ \E g : Suman(g, f, s)}
<1>1. SUFFICES ASSUME F # {} PROVE FALSE
  OBVIOUS
<1>2. \A s \in SUBSET D : IsFiniteSet(s)
  BY FS_Subset
<1>3. PICK s \in F : \A t \in F : ~(Cardinality(t) < Cardinality(s))
  <2>1. \A t \in F : IsFiniteSet(t)
    BY <1>2
  <2> HIDE DEF F
  <2>. QED
    BY <1>1, <2>1, ElMasPequeno
<1>4. s \in SUBSET D /\ ~ \E g : Suman(g, f, s)
  OBVIOUS
<1>5. s # {}
  <2>1. SUFFICES ASSUME s = {} PROVE \E g : Suman(g, f, s)
    BY <1>4
  <2>2. Suman([t \in SUBSET s |-> 0], f, s)
    BY <2>1 DEF Suman
  <2>. QED
    BY <2>2
<1>6. PICK d \in s : TRUE
  BY <1>5
<1>7. Cardinality(s \ {d}) < Cardinality(s)
  <2>1. IsFiniteSet(s)
    BY <1>2, <1>4
  <2>2. Cardinality(s) \in Nat /\ Cardinality(s \ {d}) = Cardinality(s) - 1
    BY <2>1, FS_RemoveElement, FS_CardinalityType
  <2>. QED
    BY <2>2
<1>8. s \ {d} \in SUBSET D
  BY <1>4
<1>9. PICK h : Suman(h, f, s \ {d})
  BY <1>3, <1>7, <1>8
<1>10. \A x \in s : f[x] \in Nat
  BY <1>4
<1>. QED
  BY <1>4, <1>6, <1>9, <1>10, SumanConUno

\* A sum made as the folds of the library are: of an element, and the rest.
DeUnoEnUno(g, f, D) ==
    g = [s \in SUBSET D |-> IF s = {} THEN 0
                            ELSE f[CHOOSE x \in s : TRUE] + g[s \ {CHOOSE x \in s : TRUE}]]

LEMMA SumanDeUnoEnUno ==
    ASSUME NEW D, NEW f, NEW g, Suman(g, f, D) PROVE DeUnoEnUno(g, f, D)
<1>1. \A s \in SUBSET D :
          g[s] = IF s = {} THEN 0
                 ELSE f[CHOOSE x \in s : TRUE] + g[s \ {CHOOSE x \in s : TRUE}]
  <2>1. \A s : s # {} => (CHOOSE x \in s : TRUE) \in s
    OBVIOUS
  <2>. QED
    BY <2>1 DEF Suman
<1>2. g \in [SUBSET D -> Nat]
  BY DEF Suman
<1>. QED
  BY <1>1, <1>2 DEF DeUnoEnUno

\* There is only one, so that the fold is it.
LEMMA UnaSuma ==
    ASSUME NEW D, IsFiniteSet(D), NEW f, NEW g, NEW h, Suman(g, f, D), DeUnoEnUno(h, f, D)
    PROVE  g = h
<1> DEFINE F == {s \in SUBSET D : g[s] # h[s]}
<1>1. SUFFICES ASSUME F # {} PROVE FALSE
  <2>1. DOMAIN g = SUBSET D /\ g = [s \in DOMAIN g |-> g[s]]
    BY DEF Suman
  <2>2. DOMAIN h = SUBSET D /\ h = [s \in DOMAIN h |-> h[s]]
    BY DEF DeUnoEnUno
  <2>. QED
    BY <1>1, <2>1, <2>2
<1>2. \A s \in SUBSET D : IsFiniteSet(s)
  BY FS_Subset
<1>3. PICK s \in F : \A t \in F : ~(Cardinality(t) < Cardinality(s))
  <2>1. \A t \in F : IsFiniteSet(t)
    BY <1>2
  <2> HIDE DEF F
  <2>. QED
    BY <1>1, <2>1, ElMasPequeno
<1>4. s \in SUBSET D /\ g[s] # h[s]
  OBVIOUS
<1>5. h[{}] = 0 /\ g[{}] = 0
  BY DEF Suman, DeUnoEnUno
<1>6. PICK x : x = CHOOSE y \in s : TRUE
  OBVIOUS
<1>7. s # {} /\ x \in s
  BY <1>4, <1>5, <1>6
<1>8. h[s] = f[x] + h[s \ {x}]
  BY <1>4, <1>6, <1>7 DEF DeUnoEnUno
<1>9. g[s] = f[x] + g[s \ {x}]
  BY <1>4, <1>7 DEF Suman
<1>10. Cardinality(s \ {x}) < Cardinality(s)
  <2>1. IsFiniteSet(s)
    BY <1>2, <1>4
  <2>2. Cardinality(s) \in Nat /\ Cardinality(s \ {x}) = Cardinality(s) - 1
    BY <1>7, <2>1, FS_RemoveElement, FS_CardinalityType
  <2>. QED
    BY <2>2
<1>11. s \ {x} \in SUBSET D
  BY <1>4
<1>12. g[s \ {x}] = h[s \ {x}]
  BY <1>3, <1>10, <1>11
<1>. QED
  BY <1>4, <1>8, <1>9, <1>12

\* SumFunction gives it.
LEMMA LaSumaEs ==
    ASSUME NEW D, IsFiniteSet(D), NEW f, DOMAIN f = D, \A x \in D : f[x] \in Nat
    PROVE  \A g : Suman(g, f, D) => SumFunction(f) = g[D]
<1> DEFINE h == CHOOSE g : DeUnoEnUno(g, f, D)
<1>1. SUFFICES ASSUME NEW g, Suman(g, f, D) PROVE SumFunction(f) = g[D]
  OBVIOUS
<1>2. DeUnoEnUno(g, f, D)
  BY <1>1, SumanDeUnoEnUno
<1>3. DeUnoEnUno(h, f, D)
  BY <1>2
<1>4. h = g
  BY <1>1, <1>3, UnaSuma
<1>5. SumFunction(f) = h[D]
  BY DEF SumFunction, SumFunctionOnSet, FoldFunctionOnSet, MapThenFoldSet, DeUnoEnUno
<1>. QED
  BY <1>4, <1>5

\* And so does what is charged for some bookings.
LEMMA LoFacturadoEs ==
    ASSUME NEW D, IsFiniteSet(D), NEW f, \A c \in D : f[c] = filas[c].cobrado
    PROVE  \A g : Suman(g, f, D) => Facturado(D) = g[D]
<1> DEFINE Asi(g) == g = [s \in SUBSET D |->
               IF s = {} THEN 0
               ELSE filas[CHOOSE x \in s : TRUE].cobrado + g[s \ {CHOOSE x \in s : TRUE}]]
           h == CHOOSE g : Asi(g)
<1>1. SUFFICES ASSUME NEW g, Suman(g, f, D) PROVE Facturado(D) = g[D]
  OBVIOUS
<1>2. DeUnoEnUno(g, f, D)
  BY <1>1, SumanDeUnoEnUno
<1>3. ASSUME NEW k PROVE Asi(k) <=> DeUnoEnUno(k, f, D)
  <2>1. ASSUME NEW s \in SUBSET D
        PROVE  (IF s = {} THEN 0
                ELSE filas[CHOOSE x \in s : TRUE].cobrado + k[s \ {CHOOSE x \in s : TRUE}])
               = (IF s = {} THEN 0
                  ELSE f[CHOOSE x \in s : TRUE] + k[s \ {CHOOSE x \in s : TRUE}])
    <3>1. s # {} => (CHOOSE x \in s : TRUE) \in D
      OBVIOUS
    <3>. QED
      BY <3>1
  <2>. QED
    BY <2>1 DEF DeUnoEnUno
<1>4. Facturado(D) = h[D]
  BY DEF Facturado, Suma, MapThenSumSet, MapThenFoldSet
<1> HIDE DEF Asi
<1>5. DeUnoEnUno(h, f, D)
  BY <1>2, <1>3
<1>6. h = g
  BY <1>1, <1>5, UnaSuma
<1>. QED
  BY <1>4, <1>6

\* What is measured of the parts of D: of two that have nothing in common, what is
\* measured of each.
Aditiva(h, D) ==
    /\ h \in [SUBSET D -> Nat]
    /\ h[{}] = 0
    /\ \A A, B \in SUBSET D : A \cap B = {} => h[A \cup B] = h[A] + h[B]

LEMMA LaSumaEsAditiva ==
    ASSUME NEW D, IsFiniteSet(D), NEW f, NEW g, \A x \in D : f[x] \in Nat, Suman(g, f, D)
    PROVE  Aditiva(g, D)
<1>1. /\ g \in [SUBSET D -> Nat] /\ g[{}] = 0
      /\ \A s \in SUBSET D : \A x \in s : g[s] = f[x] + g[s \ {x}]
  BY DEF Suman
<1>2. ASSUME NEW A \in SUBSET D
      PROVE  \A B \in SUBSET D : A \cap B = {} => g[A \cup B] = g[A] + g[B]
  <2> DEFINE F == {B \in SUBSET D : A \cap B = {} /\ g[A \cup B] # g[A] + g[B]}
  <2>1. SUFFICES ASSUME F # {} PROVE FALSE
    OBVIOUS
  <2>2. \A s \in SUBSET D : IsFiniteSet(s)
    BY FS_Subset
  <2>3. PICK B \in F : \A t \in F : ~(Cardinality(t) < Cardinality(B))
    <3>1. \A t \in F : IsFiniteSet(t)
      BY <2>2
    <3> HIDE DEF F
    <3>. QED
      BY <2>1, <3>1, ElMasPequeno
  <2>4. B \in SUBSET D /\ A \cap B = {} /\ g[A \cup B] # g[A] + g[B]
    OBVIOUS
  <2>5. B # {}
    <3>1. SUFFICES ASSUME B = {} PROVE g[A \cup B] = g[A] + g[B]
      BY <2>4
    <3>2. PICK n \in Nat : n = g[A]
      BY <1>1
    <3>3. A \cup B = A /\ g[B] = 0
      BY <1>1, <3>1
    <3>4. g[A \cup B] = n
      BY ONLY <3>2, <3>3
    <3>. QED
      BY ONLY <3>2, <3>3, <3>4
  <2>6. PICK x \in B : TRUE
    BY <2>5
  <2>7. Cardinality(B \ {x}) < Cardinality(B)
    <3>1. IsFiniteSet(B)
      BY <2>2, <2>4
    <3>2. Cardinality(B) \in Nat /\ Cardinality(B \ {x}) = Cardinality(B) - 1
      BY <3>1, FS_RemoveElement, FS_CardinalityType
    <3>. QED
      BY <3>2
  <2>8. B \ {x} \in SUBSET D /\ A \cap (B \ {x}) = {} /\ A \cup B \in SUBSET D
        /\ x \in A \cup B /\ (A \cup B) \ {x} = A \cup (B \ {x}) /\ x \in D
    BY <2>4
  <2>9. g[A \cup (B \ {x})] = g[A] + g[B \ {x}]
    BY <2>3, <2>7, <2>8
  <2>10. g[A \cup B] = f[x] + g[A \cup (B \ {x})] /\ g[B] = f[x] + g[B \ {x}]
    <3> HIDE DEF F
    <3>1. g[A \cup B] = f[x] + g[(A \cup B) \ {x}]
      BY <1>1, <2>8
    <3>2. g[B] = f[x] + g[B \ {x}]
      BY <1>1, <2>4
    <3>. QED
      BY <2>8, <3>1, <3>2
  <2>11. g[A] \in Nat /\ g[B \ {x}] \in Nat /\ f[x] \in Nat
    BY <1>1, <2>8
  <2> HIDE DEF F
  <2>. QED
    BY <2>4, <2>9, <2>10, <2>11
<1>. QED
  BY <1>1, <1>2 DEF Aditiva

LEMMA ContarEsAditivo ==
    ASSUME NEW D, IsFiniteSet(D)
    PROVE  Aditiva([s \in SUBSET D |-> Cardinality(s)], D)
<1>1. \A s \in SUBSET D : IsFiniteSet(s) /\ Cardinality(s) \in Nat
  BY FS_Subset, FS_CardinalityType
<1>2. Cardinality({}) = 0
  BY FS_EmptySet
<1>3. ASSUME NEW A \in SUBSET D, NEW B \in SUBSET D, A \cap B = {}
      PROVE  Cardinality(A \cup B) = Cardinality(A) + Cardinality(B)
  <2>1. Cardinality(A \cup B) = Cardinality(A) + Cardinality(B) - Cardinality(A \cap B)
    BY <1>1, FS_Union
  <2>. QED
    BY <1>1, <1>2, <1>3, <2>1
<1>. QED
  BY <1>1, <1>2, <1>3 DEF Aditiva

LEMMA AditivaCrece ==
    ASSUME NEW D, NEW h, Aditiva(h, D), NEW A \in SUBSET D, NEW B \in SUBSET A
    PROVE  h[B] <= h[A]
<1>1. A = B \cup (A \ B) /\ B \cap (A \ B) = {} /\ B \in SUBSET D /\ A \ B \in SUBSET D
  OBVIOUS
<1>2. h[A] = h[B] + h[A \ B] /\ h[B] \in Nat /\ h[A \ B] \in Nat
  BY <1>1 DEF Aditiva
<1>. QED
  BY <1>2

\* Parts of D with nothing in common, and what is measured of each of them.
Reparto(P, I, D) ==
    /\ IsFiniteSet(I) /\ P \in [I -> SUBSET D]
    /\ \A i, j \in I : i # j => P[i] \cap P[j] = {}

DeCadaParte(r, h, P, I) == DOMAIN r = I /\ \A i \in I : r[i] = h[P[i]]

\* They add up to what is measured of all of them together.
LEMMA LasPartesSuman ==
    ASSUME NEW D, NEW h, Aditiva(h, D), NEW I, NEW P, Reparto(P, I, D),
           NEW r, DeCadaParte(r, h, P, I)
    PROVE  SumFunction(r) = h[UNION {P[i] : i \in I}]
<1> DEFINE U(W) == UNION {P[i] : i \in W}
           F == {W \in SUBSET I : ~(\A g : Suman(g, r, I) => g[W] = h[U(W)])}
<1>1. /\ h \in [SUBSET D -> Nat] /\ h[{}] = 0
      /\ \A A, B \in SUBSET D : A \cap B = {} => h[A \cup B] = h[A] + h[B]
  BY DEF Aditiva
<1>0. /\ IsFiniteSet(I) /\ P \in [I -> SUBSET D] /\ \A i, j \in I : i # j => P[i] \cap P[j] = {}
      /\ DOMAIN r = I /\ \A i \in I : r[i] = h[P[i]]
  BY DEF Reparto, DeCadaParte
<1>2. \A i \in I : r[i] \in Nat
  BY <1>0, <1>1
<1>3. PICK g : Suman(g, r, I)
  BY <1>0, <1>2, HaySuma
<1>4. SumFunction(r) = g[I]
  BY <1>0, <1>2, <1>3, LaSumaEs
<1>5. F = {}
  <2>1. SUFFICES ASSUME F # {} PROVE FALSE
    OBVIOUS
  <2>2. \A s \in SUBSET I : IsFiniteSet(s)
    BY <1>0, FS_Subset
  <2>3. PICK W \in F : \A t \in F : ~(Cardinality(t) < Cardinality(W))
    <3>1. \A t \in F : IsFiniteSet(t)
      BY <2>2
    <3> HIDE DEF F
    <3>. QED
      BY <2>1, <3>1, ElMasPequeno
  <2>4. W \in SUBSET I
    OBVIOUS
  <2>5. PICK k : Suman(k, r, I) /\ k[W] # h[U(W)]
    BY <2>3
  <2>6. W # {}
    <3>1. U({}) = {}
      OBVIOUS
    <3>2. k[{}] = 0
      BY <2>5 DEF Suman
    <3>. QED
      BY <1>1, <2>5, <3>1, <3>2
  <2>7. PICK x \in W : TRUE
    BY <2>6
  <2>8. Cardinality(W \ {x}) < Cardinality(W)
    <3>1. IsFiniteSet(W)
      BY <2>2, <2>4
    <3>2. Cardinality(W) \in Nat /\ Cardinality(W \ {x}) = Cardinality(W) - 1
      BY <3>1, FS_RemoveElement, FS_CardinalityType
    <3>. QED
      BY <3>2
  <2>9. W \ {x} \in SUBSET I
    BY <2>4
  <2>10. k[W \ {x}] = h[U(W \ {x})]
    BY <2>3, <2>5, <2>8, <2>9
  <2>11. k[W] = r[x] + k[W \ {x}]
    BY <2>4, <2>5 DEF Suman
  <2>12. /\ U(W) = P[x] \cup U(W \ {x}) /\ P[x] \cap U(W \ {x}) = {}
         /\ P[x] \in SUBSET D /\ U(W \ {x}) \in SUBSET D /\ x \in I
    BY <1>0, <2>4
  <2>13. h[U(W)] = r[x] + h[U(W \ {x})]
    <3> HIDE DEF U
    <3>1. h[P[x] \cup U(W \ {x})] = h[P[x]] + h[U(W \ {x})] /\ r[x] = h[P[x]]
      BY <1>0, <1>1, <2>12
    <3>. QED
      BY <2>12, <3>1
  <2>. QED
    BY <2>5, <2>10, <2>11, <2>13
<1>6. g[I] = h[U(I)]
  BY <1>3, <1>5
<1>. QED
  BY <1>4, <1>6

\* How many there are of each...
CuantosPorClase(S, clase) ==
    [v \in {clase[c] : c \in S} |-> Cardinality({c \in S : clase[c] = v})]

\* ...are all there are.
LEMMA LasClasesSuman ==
    ASSUME NEW S, IsFiniteSet(S), NEW clase
    PROVE  Total(CuantosPorClase(S, clase)) = Cardinality(S)
<1> DEFINE I == {clase[c] : c \in S}
           P == [v \in I |-> {c \in S : clase[c] = v}]
           h == [s \in SUBSET S |-> Cardinality(s)]
<1>1. Aditiva(h, S)
  BY ContarEsAditivo
<1>2. IsFiniteSet(I)
  <2>1. [c \in S |-> clase[c]] \in Surjection(S, I)
    BY DEF Surjection
  <2>. QED
    BY <2>1, FS_Surjection
<1>3. P \in [I -> SUBSET S] /\ \A i, j \in I : i # j => P[i] \cap P[j] = {}
  OBVIOUS
<1>4. UNION {P[i] : i \in I} = S
  <2>1. \A c \in S : clase[c] \in I /\ c \in P[clase[c]]
    OBVIOUS
  <2>2. \A i \in I : P[i] \subseteq S
    OBVIOUS
  <2> HIDE DEF I, P
  <2>. QED
    BY <2>1, <2>2
<1>5. PICK r : r = CuantosPorClase(S, clase)
  OBVIOUS
<1>6. DOMAIN r = I /\ \A i \in I : r[i] = h[P[i]]
  BY <1>5 DEF CuantosPorClase
<1>7. h[S] = Cardinality(S)
  OBVIOUS
<1> HIDE DEF I, P, h
<1>8. SumFunction(r) = h[UNION {P[i] : i \in I}]
  <2>1. DeCadaParte(r, h, P, I) /\ Reparto(P, I, S)
    BY <1>2, <1>3, <1>6 DEF DeCadaParte, Reparto
  <2>. QED
    BY <1>1, <2>1, LasPartesSuman
<1>. QED
  BY <1>4, <1>5, <1>7, <1>8 DEF Total

\* A percentage.
LEMMA LaTasa ==
    ASSUME NEW n \in Nat \ {0}, NEW r \in Nat, r <= n
    PROVE  /\ (200 * r + n) \div (2 * n) <= 100
           /\ r = n => (200 * r + n) \div (2 * n) = 100
<1> DEFINE a == 200 * r + n
           d == 2 * n
           q == a \div d
<1>1. a \in Nat /\ d \in Nat \ {0} /\ a < 101 * d
  OBVIOUS
<1>2. q \in Nat /\ q * d <= a /\ a < q * d + d
  BY <1>1, Division
<1>3. q <= 100
  <2>1. SUFFICES ASSUME q >= 101 PROVE FALSE
    BY <1>2
  <2> HIDE DEF a, d, q
  <2>2. 101 * d <= q * d
    BY <1>1, <1>2, <2>1, SMTT(30)
  <2>. QED
    BY <1>1, <1>2, <2>2
<1>4. ASSUME r = n PROVE q = 100
  <2>1. 100 * d <= a
    BY <1>4
  <2> HIDE DEF a, d, q
  <2>2. 100 <= q
    BY <1>1, <2>1, DivisionUnica DEF q
  <2>. QED
    BY <1>2, <1>3, <2>2
<1>. QED
  BY <1>3, <1>4

\* The figures are those of the rows, until somebody writes; and the weeks of the
\* series are all different.
CifrasDeHoy ==
    /\ (cambios = 0) => \A c \in Pedidas : consulta.cifras[c] = SinLeer \/ Leida(c) = Cifra(c)
    /\ (cuadro # SinLeer /\ grupo = "reservas") =>
           \A i, j \in 1 .. SEMANAS : cuadro[i].semana = cuadro[j].semana => i = j

LasFilas == filas \in [Claves -> Posibles[grupo] \cup {NoHay}] /\ grupo \in DOMAIN Consultas

LEMMA LosConjuntos ==
    ASSUME LasFilas
    PROVE  /\ IsFiniteSet(Hay) /\ Suyas \subseteq Hay /\ Suyas \in SUBSET Hay
           /\ IsFiniteSet(Suyas) /\ Cardinality(Suyas) \in Nat
           /\ \A A \in SUBSET Suyas : IsFiniteSet(A) /\ Cardinality(A) <= Cardinality(Suyas)
                                      /\ Cardinality(A) \in Nat
           /\ \A c \in Hay : filas[c] \in Posibles[grupo]
<1>1. Hay \in SUBSET Claves /\ IsFiniteSet(Claves)
  BY AgregadosOK DEF Hay
<1>2. IsFiniteSet(Hay)
  BY <1>1, FS_Subset
<1>3. Suyas \in SUBSET Hay
  BY DEF Suyas, Acotar
<1>4. IsFiniteSet(Suyas)
  BY <1>2, <1>3, FS_Subset
<1>5. \A A \in SUBSET Suyas : IsFiniteSet(A) /\ Cardinality(A) <= Cardinality(Suyas)
                              /\ Cardinality(A) \in Nat
  BY <1>4, FS_Subset, FS_CardinalityType
<1>6. \A c \in Hay : filas[c] \in Posibles[grupo]
  BY DEF Hay, LasFilas
<1>7. Cardinality(Suyas) \in Nat
  BY <1>4, FS_CardinalityType
<1>. QED
  BY <1>2, <1>3, <1>4, <1>5, <1>6, <1>7

\* Users, by role.
LEMMA CuadranUsuarios ==
    ASSUME LasFilas
    PROVE  /\ Total(DeUsuarios("porRol")) = DeUsuarios("total")
           /\ DeUsuarios("inactivos") <= DeUsuarios("total")
<1>1. DeUsuarios("total") = Cardinality(Suyas)
  BY DEF DeUsuarios
<1>2. Total(DeUsuarios("porRol")) = Cardinality(Suyas)
  <2>1. PICK k : k = [c \in Suyas |-> filas[c].rol]
    OBVIOUS
  <2>2. {k[c] : c \in Suyas} = {filas[c].rol : c \in Suyas}
    BY <2>1
  <2>3. \A v : {c \in Suyas : k[c] = v} = {c \in Suyas : filas[c].rol = v}
    BY <2>1
  <2>4. DeUsuarios("porRol") = [v \in {filas[c].rol : c \in Suyas} |->
                                   Cardinality({c \in Suyas : filas[c].rol = v})]
    BY DEF DeUsuarios, Recuento
  <2>5. DeUsuarios("porRol") = CuantosPorClase(Suyas, k)
    BY <2>2, <2>3, <2>4 DEF CuantosPorClase
  <2>. QED
    BY <2>5, LosConjuntos, LasClasesSuman
<1>3. DeUsuarios("inactivos") = Cardinality({c \in Suyas : ~filas[c].activo})
  BY DEF DeUsuarios, Cuantas
<1>4. {c \in Suyas : ~filas[c].activo} \in SUBSET Suyas
  OBVIOUS
<1>5. Cardinality({c \in Suyas : ~filas[c].activo}) <= Cardinality(Suyas)
  BY <1>4, LosConjuntos
<1>. QED
  BY <1>1, <1>2, <1>3, <1>5

\* Services, by category and by city, and the categories with none.
LEMMA CuadranServicios ==
    ASSUME LasFilas, grupo = "servicios"
    PROVE  /\ Total(DeServicios("porCategoria")) = DeServicios("activos")
           /\ Total(DeServicios("porCiudad")) = DeServicios("activos")
           /\ DeServicios("activos") <= DeServicios("total")
           /\ DeServicios("sinFoto") <= DeServicios("total")
           /\ Cardinality(DOMAIN DeServicios("porCategoria")) + DeServicios("sinServicios")
                  <= Cardinality(Oficios)
<1>1. DeServicios("total") = Cardinality(Suyas)
  BY DEF DeServicios
<1>2. DeServicios("activos") = Cardinality({c \in Suyas : filas[c].activo})
  BY DEF DeServicios
<1>3. Activos = {c \in Suyas : filas[c].activo} /\ Activos \in SUBSET Suyas
  BY DEF Activos, Suyas, Acotar
<1>4. IsFiniteSet(Activos) /\ Cardinality(Activos) <= Cardinality(Suyas)
  BY <1>3, LosConjuntos
<1>5. Total(DeServicios("porCategoria")) = Cardinality(Activos)
  <2>1. PICK k : k = [c \in Activos |-> filas[c].oficio]
    OBVIOUS
  <2>2. {k[c] : c \in Activos} = {filas[c].oficio : c \in Activos}
    BY <2>1
  <2>3. \A v : {c \in Activos : k[c] = v} = {c \in Activos : filas[c].oficio = v}
    BY <2>1
  <2>4. DeServicios("porCategoria") = [v \in {filas[c].oficio : c \in Activos} |->
                                   Cardinality({c \in Activos : filas[c].oficio = v})]
    BY DEF DeServicios, Recuento
  <2>5. DeServicios("porCategoria") = CuantosPorClase(Activos, k)
    BY <2>2, <2>3, <2>4 DEF CuantosPorClase
  <2>. QED
    BY <1>4, <2>5, LasClasesSuman
<1>6. Total(DeServicios("porCiudad")) = Cardinality(Activos)
  <2>1. PICK k : k = [c \in Activos |-> filas[c].ciudad]
    OBVIOUS
  <2>2. {k[c] : c \in Activos} = {filas[c].ciudad : c \in Activos}
    BY <2>1
  <2>3. \A v : {c \in Activos : k[c] = v} = {c \in Activos : filas[c].ciudad = v}
    BY <2>1
  <2>4. DeServicios("porCiudad") = [v \in {filas[c].ciudad : c \in Activos} |->
                                   Cardinality({c \in Activos : filas[c].ciudad = v})]
    BY DEF DeServicios, Recuento
  <2>5. DeServicios("porCiudad") = CuantosPorClase(Activos, k)
    BY <2>2, <2>3, <2>4 DEF CuantosPorClase
  <2>. QED
    BY <1>4, <2>5, LasClasesSuman
<1>7. DeServicios("sinFoto") <= Cardinality(Suyas)
  <2>1. DeServicios("sinFoto") = Cardinality({c \in Suyas : ~filas[c].foto})
    BY DEF DeServicios, Cuantas
  <2>2. {c \in Suyas : ~filas[c].foto} \in SUBSET Suyas
    OBVIOUS
  <2>3. Cardinality({c \in Suyas : ~filas[c].foto}) <= Cardinality(Suyas)
    BY <2>2, LosConjuntos
  <2>. QED
    BY <2>1, <2>3
<1>8. Cardinality(DOMAIN DeServicios("porCategoria")) + DeServicios("sinServicios")
          <= Cardinality(Oficios)
  <2> DEFINE A == {filas[c].oficio : c \in Activos}
             B == {filas[c].oficio : c \in Hay}
  <2>1. DOMAIN DeServicios("porCategoria") = A
    BY DEF DeServicios, Recuento
  <2>2. DeServicios("sinServicios") = Cardinality(Oficios \ B)
    BY DEF DeServicios
  <2>3. \A c \in Hay : filas[c].oficio \in Oficios
    BY LosConjuntos, AgregadosOK
  <2>4. A \subseteq B /\ B \subseteq Oficios
    BY <1>3, <2>3, LosConjuntos
  <2> HIDE DEF A, B
  <2>5. A \in SUBSET Oficios /\ Oficios \ B \in SUBSET Oficios /\ A \cap (Oficios \ B) = {}
        /\ A \cup (Oficios \ B) \in SUBSET Oficios /\ IsFiniteSet(Oficios)
    BY <2>4, AgregadosOK
  <2>6. PICK h : h = [s \in SUBSET Oficios |-> Cardinality(s)]
    OBVIOUS
  <2>7. Aditiva(h, Oficios)
    BY <2>5, <2>6, ContarEsAditivo
  <2>8. h[A \cup (Oficios \ B)] = h[A] + h[Oficios \ B]
    BY <2>5, <2>7 DEF Aditiva
  <2>9. h[A \cup (Oficios \ B)] <= h[Oficios]
    BY <2>5, <2>7, AditivaCrece
  <2>. QED
    BY <2>1, <2>2, <2>5, <2>6, <2>8, <2>9
<1>. QED
  BY <1>1, <1>2, <1>3, <1>4, <1>5, <1>6, <1>7, <1>8

\* What is charged for some bookings, as a part of what is charged for all.
LEMMA LoFacturadoDeUnas ==
    ASSUME NEW D, IsFiniteSet(D), NEW f, \A c \in D : f[c] = filas[c].cobrado, NEW g,
           Suman(g, f, D)
    PROVE  \A A \in SUBSET D : Facturado(A) = g[A]
<1> SUFFICES ASSUME NEW A \in SUBSET D PROVE Facturado(A) = g[A]
  OBVIOUS
<1>1. PICK k : k = [s \in SUBSET A |-> g[s]]
  OBVIOUS
<1>2. Suman(k, f, A)
  BY <1>1 DEF Suman
<1>3. IsFiniteSet(A)
  BY FS_Subset
<1>. QED
  BY <1>1, <1>2, <1>3, LoFacturadoEs

\* Each week of the series has what there was of it, and not one week is there twice.
Distintas(semana) == \A i, j \in 1 .. SEMANAS : semana[i] = semana[j] => i = j

LoDeCadaSemana(r, h, semana) ==
    /\ DOMAIN r = 1 .. SEMANAS
    /\ \A i \in 1 .. SEMANAS : r[i] = h[{c \in Suyas : SemanaDe(filas[c].dia) = semana[i]}]

LEMMA LasSemanasCaben ==
    ASSUME NEW h, Aditiva(h, Suyas), NEW semana, Distintas(semana),
           NEW r, LoDeCadaSemana(r, h, semana)
    PROVE  SumFunction(r) <= h[Suyas]
<1> DEFINE P == [i \in 1 .. SEMANAS |-> {c \in Suyas : SemanaDe(filas[c].dia) = semana[i]}]
<1>1. IsFiniteSet(1 .. SEMANAS)
  BY AgregadosOK, FS_Interval
<1>2. P \in [1 .. SEMANAS -> SUBSET Suyas]
      /\ \A i, j \in 1 .. SEMANAS : i # j => P[i] \cap P[j] = {}
  BY DEF Distintas
<1>3. DOMAIN r = 1 .. SEMANAS /\ \A i \in 1 .. SEMANAS : r[i] = h[P[i]]
  BY DEF LoDeCadaSemana
<1>4. PICK U : U = UNION {P[i] : i \in 1 .. SEMANAS}
  OBVIOUS
<1>5. U \in SUBSET Suyas
  BY <1>2, <1>4
<1> HIDE DEF P
<1>6. PICK I : I = 1 .. SEMANAS
  OBVIOUS
<1>7. SumFunction(r) = h[U]
  <2>1. Reparto(P, I, Suyas) /\ DeCadaParte(r, h, P, I)
    BY <1>1, <1>2, <1>3, <1>6 DEF Reparto, DeCadaParte
  <2>2. U = UNION {P[i] : i \in I}
    BY <1>4, <1>6
  <2>. QED
    BY <2>1, <2>2, LasPartesSuman
<1>. QED
  BY <1>5, <1>7, AditivaCrece

\* What a week says, in the whole history.
LEMMA LoDeUnaSemana ==
    ASSUME NEW w
    PROVE  LET s == {c \in Suyas : SemanaDe(filas[c].dia) = w} IN
           IF w \in DOMAIN PorSemana(Suyas)
           THEN /\ PorSemana(Suyas)[w].reservas = Cardinality(s)
                /\ PorSemana(Suyas)[w].facturado = Facturado(s)
           ELSE s = {}
<1>1. DOMAIN PorSemana(Suyas) = {SemanaDe(filas[c].dia) : c \in Suyas}
  BY DEF PorSemana
<1>2. w \in DOMAIN PorSemana(Suyas) =>
          PorSemana(Suyas)[w] = LoQueHay({c \in Suyas : SemanaDe(filas[c].dia) = w})
  BY DEF PorSemana
<1>3. w \notin DOMAIN PorSemana(Suyas) => {c \in Suyas : SemanaDe(filas[c].dia) = w} = {}
  BY <1>1
<1>4. \A s : LoQueHay(s).reservas = Cardinality(s) /\ LoQueHay(s).facturado = Facturado(s)
  BY DEF LoQueHay
<1>5. PICK s : s = {c \in Suyas : SemanaDe(filas[c].dia) = w}
  OBVIOUS
<1>6. w \in DOMAIN PorSemana(Suyas) => PorSemana(Suyas)[w] = LoQueHay(s)
  BY <1>2, <1>5
<1>. QED
  BY <1>3, <1>4, <1>5, <1>6

\* Bookings, by state and by week.
LEMMA CuadranReservas ==
    ASSUME LasFilas, grupo = "reservas", cuadro # SinLeer, LasSemanasSonEsas,
           Leida("porSemana").entera = PorSemana(Suyas),
           \A i, j \in 1 .. SEMANAS : cuadro[i].semana = cuadro[j].semana => i = j
    PROVE  /\ Total(DeReservas("porEstado")) = DeReservas("total")
           /\ SumFunction([i \in 1 .. SEMANAS |-> cuadro[i].reservas]) <= DeReservas("total")
           /\ SumFunction([i \in 1 .. SEMANAS |-> cuadro[i].facturado])
                  <= DeReservas("facturado")
<1>1. DeReservas("total") = Cardinality(Suyas) /\ DeReservas("facturado") = Facturado(Suyas)
  BY DEF DeReservas
<1>2. IsFiniteSet(Suyas)
  BY LosConjuntos
<1>3. Total(DeReservas("porEstado")) = Cardinality(Suyas)
  <2>1. PICK k : k = [c \in Suyas |-> filas[c].estado]
    OBVIOUS
  <2>2. {k[c] : c \in Suyas} = {filas[c].estado : c \in Suyas}
    BY <2>1
  <2>3. \A v : {c \in Suyas : k[c] = v} = {c \in Suyas : filas[c].estado = v}
    BY <2>1
  <2>4. DeReservas("porEstado") = [v \in {filas[c].estado : c \in Suyas} |->
                                   Cardinality({c \in Suyas : filas[c].estado = v})]
    BY DEF DeReservas, Recuento
  <2>5. DeReservas("porEstado") = CuantosPorClase(Suyas, k)
    BY <2>2, <2>3, <2>4 DEF CuantosPorClase
  <2>. QED
    BY <1>2, <2>5, LasClasesSuman
<1>4. PICK semana : semana = [i \in 1 .. SEMANAS |-> cuadro[i].semana]
  OBVIOUS
<1>5. Distintas(semana)
  BY <1>4 DEF Distintas
<1>6. ASSUME NEW i \in 1 .. SEMANAS
      PROVE  LET s == {c \in Suyas : SemanaDe(filas[c].dia) = semana[i]} IN
             IF semana[i] \in DOMAIN PorSemana(Suyas)
             THEN cuadro[i].reservas = Cardinality(s) /\ cuadro[i].facturado = Facturado(s)
             ELSE s = {} /\ cuadro[i].reservas = 0 /\ cuadro[i].facturado = 0
  <2>1. IF semana[i] \in DOMAIN PorSemana(Suyas)
        THEN /\ cuadro[i].reservas = PorSemana(Suyas)[semana[i]].reservas
             /\ cuadro[i].facturado = PorSemana(Suyas)[semana[i]].facturado
        ELSE cuadro[i].reservas = 0 /\ cuadro[i].facturado = 0
    BY <1>4 DEF LasSemanasSonEsas
  <2>. QED
    BY <2>1, LoDeUnaSemana
<1>7. SumFunction([i \in 1 .. SEMANAS |-> cuadro[i].reservas]) <= Cardinality(Suyas)
  <2>1. PICK h : h = [s \in SUBSET Suyas |-> Cardinality(s)]
    OBVIOUS
  <2>2. Aditiva(h, Suyas)
    BY <1>2, <2>1, ContarEsAditivo
  <2>3. PICK r : r = [i \in 1 .. SEMANAS |-> cuadro[i].reservas]
    OBVIOUS
  <2>4. ASSUME NEW i \in 1 .. SEMANAS
        PROVE  r[i] = h[{c \in Suyas : SemanaDe(filas[c].dia) = semana[i]}]
    BY <1>6, <2>1, <2>3, FS_EmptySet
  <2>5. SumFunction(r) <= h[Suyas]
    <3>1. LoDeCadaSemana(r, h, semana)
      BY <2>3, <2>4 DEF LoDeCadaSemana
    <3>. QED
      BY <1>5, <2>2, <3>1, LasSemanasCaben
  <2>. QED
    BY <2>1, <2>3, <2>5
<1>8. SumFunction([i \in 1 .. SEMANAS |-> cuadro[i].facturado]) <= Facturado(Suyas)
  <2>1. PICK f : f = [c \in Suyas |-> filas[c].cobrado]
    OBVIOUS
  <2>2. \A c \in Suyas : f[c] = filas[c].cobrado /\ f[c] \in Nat
    BY <2>1, LosConjuntos, AgregadosOK
  <2>3. PICK h : Suman(h, f, Suyas)
    BY <1>2, <2>2, HaySuma
  <2>4. Aditiva(h, Suyas)
    BY <1>2, <2>2, <2>3, LaSumaEsAditiva
  <2>5. \A A \in SUBSET Suyas : Facturado(A) = h[A]
    BY <1>2, <2>2, <2>3, LoFacturadoDeUnas
  <2>6. h[{}] = 0
    BY <2>4 DEF Aditiva
  <2>7. PICK r : r = [i \in 1 .. SEMANAS |-> cuadro[i].facturado]
    OBVIOUS
  <2>8. ASSUME NEW i \in 1 .. SEMANAS
        PROVE  r[i] = h[{c \in Suyas : SemanaDe(filas[c].dia) = semana[i]}]
    BY <1>6, <2>5, <2>6, <2>7
  <2>9. SumFunction(r) <= h[Suyas]
    <3>1. LoDeCadaSemana(r, h, semana)
      BY <2>7, <2>8 DEF LoDeCadaSemana
    <3>. QED
      BY <1>5, <2>4, <3>1, LasSemanasCaben
  <2>. QED
    BY <2>5, <2>7, <2>9
<1>. QED
  BY <1>1, <1>3, <1>7, <1>8

\* Reviews, by their mark and by who is reviewed.
LEMMA CuadranValoraciones ==
    ASSUME LasFilas, grupo = "valoraciones"
    PROVE  /\ Total(DeValoraciones("porNota")) = DeValoraciones("total")
           /\ DeValoraciones("reportadas") <= DeValoraciones("total")
           /\ Total([p \in DOMAIN Reputacion |-> Reputacion[p].valoraciones])
                  = DeValoraciones("total")
           /\ \A p \in DOMAIN Reputacion : Reputacion[p].tasa <= 100
           /\ DeValoraciones("sinResponder") = 0 =>
                  \A p \in DOMAIN Reputacion : Reputacion[p].tasa = 100
<1>1. DeValoraciones("total") = Cardinality(Suyas)
  BY DEF DeValoraciones
<1>2. IsFiniteSet(Suyas)
  BY LosConjuntos
<1>3. Total(DeValoraciones("porNota")) = Cardinality(Suyas)
  <2>1. PICK k : k = [c \in Suyas |-> filas[c].nota]
    OBVIOUS
  <2>2. {k[c] : c \in Suyas} = {filas[c].nota : c \in Suyas}
    BY <2>1
  <2>3. \A v : {c \in Suyas : k[c] = v} = {c \in Suyas : filas[c].nota = v}
    BY <2>1
  <2>4. DeValoraciones("porNota") = [v \in {filas[c].nota : c \in Suyas} |->
                                   Cardinality({c \in Suyas : filas[c].nota = v})]
    BY DEF DeValoraciones, Recuento
  <2>5. DeValoraciones("porNota") = CuantosPorClase(Suyas, k)
    BY <2>2, <2>3, <2>4 DEF CuantosPorClase
  <2>. QED
    BY <1>2, <2>5, LasClasesSuman
<1>4. DeValoraciones("reportadas") <= Cardinality(Suyas)
  <2>1. DeValoraciones("reportadas") = Cardinality({c \in Suyas : filas[c].reportada})
    BY DEF DeValoraciones, Cuantas
  <2>2. {c \in Suyas : filas[c].reportada} \in SUBSET Suyas
    OBVIOUS
  <2>3. Cardinality({c \in Suyas : filas[c].reportada}) <= Cardinality(Suyas)
    BY <2>2, LosConjuntos
  <2>. QED
    BY <2>1, <2>3
<1>5. {c \in Hay : soloDemostracion => filas[c].suProfesionalDemo} = Suyas
  <2>1. \A c \in Hay : filas[c].demo = filas[c].suProfesionalDemo
    BY LosConjuntos, AgregadosOK
  <2>. QED
    BY <2>1 DEF Suyas, Acotar
<1> DEFINE De(p) == {c \in Suyas : filas[c].profesional = p}
<1>6. Reputacion = [p \in {filas[c].profesional : c \in Suyas} |->
                       [valoraciones |-> Cardinality(De(p)), media |-> Media(De(p)),
                        tasa |-> Tasa(De(p))]]
  BY <1>5 DEF Reputacion
<1>7. Total([p \in DOMAIN Reputacion |-> Reputacion[p].valoraciones]) = Cardinality(Suyas)
  <2>1. PICK k : k = [c \in Suyas |-> filas[c].profesional]
    OBVIOUS
  <2>2. {k[c] : c \in Suyas} = {filas[c].profesional : c \in Suyas}
    BY <2>1
  <2>3. \A v : {c \in Suyas : k[c] = v} = De(v)
    BY <2>1
  <2>4. [p \in DOMAIN Reputacion |-> Reputacion[p].valoraciones] =
            [p \in {filas[c].profesional : c \in Suyas} |-> Cardinality(De(p))]
    BY <1>6
  <2>5. [p \in DOMAIN Reputacion |-> Reputacion[p].valoraciones] = CuantosPorClase(Suyas, k)
    BY <2>2, <2>3, <2>4 DEF CuantosPorClase
  <2>. QED
    BY <1>2, <2>5, LasClasesSuman
<1>8. ASSUME NEW p \in DOMAIN Reputacion
      PROVE  /\ Reputacion[p].tasa <= 100
             /\ DeValoraciones("sinResponder") = 0 => Reputacion[p].tasa = 100
  <2> DEFINE R == {c \in De(p) : filas[c].respondida}
  <2>1. Reputacion[p].tasa = Tasa(De(p)) /\ De(p) # {} /\ De(p) \in SUBSET Suyas
    BY <1>6
  <2>2. IsFiniteSet(De(p)) /\ Cardinality(De(p)) \in Nat \ {0}
    <3>1. IsFiniteSet(De(p))
      BY <2>1, LosConjuntos
    <3>2. Cardinality(De(p)) \in Nat
      BY <3>1, FS_CardinalityType
    <3>. QED
      BY <2>1, <3>1, <3>2, FS_EmptySet
  <2>3. Cardinality(R) \in Nat /\ Cardinality(R) <= Cardinality(De(p))
    <3>1. R \in SUBSET De(p)
      OBVIOUS
    <3> HIDE DEF R
    <3>. QED
      BY <2>2, <3>1, FS_Subset, FS_CardinalityType
  <2>4. Tasa(De(p)) = (200 * Cardinality(R) + Cardinality(De(p))) \div (2 * Cardinality(De(p)))
    BY <2>1 DEF Tasa
  <2>5. ASSUME DeValoraciones("sinResponder") = 0 PROVE Cardinality(R) = Cardinality(De(p))
    <3>1. PICK N : N = {c \in Suyas : ~filas[c].respondida}
      OBVIOUS
    <3>2. IsFiniteSet(N)
      BY <3>1, LosConjuntos
    <3>3. Cardinality(N) = 0
      BY <2>5, <3>1 DEF DeValoraciones, Cuantas
    <3>4. N = {}
      BY <3>2, <3>3, FS_EmptySet
    <3>5. \A c \in Suyas : filas[c].respondida
      BY <3>1, <3>4
    <3>6. R = De(p)
      BY <3>5
    <3>. QED
      BY <3>6
  <2> HIDE DEF R, De
  <2>. QED
    BY <2>1, <2>2, <2>3, <2>4, <2>5, LaTasa
<1>. QED
  BY <1>1, <1>3, <1>4, <1>7, <1>8

\* A figure is of the rows, of who asks and of the day asked from.
LEMMA CifraIgual ==
    ASSUME UNCHANGED <<filas, soloDemostracion, grupo>>, consulta'.desde = consulta.desde, NEW c
    PROVE  Cifra(c)' = Cifra(c)
BY DEF Cifra, DeUsuarios, DeServicios, DeReservas, DeValoraciones, Reputacion, Hay, Suyas,
       Acotar, Tasa, Media, Suma, MapThenSumSet, MapThenFoldSet, Activos, Recuento, Cuantas,
       PorSemana, LoQueHay, Facturado

\* Unless somebody writes, what is done leaves the figures read as they are.
LEMMA CifrasMantiene ==
    ASSUME SemanasEnOrden, CifrasDeHoy, [NextAgregados]_varsAgregados, cambios' = 0
    PROVE  \A c \in Pedidas' : consulta'.cifras[c] = SinLeer \/ Leida(c)' = Cifra(c)'
<1>1. TipoAgregados /\ cambios \in Nat
  BY AgregadosOK DEF SemanasEnOrden, TipoAgregados
<1>2. ASSUME UNCHANGED <<filas, soloDemostracion, grupo, consulta, cambios>>
      PROVE  \A c \in Pedidas' : consulta'.cifras[c] = SinLeer \/ Leida(c)' = Cifra(c)'
  <2>1. \A c : Cifra(c)' = Cifra(c)
    BY <1>2, CifraIgual
  <2>2. Pedidas' = Pedidas /\ \A c : Leida(c)' = Leida(c)
    BY <1>2 DEF Pedidas, Leida
  <2>. QED
    BY <1>2, <2>1, <2>2 DEF CifrasDeHoy
<1>3. CASE PedirCifras
  BY <1>3 DEF PedirCifras, Pedidas
<1>4. ASSUME NEW e \in Pedidas, LeerCifra(e)
      PROVE  \A c \in Pedidas' : consulta'.cifras[c] = SinLeer \/ Leida(c)' = Cifra(c)'
  <2>1. /\ consulta' = [consulta EXCEPT !.cifras = [@ EXCEPT ![e] = <<Cifra(e)>>]]
        /\ UNCHANGED <<grupo, soloDemostracion, filas, hoy, cuadro, anotadas, lectura, cambios>>
    BY <1>4 DEF LeerCifra
  <2>2. DOMAIN consulta = {"desde", "cifras"}
    BY <1>1 DEF TipoAgregados
  <2>3. /\ consulta'.desde = consulta.desde
        /\ consulta'.cifras = [consulta.cifras EXCEPT ![e] = <<Cifra(e)>>]
    BY <2>1, <2>2
  <2>4. \A c : Cifra(c)' = Cifra(c)
    BY <2>1, <2>3, CifraIgual
  <2>5. Pedidas' = Pedidas /\ Leida(e)' = Cifra(e)
    BY <2>3 DEF Pedidas, Leida
  <2>6. \A c \in Pedidas : c # e =>
            consulta'.cifras[c] = consulta.cifras[c] /\ Leida(c)' = Leida(c)
    BY <2>3 DEF Pedidas, Leida
  <2>. QED
    BY <2>1, <2>4, <2>5, <2>6 DEF CifrasDeHoy
<1>5. CASE Responder
  BY <1>2, <1>5 DEF Responder
<1>6. ASSUME NEW c \in Claves, NEW fila, Cambiar(c, fila) PROVE FALSE
  BY <1>1, <1>6 DEF Cambiar
<1>7. CASE PasaElDia
  BY <1>2, <1>7 DEF PasaElDia
<1>8. CASE Anotar
  BY <1>2, <1>8 DEF Anotar
<1>9. ASSUME NEW p, LeerPagina(p)
      PROVE  \A c \in Pedidas' : consulta'.cifras[c] = SinLeer \/ Leida(c)' = Cifra(c)'
  BY <1>2, <1>9 DEF LeerPagina
<1>10. CASE ContarPaginas
  BY <1>2, <1>10 DEF ContarPaginas
<1>11. CASE UNCHANGED varsAgregados
  BY <1>2, <1>11 DEF varsAgregados
<1>. QED
  BY <1>3, <1>4, <1>5, <1>6, <1>7, <1>8, <1>9, <1>10, <1>11 DEF NextAgregados

\* The weeks of the answer follow one another, so that none is there twice.
LEMMA LasSemanasNoSeRepiten ==
    ASSUME SemanasEnOrden, Responder, grupo = "reservas"
    PROVE  \A i, j \in 1 .. SEMANAS : cuadro'[i].semana = cuadro'[j].semana => i = j
<1>1. hoy \in Nat /\ SEMANAS \in Nat /\ cuadro' = CompletarSemanas(Leida("porSemana").serie)
  BY AgregadosOK DEF SemanasEnOrden, TipoAgregados, Responder
<1>2. LunesHace(0) \in Int
      /\ \A n \in Nat : LunesHace(n) \in Int /\ LunesHace(n) = LunesHace(0) - n * 7
  BY <1>1, LunesDeHoy, ElLunes
<1>3. \A i \in 1 .. SEMANAS : SEMANAS - i \in Nat /\ cuadro'[i].semana = LunesHace(SEMANAS - i)
  BY <1>1 DEF CompletarSemanas
<1>4. ASSUME NEW i \in 1 .. SEMANAS, NEW j \in 1 .. SEMANAS,
             cuadro'[i].semana = cuadro'[j].semana
      PROVE  i = j
  <2>1. LunesHace(SEMANAS - i) = LunesHace(SEMANAS - j)
    BY <1>3, <1>4
  <2>2. PICK m \in Int : m = LunesHace(0)
    BY <1>2
  <2>3. m - (SEMANAS - i) * 7 = m - (SEMANAS - j) * 7
    BY <1>2, <1>3, <2>1, <2>2
  <2>. QED
    BY <1>1, <2>2, <2>3
<1>. QED
  BY <1>4

LEMMA CifrasDeHoyMantiene ==
    ASSUME SemanasEnOrden, CifrasDeHoy, [NextAgregados]_varsAgregados PROVE CifrasDeHoy'
<1>1. cambios' = 0 => \A c \in Pedidas' : consulta'.cifras[c] = SinLeer \/ Leida(c)' = Cifra(c)'
  BY CifrasMantiene
<1>2. CASE Responder
  BY <1>1, <1>2, LasSemanasNoSeRepiten DEF CifrasDeHoy, Responder
<1>3. CASE ~Responder
  <2>1. UNCHANGED <<cuadro, grupo>>
    BY <1>3 DEF NextAgregados, varsAgregados, PedirCifras, LeerCifra, Cambiar, PasaElDia,
                Anotar, LeerPagina, ContarPaginas
  <2>. QED
    BY <1>1, <2>1 DEF CifrasDeHoy
<1>. QED
  BY <1>2, <1>3

\* What was answered adds up.
LEMMA LoRespondidoCuadra == ASSUME SemanasEnOrden, CifrasDeHoy PROVE LosTotalesCuadran
<1>1. SUFFICES ASSUME cuadro # SinLeer, cambios = 0 PROVE LosTotalesCuadran
  BY DEF LosTotalesCuadran
<1>2. LasFilas /\ LasSemanasSonEsas
  BY DEF SemanasEnOrden, TipoAgregados, LasFilas
<1>3. Pedidas = Consultas[grupo] /\ \A c \in Pedidas : Leida(c) = Cifra(c)
  BY <1>1 DEF SemanasEnOrden, SerieBien, CifrasDeHoy
<1>4. CASE grupo = "usuarios"
  <2>1. \A c \in {"total", "inactivos", "porRol"} : Leida(c) = DeUsuarios(c)
    BY <1>3, <1>4 DEF Consultas, Cifra
  <2>. QED
    BY <1>2, <1>4, <2>1, CuadranUsuarios DEF LosTotalesCuadran
<1>5. CASE grupo = "servicios"
  <2>1. \A c \in {"total", "activos", "sinFoto", "porCategoria", "porCiudad", "sinServicios"} :
            Leida(c) = DeServicios(c)
    BY <1>3, <1>5 DEF Consultas, Cifra
  <2>. QED
    BY <1>2, <1>5, <2>1, CuadranServicios DEF LosTotalesCuadran
<1>6. CASE grupo = "reservas"
  <2>1. \A c \in {"total", "porEstado", "facturado", "porSemana"} : Leida(c) = DeReservas(c)
    BY <1>3, <1>6 DEF Consultas, Cifra
  <2>2. Leida("porSemana").entera = PorSemana(Suyas)
    BY <2>1 DEF DeReservas
  <2>3. \A i, j \in 1 .. SEMANAS : cuadro[i].semana = cuadro[j].semana => i = j
    BY <1>1, <1>6 DEF CifrasDeHoy
  <2>. QED
    BY <1>1, <1>2, <1>6, <2>1, <2>2, <2>3, CuadranReservas DEF LosTotalesCuadran
<1>7. CASE grupo = "valoraciones"
  <2>1. /\ \A c \in {"total", "porNota", "reportadas", "sinResponder"} :
               Leida(c) = DeValoraciones(c)
        /\ Leida("reputacion") = Reputacion
    BY <1>3, <1>7 DEF Consultas, Cifra, DeValoraciones
  <2>. QED
    BY <1>2, <1>7, <2>1, CuadranValoraciones DEF LosTotalesCuadran
<1>8. grupo # "historial"
  <2>1. Pedidas # {}
    BY <1>1 DEF SemanasEnOrden, SerieBien
  <2>. QED
    BY <1>3, <2>1 DEF Consultas
<1>. QED
  BY <1>2, <1>4, <1>5, <1>6, <1>7, <1>8 DEF LasFilas, Consultas

\* ElPanelCuadra (admin.service.ts:270-303): besides its weeks and its history, unless
\* somebody wrote meanwhile the panel is of one and the same world.  Of whatever table, the
\* counts by role, category, city, state, mark and professional add up to the total they
\* are part of; no week is counted twice, nor charged more than there is in all; and no
\* percentage is above a hundred.
THEOREM SiempreCuadraElPanel == SpecAgregados => []ElPanelCuadra
<1>1. InitAgregados => CifrasDeHoy
  BY DEF InitAgregados, CifrasDeHoy, Pedidas, NadaLeido
<1>2. SemanasEnOrden /\ HistoriaEnOrden /\ CifrasDeHoy /\ [NextAgregados]_varsAgregados =>
          CifrasDeHoy'
  BY CifrasDeHoyMantiene
<1>3. SemanasEnOrden /\ HistoriaEnOrden /\ CifrasDeHoy => ElPanelCuadra
  BY LoRespondidoCuadra, NadieSalta DEF ElPanelCuadra, SemanasEnOrden
<1>. QED
  BY <1>1, <1>2, <1>3, PanelInvariante, PTL DEF SpecAgregados

-----------------------------------------------------------------------------
(***************************************************************************)
(* The four of them together, as they are run.                             *)
(***************************************************************************)

\* A behaviour of them all is one of each, and meets what each promises, for any requests,
\* rates, rows and bounds.
THEOREM LaCuentaCompartidaCumple ==
    SpecTodas => [](TiposOK /\ SoloLaClaveDeHoy /\ LosEnlacesCuadran /\ ReservarCuadra
                    /\ ElPanelCuadra /\ LaDescargaCuadra)
<1>1. InitTodas => Init /\ InitReservar /\ InitAgregados /\ InitDescarga
  BY DEF InitTodas
<1>2. [NextTodas]_varsTodas => /\ [Next]_vars /\ [NextReservar]_varsReservar
                               /\ [NextAgregados]_varsAgregados /\ [NextDescarga]_varsDescarga
  BY DEF NextTodas, LaCuenta, LasTarifas, LaReserva, LasCifras, LaDescarga, varsTodas, NextReservar
<1>3. SpecTodas => Spec /\ SpecReservar /\ SpecAgregados /\ SpecDescarga
  BY <1>1, <1>2, PTL DEF SpecTodas, Spec, SpecReservar, SpecAgregados, SpecDescarga
<1>4. Tipos /\ ReservarEnOrden /\ SemanasEnOrden /\ DescargaEnOrden => TiposOK
  BY DEF TiposOK, Tipos, ReservarEnOrden, SemanasEnOrden, DescargaEnOrden
<1>5. SpecTodas => [](Tipos /\ ReservarEnOrden /\ SemanasEnOrden /\ DescargaEnOrden)
  BY <1>3, CuentasTipos, ReservarInvariante, PanelInvariante, DescargaInvariante, PTL
<1>. QED
  BY <1>3, <1>4, <1>5, SiempreLaDeHoy, SiempreEnlaces, ReservarSiempreCuadra,
     SiempreCuadraElPanel, SiempreCuadraLaDescarga, PTL
=============================================================================
