------------------------------ MODULE Agregados -------------------------------
(***************************************************************************)
(* The figures of the administration.  metricas asks nineteen queries at   *)
(* once; each reads the database when its turn comes, while others write,  *)
(* and the week may turn before the series of weeks is filled in.  Each of *)
(* them has to limit itself to the world of who asks.  The history of      *)
(* moderation is read in pages, while entries are added at its top.        *)
(*                                                                         *)
(* Queries on different tables have nothing in common: a behaviour is      *)
(* about one table (grupo), whose rows are replaced by other requests.     *)
(* Days are numbers; day 0 is a Sunday.                                    *)
(***************************************************************************)
EXTENDS Integers, FiniteSets, FiniteSetsExt, Functions

CONSTANTS
    Claves,         \* rows of the table at most
    Posibles,       \* what a row may be, for each table
    Oficios,        \* the categories
    Comienzos,      \* the days on which the figures may be asked for
    SEMANAS,        \* weeks in the series
    LIMITE,         \* entries in a page of the history
    NoHay,          \* no row
    SinLeer,        \* no answer yet
    MaxCambios,     \* bound: rows written by others
    MaxAnotadas     \* bound: entries in the history

ASSUME AgregadosOK ==
    /\ IsFiniteSet(Claves) /\ IsFiniteSet(Oficios)
    /\ DOMAIN Posibles = {"usuarios", "servicios", "reservas", "valoraciones", "historial"}
    /\ \A s \in Posibles["servicios"] : s.oficio \in Oficios
    /\ \A r \in Posibles["reservas"] : r.dia \in Int /\ r.cobrado \in Nat
    \* Nobody books, nor reviews, who is not of their world: comprobarMismoMundo.
    /\ \A v \in Posibles["valoraciones"] : v.demo = v.suProfesionalDemo
    /\ Comienzos \subseteq Nat
    /\ SEMANAS \in Nat \ {0} /\ LIMITE \in Nat \ {0}
    /\ MaxCambios \in Nat /\ MaxAnotadas \in Nat

VARIABLES
    grupo,              \* the table the behaviour is about
    soloDemostracion,   \* who asks is of the demonstration
    filas,              \* the rows of the table
    hoy,                \* the present day
    consulta,           \* the queries asked at once: when, and what they answered
    cuadro,             \* what the panel was answered
    anotadas,           \* how many entries the history has: the last is the newest
    lectura,            \* the reading of the history, page by page
    cambios             \* rows written: before the queries, and since

varsAgregados ==
    <<grupo, soloDemostracion, filas, hoy, consulta, cuadro, anotadas, lectura, cambios>>

Consultas ==
    [usuarios |-> {"total", "inactivos", "porRol"},
     servicios |-> {"total", "activos", "sinFoto", "porCategoria", "porCiudad", "sinServicios"},
     reservas |-> {"total", "porEstado", "facturado", "porSemana"},
     valoraciones |-> {"total", "media", "porNota", "reportadas", "sinResponder", "reputacion"},
     historial |-> {}]

-----------------------------------------------------------------------------
(* Weeks.                                                                  *)

\* Where date_trunc('week') of PostgreSQL cuts: the Monday up to which a day goes back.
SemanaDe(dia) == CHOOSE lunes \in (dia - 6) .. dia : lunes % 7 = 1

LunesHaceSinDomingo(semanas) == hoy - ((hoy % 7) - 1) - (semanas * 7)

\* lunesHace: Sunday, which is 0, goes back six days.
LunesHace(semanas) == hoy - (((hoy % 7) + 6) % 7) - (semanas * 7)

\* completarSemanas: every week there has to be, with what the query says of it.
CompletarSemanas(porSemana) ==
    [i \in 1 .. SEMANAS |->
        LET semana == LunesHace(SEMANAS - i) IN
        [semana |-> semana,
         reservas |-> IF semana \in DOMAIN porSemana THEN porSemana[semana].reservas ELSE 0,
         facturado |-> IF semana \in DOMAIN porSemana THEN porSemana[semana].facturado ELSE 0]]

-----------------------------------------------------------------------------
(* Queries.                                                                *)

Hay == {c \in Claves : filas[c] # NoHay}

\* acotar, and the conditions that say the same: a service is of the world of its
\* professional, a booking and a review of the world of their client.
Acotar(claves) == IF soloDemostracion THEN {c \in claves : filas[c].demo} ELSE claves

Suyas == Acotar(Hay)

\* GROUP BY, with COUNT(*).
Recuento(claves, Clave(_)) ==
    [v \in {Clave(filas[c]) : c \in claves} |->
        Cardinality({c \in claves : Clave(filas[c]) = v})]

Cuantas(Cumple(_)) == Cardinality({c \in Suyas : Cumple(filas[c])})

Suma(claves, Valor(_)) == MapThenSumSet(LAMBDA c : Valor(filas[c]), claves)

\* AVG to the hundredth, rounded.
Media(claves) ==
    IF claves = {} THEN SinLeer
    ELSE LET n == Cardinality(claves)
             suma == Suma(claves, LAMBDA v : v.nota) IN (200 * suma + n) \div (2 * n)

\* The percentage, rounded.
Tasa(claves) ==
    IF claves = {} THEN SinLeer
    ELSE LET n == Cardinality(claves)
             respondidas == Cardinality({c \in claves : filas[c].respondida}) IN
         (200 * respondidas + n) \div (2 * n)

DeUsuarios(c) ==
    CASE c = "total" -> Cardinality(Suyas)
      [] c = "inactivos" -> Cuantas(LAMBDA u : ~u.activo)
      [] c = "porRol" -> Recuento(Suyas, LAMBDA u : u.rol)

Activos == Acotar({c \in Hay : filas[c].activo})

\* The categories are everybody's, and one is used if anybody's service has it.
DeServicios(c) ==
    CASE c = "total" -> Cardinality(Suyas)
      [] c = "activos" -> Cardinality({s \in Suyas : filas[s].activo})
      [] c = "sinFoto" -> Cuantas(LAMBDA s : ~s.foto)
      [] c = "porCategoria" -> Recuento(Activos, LAMBDA s : s.oficio)
      [] c = "porCiudad" -> Recuento(Activos, LAMBDA s : s.ciudad)
      [] c = "sinServicios" -> Cardinality(Oficios \ {filas[s].oficio : s \in Hay})

Facturado(claves) == Suma(claves, LAMBDA r : r.cobrado)

LoQueHay(claves) == [reservas |-> Cardinality(claves), facturado |-> Facturado(claves)]

\* The series has no upper bound: the bookings to come are in it, and are left out
\* when it is filled in.
PorSemana(claves) ==
    [semana \in {SemanaDe(filas[c].dia) : c \in claves} |->
        LoQueHay({c \in claves : SemanaDe(filas[c].dia) = semana})]

DeReservas(c) ==
    CASE c = "total" -> Cardinality(Suyas)
      [] c = "porEstado" -> Recuento(Suyas, LAMBDA r : r.estado)
      [] c = "facturado" -> Facturado(Suyas)
      [] c = "porSemana" ->
             [serie |-> PorSemana({r \in Suyas : filas[r].dia >= consulta.desde}),
              entera |-> PorSemana(Suyas)]      \* history: whatever the date

\* One professional after the other, of the world of who asks: the mean of the
\* person, over all its services.
Reputacion ==
    LET deEllos == {c \in Hay : soloDemostracion => filas[c].suProfesionalDemo} IN
    [p \in {filas[c].profesional : c \in deEllos} |->
        LET suyas == {c \in deEllos : filas[c].profesional = p} IN
        [valoraciones |-> Cardinality(suyas), media |-> Media(suyas), tasa |-> Tasa(suyas)]]

DeValoraciones(c) ==
    CASE c = "total" -> Cardinality(Suyas)
      [] c = "media" -> Media(Suyas)
      [] c = "porNota" -> Recuento(Suyas, LAMBDA v : v.nota)
      [] c = "reportadas" -> Cuantas(LAMBDA v : v.reportada)
      [] c = "sinResponder" -> Cuantas(LAMBDA v : ~v.respondida)
      [] c = "reputacion" -> Reputacion

Cifra(c) ==
    CASE grupo = "usuarios" -> DeUsuarios(c)
      [] grupo = "servicios" -> DeServicios(c)
      [] grupo = "reservas" -> DeReservas(c)
      [] grupo = "valoraciones" -> DeValoraciones(c)

-----------------------------------------------------------------------------

NadaLeido == [desde |-> 0, cifras |-> [c \in {} |-> SinLeer]]
SinAbrir == [pagina |-> 0, paginas |-> 0, vistas |-> {}, alAbrir |-> 0]

TipoAgregados ==
    /\ grupo \in DOMAIN Consultas
    /\ soloDemostracion \in BOOLEAN
    /\ filas \in [Claves -> Posibles[grupo] \cup {NoHay}]
    /\ hoy \in Nat
    /\ DOMAIN consulta = {"desde", "cifras"} /\ consulta.desde \in Int
    /\ cuadro = SinLeer \/ DOMAIN cuadro = 1 .. SEMANAS
    /\ anotadas \in 0 .. MaxAnotadas
    /\ lectura \in [pagina : Nat, paginas : Nat, vistas : SUBSET (1 .. MaxAnotadas),
                    alAbrir : 0 .. MaxAnotadas]
    /\ cambios \in 0 .. MaxCambios

\* As many rows as there may be, and no query asked.
InitAgregados ==
    /\ grupo \in DOMAIN Consultas
    /\ soloDemostracion \in BOOLEAN
    /\ filas \in [Claves -> Posibles[grupo] \cup {NoHay}]
    /\ hoy \in Comienzos
    /\ consulta = NadaLeido
    /\ cuadro = SinLeer
    /\ anotadas \in 0 .. MaxAnotadas
    /\ lectura = SinAbrir
    /\ cambios = 0

\* metricas: every query is asked, those that depend on the date with that of now.
PedirCifras ==
    /\ Consultas[grupo] # {} /\ consulta = NadaLeido
    /\ consulta' = [desde |-> LunesHace(SEMANAS - 1),
                    cifras |-> [c \in Consultas[grupo] |-> SinLeer]]
    /\ UNCHANGED <<grupo, soloDemostracion, filas, hoy, cuadro, anotadas, lectura, cambios>>

Pedidas == DOMAIN consulta.cifras

LeerCifra(c) ==
    /\ consulta.cifras[c] = SinLeer
    /\ consulta' = [consulta EXCEPT !.cifras = [@ EXCEPT ![c] = <<Cifra(c)>>]]
    /\ UNCHANGED <<grupo, soloDemostracion, filas, hoy, cuadro, anotadas, lectura, cambios>>

Leida(c) == consulta.cifras[c][1]

\* All are in: the answer is made, with the weeks of the day it is then.
Responder ==
    /\ Pedidas # {} /\ \A c \in Pedidas : consulta.cifras[c] # SinLeer
    /\ cuadro = SinLeer
    /\ cuadro' = IF grupo = "reservas" THEN CompletarSemanas(Leida("porSemana").serie)
                 ELSE [i \in 1 .. SEMANAS |-> SinLeer]
    /\ UNCHANGED <<grupo, soloDemostracion, filas, hoy, consulta, anotadas, lectura, cambios>>

\* Another request writes a row, or removes it.
Cambiar(c, fila) ==
    /\ Pedidas # {} /\ cuadro = SinLeer
    /\ cambios < MaxCambios
    /\ filas[c] # fila
    /\ filas' = [filas EXCEPT ![c] = fila]
    /\ cambios' = cambios + 1
    /\ UNCHANGED <<grupo, soloDemostracion, hoy, consulta, cuadro, anotadas, lectura>>

PasaElDia ==
    /\ Pedidas # {} /\ cuadro = SinLeer
    /\ hoy \in Comienzos
    /\ hoy' = hoy + 1
    /\ UNCHANGED <<grupo, soloDemostracion, filas, consulta, cuadro, anotadas, lectura, cambios>>

-----------------------------------------------------------------------------
(* The history of moderation.                                              *)

\* anotar: what was done is written down, unless it fails, which stops nothing.
Anotar ==
    /\ grupo = "historial" /\ anotadas < MaxAnotadas
    /\ anotadas' = anotadas + 1
    /\ UNCHANGED <<grupo, soloDemostracion, filas, hoy, consulta, cuadro, lectura, cambios>>

\* The newest first.
EnPagina(pagina) == {i \in 1 .. anotadas : (anotadas - i) \div LIMITE = pagina - 1}

\* listar: to who is of the demonstration, nothing.  The page...
LeerPagina(pagina) ==
    /\ grupo = "historial"
    /\ \/ pagina = 1
       \/ pagina = lectura.pagina + 1 /\ pagina <= lectura.paginas
    /\ LET deEsta == IF soloDemostracion THEN {} ELSE EnPagina(pagina) IN
       lectura' = [pagina |-> pagina,
                   paginas |-> 0,
                   vistas |-> IF pagina = 1 THEN deEsta ELSE lectura.vistas \cup deEsta,
                   alAbrir |-> IF pagina = 1 THEN anotadas ELSE lectura.alAbrir]
    /\ UNCHANGED <<grupo, soloDemostracion, filas, hoy, consulta, cuadro, anotadas, cambios>>

\* ...and then how many there are.
ContarPaginas ==
    /\ lectura.pagina > 0 /\ lectura.paginas = 0
    /\ lectura' = [lectura EXCEPT !.paginas =
           IF soloDemostracion \/ anotadas = 0 THEN 1
           ELSE (anotadas + LIMITE - 1) \div LIMITE]
    /\ UNCHANGED <<grupo, soloDemostracion, filas, hoy, consulta, cuadro, anotadas, cambios>>

NextAgregados ==
    \/ PedirCifras
    \/ \E c \in Pedidas : LeerCifra(c)
    \/ Responder
    \/ \E c \in Claves, fila \in Posibles[grupo] \cup {NoHay} : Cambiar(c, fila)
    \/ PasaElDia
    \/ Anotar
    \/ \E pagina \in 1 .. MaxAnotadas : LeerPagina(pagina)
    \/ ContarPaginas

SpecAgregados == InitAgregados /\ [][NextAgregados]_varsAgregados

-----------------------------------------------------------------------------
(* What it promises.                                                       *)

\* admin.service.ts:270-276.  The series is the last weeks, each after the other, and
\* each says what there was of it when it was read, even if the week has turned.
LasSemanasSonEsas ==
    (cuadro # SinLeer /\ grupo = "reservas") =>
        LET entera == Leida("porSemana").entera IN
        /\ cuadro[SEMANAS].semana = SemanaDe(hoy)
        /\ \A i \in 2 .. SEMANAS : cuadro[i].semana = cuadro[i - 1].semana + 7
        /\ \A i \in 1 .. SEMANAS :
               IF cuadro[i].semana \in DOMAIN entera
               THEN /\ cuadro[i].reservas = entera[cuadro[i].semana].reservas
                    /\ cuadro[i].facturado = entera[cuadro[i].semana].facturado
               ELSE cuadro[i].reservas = 0 /\ cuadro[i].facturado = 0

Total(recuento) == SumFunction(recuento)

\* admin.service.ts:293-303.  Unless somebody wrote between them, the figures say the
\* same of the same world: parts add up to what they are parts of.
LosTotalesCuadran ==
    (cuadro # SinLeer /\ cambios = 0) =>
        CASE grupo = "usuarios" ->
                 /\ Total(Leida("porRol")) = Leida("total")
                 /\ Leida("inactivos") <= Leida("total")
          [] grupo = "servicios" ->
                 /\ Total(Leida("porCategoria")) = Leida("activos")
                 /\ Total(Leida("porCiudad")) = Leida("activos")
                 /\ Leida("activos") <= Leida("total") /\ Leida("sinFoto") <= Leida("total")
                 /\ Cardinality(DOMAIN Leida("porCategoria")) + Leida("sinServicios")
                        <= Cardinality(Oficios)
          [] grupo = "reservas" ->
                 /\ Total(Leida("porEstado")) = Leida("total")
                 /\ SumFunction([i \in 1 .. SEMANAS |-> cuadro[i].reservas]) <= Leida("total")
                 /\ SumFunction([i \in 1 .. SEMANAS |-> cuadro[i].facturado])
                        <= Leida("facturado")
          [] grupo = "valoraciones" ->
                 LET reputacion == Leida("reputacion") IN
                 /\ Total(Leida("porNota")) = Leida("total")
                 /\ Leida("reportadas") <= Leida("total")
                 /\ Total([p \in DOMAIN reputacion |-> reputacion[p].valoraciones])
                        = Leida("total")
                 /\ \A p \in DOMAIN reputacion : reputacion[p].tasa <= 100
                 /\ Leida("sinResponder") = 0 => \A p \in DOMAIN reputacion : reputacion[p].tasa = 100

\* auditoria.service.ts:70-105.  Who goes through the history page by page does not
\* skip an entry that was there at the first, whatever is noted meanwhile.
NadaSeSalta ==
    lectura.vistas # {} =>
        \A i \in Min(lectura.vistas) .. lectura.alAbrir : i \in lectura.vistas

ElPanelCuadra == LasSemanasSonEsas /\ LosTotalesCuadran /\ NadaSeSalta
=============================================================================
