------------------------------- MODULE Busqueda -------------------------------
(***************************************************************************)
(* The search: the address of the page, what it asks of the API, and what  *)
(* the API answers.                                                        *)
(*                                                                         *)
(* The address says everything: filters, view and page are read from it,   *)
(* and to change one of them is to go to another address.  The site asks   *)
(* for the first answer when it serves the page, and may have it from a    *)
(* minute ago; the browser asks for it when the site got none, or again.   *)
(* The answer comes when it comes, to whatever the page has become.        *)
(***************************************************************************)
EXTENDS Integers, FiniteSets, Sequences, SequencesExt

CONSTANTS
    Catalogos,      \* what there may be published: id -> Ficha
    Amplia,         \* the dictionary of trades: word -> the words it adds
    Nombre,         \* the words in the name of each category
    Nada,           \* what is not said
    Enlaces,        \* addresses somebody may arrive with
    Peticiones,     \* filters somebody may apply, all of the panel's
    Textos,         \* words somebody may search for
    Limite,         \* services in a page
    LimiteMapa,     \* LIMITE_MAPA
    TopeConteo,     \* TOPE_CONTEO
    RadioMaximo,    \* the largest the API admits
    MaxPasos,       \* bound: addresses gone to
    MaxCambios,     \* bound: changes of what is published
    MaxIntentos,    \* bound: answers asked for again
    MaxSinRespuesta, \* bound: answers that do not come
    MaxEnVuelo      \* bound: requests at once

ASSUME BusquedaOK ==
    /\ {Limite, LimiteMapa, TopeConteo} \subseteq Nat \ {0} /\ RadioMaximo \in Nat
    /\ {MaxPasos, MaxCambios, MaxIntentos, MaxSinRespuesta, MaxEnVuelo} \subseteq Nat

\* Identifiers have an order and are for ever: one not published is not active.
ASSUME CatalogosOK ==
    \A c \in Catalogos :
        /\ IsFiniteSet(DOMAIN c) /\ DOMAIN c \subseteq Int
        /\ \A i \in DOMAIN c : {c[i].lejos, c[i].precio, c[i].nota, c[i].fecha} \subseteq Int
        /\ \A d \in Catalogos : DOMAIN d = DOMAIN c

VARIABLES
    publicado,      \* the services there are
    version,        \* how many times that has changed
    historial,      \* the addresses of the tab, and what was asked for with each
    lugar,          \* where in it the tab is
    pantalla,       \* the search on the screen
    peticiones,     \* those of the browser, as the API answers them
    frescas,        \* answers the site keeps for a minute
    gastos          \* how many of each bounded thing there have been

varsBusqueda == <<publicado, version, historial, lugar, pantalla, peticiones, frescas,
                  gastos>>

Ordenes == {"newest", "rating", "price", "distance"}

\* Numbers that are not said are 0, as they are for the program.
Filtros(texto, oficio, ciudad, punto, radio, nota, precio, orden) ==
    [texto |-> texto, oficio |-> oficio, ciudad |-> ciudad, punto |-> punto,
     radio |-> radio, nota |-> nota, precio |-> precio, orden |-> orden]

\* Addresses may say anything, and the panel asks for a radius only around a point.
ASSUME EnlacesOK ==
    /\ Nada \notin Ordenes \cup {"map"}
    /\ \A u \in Enlaces : u.page \in Int
    /\ \A g \in Peticiones :
           /\ g = Filtros(g.texto, g.oficio, g.ciudad, g.punto, g.radio, g.nota, g.precio, g.orden)
           /\ g.punto \in BOOLEAN /\ (g.punto \/ g.radio = 0)

-----------------------------------------------------------------------------
(* The address (lib/busqueda.ts).                                          *)

OrdenPorDefecto(f) == IF f.punto THEN "distance" ELSE "newest"

OrdenVigente(f) ==
    IF f.orden = Nada \/ (f.orden = "distance" /\ ~f.punto)
    THEN OrdenPorDefecto(f) ELSE f.orden

FiltrosDeUrl(u) ==
    Filtros(u.q, u.category, u.city, u.punto, IF u.punto THEN u.radius ELSE 0,
            u.rating, u.maxPrice, IF u.sort \in Ordenes THEN u.sort ELSE Nada)

VistaDeUrl(u) == IF u.view = "map" THEN "map" ELSE "list"

\* An address without a page is of the first; one of the map has none.
PaginaDeUrl(u) == IF VistaDeUrl(u) = "map" \/ u.page < 1 THEN 1 ELSE u.page

UrlDeBusqueda(f, vista, pagina) ==
    [q |-> f.texto, category |-> f.oficio, city |-> f.ciudad, punto |-> f.punto,
     radius |-> IF f.punto THEN f.radio ELSE 0, rating |-> f.nota, maxPrice |-> f.precio,
     sort |-> IF OrdenVigente(f) = OrdenPorDefecto(f) THEN Nada ELSE OrdenVigente(f),
     view |-> IF vista = "map" THEN "map" ELSE Nada,
     page |-> IF vista # "map" /\ pagina > 1 THEN pagina ELSE 0]

\* What is asked of the API: newest is not sent.
PeticionDeBusqueda(f, vista, pagina) ==
    [filtros |-> [f EXCEPT !.orden = IF OrdenVigente(f) = "newest" THEN Nada
                                     ELSE OrdenVigente(f)],
     pagina |-> pagina, limite |-> IF vista = "map" THEN LimiteMapa ELSE Limite]

PeticionDeUrl(u) == PeticionDeBusqueda(FiltrosDeUrl(u), VistaDeUrl(u), PaginaDeUrl(u))

\* The address as the page writes it: two that say the same are one search.
Clave(u) == UrlDeBusqueda(FiltrosDeUrl(u), VistaDeUrl(u), PaginaDeUrl(u))

-----------------------------------------------------------------------------
(* The answer (services.service.ts).                                       *)

Minimo(a, b) == IF a < b THEN a ELSE b

\* SearchServicesDto: anything else is refused.
Admite(p) == p.filtros.radio \in 0 .. RadioMaximo /\ p.filtros.nota \in 0 .. 5

\* What was written, and what the dictionary adds to it.
Terminos(texto) == {texto} \cup Amplia[texto]

CasaTexto(s, texto) ==
    texto # Nada => \E t \in Terminos(texto) : t \in s.palabras \/ t \in Nombre[s.oficio]

\* As far as the client looks and as far as the professional goes; 10 km, if it
\* is not said.
Alcanza(s, f) ==
    f.punto => s.lejos <= Minimo(IF f.radio = 0 THEN 10 ELSE f.radio, s.cobertura)

Casa(s, f) ==
    /\ s.activo /\ s.titular
    /\ CasaTexto(s, f.texto)
    /\ f.oficio \in {Nada, s.oficio}
    /\ f.ciudad \in {Nada, s.ciudad}
    /\ Alcanza(s, f)
    /\ f.nota # 0 => s.nota >= f.nota
    /\ f.precio # 0 => s.precio <= f.precio

Casan(f) == {i \in DOMAIN publicado : Casa(publicado[i], f)}

\* Without an order it is by distance, and by date if there is no point.
Criterio(f) ==
    LET pedido == IF f.orden = Nada THEN "distance" ELSE f.orden IN
    IF pedido = "distance" /\ ~f.punto THEN "newest" ELSE pedido

\* Those that are equal go by their identifier, in one sense or the other.
Delante(i, j, f) ==
    LET a == publicado[i] b == publicado[j] IN
    CASE Criterio(f) = "distance" -> a.lejos < b.lejos \/ (a.lejos = b.lejos /\ i < j)
      [] Criterio(f) = "price" -> a.precio < b.precio \/ (a.precio = b.precio /\ i < j)
      [] Criterio(f) = "rating" -> a.nota > b.nota \/ (a.nota = b.nota /\ i < j)
      [] OTHER -> a.fecha > b.fecha \/ (a.fecha = b.fecha /\ i > j)

\* Those of S in the order of f: PostgreSQL leaves what it does not say to chance.
EnOrden(S, f) ==
    {s \in SetToSeqs(S) : \A m, n \in 1 .. Len(s) : m < n => ~Delante(s[n], s[m], f)}

\* One page of them: offset and limit.
Trozo(s, p) == SubSeq(s, (p.pagina - 1) * p.limite + 1, Minimo(p.pagina * p.limite, Len(s)))

\* contarHasta: the count stops at its ceiling.
Contados(f) == Minimo(Cardinality(Casan(f)), TopeConteo)

Paginas(total, limite) == (total + limite - 1) \div limite

Resultado(p, ids, total) ==
    [peticion |-> p, ids |-> ids, total |-> total, parcial |-> total >= TopeConteo,
     paginas |-> Paginas(total, p.limite)]

-----------------------------------------------------------------------------
(* The page.                                                               *)

\* estado: servidor, the site's answer is awaited; navegador, the browser's.
Pantalla(clave, peticion, repeticion, intento, estado, datos) ==
    [clave |-> clave, peticion |-> peticion, repeticion |-> repeticion,
     intento |-> intento, estado |-> estado, datos |-> datos]

\* vigente: whoever asked is still there.
Peticion(origen, p, etapa, ids, total, vigente) ==
    [origen |-> origen, peticion |-> p, etapa |-> etapa, ids |-> ids, total |-> total,
     vigente |-> vigente]

\* An address of the history, and what was meant by it.
Direccion(url, filtros, vista, pagina) ==
    [url |-> url, filtros |-> filtros, vista |-> vista, pagina |-> pagina]

Url == historial[lugar].url
FiltrosVigentes == FiltrosDeUrl(Url)
Vista == VistaDeUrl(Url)
Pagina == PaginaDeUrl(Url)

Desatendidas == {[r EXCEPT !.vigente = FALSE] : r \in peticiones}

\* Served again with another key, the page is another; with the same, the one
\* there was.  What the site keeps is given at once.
Monta(u) ==
    LET p == PeticionDeUrl(u)
        guardada == {r \in frescas : r.peticion = p}
    IN  /\ Cardinality(peticiones) < MaxEnVuelo
        /\ \/ /\ Clave(u) = pantalla.clave
              /\ UNCHANGED <<pantalla, peticiones>>
           \/ /\ Clave(u) # pantalla.clave /\ guardada # {}
              /\ pantalla' = Pantalla(Clave(u), p, 0, 0, "datos", CHOOSE r \in guardada : TRUE)
              /\ peticiones' = Desatendidas
           \/ /\ Clave(u) # pantalla.clave /\ guardada = {}
              /\ pantalla' = Pantalla(Clave(u), p, 0, 0, "servidor", Nada)
              /\ peticiones' = Desatendidas \cup {Peticion("sitio", p, "va", <<>>, 0, TRUE)}

InitBusqueda ==
    /\ publicado \in Catalogos
    /\ version = 0
    /\ \E u \in Enlaces :
        /\ historial = <<Direccion(u, FiltrosDeUrl(u), VistaDeUrl(u), PaginaDeUrl(u))>>
        /\ pantalla = Pantalla(Clave(u), PeticionDeUrl(u), 0, 0, "servidor", Nada)
        /\ peticiones = {Peticion("sitio", PeticionDeUrl(u), "va", <<>>, 0, TRUE)}
    /\ lugar = 1
    /\ frescas = {}
    /\ gastos = [pasos |-> 0, sinRespuesta |-> 0]

\* irA.
Ir(filtros, vista, pagina, modo) ==
    LET u == UrlDeBusqueda(filtros, vista, pagina)
        direccion == Direccion(u, filtros, vista, pagina)
    IN  /\ gastos.pasos < MaxPasos
        /\ gastos' = [gastos EXCEPT !.pasos = @ + 1]
        /\ IF modo = "push"
           THEN /\ historial' = Append(SubSeq(historial, 1, lugar), direccion)
                /\ lugar' = lugar + 1
           ELSE /\ historial' = [historial EXCEPT ![lugar] = direccion]
                /\ lugar' = lugar
        /\ Monta(u)
        /\ UNCHANGED <<publicado, version, frescas>>

\* buscar: from the first page, or the same again.
Buscar(nuevos) ==
    IF UrlDeBusqueda(nuevos, Vista, 1) # pantalla.clave
    THEN Ir(nuevos, Vista, 1, "replace")
    ELSE /\ pantalla.repeticion + pantalla.intento < MaxIntentos
         /\ pantalla' = Pantalla(pantalla.clave, pantalla.peticion, pantalla.repeticion + 1, 0,
                                 "navegador", Nada)
         /\ peticiones' = Desatendidas
         /\ UNCHANGED <<publicado, version, historial, lugar, frescas, gastos>>

BuscarTexto(texto) == Buscar([FiltrosVigentes EXCEPT !.texto = texto])

\* handleApplyFilters: all of the panel's over those there are; to clear is to
\* apply none.
AplicarFiltros(g) ==
    Buscar([g EXCEPT !.texto = FiltrosVigentes.texto, !.orden = FiltrosVigentes.orden])

CambiarVista(vista) ==
    /\ vista # Vista
    /\ Ir(FiltrosVigentes, vista, 1, "replace")

CambiarOrden(orden) ==
    /\ Vista = "list" /\ orden # OrdenVigente(FiltrosVigentes)
    /\ orden = "distance" => FiltrosVigentes.punto
    /\ Ir([FiltrosVigentes EXCEPT !.orden = orden], Vista, 1, "replace")

\* Pagination, under the results: each page is an entry of the history.
CambiarPagina(n) ==
    /\ pantalla.estado = "datos" /\ Vista = "list"
    /\ n \in 1 .. pantalla.datos.paginas /\ n # Pagina
    /\ Ir(FiltrosVigentes, Vista, n, "push")

\* Back and forward, with the buttons of the browser.
VolverA(n) ==
    /\ n \in DOMAIN historial /\ n \in {lugar - 1, lugar + 1}
    /\ gastos.pasos < MaxPasos
    /\ gastos' = [gastos EXCEPT !.pasos = @ + 1]
    /\ lugar' = n
    /\ Monta(historial[n].url)
    /\ UNCHANGED <<publicado, version, historial, frescas>>

\* The effect of Resultados: it asks, once for each attempt.
Pedir ==
    /\ pantalla.estado = "navegador"
    /\ \A r \in peticiones : ~r.vigente
    /\ peticiones' = peticiones \cup
           {Peticion("navegador", pantalla.peticion, "va", <<>>, 0, TRUE)}
    /\ UNCHANGED <<publicado, version, historial, lugar, pantalla, frescas, gastos>>

Reintentar ==
    /\ pantalla.estado = "fallo"
    /\ pantalla.repeticion + pantalla.intento < MaxIntentos
    /\ pantalla' = Pantalla(pantalla.clave, pantalla.peticion, pantalla.repeticion,
                            pantalla.intento + 1, "navegador", Nada)
    /\ UNCHANGED <<publicado, version, historial, lugar, peticiones, frescas, gastos>>

-----------------------------------------------------------------------------
(* The API and its answers.                                                *)

PasaA(r, etapa, ids, total) ==
    /\ peticiones' = (peticiones \ {r}) \cup
           {Peticion(r.origen, r.peticion, etapa, ids, total, r.vigente)}
    /\ UNCHANGED <<publicado, version, historial, lugar, pantalla, frescas, gastos>>

\* getMany.
LeerPagina(r) ==
    /\ r.etapa = "va" /\ Admite(r.peticion)
    /\ \E s \in EnOrden(Casan(r.peticion.filtros), r.peticion.filtros) :
           PasaA(r, "leida", Trozo(s, r.peticion), 0)

RechazarPeticion(r) ==
    /\ r.etapa = "va" /\ ~Admite(r.peticion)
    /\ PasaA(r, "rechazada", <<>>, 0)

\* And then the count, by another query.
ContarHasta(r) ==
    /\ r.etapa = "leida"
    /\ PasaA(r, "servida", r.ids, Contados(r.peticion.filtros))

\* Bug: an answer is shown whoever asked for it.
LlegaSinMirar(r) ==
    /\ r.etapa = "servida" /\ r.origen = "navegador"
    /\ peticiones' = peticiones \ {r}
    /\ pantalla' = [pantalla EXCEPT !.estado = "datos",
                                    !.datos = Resultado(r.peticion, r.ids, r.total)]
    /\ UNCHANGED <<publicado, version, historial, lugar, frescas, gastos>>

\* To the browser.
Llega(r) ==
    /\ r.etapa = "servida" /\ r.origen = "navegador"
    /\ peticiones' = peticiones \ {r}
    /\ pantalla' = IF r.vigente
                   THEN [pantalla EXCEPT !.estado = "datos",
                                         !.datos = Resultado(r.peticion, r.ids, r.total)]
                   ELSE pantalla
    /\ UNCHANGED <<publicado, version, historial, lugar, frescas, gastos>>

\* To the site, which keeps it and streams it to the page.
LlegaAlSitio(r) ==
    LET datos == Resultado(r.peticion, r.ids, r.total) IN
    /\ r.etapa = "servida" /\ r.origen = "sitio"
    /\ peticiones' = peticiones \ {r}
    /\ frescas' = {g \in frescas : g.peticion # r.peticion} \cup {datos}
    /\ pantalla' = IF r.vigente THEN [pantalla EXCEPT !.estado = "datos", !.datos = datos]
                   ELSE pantalla
    /\ UNCHANGED <<publicado, version, historial, lugar, gastos>>

\* Bug: the site waits for an answer that will not come.
NoLlegaYEspera(r) ==
    /\ r.etapa = "rechazada" \/ gastos.sinRespuesta < MaxSinRespuesta
    /\ gastos' = [gastos EXCEPT !.sinRespuesta = @ + IF r.etapa = "rechazada" THEN 0 ELSE 1]
    /\ peticiones' = peticiones \ {r}
    /\ pantalla' = IF r.vigente /\ r.origen = "navegador"
                   THEN [pantalla EXCEPT !.estado = "fallo"] ELSE pantalla
    /\ UNCHANGED <<publicado, version, historial, lugar, frescas>>

\* Refused, or without an answer: the site leaves it to the browser, and the
\* browser says so and offers to ask again.
NoLlega(r) ==
    /\ r.etapa = "rechazada" \/ gastos.sinRespuesta < MaxSinRespuesta
    /\ gastos' = [gastos EXCEPT !.sinRespuesta = @ + IF r.etapa = "rechazada" THEN 0 ELSE 1]
    /\ peticiones' = peticiones \ {r}
    /\ pantalla' = IF ~r.vigente THEN pantalla
                   ELSE [pantalla EXCEPT !.estado =
                            IF r.origen = "sitio" THEN "navegador" ELSE "fallo"]
    /\ UNCHANGED <<publicado, version, historial, lugar, frescas>>

\* FRESCURA_S.
PasaElMinuto(g) ==
    /\ frescas' = frescas \ {g}
    /\ UNCHANGED <<publicado, version, historial, lugar, pantalla, peticiones, gastos>>

\* A service is published, edited, valued or withdrawn.
CambiaLoPublicado ==
    /\ version < MaxCambios
    /\ version' = version + 1
    /\ publicado' \in Catalogos \ {publicado}
    /\ UNCHANGED <<historial, lugar, pantalla, peticiones, frescas, gastos>>

NextBusqueda ==
    \/ \E texto \in Textos : BuscarTexto(texto)
    \/ \E g \in Peticiones : AplicarFiltros(g)
    \/ \E vista \in {"list", "map"} : CambiarVista(vista)
    \/ \E orden \in Ordenes : CambiarOrden(orden)
    \/ \E n \in 1 .. TopeConteo : CambiarPagina(n)
    \/ \E n \in DOMAIN historial : VolverA(n)
    \/ Pedir \/ Reintentar \/ CambiaLoPublicado
    \/ \E r \in peticiones :
           \/ LeerPagina(r) \/ RechazarPeticion(r) \/ ContarHasta(r)
           \/ Llega(r) \/ LlegaAlSitio(r) \/ NoLlega(r)
    \/ \E g \in frescas : PasaElMinuto(g)

SpecBusqueda == InitBusqueda /\ [][NextBusqueda]_varsBusqueda

\* The API answers, or says that it will not.
Atiende == \E r \in peticiones : r.vigente /\ (LeerPagina(r) \/ RechazarPeticion(r)
               \/ ContarHasta(r) \/ Llega(r) \/ LlegaAlSitio(r)
               \/ (r.etapa = "rechazada" /\ NoLlega(r)))

-----------------------------------------------------------------------------

TipoBusqueda ==
    /\ publicado \in Catalogos
    /\ version \in 0 .. MaxCambios
    /\ lugar \in DOMAIN historial
    /\ pantalla.estado \in {"servidor", "navegador", "datos", "fallo"}
    /\ pantalla.datos = IF pantalla.estado # "datos" THEN Nada
                        ELSE LET d == pantalla.datos IN Resultado(d.peticion, d.ids, d.total)
    /\ \A r \in peticiones : /\ r.origen \in {"sitio", "navegador"}
                             /\ r.etapa \in {"va", "leida", "servida", "rechazada"}
    /\ gastos \in [pasos : 0 .. MaxPasos, sinRespuesta : 0 .. MaxSinRespuesta]

\* buscador.tsx:80-88, lib/busqueda.ts.  The address says everything: what is
\* read from it, in any entry of the history, asks for what was meant when it was
\* written; and what is on the screen is the answer to it, or to nothing.
LaDireccionManda ==
    /\ \A n \in DOMAIN historial :
           LET e == historial[n] IN
           PeticionDeUrl(e.url) = PeticionDeBusqueda(e.filtros, e.vista, e.pagina)
    /\ pantalla.clave = Clave(Url)
    /\ pantalla.estado = "datos" => pantalla.datos.peticion = PeticionDeUrl(Url)

\* services.service.ts:503-514.  As long as nothing changes, the pages of what is
\* on the screen share no service, whichever way the database ordered each: none
\* comes twice, and so none is missing between two of them.
NingunoSeRepite ==
    LET p == pantalla.peticion
        ordenes == EnOrden(Casan(p.filtros), p.filtros)
        Hoja(s, n) == Trozo(s, [p EXCEPT !.pagina = n])
    IN  pantalla.estado = "datos" =>
            \A s, t \in ordenes : \A m, n \in 1 .. TopeConteo :
                m < n => Range(Hoja(s, m)) \cap Range(Hoja(t, n)) = {}

\* Both.
LaBusquedaCuadra == LaDireccionManda /\ NingunoSeRepite
=============================================================================
