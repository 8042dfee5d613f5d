------------------------------- MODULE Asistente -------------------------------
(***************************************************************************)
(* The search in one's own words: the panel, the reading of the message by *)
(* a dictionary or by a model, and the ladder of searches.                 *)
(*                                                                         *)
(* Neither says who appears: they say a trade and a city, both from the    *)
(* catalogue read before, and the search does the rest.  When it finds     *)
(* none it lets go of the words, and then of the city, and tells what it   *)
(* let go of.  Meanwhile what is published changes.                        *)
(***************************************************************************)
EXTENDS Busqueda

CONSTANTS
    Oficios,            \* the categories there are
    Mensajes,           \* what may be written: [texto, oficios, ciudades]
    Salidas,            \* what the model may say: [oficio, ciudad, palabras]
    LimiteAsistente,    \* services in an answer
    MaxConsultas        \* bound: messages sent

ASSUME AsistenteOK == LimiteAsistente \in Nat \ {0} /\ MaxConsultas \in Nat

VARIABLES
    panel,      \* the window, and what it shows
    consulta,   \* the message the API is answering
    enviados    \* messages sent

varsAsistente == <<panel, consulta, enviados>>

Intencion(oficio, ciudad, palabras) ==
    [oficio |-> oficio, ciudad |-> ciudad, palabras |-> palabras]

\* siguen: history, the services published since the message came.
Consulta(etapa, mensaje, ciudades, intencion, modo, peldano, ids, segun, siguen) ==
    [etapa |-> etapa, mensaje |-> mensaje, ciudades |-> ciudades, intencion |-> intencion,
     modo |-> modo, peldano |-> peldano, ids |-> ids, segun |-> segun, siguen |-> siguen]

SinConsulta == Consulta("nada", Nada, {}, Nada, "basico", 1, <<>>, Nada, {})

Panel(abierto, enviando, error, respuesta) ==
    [abierto |-> abierto, enviando |-> enviando, error |-> error, respuesta |-> respuesta]

InitAsistente ==
    /\ panel = Panel(FALSE, FALSE, FALSE, Nada)
    /\ consulta = SinConsulta
    /\ enviados = 0

-----------------------------------------------------------------------------
(* What is understood (interpretacion.ts).                                 *)

\* catalogo: the cities with something active in them, whoever offers it.
CiudadesConOferta ==
    {publicado[i].ciudad : i \in {j \in DOMAIN publicado : publicado[j].activo}}

\* Of those that the message names one, whichever comes first.
UnoDe(S) == IF S = {} THEN {Nada} ELSE S

InterpretarSinModelo(mensaje, ciudades) ==
    {Intencion(o, c, Nada) : o \in UnoDe(mensaje.oficios \cap Oficios),
                             c \in UnoDe(mensaje.ciudades \cap ciudades)}

\* What is not in the catalogue is discarded, and never mended.
ValidarIntencion(salida, ciudades) ==
    Intencion(IF salida.oficio \in Oficios THEN salida.oficio ELSE Nada,
              IF salida.ciudad \in ciudades THEN salida.ciudad ELSE Nada, salida.palabras)

-----------------------------------------------------------------------------
(* What is searched for (asistente.service.ts).                            *)

TextoDe(n, mensaje) ==
    CASE n.palabras # Nada -> n.palabras
      [] n.palabras = Nada /\ n.oficio # Nada -> Nada
      [] OTHER -> mensaje.texto

Peldano(oficio, ciudad, texto) == Filtros(texto, oficio, ciudad, FALSE, 0, 0, 0, Nada)

\* Bug: the words are let go of, and the city never.
EscaleraCorta(n, texto) ==
    <<Peldano(n.oficio, n.ciudad, texto)>>
        \o (IF n.oficio # Nada /\ texto # Nada
            THEN <<Peldano(n.oficio, n.ciudad, Nada)>> ELSE <<>>)

\* Without a trade nothing is let go of.
Escalera(n, texto) ==
    <<Peldano(n.oficio, n.ciudad, texto)>>
        \o (IF n.oficio # Nada /\ texto # Nada
            THEN <<Peldano(n.oficio, n.ciudad, Nada)>> ELSE <<>>)
        \o (IF n.oficio # Nada /\ n.ciudad # Nada
            THEN <<Peldano(n.oficio, Nada, Nada)>> ELSE <<>>)

LaEscalera == Escalera(consulta.intencion, TextoDe(consulta.intencion, consulta.mensaje))
Elegido == LaEscalera[consulta.peldano]

-----------------------------------------------------------------------------
(* The panel (AsistenteBusqueda.tsx, PanelAsistente.tsx).                  *)

AbrirPanel ==
    /\ ~panel.abierto
    /\ panel' = [panel EXCEPT !.abierto = TRUE]
    /\ UNCHANGED <<varsBusqueda, consulta, enviados>>

\* With the cross or with Escape: what it was doing goes on.
CerrarPanel ==
    /\ panel.abierto
    /\ panel' = [panel EXCEPT !.abierto = FALSE]
    /\ UNCHANGED <<varsBusqueda, consulta, enviados>>

\* The answer there was stays until another comes.
EnviarMensaje(m) ==
    /\ panel.abierto /\ ~panel.enviando /\ enviados < MaxConsultas
    /\ enviados' = enviados + 1
    /\ panel' = Panel(TRUE, TRUE, FALSE, panel.respuesta)
    /\ consulta' = [SinConsulta EXCEPT !.etapa = "recibida", !.mensaje = m,
                                       !.siguen = DOMAIN publicado]
    /\ UNCHANGED varsBusqueda

-----------------------------------------------------------------------------
(* The API.                                                                *)

LeerCatalogo ==
    /\ consulta.etapa = "recibida"
    /\ \E n \in InterpretarSinModelo(consulta.mensaje, CiudadesConOferta) :
           consulta' = [consulta EXCEPT !.etapa = "leida", !.intencion = n,
                                        !.ciudades = CiudadesConOferta]
    /\ UNCHANGED <<varsBusqueda, panel, enviados>>

\* There is no model, or no margin, or it fails: the dictionary's will do.
SinModelo ==
    /\ consulta.etapa = "leida"
    /\ consulta' = [consulta EXCEPT !.etapa = "busca"]
    /\ UNCHANGED <<varsBusqueda, panel, enviados>>

\* What it says replaces what the dictionary said, nothing included.
ContestaElModelo(salida) ==
    /\ consulta.etapa = "leida"
    /\ consulta' = [consulta EXCEPT !.etapa = "busca", !.modo = "ia",
                        !.intencion = ValidarIntencion(salida, consulta.ciudades)]
    /\ UNCHANGED <<varsBusqueda, panel, enviados>>

BuscarPeldano ==
    /\ consulta.etapa = "busca"
    /\ \E s \in EnOrden(Casan(Elegido), Elegido) :
           consulta' = [consulta EXCEPT !.etapa = "cuenta", !.segun = publicado,
                            !.ids = Trozo(s, [pagina |-> 1, limite |-> LimiteAsistente])]
    /\ UNCHANGED <<varsBusqueda, panel, enviados>>

Bajar ==
    /\ consulta.etapa = "cuenta" /\ Contados(Elegido) = 0
    /\ consulta.peldano < Len(LaEscalera)
    /\ consulta' = [consulta EXCEPT !.etapa = "busca", !.peldano = @ + 1]
    /\ UNCHANGED <<varsBusqueda, panel, enviados>>

Contestar ==
    /\ consulta.etapa = "cuenta"
    /\ Contados(Elegido) > 0 \/ consulta.peldano = Len(LaEscalera)
    /\ panel' = Panel(panel.abierto, FALSE, FALSE,
                    [modo |-> consulta.modo, criterios |-> Elegido,
                     ids |-> consulta.ids, total |-> Contados(Elegido),
                     segun |-> consulta.segun, siguen |-> consulta.siguen])
    /\ consulta' = SinConsulta
    /\ UNCHANGED <<varsBusqueda, enviados>>

\* An error of any kind: the panel says so, and may be tried again.
NoContesta ==
    /\ consulta.etapa # "nada"
    /\ panel' = Panel(panel.abierto, FALSE, TRUE, Nada)
    /\ consulta' = SinConsulta
    /\ UNCHANGED <<varsBusqueda, enviados>>

CambiaElCatalogo ==
    /\ CambiaLoPublicado
    /\ consulta' = [consulta EXCEPT !.siguen =
                        {i \in @ : publicado'[i].activo /\ publicado'[i].titular
                                   /\ publicado[i].activo /\ publicado[i].titular}]
    /\ UNCHANGED <<panel, enviados>>

NextAsistente ==
    \/ AbrirPanel \/ CerrarPanel \/ LeerCatalogo \/ SinModelo \/ BuscarPeldano
    \/ Bajar \/ Contestar \/ NoContesta \/ CambiaElCatalogo
    \/ \E m \in Mensajes : EnviarMensaje(m)
    \/ \E salida \in Salidas : ContestaElModelo(salida)

SpecAsistente ==
    InitBusqueda /\ InitAsistente /\ [][NextAsistente]_<<varsBusqueda, varsAsistente>>

-----------------------------------------------------------------------------

TipoAsistente ==
    /\ panel.abierto \in BOOLEAN /\ panel.enviando \in BOOLEAN /\ panel.error \in BOOLEAN
    /\ consulta.etapa \in {"nada", "recibida", "leida", "busca", "cuenta"}
    /\ panel.enviando <=> consulta.etapa # "nada"
    /\ consulta.modo \in {"basico", "ia"}
    /\ consulta.peldano \in 1 .. 3
    /\ enviados \in 0 .. MaxConsultas

\* asistente.service.ts:147-205.  What the answer says it searched by is true of
\* everything it shows, and of nothing wider; and if a trade was understood and a
\* service of it has been there all along, the answer is not that there is none,
\* whatever the words and the city.  (One that is published between the page and
\* the count may leave it with a count and nothing to show.)
ElAsistenteCuadra ==
    panel.respuesta # Nada =>
        LET r == panel.respuesta IN
        /\ \A k \in DOMAIN r.ids : Casa(r.segun[r.ids[k]], r.criterios)
        /\ (r.ids = <<>> /\ r.total = 0 /\ r.criterios.oficio # Nada) =>
               \A i \in r.siguen : ~(r.segun[i].activo /\ r.segun[i].titular
                                     /\ r.segun[i].oficio = r.criterios.oficio)
=============================================================================
