------------------------------ MODULE Categorias ------------------------------
(***************************************************************************)
(* The tree of categories and its copy in the cache.                       *)
(*                                                                         *)
(* A reading that finds no copy computes the value and then stores it; a   *)
(* writing changes the database and then forgets the copy.  Neither waits  *)
(* for the other, and Redis may not answer a call: nothing fails for it,   *)
(* and what is left wrong lives until the copy expires.                    *)
(***************************************************************************)
EXTENDS Naturals, FiniteSets

CONSTANTS
    Lecturas,       \* readings served at once
    Escrituras,     \* writings served at once
    Segundos,       \* SEGUNDOS, in ticks
    MaxVersiones,   \* bound: changes to the tree
    MaxSinCache     \* bound: calls Redis leaves unanswered

ASSUME CategoriasOK ==
    /\ IsFiniteSet(Lecturas)
    /\ IsFiniteSet(Escrituras)
    /\ Segundos \in Nat \ {0}
    /\ MaxVersiones \in Nat
    /\ MaxSinCache \in Nat

VARIABLES
    arbol,      \* the version of the tree in the database
    copia,      \* the copy: which version, and the ticks it has left; 0, no copy
    lectura,    \* what each reading is doing, and the version it has computed
    escritura,  \* what each writing is doing
    sinCache,   \* calls left unanswered
    cruzadas    \* history: a reading was under way when the tree changed

varsCategorias == <<arbol, copia, lectura, escritura, sinCache, cruzadas>>

Versiones == 0 .. MaxVersiones
NoCaduca == Segundos + 1
Copia(version, queda) == [version |-> version, queda |-> queda]
SinCopia == Copia(0, 0)
Leyendo(etapa, version) == [etapa |-> etapa, version |-> version]
SinLeer == Leyendo("nada", 0)

TipoCategorias ==
    /\ arbol \in Versiones
    /\ copia \in [version : Versiones, queda : 0 .. NoCaduca]
    /\ lectura \in [Lecturas -> [etapa : {"nada", "calcula", "guarda"}, version : Versiones]]
    /\ escritura \in [Escrituras -> {"nada", "cargada", "olvida"}]
    /\ sinCache \in 0 .. MaxSinCache
    /\ cruzadas \in BOOLEAN

InitCategorias ==
    /\ arbol = 0
    /\ copia = SinCopia
    /\ lectura = [l \in Lecturas |-> SinLeer]
    /\ escritura = [e \in Escrituras |-> "nada"]
    /\ sinCache = 0
    /\ cruzadas = FALSE

-----------------------------------------------------------------------------

HayCopia == copia.queda > 0
PorOlvidar == {e \in Escrituras : escritura[e] = "olvida"}
CacheContesta == sinCache' = sinCache
CacheNoContesta == sinCache < MaxSinCache /\ sinCache' = sinCache + 1

\* recordar looks for the copy: with one there is nothing else to do, and with
\* no answer the value is computed and not stored.
BuscarCopia(l) ==
    /\ lectura[l] = SinLeer
    /\ ~HayCopia
    /\ lectura' = [lectura EXCEPT ![l] = Leyendo("calcula", 0)]
    /\ UNCHANGED <<arbol, copia, escritura, sinCache, cruzadas>>

CalcularArbol(l) ==
    /\ lectura[l].etapa = "calcula"
    /\ lectura' = [lectura EXCEPT ![l] = Leyendo("guarda", arbol)]
    /\ UNCHANGED <<arbol, copia, escritura, sinCache, cruzadas>>

\* Bug: stored without an expiry.
GuardarParaSiempre(l) ==
    /\ lectura[l].etapa = "guarda"
    /\ \/ CacheContesta /\ copia' = Copia(lectura[l].version, NoCaduca)
       \/ CacheNoContesta /\ copia' = copia
    /\ lectura' = [lectura EXCEPT ![l] = SinLeer]
    /\ UNCHANGED <<arbol, escritura, cruzadas>>

GuardarCopia(l) ==
    /\ lectura[l].etapa = "guarda"
    /\ \/ CacheContesta /\ copia' = Copia(lectura[l].version, Segundos)
       \/ CacheNoContesta /\ copia' = copia
    /\ lectura' = [lectura EXCEPT ![l] = SinLeer]
    /\ UNCHANGED <<arbol, escritura, cruzadas>>

\* create begins with the writing; update and remove load the category first.
CargarCategoria(e) ==
    /\ escritura[e] = "nada"
    /\ escritura' = [escritura EXCEPT ![e] = "cargada"]
    /\ UNCHANGED <<arbol, copia, lectura, sinCache, cruzadas>>

\* Bug: the copy is not forgotten.
EscribirSinOlvidar(e) ==
    /\ arbol < MaxVersiones
    /\ arbol' = arbol + 1
    /\ escritura' = [escritura EXCEPT ![e] = "nada"]
    /\ cruzadas' = (cruzadas \/ \E l \in Lecturas : lectura[l] # SinLeer)
    /\ UNCHANGED <<copia, lectura, sinCache>>

\* A category with services is not removed: the writing ends there.
EscribirArbol(e) ==
    /\ arbol < MaxVersiones
    /\ arbol' = arbol + 1
    /\ escritura' = [escritura EXCEPT ![e] = "olvida"]
    /\ cruzadas' = (cruzadas \/ \E l \in Lecturas : lectura[l] # SinLeer)
    /\ UNCHANGED <<copia, lectura, sinCache>>

CambiarArbol(e) == escritura[e] # "olvida" /\ EscribirArbol(e)

RechazarCambio(e) ==
    /\ escritura[e] = "cargada"
    /\ escritura' = [escritura EXCEPT ![e] = "nada"]
    /\ UNCHANGED <<arbol, copia, lectura, sinCache, cruzadas>>

\* olvidar; the process may also die before it.
OlvidarCopia(e) ==
    /\ escritura[e] = "olvida"
    /\ \/ CacheContesta /\ copia' = SinCopia
       \/ CacheNoContesta /\ copia' = copia
    /\ escritura' = [escritura EXCEPT ![e] = "nada"]
    /\ UNCHANGED <<arbol, lectura, cruzadas>>

CaducaCopia ==
    /\ HayCopia
    /\ copia.queda # NoCaduca
    /\ copia' = IF copia.queda = 1 THEN SinCopia ELSE [copia EXCEPT !.queda = @ - 1]
    /\ UNCHANGED <<arbol, lectura, escritura, sinCache, cruzadas>>

NextCategorias ==
    \/ CaducaCopia
    \/ \E l \in Lecturas : BuscarCopia(l) \/ CalcularArbol(l) \/ GuardarCopia(l)
    \/ \E e \in Escrituras :
           CargarCategoria(e) \/ CambiarArbol(e) \/ RechazarCambio(e) \/ OlvidarCopia(e)

\* Time goes by, and what has begun goes on.
EquidadCategorias ==
    /\ WF_varsCategorias(CaducaCopia)
    /\ \A l \in Lecturas : WF_varsCategorias(CalcularArbol(l)) /\ WF_varsCategorias(GuardarCopia(l))
    /\ \A e \in Escrituras : WF_varsCategorias(OlvidarCopia(e))

SpecCategorias == InitCategorias /\ [][NextCategorias]_varsCategorias

-----------------------------------------------------------------------------

\* Whoever changes the tree sees it changed: as long as Redis answers and no
\* reading was under way at a change, the copy is what the database has, and not
\* what it had, which it would be until it expires.
LaCopiaCuadra ==
    (HayCopia /\ PorOlvidar = {} /\ ~cruzadas /\ sinCache = 0) => copia.version = arbol

\* And whatever has coincided or failed, the copy ends up being what the
\* database has: nothing wrong outlives the expiry.
LaCopiaAlcanza == <>[](HayCopia => copia.version = arbol)
=============================================================================
