---------------------------- MODULE MCPlataforma -----------------------------
(***************************************************************************)
(* Four parts of the backend for TLC: the brake on wrong passwords, the    *)
(* cache of the categories, the budget of the assistant and the life of a  *)
(* service.  They share no state, so that a behaviour runs one of them:    *)
(* the states to visit are their sum and not their product.                *)
(***************************************************************************)
EXTENDS FrenoCuentas, Categorias, PresupuestoIa, Servicios

CONSTANTS i1, i2, a1, a2, l1, l2, e1, e2, c1, c2, g1, g2

VARIABLE parte      \* the one that runs

InstanciasDos == {i1, i2}
IntentosDos == {a1, a2}
LecturasDos == {l1, l2}
EscriturasDos == {e1, e2}
ConsultasDos == {c1, c2}
GestionesDos == {g1, g2}

TypeOK == TipoFreno /\ TipoCategorias /\ TipoPresupuesto /\ TipoServicios

\* The states in which the parts may begin are tried for the one that runs.
Init ==
    /\ parte \in {"freno", "categorias", "presupuesto", "servicios"}
    /\ InitFreno
    /\ parte # "freno" => ~conRedis /\ intento = [a \in Intentos |-> Fuera(i1)]
    /\ InitCategorias
    /\ InitPresupuesto
    /\ InitServicios
    /\ parte # "servicios" => demo = "no"

FrenoSolo ==
    /\ parte = "freno" /\ NextFreno
    /\ UNCHANGED <<parte, varsCategorias, varsPresupuesto, varsServicios>>

CategoriasSolas ==
    /\ parte = "categorias" /\ NextCategorias
    /\ UNCHANGED <<parte, varsFreno, varsPresupuesto, varsServicios>>

PresupuestoSolo ==
    /\ parte = "presupuesto" /\ NextPresupuesto
    /\ UNCHANGED <<parte, varsFreno, varsCategorias, varsServicios>>

ServiciosSolos ==
    /\ parte = "servicios" /\ NextServicios
    /\ UNCHANGED <<parte, varsFreno, varsCategorias, varsPresupuesto>>

Next == FrenoSolo \/ CategoriasSolas \/ PresupuestoSolo \/ ServiciosSolos

vars == <<parte, varsFreno, varsCategorias, varsPresupuesto, varsServicios>>

Spec ==
    /\ Init /\ [][Next]_vars
    /\ parte = "categorias" => EquidadCategorias
    /\ parte = "servicios" => EquidadServicios
=============================================================================
