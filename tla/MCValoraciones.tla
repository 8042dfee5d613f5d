---------------------------- MODULE MCValoraciones ----------------------------
(***************************************************************************)
(* What surrounds a booking, for TLC: who is told of its changes, two at   *)
(* once; the bell that shows what one is told, with as many notices as     *)
(* make a list overtaken matter, and with fewer that are read too and      *)
(* calls that fail; and its review, with two requests about one or two     *)
(* completed bookings of a service.  They share no state, so that a        *)
(* behaviour is about one of them.                                         *)
(***************************************************************************)
EXTENDS Valoraciones, NoticiasReserva, Campana, TLC

CONSTANTS r1, r2, p1, p2, m1, m2, t1, c1, c2

VARIABLE parte      \* what the behaviour is about

ReservasDos == {r1, r2}
PeticionesDos == {p1, p2}
NotasExtremas == {1, 5}
MotivosDos == {m1, m2}
PestanaUna == {t1}
TramitesDos == {c1, c2}

Simetria == Permutations(ReservasDos) \cup Permutations(PeticionesDos)

TiposOK == TypeOK /\ TipoNoticias /\ TipoCampana

InitTodas ==
    /\ parte \in {"noticias", "valorar", "llegan", "se leen"}
    /\ Init /\ InitNoticias /\ InitCampana
    /\ parte # "noticias" => garantia = FALSE /\ mundo = FALSE

\* Nobody reads any notice, and no call of the bell fails.
Llegan ==
    /\ parte = "llegan" /\ NextCampana
    /\ tachados' = tachados /\ mudas' = mudas

\* No more notices than a list holds.
SeLeen ==
    /\ parte = "se leen" /\ NextCampana
    /\ guardados' <= Limite

NextTodas ==
    \/ /\ parte = "valorar" /\ Next
       /\ UNCHANGED <<parte, varsNoticias, varsCampana>>
    \/ /\ parte = "noticias" /\ NextNoticias
       /\ UNCHANGED <<parte, vars, varsCampana>>
    \/ /\ Llegan \/ SeLeen
       /\ UNCHANGED <<parte, vars, varsNoticias>>

varsTodas == <<parte, vars, varsNoticias, varsCampana>>

SpecTodas == InitTodas /\ [][NextTodas]_varsTodas
=============================================================================
