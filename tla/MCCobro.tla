------------------------------- MODULE MCCobro -------------------------------
(***************************************************************************)
(* CobroReservas for TLC.  Requests are interchangeable in the runs that   *)
(* check safety: nothing tells them apart.                                 *)
(***************************************************************************)
EXTENDS CobroReservas, TLC

CONSTANTS p1, p2, r1

PeticionesUna == {p1}
PeticionesDos == {p1, p2}
ProgramadoresUno == {r1}

Simetria == Permutations(PeticionesDos)
=============================================================================
