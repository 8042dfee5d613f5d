----------------------------- MODULE MCCalendario -----------------------------
(***************************************************************************)
(* Calendario for TLC: three bookings that differ in nothing.              *)
(***************************************************************************)
EXTENDS Calendario

CONSTANTS a, b, c

ReservasTres == {a, b, c}
ReservasDos == {a, b}
DuracionesDos == {1, 2}
=============================================================================
