--------------------------- MODULE MCConversaciones ---------------------------
(***************************************************************************)
(* Conversaciones for TLC: one tab, of one of the two.                     *)
(***************************************************************************)
EXTENDS Conversaciones, TLC

CONSTANTS ana, beto, t1, e1, e2

PersonasDos == {ana, beto}
PestanaUna == {t1}
DeAna == t1 :> ana
EnviosDos == {e1, e2}

SpecJusta == SpecConversaciones /\ EquidadConversaciones
=============================================================================
