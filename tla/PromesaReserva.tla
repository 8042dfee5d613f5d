---------------------------- MODULE PromesaReserva ----------------------------
(***************************************************************************)
(* What the platform promises of a booking and of the client's money,      *)
(* whatever the program does with locks, intents and retries:              *)
(*                                                                         *)
(*   - a booking is charged at most once, never before its date, and only  *)
(*     when its provider has accepted it;                                  *)
(*   - a booking that has been charged is not cancelled or rejected;       *)
(*   - only the charge of a completed booking is refunded, and once.       *)
(***************************************************************************)
CONSTANT Cargos   \* what a charge can be made on

VARIABLES
    reserva,      \* the booking's status
    llegada,      \* its date has come
    cargos,       \* the charges made for it
    devueltos     \* the charges refunded

promesa == <<reserva, llegada, cargos, devueltos>>

Init ==
    /\ reserva = "pending"
    /\ llegada = FALSE
    /\ cargos = {}
    /\ devueltos = {}

LlegaLaFecha ==
    /\ ~llegada
    /\ llegada' = TRUE
    /\ UNCHANGED <<reserva, cargos, devueltos>>

Aceptar ==
    /\ reserva = "pending" /\ ~llegada
    /\ reserva' = "confirmed"
    /\ UNCHANGED <<llegada, cargos, devueltos>>

Rechazar ==
    /\ reserva = "pending" /\ cargos = {}
    /\ reserva' = "rejected"
    /\ UNCHANGED <<llegada, cargos, devueltos>>

Cancelar ==
    /\ reserva \in {"pending", "confirmed"} /\ cargos = {}
    /\ reserva' = "cancelled"
    /\ UNCHANGED <<llegada, cargos, devueltos>>

Completar ==
    /\ reserva = "confirmed" /\ llegada
    /\ reserva' = "completed"
    /\ UNCHANGED <<llegada, cargos, devueltos>>

Cobrar ==
    /\ reserva \in {"confirmed", "completed"} /\ llegada
    /\ cargos = {}
    /\ \E c \in Cargos : cargos' = {c}
    /\ UNCHANGED <<reserva, llegada, devueltos>>

Devolver ==
    /\ reserva = "completed"
    /\ cargos # {} /\ devueltos = {}
    /\ devueltos' = cargos
    /\ UNCHANGED <<reserva, llegada, cargos>>

Next == \/ LlegaLaFecha \/ Aceptar \/ Rechazar \/ Cancelar
        \/ Completar \/ Cobrar \/ Devolver

Spec == Init /\ [][Next]_promesa
=============================================================================
