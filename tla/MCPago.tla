-------------------------------- MODULE MCPago --------------------------------
(***************************************************************************)
(* CobroReservas for TLC with nobody dying halfway, twice over: the        *)
(* requests by themselves, with errors of Stripe; and one of them called   *)
(* from the payment page, without errors and with fewer operations for the *)
(* others.                                                                 *)
(***************************************************************************)
EXTENDS PaginaDePago, MCCobro

VARIABLE parte      \* which of the two

varsPartes == <<parte, varsDePago>>

\* What there is besides the page: another request, that pays, confirms, completes or
\* cancels, and the review, that renews.
TareasConPagina == {"ninguna", "pagar", "confirmarPago", "completar", "cancelar",
                    "revisar", "resolver"}

SinPagina ==
    /\ parte = "promesa" /\ Next
    /\ UNCHANGED <<parte, mostrador>>

ConPagina ==
    /\ parte = "pagina" /\ NextDePago
    /\ errores' = errores /\ \A p \in Procesos : tarea'[p] \in TareasConPagina
    /\ UNCHANGED parte

InitPartes == parte \in {"promesa", "pagina"} /\ InitDePago

NextPartes == SinPagina \/ ConPagina

SpecPartes == InitPartes /\ [][NextPartes]_varsPartes
=============================================================================
