---------------------------- MODULE EstadosDePago ----------------------------
(***************************************************************************)
(* The status tables of payments and bookings, as pure operators.         *)
(*                                                                         *)
(* A payment row mirrors a Stripe payment intent.  Two tables say which    *)
(* changes of the row are allowed: one for webhooks, which tell the past   *)
(* and may come late, and one for an intent that has just been queried,    *)
(* which tells the present.                                                *)
(***************************************************************************)

\* PaymentStatus, and "ninguno" for a booking that has no payment row.
EstadosPago == {"ninguno", "pending", "held", "completed", "failed", "refunded"}

\* BookingStatus.
EstadosReserva == {"pending", "confirmed", "completed", "cancelled", "rejected"}

\* The bookings whose money has to stay on hold.
RESERVAS_ABIERTAS == {"pending", "confirmed"}

\* The status of an intent at Stripe.  "pagable" stands for the four statuses
\* in which the client can still pay (requires_payment_method,
\* requires_confirmation, requires_action and processing) and "libre" for an
\* identifier Stripe has not given out yet.
EstadosIntencion == {"libre", "pagable", "requires_capture", "succeeded", "canceled"}

\* What the status of the intent means for the payment.
EstadoSegunStripe(estado) ==
    CASE estado = "requires_capture" -> "held"
      [] estado = "succeeded"        -> "completed"
      [] estado = "canceled"         -> "failed"
      [] OTHER                       -> "pending"

\* Whether a webhook may take a payment from one status to another.
TRANSICIONES == ({"pending"} \X {"held", "completed", "failed"})
                   \cup ({"held"} \X {"completed", "failed"})

PuedePasarA(desde, hasta) == <<desde, hasta>> \in TRANSICIONES

\* Whether what a query to Stripe answers may do so: failed can come back.
REFLEJOS == TRANSICIONES \cup ({"failed"} \X {"pending", "held", "completed"})

PuedeReflejar(desde, hasta) == <<desde, hasta>> \in REFLEJOS

\* The status changes of a booking that a person may ask for.
TransicionesReserva == ({"pending"} \X {"confirmed", "rejected", "cancelled"})
                          \cup ({"confirmed"} \X {"completed", "cancelled"})
=============================================================================
