------------------------ MODULE CobroReservas_proofs ------------------------
(***************************************************************************)
(* What is proved of CobroReservas for any number of requests, instances,  *)
(* intents, renewals, failures and crashes: its types, that what the       *)
(* payment row says of the client's money is true at Stripe, that a        *)
(* booking is charged at most once, and that only a renewal leaves a hold  *)
(* behind.                                                                 *)
(* While nobody dies halfway, that the program keeps the platform's        *)
(* promise, PromesaReserva.                                                *)
(* And, for any number of tabs, of the page that pays the booking: it is   *)
(* one more client, so all of this holds with it; and what it says of a    *)
(* payment does.  That needs the order in which intents are given: what    *)
(* createPaymentIntent writes as pending over the row is an intent nobody  *)
(* has been given yet (EnTurno), so what was paid is not written as        *)
(* pending again (SinPendiente), whoever read it before.                   *)
(***************************************************************************)
EXTENDS PaginaDePago, TLAPS

\* A row names an intent exactly when there is a payment.
FilaCoherente(f) == f.estado = "ninguno" <=> f.pi = 0

\* The stages that act on the intent of the process's copy of the row.
EtapasConIntencion == {"consultar", "cancelar", "capturar", "devolver",
                       "escribir", "renovar", "guardarYSoltar"}

\* The strengthening of TypeOK: no stage looks up an intent that is not there.
SabeDeSuPago ==
    /\ FilaCoherente(pago)
    /\ \A p \in Procesos :
         /\ FilaCoherente(mem[p])
         /\ pc[p] \in EtapasConIntencion => mem[p].pi # 0

Tipos == TypeOK /\ SabeDeSuPago

\* The same, for the part of the state that is the processes'.
ProcesosBien ==
    /\ pc \in [Procesos -> Etapas]
    /\ tarea \in [Procesos -> Tareas]
    /\ mem \in [Procesos -> Filas]
    /\ \A p \in Procesos :
         /\ FilaCoherente(mem[p])
         /\ pc[p] \in EtapasConIntencion => mem[p].pi # 0

-----------------------------------------------------------------------------
(* The status tables and the rows.                                         *)

\* Whatever Stripe answers, estadoSegunStripe gives one of four statuses.
LEMMA EstadoDelPago ==
    ASSUME NEW e
    PROVE  EstadoSegunStripe(e) \in {"pending", "held", "completed", "failed"}
BY DEF EstadoSegunStripe

\* A payment is only completed by an intent that has been charged.
LEMMA CompletadoSegunStripe ==
    ASSUME NEW e, EstadoSegunStripe(e) = "completed"
    PROVE  e = "succeeded"
BY DEF EstadoSegunStripe

\* An operation leaves the booking in a booking status.
LEMMA DestinoEsEstado ==
    ASSUME NEW t, reserva \in EstadosReserva
    PROVE  Destino(t) \in EstadosReserva
BY DEF Destino, EstadosReserva

\* Mirroring the intent changes the status and the age, never the intent.
LEMMA FilaReflejada ==
    ASSUME NEW f \in Filas, NEW e \in EstadosPago
    PROVE  /\ Reflejada(f, e) \in Filas
           /\ Reflejada(f, e).estado = e
           /\ Reflejada(f, e).pi = f.pi
BY DEF Filas, Fechas, Reflejada

\* No payment is a row, and a coherent one.
LEMMA FilaVacia == SinPago \in Filas /\ FilaCoherente(SinPago)
BY ConstantesOK DEF SinPago, Filas, EstadosPago, Fechas, FilaCoherente

\* Nor does changing the status.
LEMMA FilaCambiada ==
    ASSUME NEW f \in Filas, NEW e \in EstadosPago
    PROVE  /\ ConEstado(f, e) \in Filas
           /\ ConEstado(f, e).estado = e
           /\ ConEstado(f, e).pi = f.pi
BY DEF Filas, ConEstado

\* Nor does noting a hold.
LEMMA FilaRetenida ==
    ASSUME NEW f \in Filas
    PROVE  /\ Retenida(f) \in Filas
           /\ Retenida(f).estado = "held"
           /\ Retenida(f).pi = f.pi
BY DEF Filas, EstadosPago, Fechas, Retenida

\* What locking the payment leads to: stages of their own, the ones that use
\* the intent only when there is one.
LEMMA TrasBloquear ==
    ASSUME NEW p, pago.estado = "ninguno"
    PROVE  EtapaTrasBloquear(p) \in {"guardar", "libre"}
BY DEF EtapaTrasBloquear

\* All the stages that locking the payment can lead to.
LEMMA EtapasTrasBloquear ==
    ASSUME NEW p
    PROVE  EtapaTrasBloquear(p) \in
               {"consultar", "cancelar", "capturar", "devolver", "guardar", "libre"}
BY DEF EtapaTrasBloquear

-----------------------------------------------------------------------------
(* The processes.                                                          *)

\* Moving on to a stage that finds what it needs in its copy of the row.
LEMMA SigueBien ==
    ASSUME Tipos, NEW p \in Procesos, NEW e \in Etapas, NEW f \in Filas,
           FilaCoherente(f), e \in EtapasConIntencion => f.pi # 0,
           Sigue(p, e, f)
    PROVE  ProcesosBien'
BY DEF Tipos, TypeOK, SabeDeSuPago, ProcesosBien, Sigue, FilaCoherente

\* Going on to another operation, or to none.
LEMMA PasaBien ==
    ASSUME Tipos, NEW p \in Procesos, NEW e \in Etapas \ EtapasConIntencion,
           NEW t \in Tareas, Pasa(p, e, t)
    PROVE  ProcesosBien'
BY FilaVacia DEF Tipos, TypeOK, SabeDeSuPago, ProcesosBien, Pasa, FilaCoherente

\* Locking the booking keeps the types.
LEMMA BloqueaBien ==
    ASSUME Tipos, NEW p \in Procesos, NEW t \in Tareas, NEW e \in Etapas,
           NEW f \in Filas, FilaCoherente(f), e \in EtapasConIntencion => f.pi # 0,
           BloqueaReserva(p, t, e, f)
    PROVE  Tipos'
BY DEF Tipos, TypeOK, SabeDeSuPago, BloqueaReserva, FilaCoherente,
       tablas, stripe, entorno

\* Locking the payment on its own too, when there is an intent to query.
LEMMA BloqueaPagoBien ==
    ASSUME Tipos, NEW p \in Procesos, NEW t \in Tareas, pago.pi # 0,
           BloqueaPago(p, t)
    PROVE  Tipos'
<1>1. "consultar" \in Etapas
  BY DEF Etapas
<1>2. QED
  BY <1>1 DEF Tipos, TypeOK, SabeDeSuPago, BloqueaPago, FilaCoherente,
       tablas, stripe, entorno

\* What is left in the locks when a transaction ends.
LEMMA SueltaBien ==
    ASSUME Tipos, NEW p \in Procesos, SueltaBloqueos(p)
    PROVE  /\ bloqueoReserva' \in Procesos \cup {Nadie}
           /\ bloqueoPago' \in Procesos \cup {Nadie}
BY DEF Tipos, TypeOK, SueltaBloqueos

\* What is left of Tipos' once the processes are known to be well.
EntornoBien ==
    /\ llegada \in BOOLEAN
    /\ periodos \in 0 .. MaxPeriodos
    /\ errores \in 0 .. MaxErrores
    /\ caidas \in 0 .. MaxCaidas

\* The bound on failed calls is respected.
LEMMA ErrorBien == ASSUME Tipos, Error PROVE EntornoBien'
BY ConstantesOK DEF Tipos, TypeOK, Error, EntornoBien

\* So is the one on lost answers.
LEMMA SinRespuestaBien == ASSUME Tipos, SinRespuesta PROVE EntornoBien'
BY ConstantesOK DEF Tipos, TypeOK, SinRespuesta, EntornoBien

\* And a step that does not touch either.
LEMMA EntornoIgual == ASSUME Tipos, UNCHANGED entorno PROVE EntornoBien'
BY DEF Tipos, TypeOK, EntornoBien, entorno

\* The stages and operations between transactions.
LEMMA LibreEsEtapa == /\ "libre" \in Etapas \ EtapasConIntencion
                      /\ "resolver" \in Etapas \ EtapasConIntencion
                      /\ "revisar" \in Etapas \ EtapasConIntencion
                      /\ "ninguna" \in Tareas /\ "resolver" \in Tareas
                      /\ "revisar" \in Tareas
BY DEF Etapas, EtapasConIntencion, Tareas

\* A rollback keeps the types.
LEMMA DeshaceBien ==
    ASSUME Tipos, NEW p \in Procesos, Deshace(p), EntornoBien'
    PROVE  Tipos'
<1>1. Pasa(p, "libre", "ninguna") /\ SueltaBloqueos(p)
  BY DEF Deshace
<1>2. ProcesosBien'
  BY <1>1, PasaBien, LibreEsEtapa
<1>3. QED
  BY <1>1, <1>2, SueltaBien DEF Tipos, TypeOK, SabeDeSuPago, ProcesosBien,
     EntornoBien, Deshace, tablas, stripe, FilaCoherente

\* Stripe's answer to paymentIntents.create.
StripeBien ==
    /\ intencion \in [Intenciones -> EstadosIntencion]
    /\ clave \in [Intenciones -> Claves \cup {SinClave}]
    /\ retenidas \subseteq Intenciones
    /\ devueltas \subseteq Intenciones

\* An intent created, or given again for a repeated key.
LEMMA CreaBien ==
    ASSUME Tipos, NEW k \in Claves, NEW e \in EstadosIntencion,
           NEW i \in Intenciones, Crea(k, e, i)
    PROVE  StripeBien'
BY DEF Tipos, TypeOK, Crea, StripeBien, stripe

\* An intent cancelled.
LEMMA CancelaBien ==
    ASSUME Tipos, NEW i, Cancela(i)
    PROVE  StripeBien'
BY DEF Tipos, TypeOK, Cancela, StripeBien, stripe, EstadosIntencion

\* A step without a call to Stripe.
LEMMA StripeIgual == ASSUME Tipos, UNCHANGED stripe PROVE StripeBien'
BY DEF Tipos, TypeOK, StripeBien, stripe

\* The parts of Tipos' put back together.
LEMMA Junta ==
    ASSUME ProcesosBien', StripeBien', EntornoBien',
           reserva' \in EstadosReserva, pago' \in Filas, FilaCoherente(pago)',
           bloqueoReserva' \in Procesos \cup {Nadie},
           bloqueoPago' \in Procesos \cup {Nadie},
           entregadas' \subseteq Intenciones
    PROVE  Tipos'
BY DEF Tipos, TypeOK, SabeDeSuPago, ProcesosBien, StripeBien, EntornoBien

\* A step that moves its process on and leaves rows and locks alone.
LEMMA SigueSolo ==
    ASSUME Tipos, NEW p \in Procesos, NEW e \in Etapas, NEW f \in Filas,
           FilaCoherente(f), e \in EtapasConIntencion => f.pi # 0,
           Sigue(p, e, f), UNCHANGED <<tablas, cerrojos, entregadas>>,
           StripeBien', EntornoBien'
    PROVE  Tipos'
<1>1. ProcesosBien'
  BY SigueBien
<1>2. QED
  BY <1>1, Junta DEF Tipos, TypeOK, SabeDeSuPago, FilaCoherente, tablas, cerrojos

\* Every step of the program, of Stripe and of the client keeps the types.
LEMMA PasoTipos == Tipos /\ [Next]_vars => Tipos'
<1> SUFFICES ASSUME Tipos, [Next]_vars PROVE Tipos'
  OBVIOUS
<1>0. CASE UNCHANGED vars
  <2>1. /\ UNCHANGED <<reserva, pago, bloqueoReserva, bloqueoPago, entregadas>>
        /\ UNCHANGED <<intencion, clave, retenidas, devueltas, pc, tarea, mem>>
        /\ UNCHANGED <<llegada, periodos, errores, caidas>>
    BY <1>0 DEF vars, tablas, cerrojos, stripe, procesos, entorno
  <2>2. TypeOK'
    BY <2>1 DEF Tipos, TypeOK
  <2>3. SabeDeSuPago'
    BY <2>1 DEF Tipos, SabeDeSuPago, FilaCoherente
  <2>4. QED
    BY <2>2, <2>3 DEF Tipos
<1>1. CASE LlegaLaFecha
  BY <1>1 DEF LlegaLaFecha, Tipos, TypeOK, SabeDeSuPago, FilaCoherente,
     tablas, cerrojos, stripe, procesos
<1>2. CASE Envejece
  <2>1. pago' \in Filas /\ FilaCoherente(pago)'
    BY <1>2 DEF Envejece, Tipos, TypeOK, SabeDeSuPago, FilaCoherente, Filas, Fechas
  <2>2. UNCHANGED <<mem, pc, tarea, reserva, cerrojos, stripe, entregadas>>
    BY <1>2 DEF Envejece, procesos
  <2>3. ProcesosBien' /\ StripeBien' /\ EntornoBien'
    BY <1>2, <2>2, StripeIgual, ConstantesOK DEF Envejece, Tipos, TypeOK, SabeDeSuPago,
       ProcesosBien, FilaCoherente, EntornoBien
  <2>4. QED
    BY <2>1, <2>2, <2>3, Junta DEF Tipos, TypeOK, cerrojos
<1>3. ASSUME NEW i \in Intenciones, ClientePaga(i) PROVE Tipos'
  BY <1>3 DEF ClientePaga, Tipos, TypeOK, SabeDeSuPago, FilaCoherente,
     EstadosIntencion, tablas, cerrojos, procesos, entorno
<1>4. ASSUME NEW i \in Intenciones, StripeSuelta(i) PROVE Tipos'
  BY <1>4 DEF StripeSuelta, Tipos, TypeOK, SabeDeSuPago, FilaCoherente,
     EstadosIntencion, tablas, cerrojos, procesos, entorno
<1>5. CASE Confirmar
  BY <1>5 DEF Confirmar, Tipos, TypeOK, SabeDeSuPago, FilaCoherente,
     EstadosReserva, cerrojos, stripe, procesos, entorno
<1>6. CASE AvisoCobrada
  BY <1>6 DEF AvisoCobrada, Tipos, TypeOK, SabeDeSuPago, FilaCoherente,
     Filas, EstadosPago, ConEstado, cerrojos, stripe, procesos, entorno
<1>7. CASE AvisoCancelada
  BY <1>7 DEF AvisoCancelada, Tipos, TypeOK, SabeDeSuPago, FilaCoherente,
     Filas, EstadosPago, ConEstado, cerrojos, stripe, procesos, entorno
<1>8. ASSUME NEW p \in Procesos, ReservaYPago(p) PROVE Tipos'
  <2>0. mem[p] \in Filas /\ FilaCoherente(mem[p]) /\ pago \in Filas /\ FilaCoherente(pago)
    BY <1>8 DEF Tipos, TypeOK, SabeDeSuPago
  <2>1. ASSUME NEW t \in Cambios, CambiarEstado(p, t) PROVE Tipos'
    BY <1>8, <2>1, BloqueaBien, FilaVacia
    DEF CambiarEstado, Tareas, Etapas, EtapasConIntencion
  <2>2. CASE Caducar(p)
    BY <1>8, <2>2, BloqueaBien, FilaVacia DEF Caducar, Tareas, Etapas, EtapasConIntencion
  <2>3. CASE Capturar(p)
    BY <1>8, <2>3, BloqueaBien, FilaVacia DEF Capturar, Tareas, Etapas, EtapasConIntencion
  <2>4. CASE Reembolsar(p)
    BY <1>8, <2>4, BloqueaBien, FilaVacia DEF Reembolsar, Tareas, Etapas, EtapasConIntencion
  <2>5. CASE Resolver(p)
    <3>1. CASE reserva \in RESERVAS_ABIERTAS
      BY <1>8, <2>5, <3>1, DeshaceBien, EntornoIgual DEF Resolver
    <3>2. CASE reserva \notin RESERVAS_ABIERTAS
      BY <1>8, <2>5, <3>2, BloqueaBien, FilaVacia
      DEF Resolver, Tareas, Etapas, EtapasConIntencion
    <3>3. QED
      BY <3>1, <3>2
  <2>6. CASE BloquearPago(p)
    <3>1. CASE EtapaTrasBloquear(p) = "libre"
      BY <1>8, <2>6, <3>1, DeshaceBien, EntornoIgual DEF BloquearPago
    <3>2. CASE EtapaTrasBloquear(p) # "libre"
      <4>1. /\ EtapaTrasBloquear(p) \in Etapas
            /\ EtapaTrasBloquear(p) \in EtapasConIntencion => pago.pi # 0
        BY <3>2, EtapasTrasBloquear, TrasBloquear
        DEF Etapas, EtapasConIntencion, Tipos, SabeDeSuPago, FilaCoherente
      <4>2. Sigue(p, EtapaTrasBloquear(p), pago) /\ pago \in Filas /\ FilaCoherente(pago)
        BY <2>6, <3>2 DEF BloquearPago, Tipos, TypeOK, SabeDeSuPago
      <4>3. ProcesosBien'
        BY <1>8, <4>1, <4>2, SigueBien
      <4>4. StripeBien' /\ EntornoBien'
        BY <2>6, <3>2, StripeIgual, EntornoIgual DEF BloquearPago
      <4>5. QED
        BY <1>8, <2>6, <3>2, <4>3, <4>4, Junta
        DEF BloquearPago, Tipos, TypeOK, SabeDeSuPago, tablas, FilaCoherente
    <3>3. QED
      BY <3>1, <3>2
  <2>7. CASE EsperaAgotada(p)
    BY <1>8, <2>7, DeshaceBien, EntornoIgual DEF EsperaAgotada
  <2>8. CASE ConsultarAlSoltar(p)
    <3> DEFINE e == EstadoSegunStripe(intencion[mem[p].pi])
    <3>1. mem[p].pi # 0 /\ "cancelar" \in Etapas /\ "guardar" \in Etapas \ EtapasConIntencion
      BY <1>8, <2>8 DEF ConsultarAlSoltar, EnEtapa, Tipos, SabeDeSuPago, EtapasConIntencion, Etapas
    <3>2. e \in EstadosPago \ {"ninguno"}
      BY EstadoDelPago DEF EstadosPago
    <3>3. ConEstado(mem[p], e) \in Filas /\ FilaCoherente(ConEstado(mem[p], e))
          /\ ConEstado(mem[p], e).pi # 0
      BY <2>0, <3>1, <3>2, FilaCambiada DEF FilaCoherente
    <3>4. StripeBien' /\ EntornoBien'
      BY <2>8, StripeIgual, EntornoIgual DEF ConsultarAlSoltar
    <3>5. \/ Sigue(p, "cancelar", ConEstado(mem[p], e))
          \/ Sigue(p, "guardar", pago)
      BY <2>8 DEF ConsultarAlSoltar
    <3>6. UNCHANGED <<tablas, cerrojos, entregadas>>
      BY <2>8 DEF ConsultarAlSoltar
    <3>7. QED
      BY <1>8, <2>0, <3>1, <3>3, <3>4, <3>5, <3>6, SigueSolo
  <2>9. CASE ConsultaFallidaAlSoltar(p)
    BY <1>8, <2>0, <2>9, SigueSolo, StripeIgual, ErrorBien
    DEF ConsultaFallidaAlSoltar, Etapas, EtapasConIntencion
  <2>10. CASE ConsultarAlCobrar(p)
    <3>1. mem[p].pi # 0
      BY <1>8, <2>10 DEF ConsultarAlCobrar, EnEtapa, Tipos, SabeDeSuPago, EtapasConIntencion
    <3>2. LET f == Reflejada(mem[p], "completed")
          IN  f \in Filas /\ FilaCoherente(f)
      BY <2>0, <3>1, FilaReflejada DEF EstadosPago, FilaCoherente
    <3>3. EntornoBien'
      BY <2>10, EntornoIgual DEF ConsultarAlCobrar
    <3>4. \/ Deshace(p)
          \/ /\ \/ Sigue(p, "guardar", Reflejada(mem[p], "completed"))
                \/ Sigue(p, "capturar", mem[p])
                \/ Sigue(p, "guardar", pago)
             /\ UNCHANGED <<tablas, cerrojos, stripe, entregadas>>
      BY <2>10 DEF ConsultarAlCobrar
    <3>5. QED
      BY <1>8, <2>0, <3>1, <3>2, <3>3, <3>4, SigueSolo, DeshaceBien, StripeIgual
      DEF Etapas, EtapasConIntencion
  <2>11. CASE CancelarAlSoltar(p)
    <3>1. mem[p].pi # 0
      BY <1>8, <2>11 DEF CancelarAlSoltar, EnEtapa, Tipos, SabeDeSuPago, EtapasConIntencion
    <3> DEFINE e == IF mem[p].estado = "held" THEN "refunded" ELSE "failed"
               f == ConEstado(mem[p], e)
    <3>2. e \in EstadosPago \ {"ninguno"}
      BY DEF EstadosPago
    <3>3. Sigue(p, "guardar", f)
      BY <2>11 DEF CancelarAlSoltar
    <3> HIDE DEF e
    <3>a. f \in Filas /\ FilaCoherente(f)
      BY <2>0, <3>1, <3>2, FilaCambiada DEF FilaCoherente
    <3>4. StripeBien' /\ EntornoBien'
      BY <2>11, CancelaBien, EntornoIgual DEF CancelarAlSoltar
    <3> HIDE DEF f
    <3>5. QED
      BY <1>8, <2>11, <3>a, <3>3, <3>4, SigueSolo
      DEF CancelarAlSoltar, Etapas, EtapasConIntencion
  <2>12. CASE CancelacionFallida(p)
    <3>1. StripeBien' /\ EntornoBien'
      BY <2>12, CancelaBien, StripeIgual, EntornoIgual, ErrorBien, SinRespuestaBien
      DEF CancelacionFallida
    <3>2. CASE Suelta(p)
      BY <1>8, <2>0, <2>12, <3>1, <3>2, SigueSolo
      DEF CancelacionFallida, Etapas, EtapasConIntencion
    <3>3. CASE ~Suelta(p)
      <4>1. Pasa(p, "libre", "ninguna") /\ SueltaBloqueos(p) /\ UNCHANGED <<tablas, entregadas>>
        BY <2>12, <3>3 DEF CancelacionFallida
      <4>2. ProcesosBien'
        BY <1>8, <4>1, PasaBien, LibreEsEtapa
      <4>3. QED
        BY <1>8, <3>1, <4>1, <4>2, SueltaBien, Junta
        DEF Tipos, TypeOK, SabeDeSuPago, FilaCoherente, tablas
    <3>4. QED
      BY <3>2, <3>3
  <2>13. CASE CapturarRetencion(p)
    <3>1. mem[p].pi # 0
      BY <1>8, <2>13 DEF CapturarRetencion, EnEtapa, Tipos, SabeDeSuPago, EtapasConIntencion
    <3>2. LET f == Reflejada(mem[p], "completed")
          IN  f \in Filas /\ FilaCoherente(f)
      BY <2>0, <3>1, FilaReflejada DEF EstadosPago, FilaCoherente
    <3>3. StripeBien' /\ EntornoBien'
      BY <2>13, EntornoIgual DEF CapturarRetencion, StripeBien, Tipos, TypeOK, EstadosIntencion
    <3>4. QED
      BY <1>8, <2>13, <3>2, <3>3, SigueSolo
      DEF CapturarRetencion, Etapas, EtapasConIntencion
  <2>14. CASE DevolverCobro(p)
    <3>1. mem[p].pi # 0 /\ mem[p].pi \in Intenciones
      BY <1>8, <2>0, <2>14 DEF DevolverCobro, EnEtapa, Tipos, SabeDeSuPago,
         EtapasConIntencion, Filas, Intenciones
    <3>2. LET f == ConEstado(mem[p], "refunded")
          IN  f \in Filas /\ FilaCoherente(f)
      BY <2>0, <3>1, FilaCambiada DEF EstadosPago, FilaCoherente
    <3>3. StripeBien' /\ EntornoBien'
      BY <2>14, <3>1, EntornoIgual DEF DevolverCobro, StripeBien, Tipos, TypeOK
    <3>4. QED
      BY <1>8, <2>14, <3>2, <3>3, SigueSolo
      DEF DevolverCobro, Etapas, EtapasConIntencion
  <2>15. CASE CapturaRechazada(p)
    BY <1>8, <2>15, DeshaceBien, EntornoIgual DEF CapturaRechazada
  <2>16. CASE FalloDeStripe(p)
    BY <1>8, <2>16, DeshaceBien, EntornoIgual, ErrorBien DEF FalloDeStripe
  <2>17. QED
    BY <1>8, <2>1, <2>2, <2>3, <2>4, <2>5, <2>6, <2>7, <2>8, <2>9, <2>10, <2>11,
       <2>12, <2>13, <2>14, <2>15, <2>16 DEF ReservaYPago
<1>9. ASSUME NEW p \in Procesos, SoloPago(p) PROVE Tipos'
  <2>0. mem[p] \in Filas /\ FilaCoherente(mem[p]) /\ pago \in Filas /\ FilaCoherente(pago)
    BY <1>9 DEF Tipos, TypeOK, SabeDeSuPago
  <2>1. CASE IniciarPago(p)
    <3>1. /\ "crear" \in Etapas \ EtapasConIntencion /\ "consultar" \in Etapas
          /\ "pagar" \in Tareas
      BY DEF Etapas, EtapasConIntencion, Tareas
    <3>2. \/ BloqueaReserva(p, "pagar", "crear", pago)
          \/ pago.pi # 0 /\ BloqueaReserva(p, "pagar", "consultar", pago)
      BY <2>1 DEF IniciarPago
    <3>3. QED
      BY <1>9, <2>0, <3>1, <3>2, BloqueaBien
  <2>2. CASE ConsultarAlPagar(p)
    <3> DEFINE e == EstadoSegunStripe(intencion[mem[p].pi])
               f == IF PuedeReflejar(mem[p].estado, e) THEN Reflejada(mem[p], e) ELSE mem[p]
               etapa == IF intencion[mem[p].pi] = "canceled" THEN "crear" ELSE "guardar"
    <3>1. mem[p].pi # 0 /\ mem[p].pi \in Intenciones
      BY <1>9, <2>0, <2>2 DEF ConsultarAlPagar, EnEtapa, Tipos, SabeDeSuPago,
         EtapasConIntencion, Filas, Intenciones
    <3>2. e \in EstadosPago \ {"ninguno"}
      BY EstadoDelPago DEF EstadosPago
    <3>3. f \in Filas /\ FilaCoherente(f)
      BY <2>0, <3>1, <3>2, FilaReflejada DEF FilaCoherente
    <3>4. Sigue(p, etapa, f) /\ etapa \in Etapas \ EtapasConIntencion
      BY <2>2 DEF ConsultarAlPagar, Etapas, EtapasConIntencion
    <3> HIDE DEF e, f, etapa
    <3>5. ProcesosBien'
      BY <1>9, <3>3, <3>4, SigueBien
    <3>6. StripeBien' /\ EntornoBien'
      BY <2>2, StripeIgual, EntornoIgual DEF ConsultarAlPagar
    <3>7. entregadas' \subseteq Intenciones
      BY <2>2, <3>1 DEF ConsultarAlPagar, Tipos, TypeOK
    <3>8. /\ bloqueoReserva' \in Procesos \cup {Nadie}
          /\ bloqueoPago' \in Procesos \cup {Nadie}
          /\ reserva' \in EstadosReserva /\ pago' = pago
      BY <1>9, <2>2 DEF ConsultarAlPagar, Tipos, TypeOK, tablas
    <3>9. QED
      BY <2>0, <3>5, <3>6, <3>7, <3>8, Junta DEF FilaCoherente
  <2>3. CASE CrearIntencion(p)
    <3>1. PICK i \in Intenciones :
             /\ Crea(<<IF reserva = "completed" THEN "cobro" ELSE "reserva", mem[p].pi>>,
                     "pagable", i)
             /\ Sigue(p, "escribir", [estado |-> "pending", pi |-> i, paidAt |-> "nunca"])
      BY <2>3 DEF CrearIntencion
    <3>2. <<IF reserva = "completed" THEN "cobro" ELSE "reserva", mem[p].pi>> \in Claves
      BY <2>0 DEF Claves, Filas
    <3>3. StripeBien' /\ EntornoBien'
      BY <2>3, <3>1, <3>2, CreaBien, EntornoIgual DEF CrearIntencion, EstadosIntencion
    <3>4. LET f == [estado |-> "pending", pi |-> i, paidAt |-> "nunca"]
          IN  f \in Filas /\ FilaCoherente(f) /\ f.pi # 0
      BY ConstantesOK DEF Filas, EstadosPago, Fechas, FilaCoherente, Intenciones
    <3>5. QED
      BY <1>9, <2>3, <3>1, <3>3, <3>4, SigueSolo DEF CrearIntencion, Etapas
  <2>4. CASE EscribirPago(p)
    <3>1. mem[p].pi # 0 /\ mem[p].pi \in Intenciones
      BY <1>9, <2>0, <2>4 DEF EscribirPago, EnEtapa, Tipos, SabeDeSuPago,
         EtapasConIntencion, Filas, Intenciones
    <3>2. ProcesosBien'
      BY <1>9, <2>4, PasaBien, LibreEsEtapa DEF EscribirPago
    <3>3. StripeBien' /\ EntornoBien'
      BY <2>4, StripeIgual, EntornoIgual DEF EscribirPago
    <3>4. /\ bloqueoReserva' \in Procesos \cup {Nadie}
          /\ bloqueoPago' \in Procesos \cup {Nadie}
      BY <1>9, <2>4, SueltaBien DEF EscribirPago
    <3>5. QED
      BY <2>0, <2>4, <3>1, <3>2, <3>3, <3>4, Junta
      DEF EscribirPago, Tipos, TypeOK, FilaCoherente
  <2>5. CASE ConfirmarRetencion(p)
    <3>1. pago.pi # 0
      BY <2>5 DEF ConfirmarRetencion, Tipos, TypeOK, Intenciones
    <3>2. QED
      BY <1>9, <2>5, <3>1, BloqueaPagoBien DEF ConfirmarRetencion, Tareas
  <2>6. CASE ConsultarAlConfirmar(p)
    <3> DEFINE e == EstadoSegunStripe(intencion[mem[p].pi])
               g == IF e = "held" THEN Retenida(mem[p]) ELSE Reflejada(mem[p], e)
               f == IF PuedeReflejar(mem[p].estado, e) THEN g ELSE mem[p]
    <3>1. mem[p].pi # 0
      BY <1>9, <2>6 DEF ConsultarAlConfirmar, EnEtapa, Tipos, SabeDeSuPago, EtapasConIntencion
    <3>2. e \in EstadosPago \ {"ninguno"}
      BY EstadoDelPago DEF EstadosPago
    <3>3. g \in Filas /\ g.estado = e /\ g.pi = mem[p].pi
      BY <2>0, <3>2, FilaReflejada, FilaRetenida
    <3>4. f \in Filas /\ FilaCoherente(f)
      BY <2>0, <3>1, <3>2, <3>3 DEF FilaCoherente
    <3>5. \/ Deshace(p)
          \/ Sigue(p, "guardar", f) /\ UNCHANGED <<tablas, cerrojos, stripe, entregadas>>
      BY <2>6 DEF ConsultarAlConfirmar
    <3>6. EntornoBien'
      BY <2>6, EntornoIgual DEF ConsultarAlConfirmar
    <3> HIDE DEF f
    <3>7. QED
      BY <1>9, <3>4, <3>5, <3>6, SigueSolo, DeshaceBien, StripeIgual
      DEF Etapas, EtapasConIntencion
  <2>7. CASE AvisoRetenida(p)
    <3>1. pago.pi # 0
      BY <2>7 DEF AvisoRetenida, Tipos, TypeOK, Intenciones
    <3>2. pago' \in Filas /\ FilaCoherente(pago)'
      BY <2>0, <2>7, <3>1, FilaRetenida DEF AvisoRetenida, FilaCoherente
    <3>3. ProcesosBien'
      BY <1>9, <2>7, PasaBien, LibreEsEtapa DEF AvisoRetenida
    <3>4. StripeBien' /\ EntornoBien'
      BY <2>7, StripeIgual, EntornoIgual DEF AvisoRetenida
    <3>5. QED
      BY <2>7, <3>2, <3>3, <3>4, Junta DEF AvisoRetenida, Tipos, TypeOK, cerrojos
  <2>8. QED
    BY <1>9, <2>1, <2>2, <2>3, <2>4, <2>5, <2>6, <2>7 DEF SoloPago
<1>10. ASSUME NEW p \in Procesos, Revision(p) PROVE Tipos'
  <2>0. mem[p] \in Filas /\ FilaCoherente(mem[p]) /\ pago \in Filas /\ FilaCoherente(pago)
    BY <1>10 DEF Tipos, TypeOK, SabeDeSuPago
  <2>1. CASE RevisarRetenida(p)
    <3>1. ProcesosBien'
      BY <1>10, <2>1, PasaBien, LibreEsEtapa DEF RevisarRetenida
    <3>2. StripeBien' /\ EntornoBien'
      BY <2>1, StripeIgual, EntornoIgual DEF RevisarRetenida
    <3>3. QED
      BY <2>0, <2>1, <3>1, <3>2, Junta
      DEF RevisarRetenida, Tipos, TypeOK, FilaCoherente, tablas, cerrojos
  <2>2. CASE BloquearAlRevisar(p)
    <3>1. pago.estado = "held" => pago.pi # 0
      BY <2>0 DEF FilaCoherente
    <3>2. QED
      BY <1>10, <2>2, <3>1, BloqueaPagoBien, DeshaceBien, EntornoIgual
      DEF BloquearAlRevisar, Tareas
  <2>3. CASE ConsultarAlRevisar(p)
    <3> DEFINE e == EstadoSegunStripe(intencion[mem[p].pi])
               f == ConEstado(mem[p], e)
    <3>1. mem[p].pi # 0
      BY <1>10, <2>3 DEF ConsultarAlRevisar, EnEtapa, Tipos, SabeDeSuPago, EtapasConIntencion
    <3>2. e \in EstadosPago \ {"ninguno"}
      BY EstadoDelPago DEF EstadosPago
    <3>3. f \in Filas /\ FilaCoherente(f)
      BY <2>0, <3>1, <3>2, FilaCambiada DEF FilaCoherente
    <3>4. \/ Deshace(p)
          \/ /\ Sigue(p, "guardar", f) \/ Sigue(p, "renovar", mem[p])
             /\ UNCHANGED <<tablas, cerrojos, stripe, entregadas>>
      BY <2>3 DEF ConsultarAlRevisar
    <3>5. EntornoBien'
      BY <2>3, EntornoIgual DEF ConsultarAlRevisar
    <3> HIDE DEF f
    <3>6. QED
      BY <1>10, <2>0, <3>1, <3>3, <3>4, <3>5, SigueSolo, DeshaceBien, StripeIgual
      DEF Etapas, EtapasConIntencion
  <2>4. CASE Renovar(p)
    <3>1. PICK i \in Intenciones :
             /\ Crea(<<"renovacion", mem[p].pi>>, "requires_capture", i)
             /\ Sigue(p, "guardarYSoltar",
                      [estado |-> "held", pi |-> i, paidAt |-> "reciente"])
      BY <2>4 DEF Renovar
    <3>2. <<"renovacion", mem[p].pi>> \in Claves
      BY <2>0 DEF Claves, Filas
    <3>3. StripeBien' /\ EntornoBien'
      BY <2>4, <3>1, <3>2, CreaBien, EntornoIgual DEF Renovar, EstadosIntencion
    <3>4. LET f == [estado |-> "held", pi |-> i, paidAt |-> "reciente"]
          IN  f \in Filas /\ FilaCoherente(f) /\ f.pi # 0
      BY ConstantesOK DEF Filas, EstadosPago, Fechas, FilaCoherente, Intenciones
    <3>5. QED
      BY <1>10, <2>4, <3>1, <3>3, <3>4, SigueSolo DEF Renovar, Etapas
  <2>5. CASE NoRenovable(p)
    <3>1. mem[p].pi # 0
      BY <1>10, <2>5 DEF NoRenovable, EnEtapa, Tipos, SabeDeSuPago, EtapasConIntencion
    <3>2. LET f == ConEstado(mem[p], "failed")
          IN  f \in Filas /\ FilaCoherente(f) /\ f.pi # 0
      BY <2>0, <3>1, FilaCambiada DEF EstadosPago, FilaCoherente
    <3>3. QED
      BY <1>10, <2>5, <3>2, SigueSolo, StripeIgual, EntornoIgual DEF NoRenovable, Etapas
  <2>6. CASE SoltarVieja(p)
    <3>1. StripeBien' /\ EntornoBien'
      BY <2>6, CancelaBien, StripeIgual, EntornoIgual, ErrorBien DEF SoltarVieja
    <3>2. ProcesosBien'
      BY <1>10, <2>6, PasaBien, LibreEsEtapa DEF SoltarVieja
    <3>3. QED
      BY <2>0, <2>6, <3>1, <3>2, Junta
      DEF SoltarVieja, Tipos, TypeOK, FilaCoherente, tablas, cerrojos
  <2>7. CASE Conciliar(p)
    <3>1. pago.pi # 0
      BY <2>0, <2>7 DEF Conciliar, FilaCoherente
    <3>2. QED
      BY <1>10, <2>7, <3>1, BloqueaPagoBien DEF Conciliar, Tareas
  <2>8. CASE ConsultarAlConciliar(p)
    <3> DEFINE e == EstadoSegunStripe(intencion[mem[p].pi])
    <3>1. mem[p].pi # 0
      BY <1>10, <2>8 DEF ConsultarAlConciliar, EnEtapa, Tipos, SabeDeSuPago, EtapasConIntencion
    <3>2. e \in EstadosPago \ {"ninguno"}
      BY EstadoDelPago DEF EstadosPago
    <3>3. Reflejada(mem[p], e) \in Filas /\ FilaCoherente(Reflejada(mem[p], e))
      BY <2>0, <3>1, <3>2, FilaReflejada DEF FilaCoherente
    <3>4. \/ Deshace(p)
          \/ /\ Sigue(p, "guardar", Reflejada(mem[p], e))
             /\ UNCHANGED <<tablas, cerrojos, stripe, entregadas>>
      BY <2>8 DEF ConsultarAlConciliar
    <3>5. EntornoBien'
      BY <2>8, EntornoIgual DEF ConsultarAlConciliar
    <3>6. QED
      BY <1>10, <3>3, <3>4, <3>5, SigueSolo, DeshaceBien, StripeIgual
      DEF Etapas, EtapasConIntencion
  <2>9. QED
    BY <1>10, <2>1, <2>2, <2>3, <2>4, <2>5, <2>6, <2>7, <2>8 DEF Revision
<1>11. ASSUME NEW p \in Procesos, Guardar(p) PROVE Tipos'
  <2>1. ProcesosBien'
    BY <1>11, PasaBien, LibreEsEtapa DEF Guardar
  <2>2. StripeBien' /\ EntornoBien'
    BY <1>11, StripeIgual, EntornoIgual DEF Guardar
  <2>3. reserva' \in EstadosReserva
    BY <1>11, DestinoEsEstado DEF Guardar, Tipos, TypeOK
  <2>4. pago' \in Filas /\ FilaCoherente(pago)'
    BY <1>11 DEF Guardar, Tipos, TypeOK, SabeDeSuPago, FilaCoherente
  <2>5. /\ bloqueoReserva' \in Procesos \cup {Nadie}
        /\ bloqueoPago' \in Procesos \cup {Nadie}
    BY <1>11, SueltaBien DEF Guardar
  <2>6. QED
    BY <1>11, <2>1, <2>2, <2>3, <2>4, <2>5, Junta DEF Guardar, Tipos, TypeOK
<1>12. ASSUME NEW p \in Procesos, GuardarYSoltar(p) PROVE Tipos'
  <2>1. /\ mem[p].pi # 0
        /\ mem[p] \in Filas /\ FilaCoherente(mem[p]) /\ pago \in Filas /\ FilaCoherente(pago)
    BY <1>12 DEF GuardarYSoltar, EnEtapa, Tipos, TypeOK, SabeDeSuPago, EtapasConIntencion
  <2>2. ProcesosBien'
    BY <1>12, <2>1, SigueBien DEF GuardarYSoltar, Etapas, EtapasConIntencion
  <2>3. StripeBien' /\ EntornoBien'
    BY <1>12, StripeIgual, EntornoIgual DEF GuardarYSoltar
  <2>4. /\ bloqueoReserva' \in Procesos \cup {Nadie}
        /\ bloqueoPago' \in Procesos \cup {Nadie}
    BY <1>12, SueltaBien DEF GuardarYSoltar
  <2>5. QED
    BY <1>12, <2>1, <2>2, <2>3, <2>4, Junta
    DEF GuardarYSoltar, Tipos, TypeOK, FilaCoherente
<1>13. ASSUME NEW p \in Procesos, Caida(p) PROVE Tipos'
  BY <1>13, DeshaceBien, SinRespuestaBien DEF Caida
<1>14. QED
  BY <1>0, <1>1, <1>2, <1>3, <1>4, <1>5, <1>6, <1>7, <1>8, <1>9, <1>10, <1>11, <1>12,
     <1>13 DEF Next, Externo

\* The types hold at the start.
LEMMA IniciaTipos == Init => Tipos
<1> SUFFICES ASSUME Init PROVE Tipos
  OBVIOUS
<1>1. TypeOK
  <2>1. /\ reserva \in EstadosReserva /\ pago \in Filas
        /\ periodos \in 0 .. MaxPeriodos
        /\ errores \in 0 .. MaxErrores /\ caidas \in 0 .. MaxCaidas
    BY ConstantesOK, FilaVacia DEF Init, EstadosReserva
  <2>2. intencion \in [Intenciones -> EstadosIntencion]
    BY DEF Init, EstadosIntencion
  <2>3. clave \in [Intenciones -> Claves \cup {SinClave}]
    BY DEF Init
  <2>4. /\ pc \in [Procesos -> Etapas] /\ tarea \in [Procesos -> Tareas]
        /\ mem \in [Procesos -> Filas]
    BY FilaVacia DEF Init, Etapas, Tareas
  <2>5. QED
    BY <2>1, <2>2, <2>3, <2>4 DEF Init, TypeOK
<1>2. SabeDeSuPago
  BY FilaVacia DEF Init, SabeDeSuPago, EtapasConIntencion
<1>3. QED
  BY <1>1, <1>2 DEF Tipos

\* The inductive invariant behind type correctness.
THEOREM SpecTipos == Spec => []Tipos
BY IniciaTipos, PasoTipos, PTL DEF Spec

\* Type correctness, for any constants.
THEOREM TypeCorrect == Spec => []TypeOK
<1>1. Tipos => TypeOK
  BY DEF Tipos
<1>2. QED
  BY <1>1, SpecTipos, PTL

-----------------------------------------------------------------------------
(* Locks.                                                                  *)

\* The stages in which a process is between transactions.
EtapasSinCerrojo == {"libre", "resolver", "revisar", "soltar"}

\* Between transactions a process has no row locked.
SinCerrojos ==
    \A p \in Procesos :
        pc[p] \in EtapasSinCerrojo => bloqueoReserva # p /\ bloqueoPago # p

\* A step may give p a lock if it leaves p inside a transaction, may take its
\* locks away, and touches nobody else's.
Ordenado(p) ==
    /\ bloqueoReserva' \in {bloqueoReserva, p, Nadie}
    /\ bloqueoPago' \in {bloqueoPago, p, Nadie}
    /\ \A q \in Procesos \ {p} : pc'[q] = pc[q]
    /\ \/ pc'[p] \notin EtapasSinCerrojo
       \/ SueltaBloqueos(p)
       \/ pc[p] \in EtapasSinCerrojo /\ UNCHANGED cerrojos

\* Such a step keeps the invariant on locks.
LEMMA OrdenadoGuarda ==
    ASSUME Tipos, SinCerrojos, NEW p \in Procesos, Ordenado(p)
    PROVE  SinCerrojos'
BY ConstantesOK DEF SinCerrojos, Ordenado, SueltaBloqueos, cerrojos

\* The end of a transaction is one of them...
LEMMA SueltaOrdenado ==
    ASSUME Tipos, NEW p \in Procesos, NEW e, NEW t, Pasa(p, e, t), SueltaBloqueos(p)
    PROVE  Ordenado(p)
BY DEF Tipos, TypeOK, Pasa, SueltaBloqueos, Ordenado

\* ...a rollback too...
LEMMA DeshaceOrdenado ==
    ASSUME Tipos, NEW p \in Procesos, Deshace(p)
    PROVE  Ordenado(p)
BY SueltaOrdenado DEF Deshace

\* ...a step inside a transaction...
LEMMA SigueOrdenado ==
    ASSUME Tipos, NEW p \in Procesos, NEW e, NEW f, Sigue(p, e, f),
           e \notin EtapasSinCerrojo, UNCHANGED cerrojos
    PROVE  Ordenado(p)
BY DEF Tipos, TypeOK, Sigue, Ordenado, cerrojos

\* ...locking the booking...
LEMMA BloqueaOrdenado ==
    ASSUME Tipos, NEW p \in Procesos, NEW t, NEW e, NEW f,
           e \notin EtapasSinCerrojo, BloqueaReserva(p, t, e, f)
    PROVE  Ordenado(p)
BY DEF Tipos, TypeOK, BloqueaReserva, Ordenado

\* ...and locking the payment.
LEMMA BloqueaPagoOrdenado ==
    ASSUME Tipos, NEW p \in Procesos, NEW t, BloqueaPago(p, t)
    PROVE  Ordenado(p)
BY DEF Tipos, TypeOK, BloqueaPago, Ordenado, EtapasSinCerrojo

\* Every step of a process is of that kind.
LEMMA PasoOrdenado ==
    ASSUME Tipos, NEW p \in Procesos,
           \/ ReservaYPago(p) \/ SoloPago(p) \/ Revision(p)
           \/ Guardar(p) \/ GuardarYSoltar(p) \/ Caida(p)
    PROVE  Ordenado(p)
<1>1. CASE ReservaYPago(p)
  <2>1. CASE \/ \E t \in Cambios : CambiarEstado(p, t)
             \/ Caducar(p) \/ Capturar(p) \/ Reembolsar(p)
    BY <2>1, BloqueaOrdenado
    DEF CambiarEstado, Caducar, Capturar, Reembolsar, EtapasSinCerrojo
  <2>2. CASE Resolver(p)
    BY <2>2, BloqueaOrdenado, DeshaceOrdenado DEF Resolver, EtapasSinCerrojo
  <2>3. CASE BloquearPago(p)
    <3>1. CASE EtapaTrasBloquear(p) = "libre"
      BY <2>3, <3>1, DeshaceOrdenado DEF BloquearPago
    <3>2. CASE EtapaTrasBloquear(p) # "libre"
      <4>1. EtapaTrasBloquear(p) \notin EtapasSinCerrojo
        BY <3>2, EtapasTrasBloquear DEF EtapasSinCerrojo
      <4>2. /\ Sigue(p, EtapaTrasBloquear(p), pago)
            /\ bloqueoPago' = p /\ UNCHANGED bloqueoReserva
        BY <2>3, <3>2 DEF BloquearPago
      <4>3. QED
        BY <4>1, <4>2 DEF Tipos, TypeOK, Sigue, Ordenado
    <3>3. QED
      BY <3>1, <3>2
  <2>4. CASE EsperaAgotada(p) \/ CapturaRechazada(p) \/ FalloDeStripe(p)
    BY <2>4, DeshaceOrdenado DEF EsperaAgotada, CapturaRechazada, FalloDeStripe
  <2>5. CASE \/ ConsultarAlSoltar(p) \/ ConsultaFallidaAlSoltar(p)
             \/ ConsultarAlCobrar(p) \/ CancelarAlSoltar(p)
             \/ CapturarRetencion(p) \/ DevolverCobro(p)
    BY <2>5, SigueOrdenado, DeshaceOrdenado
    DEF ConsultarAlSoltar, ConsultaFallidaAlSoltar, ConsultarAlCobrar,
        CancelarAlSoltar, CapturarRetencion, DevolverCobro, EtapasSinCerrojo
  <2>6. CASE CancelacionFallida(p)
    BY <2>6, SigueOrdenado, SueltaOrdenado DEF CancelacionFallida, EtapasSinCerrojo
  <2>7. QED
    BY <1>1, <2>1, <2>2, <2>3, <2>4, <2>5, <2>6 DEF ReservaYPago
<1>2. CASE SoloPago(p)
  <2>1. CASE IniciarPago(p)
    BY <2>1, BloqueaOrdenado DEF IniciarPago, EtapasSinCerrojo
  <2>2. CASE ConsultarAlPagar(p)
    BY <2>2 DEF ConsultarAlPagar, Tipos, TypeOK, Sigue, Ordenado, EtapasSinCerrojo
  <2>3. CASE CrearIntencion(p)
    <3>1. PICK i \in Intenciones :
             Sigue(p, "escribir", [estado |-> "pending", pi |-> i, paidAt |-> "nunca"])
      BY <2>3 DEF CrearIntencion
    <3>2. "escribir" \notin EtapasSinCerrojo /\ UNCHANGED cerrojos
      BY <2>3 DEF CrearIntencion, EtapasSinCerrojo
    <3>3. QED
      BY <3>1, <3>2, SigueOrdenado
  <2>a. CASE ConsultarAlConfirmar(p)
    <3>1. Deshace(p) \/ \E f : Sigue(p, "guardar", f) /\ UNCHANGED cerrojos
      BY <2>a DEF ConsultarAlConfirmar
    <3>2. QED
      BY <3>1, SigueOrdenado, DeshaceOrdenado DEF EtapasSinCerrojo
  <2>4. CASE EscribirPago(p)
    BY <2>4, SueltaOrdenado DEF EscribirPago
  <2>5. CASE ConfirmarRetencion(p)
    BY <2>5, BloqueaPagoOrdenado DEF ConfirmarRetencion
  <2>6. CASE AvisoRetenida(p)
    BY <2>6 DEF AvisoRetenida, EnEtapa, Pasa, Tipos, TypeOK, Ordenado,
       EtapasSinCerrojo, cerrojos
  <2>7. QED
    BY <1>2, <2>1, <2>2, <2>3, <2>4, <2>5, <2>6, <2>a DEF SoloPago
<1>3. CASE Revision(p)
  <2>1. CASE RevisarRetenida(p)
    BY <2>1 DEF RevisarRetenida, EnEtapa, Pasa, Tipos, TypeOK, Ordenado,
       EtapasSinCerrojo, cerrojos
  <2>2. CASE BloquearAlRevisar(p) \/ Conciliar(p)
    BY <2>2, BloqueaPagoOrdenado, DeshaceOrdenado DEF BloquearAlRevisar, Conciliar
  <2>3. CASE \/ ConsultarAlRevisar(p) \/ Renovar(p) \/ NoRenovable(p)
             \/ ConsultarAlConciliar(p)
    <3>1. \/ Deshace(p)
          \/ \E e \in {"guardar", "renovar", "guardarYSoltar"} : \E f :
               Sigue(p, e, f) /\ UNCHANGED cerrojos
      BY <2>3, Zenon DEF ConsultarAlRevisar, Renovar, NoRenovable, ConsultarAlConciliar
    <3>2. QED
      BY <3>1, SigueOrdenado, DeshaceOrdenado DEF EtapasSinCerrojo
  <2>4. CASE SoltarVieja(p)
    BY <2>4 DEF SoltarVieja, EnEtapa, Pasa, Tipos, TypeOK, Ordenado,
       EtapasSinCerrojo, cerrojos
  <2>5. QED
    BY <1>3, <2>1, <2>2, <2>3, <2>4 DEF Revision
<1>4. CASE Guardar(p)
  BY <1>4, SueltaOrdenado DEF Guardar
<1>5. CASE GuardarYSoltar(p)
  BY <1>5 DEF GuardarYSoltar, Sigue, Tipos, TypeOK, Ordenado, SueltaBloqueos
<1>6. CASE Caida(p)
  BY <1>6, DeshaceOrdenado DEF Caida
<1>7. QED
  BY <1>1, <1>2, <1>3, <1>4, <1>5, <1>6

\* Every step of the system keeps the invariant on locks.
LEMMA PasoSinCerrojos == Tipos /\ SinCerrojos /\ [Next]_vars => SinCerrojos'
<1> SUFFICES ASSUME Tipos, SinCerrojos, [Next]_vars PROVE SinCerrojos'
  OBVIOUS
<1>1. CASE UNCHANGED vars
  BY <1>1 DEF vars, cerrojos, procesos, SinCerrojos
<1>2. CASE Externo \/ Confirmar \/ AvisoCobrada \/ AvisoCancelada
  <2>1. UNCHANGED <<cerrojos, procesos>>
    BY <1>2 DEF Externo, LlegaLaFecha, Envejece, ClientePaga, StripeSuelta,
       Confirmar, AvisoCobrada, AvisoCancelada
  <2>2. QED
    BY <2>1 DEF cerrojos, procesos, SinCerrojos
<1>3. ASSUME NEW p \in Procesos,
             \/ ReservaYPago(p) \/ SoloPago(p) \/ Revision(p)
             \/ Guardar(p) \/ GuardarYSoltar(p) \/ Caida(p)
      PROVE  SinCerrojos'
  BY <1>3, PasoOrdenado, OrdenadoGuarda
<1>4. QED
  BY <1>1, <1>2, <1>3 DEF Next

\* No two operations wait for each other's rows: whoever is about to lock the
\* booking from outside has given its payment back.
THEOREM SinAbrazoMortal == Spec => []SinEsperaCruzada
<1>1. Init => SinCerrojos
  BY ConstantesOK DEF Init, SinCerrojos
<1>2. SinCerrojos => SinEsperaCruzada
  BY DEF SinCerrojos, SinEsperaCruzada, EtapasSinCerrojo
<1>3. QED
  BY <1>1, <1>2, PasoSinCerrojos, SpecTipos, PTL DEF Spec

-----------------------------------------------------------------------------
(* The row tells the truth about the client's money.                       *)

\* What is settled at Stripe stays settled.
NadaSeDeshace ==
    /\ \A i \in Intenciones :
         /\ intencion[i] = "succeeded" => intencion'[i] = "succeeded"
         /\ intencion[i] = "canceled" => intencion'[i] = "canceled"
    /\ devueltas \subseteq devueltas'

\* A step without a call to Stripe settles nothing and undoes nothing.
LEMMA StripeQuieto == UNCHANGED stripe => NadaSeDeshace
BY DEF stripe, NadaSeDeshace

\* Stripe refuses to cancel an intent already settled.
LEMMA CancelaNoDeshace ==
    ASSUME Tipos, NEW i, Cancelable(i), Cancela(i)
    PROVE  NadaSeDeshace
BY DEF Tipos, TypeOK, Cancelable, Cancela, NadaSeDeshace

\* A new intent takes an identifier nobody had.
LEMMA CreaNoDeshace ==
    ASSUME Tipos, NEW k, NEW e, NEW i \in Intenciones, Crea(k, e, i)
    PROVE  NadaSeDeshace
<1>1. CASE UNCHANGED stripe
  BY <1>1, StripeQuieto
<1>2. CASE /\ intencion[i] = "libre"
           /\ intencion' = [intencion EXCEPT ![i] = e]
           /\ UNCHANGED devueltas
  BY <1>2 DEF Tipos, TypeOK, NadaSeDeshace
<1>3. QED
  BY <1>1, <1>2 DEF Crea

\* A rollback does not reach Stripe.
LEMMA DeshaceQuieto == ASSUME NEW p, Deshace(p) PROVE NadaSeDeshace
BY StripeQuieto DEF Deshace

\* No step of the system takes back what is settled at Stripe.
LEMMA StripeNoDeshace == Tipos /\ [Next]_vars => NadaSeDeshace
<1> SUFFICES ASSUME Tipos, [Next]_vars PROVE NadaSeDeshace
  OBVIOUS
<1>1. CASE UNCHANGED vars
  BY <1>1, StripeQuieto DEF vars
<1>2. ASSUME NEW i \in Intenciones, ClientePaga(i) PROVE NadaSeDeshace
  BY <1>2 DEF ClientePaga, Tipos, TypeOK, NadaSeDeshace
<1>3. ASSUME NEW i \in Intenciones, StripeSuelta(i) PROVE NadaSeDeshace
  BY <1>3 DEF StripeSuelta, Tipos, TypeOK, NadaSeDeshace
<1>4. CASE LlegaLaFecha \/ Envejece \/ Confirmar \/ AvisoCobrada \/ AvisoCancelada
  BY <1>4, StripeQuieto
  DEF LlegaLaFecha, Envejece, Confirmar, AvisoCobrada, AvisoCancelada
<1>5. ASSUME NEW p \in Procesos, ReservaYPago(p) PROVE NadaSeDeshace
  <2>1. CASE \/ \E t \in Cambios : CambiarEstado(p, t)
             \/ Caducar(p) \/ Capturar(p) \/ Reembolsar(p) \/ Resolver(p)
    BY <2>1, StripeQuieto, DeshaceQuieto
    DEF CambiarEstado, Caducar, Capturar, Reembolsar, Resolver, BloqueaReserva
  <2>2. CASE BloquearPago(p) \/ EsperaAgotada(p)
    BY <2>2, StripeQuieto, DeshaceQuieto DEF BloquearPago, EsperaAgotada
  <2>3. CASE \/ ConsultarAlSoltar(p) \/ ConsultaFallidaAlSoltar(p)
             \/ ConsultarAlCobrar(p)
    BY <2>3, StripeQuieto, DeshaceQuieto
    DEF ConsultarAlSoltar, ConsultaFallidaAlSoltar, ConsultarAlCobrar
  <2>4. CASE CancelarAlSoltar(p) \/ CancelacionFallida(p)
    BY <2>4, StripeQuieto, CancelaNoDeshace DEF CancelarAlSoltar, CancelacionFallida
  <2>5. CASE CapturarRetencion(p)
    BY <2>5 DEF CapturarRetencion, Tipos, TypeOK, NadaSeDeshace
  <2>6. CASE DevolverCobro(p)
    BY <2>6 DEF DevolverCobro, NadaSeDeshace
  <2>7. CASE CapturaRechazada(p) \/ FalloDeStripe(p)
    BY <2>7, DeshaceQuieto DEF CapturaRechazada, FalloDeStripe
  <2>8. QED
    BY <1>5, <2>1, <2>2, <2>3, <2>4, <2>5, <2>6, <2>7 DEF ReservaYPago
<1>6. ASSUME NEW p \in Procesos, SoloPago(p) PROVE NadaSeDeshace
  <2>1. CASE \/ IniciarPago(p) \/ ConsultarAlPagar(p) \/ EscribirPago(p)
             \/ ConfirmarRetencion(p) \/ ConsultarAlConfirmar(p) \/ AvisoRetenida(p)
    BY <2>1, StripeQuieto, DeshaceQuieto
    DEF IniciarPago, ConsultarAlPagar, EscribirPago, ConfirmarRetencion,
        ConsultarAlConfirmar, AvisoRetenida, BloqueaReserva, BloqueaPago
  <2>2. CASE CrearIntencion(p)
    BY <2>2, CreaNoDeshace DEF CrearIntencion
  <2>3. QED
    BY <1>6, <2>1, <2>2 DEF SoloPago
<1>7. ASSUME NEW p \in Procesos, Revision(p) PROVE NadaSeDeshace
  <2>1. CASE \/ RevisarRetenida(p) \/ BloquearAlRevisar(p) \/ ConsultarAlRevisar(p)
             \/ NoRenovable(p) \/ Conciliar(p) \/ ConsultarAlConciliar(p)
    BY <2>1, StripeQuieto, DeshaceQuieto
    DEF RevisarRetenida, BloquearAlRevisar, ConsultarAlRevisar, NoRenovable,
        Conciliar, ConsultarAlConciliar, BloqueaPago
  <2>2. CASE Renovar(p)
    BY <2>2, CreaNoDeshace DEF Renovar
  <2>3. CASE SoltarVieja(p)
    BY <2>3, StripeQuieto, CancelaNoDeshace DEF SoltarVieja
  <2>4. QED
    BY <1>7, <2>1, <2>2, <2>3 DEF Revision
<1>8. ASSUME NEW p \in Procesos, Guardar(p) \/ GuardarYSoltar(p) \/ Caida(p)
      PROVE  NadaSeDeshace
  BY <1>8, StripeQuieto, DeshaceQuieto DEF Guardar, GuardarYSoltar, Caida
<1>9. QED
  BY <1>1, <1>2, <1>3, <1>4, <1>5, <1>6, <1>7, <1>8 DEF Next, Externo

\* A row that says charged or refunded only of an intent that is.
Veraz(f) ==
    /\ f.estado = "completed" => f.pi # 0 /\ intencion[f.pi] = "succeeded"
    /\ f.estado = "refunded" =>
         f.pi # 0 /\ (intencion[f.pi] = "canceled" \/ f.pi \in devueltas)

\* The row in the database and every copy of it a process is working on.
FilasVeraces == Veraz(pago) /\ \A p \in Procesos : Veraz(mem[p])

\* The same after a step, of any row.
VerazDespues(f) ==
    /\ f.estado = "completed" => f.pi # 0 /\ intencion'[f.pi] = "succeeded"
    /\ f.estado = "refunded" =>
         f.pi # 0 /\ (intencion'[f.pi] = "canceled" \/ f.pi \in devueltas')

\* A row that told the truth still does after any step.
LEMMA VerazQueda ==
    ASSUME Tipos, NadaSeDeshace, NEW f \in Filas, Veraz(f)
    PROVE  VerazDespues(f)
BY ConstantesOK DEF NadaSeDeshace, Veraz, VerazDespues, Filas, Intenciones

\* A row that claims nothing is true.
LEMMA VerazSinSaldar ==
    ASSUME NEW f, f.estado \notin {"completed", "refunded"}
    PROVE  VerazDespues(f)
BY DEF VerazDespues

\* A row that mirrors what Stripe has just answered.
LEMMA VerazReflejo ==
    ASSUME Tipos, NadaSeDeshace, NEW g \in Filas, g.pi \in Intenciones,
           NEW f, f.pi = g.pi, f.estado = EstadoSegunStripe(intencion[g.pi])
    PROVE  VerazDespues(f)
<1>1. f.estado # "refunded"
  BY EstadoDelPago
<1>2. f.estado = "completed" => intencion[g.pi] = "succeeded"
  BY CompletadoSegunStripe
<1>3. QED
  BY <1>1, <1>2, ConstantesOK DEF VerazDespues, NadaSeDeshace, Intenciones

\* What a step leaves in a process's copy and in the row.
FilasNuevas(p) ==
    /\ pago' = pago \/ VerazDespues(pago')
    /\ VerazDespues(mem'[p])
    /\ \A q \in Procesos \ {p} : mem'[q] = mem[q]

\* True rows and copies written over true ones.
LEMMA FilasNuevasVeraces ==
    ASSUME Tipos, FilasVeraces, NadaSeDeshace, NEW p \in Procesos, FilasNuevas(p)
    PROVE  FilasVeraces'
<1>1. VerazDespues(pago')
  <2>1. VerazDespues(pago)
    BY VerazQueda DEF Tipos, TypeOK, FilasVeraces
  <2>2. QED
    BY <2>1 DEF FilasNuevas
<1>2. ASSUME NEW q \in Procesos PROVE VerazDespues(mem'[q])
  <2>1. VerazDespues(mem[q])
    BY VerazQueda DEF Tipos, TypeOK, FilasVeraces
  <2>2. QED
    BY <2>1 DEF FilasNuevas
<1>3. QED
  BY <1>1, <1>2 DEF FilasVeraces, Veraz, VerazDespues

\* A process moving on with a true copy.
LEMMA SigueVeraz ==
    ASSUME Tipos, NEW p \in Procesos, NEW e, NEW f, VerazDespues(f),
           Sigue(p, e, f), pago' = pago \/ VerazDespues(pago')
    PROVE  FilasNuevas(p)
BY DEF Tipos, TypeOK, Sigue, FilasNuevas

\* A process going on without one.
LEMMA PasaVeraz ==
    ASSUME Tipos, NEW p \in Procesos, NEW e, NEW t, Pasa(p, e, t),
           pago' = pago \/ VerazDespues(pago')
    PROVE  FilasNuevas(p)
<1>1. VerazDespues(SinPago)
  BY VerazSinSaldar DEF SinPago
<1>2. QED
  BY <1>1 DEF Tipos, TypeOK, Pasa, FilasNuevas

\* A rollback writes no row.
LEMMA DeshaceVeraz ==
    ASSUME Tipos, NEW p \in Procesos, Deshace(p)
    PROVE  FilasNuevas(p)
BY PasaVeraz DEF Deshace, tablas

\* Nor does locking the booking, with a true copy of the row.
LEMMA BloqueaVeraz ==
    ASSUME Tipos, NEW p \in Procesos, NEW t, NEW e, NEW f, VerazDespues(f),
           BloqueaReserva(p, t, e, f)
    PROVE  FilasNuevas(p)
BY DEF Tipos, TypeOK, BloqueaReserva, FilasNuevas, tablas

\* Locking the payment copies the row.
LEMMA BloqueaPagoVeraz ==
    ASSUME Tipos, NEW p \in Procesos, NEW t, VerazDespues(pago), BloqueaPago(p, t)
    PROVE  FilasNuevas(p)
BY DEF Tipos, TypeOK, BloqueaPago, FilasNuevas, tablas

\* Every step of a process writes rows that tell the truth.
LEMMA PasoVeraz ==
    ASSUME Tipos, FilasVeraces, NadaSeDeshace, NEW p \in Procesos,
           \/ ReservaYPago(p) \/ SoloPago(p) \/ Revision(p)
           \/ Guardar(p) \/ GuardarYSoltar(p) \/ Caida(p)
    PROVE  FilasNuevas(p)
<1> DEFINE enStripe == intencion[mem[p].pi]
           e == EstadoSegunStripe(enStripe)
<1>0. /\ mem[p] \in Filas /\ pago \in Filas
      /\ VerazDespues(mem[p]) /\ VerazDespues(pago) /\ VerazDespues(SinPago)
  <2>1. VerazDespues(SinPago)
    BY VerazSinSaldar DEF SinPago
  <2>2. QED
    BY <2>1, VerazQueda DEF Tipos, TypeOK, FilasVeraces
<1>a. pc[p] \in EtapasConIntencion => mem[p].pi \in Intenciones
  BY <1>0, ConstantesOK DEF Tipos, SabeDeSuPago, Filas, Intenciones
<1>b. e \in EstadosPago
  BY EstadoDelPago DEF EstadosPago
<1>1. CASE ReservaYPago(p)
  <2>1. CASE \/ \E t \in Cambios : CambiarEstado(p, t)
             \/ Caducar(p) \/ Capturar(p) \/ Reembolsar(p) \/ Resolver(p)
    BY <1>0, <2>1, BloqueaVeraz, DeshaceVeraz
    DEF CambiarEstado, Caducar, Capturar, Reembolsar, Resolver
  <2>2. CASE BloquearPago(p)
    BY <1>0, <2>2, SigueVeraz, DeshaceVeraz DEF BloquearPago, tablas
  <2>3. CASE EsperaAgotada(p) \/ CapturaRechazada(p) \/ FalloDeStripe(p)
    BY <2>3, DeshaceVeraz DEF EsperaAgotada, CapturaRechazada, FalloDeStripe
  <2>4. CASE ConsultarAlSoltar(p)
    <3>1. /\ \/ Sigue(p, "cancelar", ConEstado(mem[p], e)) /\ e \in {"held", "pending"}
             \/ Sigue(p, "guardar", pago)
          /\ pago' = pago
      BY <2>4 DEF ConsultarAlSoltar, tablas
    <3>2. e \in {"held", "pending"} => VerazDespues(ConEstado(mem[p], e))
      BY <1>0, <1>b, FilaCambiada, VerazSinSaldar
    <3> HIDE DEF e
    <3>3. QED
      BY <1>0, <3>1, <3>2, SigueVeraz
  <2>5. CASE ConsultaFallidaAlSoltar(p)
    BY <1>0, <2>5, SigueVeraz DEF ConsultaFallidaAlSoltar, tablas
  <2>6. CASE ConsultarAlCobrar(p)
    <3>1. pago' = pago /\ mem[p].pi \in Intenciones
      BY <1>a, <2>6 DEF ConsultarAlCobrar, EnEtapa, EtapasConIntencion, Deshace, tablas
    <3>2. \/ Deshace(p)
          \/ intencion[mem[p].pi] = "succeeded"
             /\ Sigue(p, "guardar", Reflejada(mem[p], "completed"))
          \/ Sigue(p, "capturar", mem[p])
          \/ Sigue(p, "guardar", pago)
      BY <2>6 DEF ConsultarAlCobrar
    <3>3. intencion[mem[p].pi] = "succeeded" => VerazDespues(Reflejada(mem[p], "completed"))
      BY <1>0, <3>1, FilaReflejada, ConstantesOK
      DEF EstadosPago, VerazDespues, NadaSeDeshace, Intenciones
    <3>4. QED
      BY <1>0, <3>1, <3>2, <3>3, SigueVeraz, DeshaceVeraz
  <2>7. CASE CancelarAlSoltar(p)
    <3> DEFINE s == IF mem[p].estado = "held" THEN "refunded" ELSE "failed"
    <3>1. mem[p].pi \in Intenciones /\ pago' = pago
      BY <1>a, <2>7 DEF CancelarAlSoltar, EnEtapa, EtapasConIntencion, tablas
    <3>2. intencion'[mem[p].pi] = "canceled"
      BY <2>7, <3>1 DEF CancelarAlSoltar, Cancela, Tipos, TypeOK
    <3>3. Sigue(p, "guardar", ConEstado(mem[p], s)) /\ s \in {"refunded", "failed"}
      BY <2>7 DEF CancelarAlSoltar
    <3> HIDE DEF s
    <3>4. VerazDespues(ConEstado(mem[p], s))
      BY <1>0, <3>1, <3>2, <3>3, FilaCambiada, ConstantesOK
      DEF EstadosPago, VerazDespues, Intenciones
    <3>5. QED
      BY <3>1, <3>3, <3>4, SigueVeraz
  <2>8. CASE CancelacionFallida(p)
    BY <1>0, <2>8, SigueVeraz, PasaVeraz DEF CancelacionFallida, tablas
  <2>9. CASE CapturarRetencion(p)
    <3>1. mem[p].pi \in Intenciones /\ pago' = pago
      BY <1>a, <2>9 DEF CapturarRetencion, EnEtapa, EtapasConIntencion, tablas
    <3>2. intencion'[mem[p].pi] = "succeeded"
      BY <2>9, <3>1 DEF CapturarRetencion, Tipos, TypeOK
    <3>3. VerazDespues(Reflejada(mem[p], "completed"))
      BY <1>0, <3>1, <3>2, FilaReflejada, ConstantesOK
      DEF EstadosPago, VerazDespues, Intenciones
    <3>4. QED
      BY <2>9, <3>1, <3>3, SigueVeraz DEF CapturarRetencion
  <2>10. CASE DevolverCobro(p)
    <3>1. mem[p].pi \in Intenciones /\ pago' = pago /\ mem[p].pi \in devueltas'
      BY <1>a, <2>10 DEF DevolverCobro, EnEtapa, EtapasConIntencion, tablas
    <3>2. VerazDespues(ConEstado(mem[p], "refunded"))
      BY <1>0, <3>1, FilaCambiada, ConstantesOK
      DEF EstadosPago, VerazDespues, Intenciones
    <3>3. QED
      BY <2>10, <3>1, <3>2, SigueVeraz DEF DevolverCobro
  <2>11. QED
    BY <1>1, <2>1, <2>2, <2>3, <2>4, <2>5, <2>6, <2>7, <2>8, <2>9, <2>10 DEF ReservaYPago
<1>2. CASE SoloPago(p)
  <2>1. CASE IniciarPago(p)
    BY <1>0, <2>1, BloqueaVeraz DEF IniciarPago
  <2>2. CASE ConsultarAlPagar(p)
    <3> DEFINE f == IF PuedeReflejar(mem[p].estado, e) THEN Reflejada(mem[p], e) ELSE mem[p]
    <3>1. mem[p].pi \in Intenciones /\ pago' = pago
      BY <1>a, <2>2 DEF ConsultarAlPagar, EnEtapa, EtapasConIntencion, tablas
    <3>2. VerazDespues(Reflejada(mem[p], e))
      BY <1>0, <1>b, <3>1, FilaReflejada, VerazReflejo
    <3>3. \E etapa : Sigue(p, etapa, f)
      BY <2>2 DEF ConsultarAlPagar
    <3>4. VerazDespues(f)
      BY <1>0, <3>2
    <3> HIDE DEF f
    <3>5. QED
      BY <3>1, <3>3, <3>4, SigueVeraz
  <2>3. CASE CrearIntencion(p)
    <3>1. PICK i \in Intenciones :
             Sigue(p, "escribir", [estado |-> "pending", pi |-> i, paidAt |-> "nunca"])
      BY <2>3 DEF CrearIntencion
    <3>2. VerazDespues([estado |-> "pending", pi |-> i, paidAt |-> "nunca"])
      BY VerazSinSaldar
    <3>3. pago' = pago
      BY <2>3 DEF CrearIntencion, tablas
    <3>4. QED
      BY <3>1, <3>2, <3>3, SigueVeraz
  <2>4. CASE EscribirPago(p)
    BY <1>0, <2>4, PasaVeraz DEF EscribirPago
  <2>5. CASE ConfirmarRetencion(p)
    BY <1>0, <2>5, BloqueaPagoVeraz DEF ConfirmarRetencion
  <2>6. CASE ConsultarAlConfirmar(p)
    <3> DEFINE g == IF e = "held" THEN Retenida(mem[p]) ELSE Reflejada(mem[p], e)
               f == IF PuedeReflejar(mem[p].estado, e) THEN g ELSE mem[p]
    <3>1. mem[p].pi \in Intenciones /\ pago' = pago
      BY <1>a, <2>6 DEF ConsultarAlConfirmar, EnEtapa, EtapasConIntencion, Deshace, tablas
    <3>2. g.pi = mem[p].pi /\ g.estado = e
      BY <1>0, <1>b, FilaReflejada, FilaRetenida
    <3>3. Deshace(p) \/ Sigue(p, "guardar", f)
      BY <2>6 DEF ConsultarAlConfirmar
    <3> HIDE DEF g
    <3>4. VerazDespues(g)
      BY <1>0, <3>1, <3>2, VerazReflejo
    <3>5. VerazDespues(f)
      BY <1>0, <3>4
    <3> HIDE DEF f
    <3>6. QED
      BY <3>1, <3>3, <3>5, SigueVeraz, DeshaceVeraz
  <2>7. CASE AvisoRetenida(p)
    <3>1. pago' = pago \/ pago' = Retenida(pago)
      BY <2>7 DEF AvisoRetenida
    <3>2. VerazDespues(Retenida(pago))
      BY <1>0, FilaRetenida, VerazSinSaldar
    <3>3. QED
      BY <2>7, <3>1, <3>2, PasaVeraz DEF AvisoRetenida
  <2>8. QED
    BY <1>2, <2>1, <2>2, <2>3, <2>4, <2>5, <2>6, <2>7 DEF SoloPago
<1>3. CASE Revision(p)
  <2>1. CASE RevisarRetenida(p)
    BY <1>0, <2>1, PasaVeraz DEF RevisarRetenida, tablas
  <2>2. CASE BloquearAlRevisar(p) \/ Conciliar(p)
    BY <1>0, <2>2, BloqueaPagoVeraz, DeshaceVeraz DEF BloquearAlRevisar, Conciliar
  <2>3. CASE ConsultarAlRevisar(p)
    <3>1. mem[p].pi \in Intenciones /\ pago' = pago
      BY <1>a, <2>3 DEF ConsultarAlRevisar, EnEtapa, EtapasConIntencion, Deshace, tablas
    <3>2. \/ Deshace(p) \/ Sigue(p, "guardar", ConEstado(mem[p], e))
          \/ Sigue(p, "renovar", mem[p])
      BY <2>3 DEF ConsultarAlRevisar
    <3>3. VerazDespues(ConEstado(mem[p], e))
      BY <1>0, <1>b, <3>1, FilaCambiada, VerazReflejo
    <3>4. QED
      BY <1>0, <3>1, <3>2, <3>3, SigueVeraz, DeshaceVeraz
  <2>4. CASE Renovar(p)
    <3>1. PICK i \in Intenciones :
             Sigue(p, "guardarYSoltar", [estado |-> "held", pi |-> i, paidAt |-> "reciente"])
      BY <2>4 DEF Renovar
    <3>2. VerazDespues([estado |-> "held", pi |-> i, paidAt |-> "reciente"])
      BY VerazSinSaldar
    <3>3. pago' = pago
      BY <2>4 DEF Renovar, tablas
    <3>4. QED
      BY <3>1, <3>2, <3>3, SigueVeraz
  <2>5. CASE NoRenovable(p)
    <3>1. VerazDespues(ConEstado(mem[p], "failed"))
      BY <1>0, FilaCambiada, VerazSinSaldar DEF EstadosPago
    <3>2. QED
      BY <2>5, <3>1, SigueVeraz DEF NoRenovable, tablas
  <2>6. CASE SoltarVieja(p)
    BY <1>0, <2>6, PasaVeraz DEF SoltarVieja, tablas
  <2>7. CASE ConsultarAlConciliar(p)
    <3>1. mem[p].pi \in Intenciones /\ pago' = pago
      BY <1>a, <2>7 DEF ConsultarAlConciliar, EnEtapa, EtapasConIntencion, Deshace, tablas
    <3>2. Deshace(p) \/ Sigue(p, "guardar", Reflejada(mem[p], e))
      BY <2>7 DEF ConsultarAlConciliar
    <3>3. VerazDespues(Reflejada(mem[p], e))
      BY <1>0, <1>b, <3>1, FilaReflejada, VerazReflejo
    <3>4. QED
      BY <3>1, <3>2, <3>3, SigueVeraz, DeshaceVeraz
  <2>8. QED
    BY <1>3, <2>1, <2>2, <2>3, <2>4, <2>5, <2>6, <2>7 DEF Revision
<1>4. CASE Guardar(p)
  BY <1>0, <1>4, PasaVeraz DEF Guardar
<1>5. CASE GuardarYSoltar(p)
  BY <1>0, <1>5, SigueVeraz DEF GuardarYSoltar
<1>6. CASE Caida(p)
  BY <1>6, DeshaceVeraz DEF Caida
<1>7. QED
  BY <1>1, <1>2, <1>3, <1>4, <1>5, <1>6

\* So does every step of the system.
LEMMA PasoFilasVeraces == Tipos /\ FilasVeraces /\ [Next]_vars => FilasVeraces'
<1> SUFFICES ASSUME Tipos, FilasVeraces, [Next]_vars PROVE FilasVeraces'
  OBVIOUS
<1>0. NadaSeDeshace
  BY StripeNoDeshace
<1>a. VerazDespues(pago) /\ \A p \in Procesos : VerazDespues(mem[p])
  BY <1>0, VerazQueda DEF Tipos, TypeOK, FilasVeraces
<1>b. ASSUME UNCHANGED mem, VerazDespues(pago') PROVE FilasVeraces'
  BY <1>a, <1>b DEF FilasVeraces, Veraz, VerazDespues
<1>1. CASE UNCHANGED vars
  BY <1>1, <1>a, <1>b DEF vars, procesos, tablas
<1>2. CASE LlegaLaFecha \/ Confirmar
  BY <1>2, <1>a, <1>b DEF LlegaLaFecha, Confirmar, procesos, tablas
<1>3. ASSUME NEW i \in Intenciones, ClientePaga(i) \/ StripeSuelta(i) PROVE FilasVeraces'
  BY <1>3, <1>a, <1>b DEF ClientePaga, StripeSuelta, procesos, tablas
<1>4. CASE Envejece
  <2>1. pago'.estado = "held"
    BY <1>4 DEF Envejece, Tipos, TypeOK, Filas
  <2>2. QED
    BY <1>4, <1>b, <2>1, VerazSinSaldar DEF Envejece, procesos
<1>5. CASE AvisoCobrada
  <2>1. /\ pago' = ConEstado(pago, "completed") /\ UNCHANGED mem
        /\ pago \in Filas /\ pago.pi # 0 /\ intencion[pago.pi] = "succeeded"
    BY <1>5 DEF AvisoCobrada, procesos, Tipos, TypeOK
  <2>2. pago'.pi = pago.pi /\ pago'.estado = "completed" /\ pago.pi \in Intenciones
    BY <2>1, FilaCambiada, ConstantesOK DEF EstadosPago, Filas, Intenciones
  <2>3. VerazDespues(pago')
    BY <1>0, <2>1, <2>2 DEF VerazDespues, NadaSeDeshace
  <2>4. QED
    BY <1>b, <2>1, <2>3
<1>6. CASE AvisoCancelada
  <2>1. pago' = ConEstado(pago, "failed") /\ UNCHANGED mem /\ pago \in Filas
    BY <1>6 DEF AvisoCancelada, procesos, Tipos, TypeOK
  <2>2. VerazDespues(pago')
    BY <2>1, FilaCambiada, VerazSinSaldar DEF EstadosPago
  <2>3. QED
    BY <1>b, <2>1, <2>2
<1>7. ASSUME NEW p \in Procesos,
             \/ ReservaYPago(p) \/ SoloPago(p) \/ Revision(p)
             \/ Guardar(p) \/ GuardarYSoltar(p) \/ Caida(p)
      PROVE  FilasVeraces'
  BY <1>0, <1>7, PasoVeraz, FilasNuevasVeraces
<1>8. QED
  BY <1>1, <1>2, <1>3, <1>4, <1>5, <1>6, <1>7 DEF Next, Externo

\* With no payment there is nothing to be true about.
LEMMA IniciaFilasVeraces == Init => FilasVeraces
BY DEF Init, FilasVeraces, Veraz, SinPago

\* The inductive invariant behind the two theorems that follow.
THEOREM SpecFilasVeraces == Spec => []FilasVeraces
BY IniciaFilasVeraces, PasoFilasVeraces, SpecTipos, PTL DEF Spec

\* The row never says charged of an intent Stripe has not charged, although
\* rows are written from copies, late webhooks and calls with no answer.
THEOREM CobradoVeraz == Spec => []CobradoEsCobrado
<1>1. FilasVeraces => CobradoEsCobrado
  BY DEF FilasVeraces, Veraz, CobradoEsCobrado
<1>2. QED
  BY <1>1, SpecFilasVeraces, PTL

\* The row never says refunded while Stripe still has the client's money.
THEOREM DevueltoVeraz == Spec => []DevueltoEsDevuelto
<1>1. FilasVeraces => DevueltoEsDevuelto
  BY DEF FilasVeraces, Veraz, DevueltoEsDevuelto
<1>2. QED
  BY <1>1, SpecFilasVeraces, PTL

\* What the row says happened to the money did happen.
THEOREM AnotadoVeraz == Spec => []LoAnotadoOcurrio
<1>1. CobradoEsCobrado /\ DevueltoEsDevuelto => LoAnotadoOcurrio
  BY DEF LoAnotadoOcurrio
<1>2. QED
  BY <1>1, CobradoVeraz, DevueltoVeraz, PTL

-----------------------------------------------------------------------------
(* One charge at most.                                                     *)

\* The operations that lock the payment's row alone.
SoloDelPago == {"confirmarPago", "revisar", "conciliar"}

\* The stages a process goes through with the booking's row locked...
ConReserva(p) ==
    \/ pc[p] \in {"pago", "cancelar", "capturar", "devolver", "crear", "escribir"}
    \/ pc[p] \in {"consultar", "guardar"} /\ tarea[p] \notin SoloDelPago

\* ...with the payment's row locked and a copy of it that names its intent...
ConCopiaAlDia(p) ==
    \/ pc[p] \in {"cancelar", "capturar", "devolver", "renovar"}
    \/ pc[p] \in {"consultar", "guardar"} /\ tarea[p] # "pagar"

\* ...and with the payment's row locked, the copy perhaps ahead of it.
ConPago(p) == ConCopiaAlDia(p) \/ pc[p] = "guardarYSoltar"

\* What each process has locked at its stage.
OrdenDe(p) ==
    /\ ConReserva(p) => bloqueoReserva = p
    /\ ConPago(p) => bloqueoPago = p
    /\ ConCopiaAlDia(p) => mem[p].pi = pago.pi
    /\ pc[p] \in {"pago", "cancelar", "capturar", "devolver"} =>
         tarea[p] \notin SoloDelPago \cup {"pagar"}
    /\ pc[p] \in {"crear", "escribir"} => tarea[p] = "pagar"
    /\ pc[p] \in {"renovar", "guardarYSoltar"} => tarea[p] = "revisar"
    /\ pc[p] \in EtapasSinCerrojo => bloqueoReserva # p /\ bloqueoPago # p

Orden == \A p \in Procesos : OrdenDe(p)

\* A step of p takes locks nobody has, gives back its own, and writes the row
\* of the payment only while nobody else has it.
Respeta(p) ==
    /\ \A q \in Procesos \ {p} :
         pc'[q] = pc[q] /\ tarea'[q] = tarea[q] /\ mem'[q] = mem[q]
    /\ \/ bloqueoReserva' = bloqueoReserva
       \/ bloqueoReserva \in {Nadie, p} /\ bloqueoReserva' \in {Nadie, p}
    /\ \/ bloqueoPago' = bloqueoPago
       \/ bloqueoPago \in {Nadie, p} /\ bloqueoPago' \in {Nadie, p}
    /\ pago'.pi = pago.pi \/ bloqueoPago \in {Nadie, p}

\* Such a step takes nothing from the others.
LEMMA RespetaOrden ==
    ASSUME Tipos, Orden, NEW p \in Procesos, Respeta(p), OrdenDe(p)'
    PROVE  Orden'
<1> SUFFICES ASSUME NEW q \in Procesos, q # p PROVE OrdenDe(q)'
  BY DEF Orden
<1>1. OrdenDe(q) /\ q # Nadie
  BY ConstantesOK DEF Orden
<1>2. pc'[q] = pc[q] /\ tarea'[q] = tarea[q] /\ mem'[q] = mem[q]
  BY DEF Respeta
<1>3. (bloqueoReserva' = q <=> bloqueoReserva = q) /\ (bloqueoPago' = q <=> bloqueoPago = q)
  BY <1>1 DEF Respeta
<1>4. bloqueoPago = q => pago'.pi = pago.pi
  BY <1>1 DEF Respeta
<1>5. QED
  BY <1>1, <1>2, <1>3, <1>4 DEF OrdenDe, ConReserva, ConPago, ConCopiaAlDia

\* A process that goes on within its transaction, with the locks it had.
LEMMA SigueRespeta ==
    ASSUME Tipos, NEW p \in Procesos, NEW e, NEW f,
           Sigue(p, e, f), UNCHANGED <<tablas, cerrojos>>
    PROVE  /\ Respeta(p)
           /\ pc'[p] = e /\ mem'[p] = f /\ tarea'[p] = tarea[p]
BY DEF Tipos, TypeOK, Sigue, Respeta, tablas, cerrojos

\* A process left between transactions, with no lock.
LEMMA PasaRespeta ==
    ASSUME Tipos, NEW p \in Procesos, NEW e \in EtapasSinCerrojo, NEW t,
           Pasa(p, e, t), SueltaBloqueos(p),
           pago'.pi = pago.pi \/ bloqueoPago \in {Nadie, p}
    PROVE  /\ Respeta(p) /\ OrdenDe(p)'
           /\ pc'[p] = e /\ tarea'[p] = t /\ mem'[p] = SinPago
<1>1. pc'[p] = e /\ tarea'[p] = t /\ mem'[p] = SinPago /\ Respeta(p)
  BY DEF Tipos, TypeOK, Pasa, SueltaBloqueos, Respeta
<1>2. bloqueoReserva' # p /\ bloqueoPago' # p
  BY ConstantesOK DEF SueltaBloqueos
<1>3. OrdenDe(p)'
  BY <1>1, <1>2 DEF OrdenDe, ConReserva, ConPago, ConCopiaAlDia, EtapasSinCerrojo
<1>4. QED
  BY <1>1, <1>3

\* A rollback.
LEMMA DeshaceRespeta ==
    ASSUME Tipos, NEW p \in Procesos, Deshace(p)
    PROVE  Respeta(p) /\ OrdenDe(p)'
BY PasaRespeta DEF Deshace, tablas, EtapasSinCerrojo

\* Locking the booking, with no payment locked yet.
LEMMA BloqueaRespeta ==
    ASSUME Tipos, NEW p \in Procesos, NEW t, NEW e, NEW f,
           \/ e = "pago" /\ t \notin SoloDelPago \cup {"pagar"}
           \/ e \in {"crear", "consultar"} /\ t = "pagar",
           BloqueaReserva(p, t, e, f)
    PROVE  Respeta(p) /\ OrdenDe(p)'
<1>1. /\ Respeta(p) /\ pc'[p] = e /\ tarea'[p] = t
      /\ bloqueoReserva' = p
  BY DEF Tipos, TypeOK, BloqueaReserva, Respeta, tablas
<1>2. QED
  BY <1>1 DEF OrdenDe, ConReserva, ConPago, ConCopiaAlDia, EtapasSinCerrojo

\* Locking the payment alone.
LEMMA BloqueaPagoRespeta ==
    ASSUME Tipos, NEW p \in Procesos, NEW t \in SoloDelPago, BloqueaPago(p, t)
    PROVE  Respeta(p) /\ OrdenDe(p)'
<1>1. /\ Respeta(p) /\ pc'[p] = "consultar" /\ tarea'[p] = t /\ mem'[p] = pago
      /\ bloqueoPago' = p /\ pago' = pago
  BY DEF Tipos, TypeOK, BloqueaPago, Respeta, tablas
<1>2. QED
  BY <1>1 DEF OrdenDe, ConReserva, ConPago, ConCopiaAlDia, EtapasSinCerrojo, SoloDelPago

\* Every step of a process.
LEMMA PasoRespeta ==
    ASSUME Tipos, Orden, NEW p \in Procesos,
           \/ ReservaYPago(p) \/ SoloPago(p) \/ Revision(p)
           \/ Guardar(p) \/ GuardarYSoltar(p) \/ Caida(p)
    PROVE  Respeta(p) /\ OrdenDe(p)'
<1>0. OrdenDe(p)
  BY DEF Orden
<1> USE DEF ConReserva, ConPago, ConCopiaAlDia, SoloDelPago, EtapasSinCerrojo, EnEtapa
<1>1. CASE ReservaYPago(p)
  <2>1. CASE \/ \E t \in Cambios : CambiarEstado(p, t)
             \/ Caducar(p) \/ Capturar(p) \/ Reembolsar(p) \/ Resolver(p)
    BY <2>1, BloqueaRespeta, DeshaceRespeta
    DEF CambiarEstado, Cambios, Caducar, Capturar, Reembolsar, Resolver
  <2>2. CASE BloquearPago(p)
    <3>1. CASE EtapaTrasBloquear(p) = "libre"
      BY <2>2, <3>1, DeshaceRespeta DEF BloquearPago
    <3>2. CASE EtapaTrasBloquear(p) # "libre"
      <4>1. /\ pc[p] = "pago" /\ bloqueoPago = Nadie /\ bloqueoPago' = p
            /\ Sigue(p, EtapaTrasBloquear(p), pago)
            /\ UNCHANGED <<pago, bloqueoReserva>>
        BY <2>2, <3>2 DEF BloquearPago, tablas
      <4>2. /\ pc'[p] = EtapaTrasBloquear(p) /\ mem'[p] = pago /\ tarea'[p] = tarea[p]
            /\ Respeta(p)
        BY <4>1 DEF Tipos, TypeOK, Sigue, Respeta
      <4>3. QED
        BY <1>0, <3>2, <4>1, <4>2, EtapasTrasBloquear DEF OrdenDe
    <3>3. QED
      BY <3>1, <3>2
  <2>3. CASE EsperaAgotada(p) \/ CapturaRechazada(p) \/ FalloDeStripe(p)
    BY <2>3, DeshaceRespeta DEF EsperaAgotada, CapturaRechazada, FalloDeStripe
  <2>4. CASE ConsultarAlSoltar(p) \/ ConsultaFallidaAlSoltar(p)
    <3>1. /\ pc[p] = "consultar" /\ tarea[p] \notin SoloDelPago \cup {"pagar"}
          /\ UNCHANGED <<tablas, cerrojos>>
          /\ \/ Sigue(p, "guardar", pago)
             \/ \E e : Sigue(p, "cancelar", ConEstado(mem[p], e))
      BY <2>4 DEF ConsultarAlSoltar, ConsultaFallidaAlSoltar, Suelta
    <3>2. ASSUME NEW e PROVE ConEstado(mem[p], e).pi = mem[p].pi
      BY DEF Tipos, TypeOK, Filas, ConEstado
    <3>3. QED
      BY <1>0, <3>1, <3>2, SigueRespeta DEF OrdenDe, tablas, cerrojos
  <2>5. CASE ConsultarAlCobrar(p)
    <3>1. \/ Deshace(p)
          \/ /\ pc[p] = "consultar" /\ tarea[p] \notin SoloDelPago \cup {"pagar"}
             /\ UNCHANGED <<tablas, cerrojos>>
             /\ \/ Sigue(p, "guardar", Reflejada(mem[p], "completed"))
                \/ Sigue(p, "capturar", mem[p])
                \/ Sigue(p, "guardar", pago)
      BY <2>5 DEF ConsultarAlCobrar, Cobra
    <3>2. Reflejada(mem[p], "completed").pi = mem[p].pi
      BY DEF Tipos, TypeOK, Filas, Reflejada
    <3>3. QED
      BY <1>0, <3>1, <3>2, SigueRespeta, DeshaceRespeta DEF OrdenDe, tablas, cerrojos
  <2>6. CASE CancelarAlSoltar(p) \/ CapturarRetencion(p) \/ DevolverCobro(p)
    <3>1. /\ pc[p] \in {"cancelar", "capturar", "devolver"}
          /\ UNCHANGED <<tablas, cerrojos>>
          /\ \E f : f.pi = mem[p].pi /\ Sigue(p, "guardar", f)
      <4>1. \A e : ConEstado(mem[p], e).pi = mem[p].pi /\ Reflejada(mem[p], e).pi = mem[p].pi
        BY DEF Tipos, TypeOK, Filas, ConEstado, Reflejada
      <4>2. QED
        BY <2>6, <4>1 DEF CancelarAlSoltar, CapturarRetencion, DevolverCobro
    <3>2. QED
      BY <1>0, <3>1, SigueRespeta DEF OrdenDe, tablas, cerrojos
  <2>7. CASE CancelacionFallida(p)
    <3>1. CASE Suelta(p)
      <4>1. pc[p] = "cancelar" /\ UNCHANGED <<tablas, cerrojos>> /\ Sigue(p, "guardar", pago)
        BY <2>7, <3>1 DEF CancelacionFallida
      <4>2. QED
        BY <1>0, <4>1, SigueRespeta DEF OrdenDe, tablas, cerrojos
    <3>2. CASE ~Suelta(p)
      BY <2>7, <3>2, PasaRespeta DEF CancelacionFallida, tablas
    <3>3. QED
      BY <3>1, <3>2
  <2>8. QED
    BY <1>1, <2>1, <2>2, <2>3, <2>4, <2>5, <2>6, <2>7 DEF ReservaYPago
<1>2. CASE SoloPago(p)
  <2>1. CASE IniciarPago(p)
    BY <2>1, BloqueaRespeta DEF IniciarPago
  <2>2. CASE ConsultarAlPagar(p)
    <3>1. /\ pc[p] = "consultar" /\ tarea[p] = "pagar"
          /\ \E f : Sigue(p, "crear", f) \/ Sigue(p, "guardar", f)
          /\ UNCHANGED <<pago, bloqueoReserva>>
          /\ \/ bloqueoPago = Nadie /\ bloqueoPago' = p
             \/ bloqueoPago' = bloqueoPago
      BY <2>2 DEF ConsultarAlPagar, tablas
    <3>2. Respeta(p) /\ pc'[p] \in {"crear", "guardar"} /\ tarea'[p] = "pagar"
      BY <3>1 DEF Tipos, TypeOK, Sigue, Respeta
    <3>3. QED
      BY <1>0, <3>1, <3>2 DEF OrdenDe
  <2>3. CASE CrearIntencion(p)
    <3>1. /\ pc[p] = "crear" /\ UNCHANGED <<tablas, cerrojos>>
          /\ \E f : Sigue(p, "escribir", f)
      BY <2>3 DEF CrearIntencion
    <3>2. QED
      BY <1>0, <3>1, SigueRespeta DEF OrdenDe, tablas, cerrojos
  <2>4. CASE EscribirPago(p)
    BY <2>4, PasaRespeta DEF EscribirPago
  <2>5. CASE ConfirmarRetencion(p)
    BY <2>5, BloqueaPagoRespeta DEF ConfirmarRetencion
  <2>6. CASE ConsultarAlConfirmar(p)
    <3>1. \/ Deshace(p)
          \/ /\ pc[p] = "consultar" /\ tarea[p] = "confirmarPago"
             /\ UNCHANGED <<tablas, cerrojos>>
             /\ \E f : f.pi = mem[p].pi /\ Sigue(p, "guardar", f)
      <4>1. /\ Retenida(mem[p]).pi = mem[p].pi
            /\ \A e : Reflejada(mem[p], e).pi = mem[p].pi
        BY DEF Tipos, TypeOK, Filas, Retenida, Reflejada
      <4>2. QED
        BY <2>6, <4>1 DEF ConsultarAlConfirmar
    <3>2. QED
      BY <1>0, <3>1, SigueRespeta, DeshaceRespeta DEF OrdenDe, tablas, cerrojos
  <2>7. CASE AvisoRetenida(p)
    <3>1. pago'.pi = pago.pi
      BY <2>7 DEF AvisoRetenida, Retenida
    <3>2. pc[p] = "libre" /\ Pasa(p, "resolver", "resolver") /\ UNCHANGED cerrojos
      BY <2>7 DEF AvisoRetenida
    <3>3. Respeta(p) /\ pc'[p] = "resolver"
      BY <3>1, <3>2 DEF Tipos, TypeOK, Pasa, Respeta, cerrojos
    <3>4. QED
      BY <1>0, <3>2, <3>3 DEF OrdenDe, cerrojos
  <2>8. QED
    BY <1>2, <2>1, <2>2, <2>3, <2>4, <2>5, <2>6, <2>7 DEF SoloPago
<1>3. CASE Revision(p)
  <2>1. CASE RevisarRetenida(p) \/ SoltarVieja(p)
    <3>1. /\ pc[p] \in {"libre", "soltar"} /\ UNCHANGED <<tablas, cerrojos>>
          /\ \E e \in {"revisar", "resolver", "libre"} : \E t : Pasa(p, e, t)
      BY <2>1 DEF RevisarRetenida, SoltarVieja
    <3>2. Respeta(p) /\ pc'[p] \in {"revisar", "resolver", "libre"}
      BY <3>1 DEF Tipos, TypeOK, Pasa, Respeta, tablas, cerrojos
    <3>3. QED
      BY <1>0, <3>1, <3>2 DEF OrdenDe, cerrojos
  <2>2. CASE BloquearAlRevisar(p) \/ Conciliar(p)
    BY <2>2, BloqueaPagoRespeta, DeshaceRespeta DEF BloquearAlRevisar, Conciliar
  <2>3. CASE ConsultarAlRevisar(p) \/ ConsultarAlConciliar(p)
    <3>1. \/ Deshace(p)
          \/ /\ pc[p] = "consultar" /\ tarea[p] \in SoloDelPago
             /\ UNCHANGED <<tablas, cerrojos>>
             /\ \/ \E f : f.pi = mem[p].pi /\ Sigue(p, "guardar", f)
                \/ tarea[p] = "revisar" /\ Sigue(p, "renovar", mem[p])
      <4>1. \A e : ConEstado(mem[p], e).pi = mem[p].pi /\ Reflejada(mem[p], e).pi = mem[p].pi
        BY DEF Tipos, TypeOK, Filas, ConEstado, Reflejada
      <4>2. QED
        BY <2>3, <4>1 DEF ConsultarAlRevisar, ConsultarAlConciliar
    <3>2. QED
      BY <1>0, <3>1, SigueRespeta, DeshaceRespeta DEF OrdenDe, tablas, cerrojos
  <2>4. CASE Renovar(p) \/ NoRenovable(p)
    <3>1. /\ pc[p] = "renovar" /\ UNCHANGED <<tablas, cerrojos>>
          /\ \E f : Sigue(p, "guardarYSoltar", f)
      BY <2>4 DEF Renovar, NoRenovable
    <3>2. QED
      BY <1>0, <3>1, SigueRespeta DEF OrdenDe, tablas, cerrojos
  <2>5. QED
    BY <1>3, <2>1, <2>2, <2>3, <2>4 DEF Revision
<1>4. CASE Guardar(p)
  <2>1. pago'.pi = pago.pi \/ bloqueoPago = p
    BY <1>4 DEF Guardar
  <2>2. QED
    BY <1>4, <2>1, PasaRespeta DEF Guardar
<1>5. CASE GuardarYSoltar(p)
  <2>1. /\ bloqueoPago = p /\ Sigue(p, "soltar", pago) /\ SueltaBloqueos(p)
    BY <1>0, <1>5 DEF GuardarYSoltar, OrdenDe
  <2>2. Respeta(p) /\ pc'[p] = "soltar"
    BY <2>1 DEF Tipos, TypeOK, Sigue, SueltaBloqueos, Respeta
  <2>3. QED
    BY <2>1, <2>2, ConstantesOK DEF OrdenDe, SueltaBloqueos
<1>6. CASE Caida(p)
  BY <1>6, DeshaceRespeta DEF Caida
<1>7. QED
  BY <1>1, <1>2, <1>3, <1>4, <1>5, <1>6

\* What moves outside the processes leaves their locks, and their row's intent.
LEMMA ExternoQuieto ==
    ASSUME Tipos, Externo \/ Confirmar \/ AvisoCobrada \/ AvisoCancelada
    PROVE  UNCHANGED <<cerrojos, procesos, pago.pi, devueltas, entregadas>>
BY DEF Externo, LlegaLaFecha, Envejece, ClientePaga, StripeSuelta, Confirmar,
       AvisoCobrada, AvisoCancelada, ConEstado, Tipos, TypeOK, Filas, tablas, stripe

\* The order of the locks is kept by every step.
LEMMA PasoOrden == Tipos /\ Orden /\ [Next]_vars => Orden'
<1> SUFFICES ASSUME Tipos, Orden, [Next]_vars PROVE Orden'
  OBVIOUS
<1>1. CASE UNCHANGED <<cerrojos, procesos, pago.pi>>
  BY <1>1 DEF Orden, OrdenDe, ConReserva, ConPago, ConCopiaAlDia, cerrojos, procesos
<1>2. CASE UNCHANGED vars
  BY <1>1, <1>2 DEF vars, tablas
<1>3. CASE Externo \/ Confirmar \/ AvisoCobrada \/ AvisoCancelada
  BY <1>1, <1>3, ExternoQuieto
<1>4. ASSUME NEW p \in Procesos,
             \/ ReservaYPago(p) \/ SoloPago(p) \/ Revision(p)
             \/ Guardar(p) \/ GuardarYSoltar(p) \/ Caida(p)
      PROVE  Orden'
  BY <1>4, PasoRespeta, RespetaOrden
<1>5. QED
  BY <1>2, <1>3, <1>4 DEF Next

\* Nobody has locked anything at the start.
LEMMA IniciaOrden == Init => Orden
BY ConstantesOK DEF Init, Orden, OrdenDe, ConReserva, ConPago, ConCopiaAlDia,
   EtapasSinCerrojo, SinPago

\* At any stage, a process has locked what that stage works on.
THEOREM SpecOrden == Spec => []Orden
BY IniciaOrden, PasoOrden, SpecTipos, PTL DEF Spec

-----------------------------------------------------------------------------
(* Which intents exist.                                                    *)

\* A row or a copy that names an intent names one Stripe has handed out, and so
\* does the browser; one it has not handed out has no key.
Nacida(i) == i # 0 => intencion[i] # "libre"

Nacidas ==
    /\ Nacida(pago.pi)
    /\ \A p \in Procesos : Nacida(mem[p].pi)
    /\ \A i \in entregadas : Nacida(i)
    /\ \A i \in Intenciones : intencion[i] = "libre" => clave[i] = SinClave

\* What Stripe hands out it does not take back, and gives a key once.
SinRetorno ==
    \A i \in Intenciones :
        /\ intencion[i] # "libre" => intencion'[i] # "libre" /\ clave'[i] = clave[i]
        /\ intencion'[i] = "libre" => clave'[i] = clave[i]

\* A call to create an intent answers with one that exists.
LEMMA CreaNace ==
    ASSUME Tipos, Nacidas, NEW k \in Claves, NEW e \in EstadosIntencion \ {"libre"},
           NEW i \in Intenciones, Crea(k, e, i)
    PROVE  /\ SinRetorno /\ intencion'[i] # "libre" /\ clave'[i] = k
           /\ \A j \in Intenciones \ {i} : intencion'[j] = intencion[j] /\ clave'[j] = clave[j]
<1>0. k # SinClave
  BY DEF Claves, SinClave
<1>1. CASE clave[i] = k /\ UNCHANGED stripe
  BY <1>0, <1>1 DEF Tipos, TypeOK, stripe, Nacidas, SinRetorno
<1>2. CASE clave[i] # k \/ ~UNCHANGED stripe
  <2>1. /\ intencion[i] = "libre" /\ intencion' = [intencion EXCEPT ![i] = e]
        /\ clave' = [clave EXCEPT ![i] = k]
    BY <1>2 DEF Crea
  <2>2. QED
    BY <2>1 DEF Tipos, TypeOK, SinRetorno
<1>3. QED
  BY <1>1, <1>2

\* An intent that existed still does.
LEMMA SigueNacida ==
    ASSUME Tipos, SinRetorno, NEW i \in 0 .. MaxIntenciones, Nacida(i)
    PROVE  i # 0 => intencion'[i] # "libre"
BY ConstantesOK DEF SinRetorno, Nacida, Intenciones

\* What a step of p may name afterwards: what it or the row named, or an intent
\* it has just been given.
Nombra(p) ==
    /\ SinRetorno
    /\ \A q \in Procesos \ {p} : mem'[q] = mem[q]
    /\ \/ mem'[p].pi \in {0, pago.pi, mem[p].pi}
       \/ mem'[p].pi # 0 => intencion'[mem'[p].pi] # "libre"
    /\ pago'.pi \in {pago.pi, mem[p].pi}
    /\ entregadas' \subseteq entregadas \cup {mem[p].pi}

\* Such a step only names intents that exist.
LEMMA NombraNacidas ==
    ASSUME Tipos, Nacidas, NEW p \in Procesos, Nombra(p)
    PROVE  Nacidas'
<1>1. /\ pago.pi \in 0 .. MaxIntenciones /\ entregadas \subseteq 0 .. MaxIntenciones
      /\ \A q \in Procesos : mem[q].pi \in 0 .. MaxIntenciones
  BY ConstantesOK DEF Tipos, TypeOK, Filas, Intenciones
<1> DEFINE Sigue1(i) == i # 0 => intencion'[i] # "libre"
<1>2. Sigue1(pago.pi) /\ \A q \in Procesos : Sigue1(mem[q].pi)
  BY <1>1, SigueNacida DEF Nacidas, Nombra
<1>3. \A i \in entregadas : Sigue1(i)
  BY <1>1, SigueNacida DEF Nacidas, Nombra
<1>4. \A i \in Intenciones : intencion'[i] = "libre" => clave'[i] = SinClave
  BY DEF Nacidas, Nombra, SinRetorno
<1>5. QED
  BY <1>2, <1>3, <1>4 DEF Nacidas, Nacida, Nombra

\* A step without a call to Stripe takes nothing back.
LEMMA QuietoSinRetorno == UNCHANGED <<intencion, clave>> => SinRetorno
BY DEF SinRetorno

\* Nor does one that changes the status of an intent that exists.
LEMMA CambiaSinRetorno ==
    ASSUME Tipos, NEW i, NEW e, e # "libre",
           intencion' = [intencion EXCEPT ![i] = e], UNCHANGED clave,
           i \in Intenciones => intencion[i] # "libre"
    PROVE  SinRetorno
BY DEF Tipos, TypeOK, SinRetorno

\* Moving on, or to another operation, without a call to Stripe.
LEMMA SigueNombra ==
    ASSUME Tipos, NEW p \in Procesos, NEW e, NEW f, Sigue(p, e, f), SinRetorno,
           f.pi \in {pago.pi, mem[p].pi},
           pago'.pi \in {pago.pi, mem[p].pi},
           entregadas' \subseteq entregadas \cup {mem[p].pi}
    PROVE  Nombra(p)
BY DEF Tipos, TypeOK, Sigue, Nombra

\* Going on to another operation, or to none.
LEMMA PasaNombra ==
    ASSUME Tipos, NEW p \in Procesos, NEW e, NEW t, Pasa(p, e, t), SinRetorno,
           pago'.pi \in {pago.pi, mem[p].pi},
           entregadas' \subseteq entregadas \cup {mem[p].pi}
    PROVE  Nombra(p)
BY DEF Tipos, TypeOK, Pasa, Nombra, SinPago

\* A rollback.
LEMMA DeshaceNombra ==
    ASSUME Tipos, NEW p \in Procesos, Deshace(p)
    PROVE  Nombra(p)
<1>1. SinRetorno
  BY QuietoSinRetorno DEF Deshace, stripe
<1>2. QED
  BY <1>1, PasaNombra DEF Deshace, tablas

\* Locking the booking, with a copy of the row or without.
LEMMA BloqueaNombra ==
    ASSUME Tipos, NEW p \in Procesos, NEW t, NEW e, NEW f, f \in {pago, SinPago},
           BloqueaReserva(p, t, e, f)
    PROVE  Nombra(p)
<1>1. SinRetorno
  BY QuietoSinRetorno DEF BloqueaReserva, stripe
<1>2. QED
  BY <1>1 DEF Tipos, TypeOK, BloqueaReserva, Nombra, SinPago, tablas

\* Locking the payment copies the row.
LEMMA BloqueaPagoNombra ==
    ASSUME Tipos, NEW p \in Procesos, NEW t, BloqueaPago(p, t)
    PROVE  Nombra(p)
<1>1. SinRetorno
  BY QuietoSinRetorno DEF BloqueaPago, stripe
<1>2. QED
  BY <1>1 DEF Tipos, TypeOK, BloqueaPago, Nombra, tablas

\* Every step of a process.
LEMMA PasoNombra ==
    ASSUME Tipos, Nacidas, NEW p \in Procesos,
           \/ ReservaYPago(p) \/ SoloPago(p) \/ Revision(p)
           \/ Guardar(p) \/ GuardarYSoltar(p) \/ Caida(p)
    PROVE  Nombra(p)
<1>0. /\ mem[p] \in Filas /\ pago \in Filas
      /\ \A e : /\ ConEstado(mem[p], e).pi = mem[p].pi
                /\ Reflejada(mem[p], e).pi = mem[p].pi
                /\ Retenida(mem[p]).pi = mem[p].pi
      /\ Retenida(pago).pi = pago.pi
  BY DEF Tipos, TypeOK, Filas, ConEstado, Reflejada, Retenida
<1>a. ASSUME UNCHANGED stripe PROVE SinRetorno
  BY <1>a, QuietoSinRetorno DEF stripe
<1>1. CASE ReservaYPago(p)
  <2>1. CASE \/ \E t \in Cambios : CambiarEstado(p, t)
             \/ Caducar(p) \/ Capturar(p) \/ Reembolsar(p) \/ Resolver(p)
    BY <2>1, BloqueaNombra, DeshaceNombra
    DEF CambiarEstado, Caducar, Capturar, Reembolsar, Resolver
  <2>2. CASE BloquearPago(p)
    BY <2>2, <1>a, SigueNombra, DeshaceNombra DEF BloquearPago, tablas
  <2>3. CASE EsperaAgotada(p) \/ CapturaRechazada(p) \/ FalloDeStripe(p)
    BY <2>3, DeshaceNombra DEF EsperaAgotada, CapturaRechazada, FalloDeStripe
  <2>4. CASE ConsultarAlSoltar(p) \/ ConsultaFallidaAlSoltar(p) \/ ConsultarAlCobrar(p)
    <3>1. \/ Deshace(p)
          \/ /\ \E e, f : f.pi \in {pago.pi, mem[p].pi} /\ Sigue(p, e, f)
             /\ UNCHANGED <<tablas, stripe, entregadas>>
      <4>1. CASE ConsultarAlSoltar(p)
        BY <1>0, <4>1 DEF ConsultarAlSoltar
      <4>2. CASE ConsultaFallidaAlSoltar(p)
        BY <1>0, <4>2 DEF ConsultaFallidaAlSoltar
      <4>3. CASE ConsultarAlCobrar(p)
        BY <1>0, <4>3 DEF ConsultarAlCobrar
      <4>4. QED
        BY <2>4, <4>1, <4>2, <4>3
    <3>2. QED
      BY <1>a, <3>1, SigueNombra, DeshaceNombra DEF tablas
  <2>5. CASE CancelarAlSoltar(p)
    <3>1. SinRetorno
      BY <2>5, CambiaSinRetorno DEF CancelarAlSoltar, Cancelable, Cancela
    <3>2. QED
      BY <1>0, <2>5, <3>1, SigueNombra DEF CancelarAlSoltar, tablas
  <2>6. CASE CancelacionFallida(p)
    <3>1. SinRetorno
      BY <2>6, <1>a, CambiaSinRetorno DEF CancelacionFallida, Cancelable, Cancela
    <3>2. QED
      BY <2>6, <3>1, SigueNombra, PasaNombra DEF CancelacionFallida, tablas
  <2>7. CASE CapturarRetencion(p)
    <3>1. SinRetorno
      BY <2>7, CambiaSinRetorno DEF CapturarRetencion
    <3>2. QED
      BY <1>0, <2>7, <3>1, SigueNombra DEF CapturarRetencion, tablas
  <2>8. CASE DevolverCobro(p)
    BY <1>0, <2>8, QuietoSinRetorno, SigueNombra DEF DevolverCobro, tablas
  <2>9. QED
    BY <1>1, <2>1, <2>2, <2>3, <2>4, <2>5, <2>6, <2>7, <2>8 DEF ReservaYPago
<1>2. CASE SoloPago(p)
  <2>1. CASE IniciarPago(p)
    BY <2>1, BloqueaNombra DEF IniciarPago
  <2>2. CASE ConsultarAlPagar(p)
    <3>1. /\ \E e, f : f.pi = mem[p].pi /\ Sigue(p, e, f)
          /\ pago' = pago /\ UNCHANGED stripe
          /\ entregadas' \subseteq entregadas \cup {mem[p].pi}
      BY <1>0, <2>2 DEF ConsultarAlPagar, tablas
    <3>2. QED
      BY <1>a, <3>1, SigueNombra
  <2>3. CASE CrearIntencion(p)
    <3>1. PICK i \in Intenciones :
            /\ Crea(<<IF reserva = "completed" THEN "cobro" ELSE "reserva", mem[p].pi>>,
                    "pagable", i)
            /\ Sigue(p, "escribir", [estado |-> "pending", pi |-> i, paidAt |-> "nunca"])
      BY <2>3 DEF CrearIntencion
    <3>2. SinRetorno /\ intencion'[i] # "libre"
      BY <1>0, <3>1, CreaNace DEF Claves, EstadosIntencion, Filas
    <3>3. UNCHANGED <<pago, entregadas>>
      BY <2>3 DEF CrearIntencion, tablas
    <3>4. QED
      BY <3>1, <3>2, <3>3 DEF Tipos, TypeOK, Sigue, Nombra
  <2>4. CASE EscribirPago(p)
    BY <2>4, <1>a, PasaNombra DEF EscribirPago
  <2>5. CASE ConfirmarRetencion(p)
    BY <2>5, BloqueaPagoNombra DEF ConfirmarRetencion
  <2>6. CASE ConsultarAlConfirmar(p)
    <3>1. \/ Deshace(p)
          \/ /\ \E f : f.pi = mem[p].pi /\ Sigue(p, "guardar", f)
             /\ UNCHANGED <<tablas, stripe, entregadas>>
      BY <1>0, <2>6 DEF ConsultarAlConfirmar
    <3>2. QED
      BY <1>a, <3>1, SigueNombra, DeshaceNombra DEF tablas
  <2>7. CASE AvisoRetenida(p)
    BY <1>0, <1>a, <2>7, PasaNombra DEF AvisoRetenida
  <2>8. QED
    BY <1>2, <2>1, <2>2, <2>3, <2>4, <2>5, <2>6, <2>7 DEF SoloPago
<1>3. CASE Revision(p)
  <2>1. CASE RevisarRetenida(p)
    BY <2>1, <1>a, PasaNombra DEF RevisarRetenida, tablas
  <2>2. CASE BloquearAlRevisar(p) \/ Conciliar(p)
    BY <2>2, BloqueaPagoNombra, DeshaceNombra DEF BloquearAlRevisar, Conciliar
  <2>3. CASE ConsultarAlRevisar(p) \/ ConsultarAlConciliar(p) \/ NoRenovable(p)
    <3>1. \/ Deshace(p)
          \/ /\ \E e, f : f.pi = mem[p].pi /\ Sigue(p, e, f)
             /\ UNCHANGED <<tablas, stripe, entregadas>>
      <4>1. CASE ConsultarAlRevisar(p)
        BY <1>0, <4>1 DEF ConsultarAlRevisar
      <4>2. CASE ConsultarAlConciliar(p)
        BY <1>0, <4>2 DEF ConsultarAlConciliar
      <4>3. CASE NoRenovable(p)
        BY <1>0, <4>3 DEF NoRenovable
      <4>4. QED
        BY <2>3, <4>1, <4>2, <4>3
    <3>2. QED
      BY <1>a, <3>1, SigueNombra, DeshaceNombra DEF tablas
  <2>4. CASE Renovar(p)
    <3>1. PICK i \in Intenciones :
            /\ Crea(<<"renovacion", mem[p].pi>>, "requires_capture", i)
            /\ Sigue(p, "guardarYSoltar", [estado |-> "held", pi |-> i, paidAt |-> "reciente"])
      BY <2>4 DEF Renovar
    <3>2. SinRetorno /\ intencion'[i] # "libre"
      BY <1>0, <3>1, CreaNace DEF Claves, EstadosIntencion, Filas
    <3>3. UNCHANGED <<pago, entregadas>>
      BY <2>4 DEF Renovar, tablas
    <3>4. QED
      BY <3>1, <3>2, <3>3 DEF Tipos, TypeOK, Sigue, Nombra
  <2>5. CASE SoltarVieja(p)
    <3>1. SinRetorno
      BY <2>5, <1>a, CambiaSinRetorno DEF SoltarVieja, Cancelable, Cancela
    <3>2. QED
      BY <2>5, <3>1, PasaNombra DEF SoltarVieja, tablas
  <2>6. QED
    BY <1>3, <2>1, <2>2, <2>3, <2>4, <2>5 DEF Revision
<1>4. CASE Guardar(p)
  BY <1>4, <1>a, PasaNombra DEF Guardar
<1>5. CASE GuardarYSoltar(p)
  BY <1>5, <1>a, SigueNombra DEF GuardarYSoltar
<1>6. CASE Caida(p)
  BY <1>6, DeshaceNombra DEF Caida
<1>7. QED
  BY <1>1, <1>2, <1>3, <1>4, <1>5, <1>6

\* Every step of the system.
LEMMA PasoNacidas == Tipos /\ Nacidas /\ [Next]_vars => Nacidas'
<1> SUFFICES ASSUME Tipos, Nacidas, [Next]_vars PROVE Nacidas'
  OBVIOUS
<1>1. CASE UNCHANGED vars
  BY <1>1 DEF vars, tablas, stripe, procesos, Nacidas, Nacida
<1>2. CASE Externo \/ Confirmar \/ AvisoCobrada \/ AvisoCancelada
  <2>1. SinRetorno
    <3>1. ASSUME NEW i \in Intenciones, ClientePaga(i) \/ StripeSuelta(i) PROVE SinRetorno
      BY <3>1, CambiaSinRetorno DEF ClientePaga, StripeSuelta
    <3>2. CASE LlegaLaFecha \/ Envejece \/ Confirmar \/ AvisoCobrada \/ AvisoCancelada
      BY <3>2, QuietoSinRetorno
      DEF LlegaLaFecha, Envejece, Confirmar, AvisoCobrada, AvisoCancelada, stripe
    <3>3. QED
      BY <1>2, <3>1, <3>2 DEF Externo
  <2>2. UNCHANGED <<mem, pago.pi, entregadas>>
    BY <1>2, ExternoQuieto DEF procesos
  <2>3. /\ pago.pi \in 0 .. MaxIntenciones /\ entregadas \subseteq 0 .. MaxIntenciones
        /\ \A q \in Procesos : mem[q].pi \in 0 .. MaxIntenciones
    BY ConstantesOK DEF Tipos, TypeOK, Filas, Intenciones
  <2>4. QED
    BY <2>1, <2>2, <2>3, SigueNacida DEF Nacidas, Nacida, SinRetorno
<1>3. ASSUME NEW p \in Procesos,
             \/ ReservaYPago(p) \/ SoloPago(p) \/ Revision(p)
             \/ Guardar(p) \/ GuardarYSoltar(p) \/ Caida(p)
      PROVE  Nacidas'
  BY <1>3, PasoNombra, NombraNacidas
<1>4. QED
  BY <1>1, <1>2, <1>3 DEF Next

\* At the start there are none.
LEMMA IniciaNacidas == Init => Nacidas
BY DEF Init, Nacidas, Nacida, SinPago

-----------------------------------------------------------------------------
(* Which intents the client's money can still be on.                       *)

\* The hold of i has been renewed by another intent.
Renovada(i) == \E j \in Intenciones : clave[j] = <<"renovacion", i>>

\* Charged, within the client's reach to be paid, or on hold with no renewal
\* before it or after it.
Viva(i) ==
    \/ intencion[i] = "succeeded"
    \/ intencion[i] = "pagable" /\ i \in entregadas
    \/ intencion[i] = "requires_capture" /\ clave[i][1] # "renovacion" /\ ~Renovada(i)

SoloVive(pi) == \A i \in Intenciones : Viva(i) => i = pi

NingunaVive == \A i \in Intenciones : ~Viva(i)

\* The row's intent has been on hold, and has not been captured.
Retuvo == pago.pi # 0 /\ intencion[pago.pi] \in {"requires_capture", "canceled"}

\* What each process relies on: createPaymentIntent only replaces an intent when
\* none is live, and what it saves over the row is the live one; a renewal
\* replaces one that is on hold or gone.
UnaDe(p) ==
    /\ tarea[p] = "pagar" /\ pc[p] = "consultar" =>
         /\ SoloVive(mem[p].pi)
         /\ intencion[mem[p].pi] = "pagable" => mem[p].pi = pago.pi
    /\ tarea[p] = "pagar" /\ pc[p] = "guardar" => SoloVive(mem[p].pi)
    /\ pc[p] \in {"crear", "escribir"} => NingunaVive
    /\ pc[p] \in {"renovar", "guardarYSoltar"} => Retuvo
    /\ pc[p] = "guardarYSoltar" /\ mem[p].pi # pago.pi => NingunaVive

\* At most one intent is live, and it is the one the payment row names.
Una == SoloVive(pago.pi) /\ \A p \in Procesos : UnaDe(p)

\* No intent comes back to life, nor back within reach, and a hold is dropped
\* or kept.
NoRevive ==
    \A i \in Intenciones :
        /\ Viva(i)' => Viva(i)
        /\ intencion'[i] = "pagable" /\ intencion[i] # "libre" => intencion[i] = "pagable"
        /\ intencion[i] \in {"requires_capture", "canceled"} =>
             intencion'[i] \in {"requires_capture", "canceled"}

\* The stages that rely on which intent is live.
Atento(p) ==
    \/ pc[p] \in {"crear", "escribir", "renovar", "guardarYSoltar"}
    \/ tarea[p] = "pagar" /\ pc[p] \in {"consultar", "guardar"}

\* The other stages do not.
LEMMA NoAtento == ASSUME NEW p \in Procesos, ~Atento(p) PROVE UnaDe(p)
BY DEF Atento, UnaDe

\* The copy a stage works on names an intent.
LEMMA FilasConIntencion ==
    ASSUME Tipos, NEW p \in Procesos
    PROVE  pc[p] \in EtapasConIntencion => mem[p].pi \in Intenciones
BY ConstantesOK DEF Tipos, TypeOK, SabeDeSuPago, EtapasConIntencion, Filas, Intenciones

\* A step that brings no intent back to life leaves what the others rely on.
LEMMA UnaDeOtro ==
    ASSUME Tipos, Orden, Nacidas, NoRevive, NEW q \in Procesos, UnaDe(q),
           pago'.pi = pago.pi,
           pc'[q] = pc[q], tarea'[q] = tarea[q], mem'[q] = mem[q]
    PROVE  UnaDe(q)'
<1>1. ASSUME NEW pi, SoloVive(pi) PROVE SoloVive(pi)'
  BY <1>1 DEF NoRevive, SoloVive
<1>2. NingunaVive => NingunaVive'
  BY DEF NoRevive, NingunaVive
<1>3. CASE tarea[q] = "pagar" /\ pc[q] = "consultar"
  <2>1. mem[q].pi \in Intenciones /\ intencion[mem[q].pi] # "libre"
    BY <1>3, FilasConIntencion, ConstantesOK
    DEF Nacidas, Nacida, EtapasConIntencion, Intenciones
  <2>2. intencion'[mem[q].pi] = "pagable" => intencion[mem[q].pi] = "pagable"
    BY <2>1 DEF NoRevive
  <2>3. SoloVive(mem[q].pi)'
    BY <1>3 DEF UnaDe, NoRevive, SoloVive
  <2>4. QED
    BY <1>3, <2>2, <2>3 DEF UnaDe
<1>4. CASE tarea[q] = "pagar" /\ pc[q] = "guardar"
  BY <1>4 DEF UnaDe, NoRevive, SoloVive
<1>5. CASE pc[q] \in {"crear", "escribir"}
  BY <1>2, <1>5 DEF UnaDe
<1>6. CASE pc[q] \in {"renovar", "guardarYSoltar"}
  <2>1. pago.pi \in Intenciones
    BY <1>6, ConstantesOK DEF UnaDe, Retuvo, Tipos, TypeOK, Filas, Intenciones
  <2>2. Retuvo'
    BY <1>6, <2>1 DEF UnaDe, Retuvo, NoRevive
  <2>3. QED
    BY <1>2, <1>6, <2>2 DEF UnaDe
<1>7. CASE ~Atento(q)
  BY <1>7 DEF Atento, UnaDe
<1>8. QED
  BY <1>3, <1>4, <1>5, <1>6, <1>7 DEF Atento

\* A step without a call to Stripe that hands out nothing brings nothing back.
LEMMA QuietoNoRevive == UNCHANGED <<intencion, clave, entregadas>> => NoRevive
BY DEF NoRevive, Viva, Renovada

\* Nor does a cancellation...
LEMMA CancelaNoRevive ==
    ASSUME Tipos, NEW i, Cancelable(i), Cancela(i), UNCHANGED entregadas
    PROVE  NoRevive
BY DEF Tipos, TypeOK, Cancelable, Cancela, NoRevive, Viva, Renovada

\* ...nor a new intent, which nobody has been given or is a renewal.
LEMMA CreaNoRevive ==
    ASSUME Tipos, Nacidas, NEW k \in Claves, NEW e, NEW i \in Intenciones, Crea(k, e, i),
           e = "pagable" \/ (e = "requires_capture" /\ k[1] = "renovacion"),
           UNCHANGED entregadas
    PROVE  NoRevive
<1>1. /\ e \in EstadosIntencion \ {"libre"}
      /\ clave'[i] = k
      /\ \A j \in Intenciones \ {i} : intencion'[j] = intencion[j] /\ clave'[j] = clave[j]
  BY CreaNace DEF EstadosIntencion
<1>2. CASE UNCHANGED stripe
  BY <1>2, QuietoNoRevive DEF stripe
<1>3. CASE intencion[i] = "libre" /\ intencion' = [intencion EXCEPT ![i] = e]
  <2>1. intencion'[i] = e /\ clave[i] = SinClave /\ i \notin entregadas
    BY <1>3, ConstantesOK DEF Tipos, TypeOK, Nacidas, Nacida, Intenciones
  <2>2. \A j \in Intenciones : Renovada(j) => Renovada(j)'
    BY <1>1, <2>1 DEF Renovada, SinClave
  <2>3. ~Viva(i)'
    BY <1>1, <2>1 DEF Viva
  <2>4. QED
    BY <1>1, <1>3, <2>1, <2>2, <2>3 DEF NoRevive, Viva
<1>4. QED
  BY <1>2, <1>3 DEF Crea

\* Most steps bring nothing back and leave the row's intent: what is left to see
\* is what the process itself relies on afterwards.
LEMMA UnaSegun ==
    ASSUME Tipos, Orden, Nacidas, Una, NEW p \in Procesos, Respeta(p), NoRevive,
           pago'.pi = pago.pi, UnaDe(p)'
    PROVE  Una'
<1>1. SoloVive(pago.pi)'
  BY DEF Una, NoRevive, SoloVive
<1>2. ASSUME NEW q \in Procesos \ {p} PROVE UnaDe(q)'
  BY UnaDeOtro DEF Una, Respeta
<1>3. QED
  BY <1>1, <1>2 DEF Una

\* While p has the booking, nobody else opens its payment page; while it has the
\* payment, nobody renews it.
LEMMA NadieMas ==
    ASSUME Orden, NEW p \in Procesos, NEW q \in Procesos \ {p}
    PROVE  /\ bloqueoReserva = p =>
                /\ pc[q] \notin {"crear", "escribir"}
                /\ tarea[q] = "pagar" => pc[q] \notin {"consultar", "guardar"}
           /\ bloqueoPago = p \/ bloqueoPago = Nadie =>
                pc[q] \notin {"renovar", "guardarYSoltar"}
BY ConstantesOK DEF Orden, OrdenDe, ConReserva, ConPago, ConCopiaAlDia, SoloDelPago

\* The steps of a process that neither brings an intent to life nor changes the
\* row's, and leaves it at a stage that relies on nothing.
LEMMA PasoAjeno ==
    ASSUME Tipos, Orden, Nacidas, Una, NEW p \in Procesos, Respeta(p), NoRevive,
           pago'.pi = pago.pi, ~Atento(p)'
    PROVE  Una'
<1>1. UnaDe(p)'
  BY DEF Atento, UnaDe
<1>2. QED
  BY <1>1, UnaSegun

\* The operations on the booking and its payment.
LEMMA PasoUnaReserva ==
    ASSUME Tipos, Orden, Nacidas, Una, NEW p \in Procesos, ReservaYPago(p)
    PROVE  Una'
<1>0. Respeta(p) /\ OrdenDe(p)
  BY PasoRespeta DEF Orden
<1>b. ASSUME Deshace(p) PROVE Una'
  <2>1. pc'[p] = "libre" /\ UNCHANGED <<pago, intencion, clave, entregadas>>
    BY <1>b DEF Deshace, Pasa, Tipos, TypeOK, tablas, stripe
  <2>2. QED
    BY <1>0, <2>1, QuietoNoRevive, PasoAjeno DEF Atento
<1>c. ASSUME NEW t, t # "pagar", BloqueaReserva(p, t, "pago", SinPago) PROVE Una'
  <2>1. pc'[p] = "pago" /\ UNCHANGED <<pago, intencion, clave, entregadas>>
    BY <1>c DEF BloqueaReserva, Tipos, TypeOK, tablas, stripe
  <2>2. QED
    BY <1>0, <2>1, QuietoNoRevive, PasoAjeno DEF Atento
<1>1. CASE \/ \E t \in Cambios : CambiarEstado(p, t)
           \/ Caducar(p) \/ Capturar(p) \/ Reembolsar(p) \/ Resolver(p)
  BY <1>1, <1>b, <1>c DEF CambiarEstado, Cambios, Caducar, Capturar, Reembolsar, Resolver
<1>2. CASE EsperaAgotada(p) \/ CapturaRechazada(p) \/ FalloDeStripe(p)
  BY <1>2, <1>b DEF EsperaAgotada, CapturaRechazada, FalloDeStripe
<1>3. CASE \/ BloquearPago(p) \/ ConsultarAlSoltar(p) \/ ConsultaFallidaAlSoltar(p)
           \/ ConsultarAlCobrar(p) \/ DevolverCobro(p)
  <2>1. \/ Deshace(p)
        \/ /\ UNCHANGED <<pago, intencion, clave, entregadas>>
           /\ \E e \in {"consultar", "cancelar", "capturar", "devolver", "guardar"} : \E f :
                Sigue(p, e, f)
           /\ pc[p] \in {"pago", "devolver"} \/ Suelta(p) \/ Cobra(p)
    <3>1. CASE BloquearPago(p)
      BY <3>1, EtapasTrasBloquear DEF BloquearPago, EnEtapa, tablas, stripe
    <3>2. CASE ConsultarAlSoltar(p) \/ ConsultaFallidaAlSoltar(p)
      BY <3>2 DEF ConsultarAlSoltar, ConsultaFallidaAlSoltar, tablas, stripe
    <3>3. CASE ConsultarAlCobrar(p)
      BY <3>3 DEF ConsultarAlCobrar, tablas, stripe
    <3>4. CASE DevolverCobro(p)
      BY <3>4 DEF DevolverCobro, EnEtapa, tablas
    <3>5. QED
      BY <1>3, <3>1, <3>2, <3>3, <3>4
  <2>2. CASE ~Deshace(p)
    <3>1. /\ UNCHANGED <<pago, intencion, clave, entregadas>>
          /\ pc'[p] \in {"consultar", "cancelar", "capturar", "devolver", "guardar"}
          /\ tarea'[p] = tarea[p]
      BY <2>1, <2>2 DEF Sigue, Tipos, TypeOK
    <3>2. tarea[p] # "pagar"
      BY <1>0, <2>1, <2>2 DEF OrdenDe, Suelta, Cobra
    <3>3. QED
      BY <1>0, <3>1, <3>2, QuietoNoRevive, PasoAjeno DEF Atento
  <2>3. QED
    BY <1>b, <2>2
<1>4. CASE CancelarAlSoltar(p) \/ CancelacionFallida(p)
  <2>1. /\ pago' = pago /\ UNCHANGED entregadas
        /\ \/ UNCHANGED stripe
           \/ Cancelable(mem[p].pi) /\ Cancela(mem[p].pi)
        /\ (\E f : Sigue(p, "guardar", f)) \/ Pasa(p, "libre", "ninguna")
        /\ pc[p] = "cancelar"
    BY <1>4 DEF CancelarAlSoltar, CancelacionFallida, EnEtapa, tablas
  <2>2. NoRevive
    BY <2>1, QuietoNoRevive, CancelaNoRevive DEF stripe
  <2>3. pc'[p] \in {"guardar", "libre"} /\ tarea'[p] \in {tarea[p], "ninguna"}
    BY <2>1 DEF Sigue, Pasa, Tipos, TypeOK
  <2>4. tarea[p] # "pagar"
    BY <1>0, <2>1 DEF OrdenDe
  <2>5. QED
    BY <1>0, <2>1, <2>2, <2>3, <2>4, PasoAjeno DEF Atento
<1>5. CASE CapturarRetencion(p)
  <2>0. /\ pc[p] = "capturar" /\ pago' = pago /\ UNCHANGED <<clave, entregadas>>
        /\ intencion' = [intencion EXCEPT ![mem[p].pi] = "succeeded"]
        /\ Sigue(p, "guardar", Reflejada(mem[p], "completed"))
    BY <1>5 DEF CapturarRetencion, EnEtapa, tablas
  <2>1. /\ bloqueoReserva = p /\ bloqueoPago = p /\ mem[p].pi = pago.pi
        /\ mem'[p].pi = pago.pi /\ pc'[p] = "guardar"
    BY <1>0, <2>0 DEF Reflejada, Sigue, OrdenDe, ConReserva, ConPago, ConCopiaAlDia, Tipos, TypeOK
  <2>2. SoloVive(pago.pi)' /\ SoloVive(mem[p].pi)'
    BY <2>0, <2>1 DEF Una, SoloVive, Viva, Renovada, Tipos, TypeOK
  <2>3. UnaDe(p)'
    BY <2>1, <2>2 DEF UnaDe
  <2>4. ASSUME NEW q \in Procesos \ {p} PROVE UnaDe(q)'
    <3>1. ~Atento(q)
      BY <2>1, NadieMas DEF Atento
    <3>2. QED
      BY <1>0, <3>1 DEF Atento, UnaDe, Respeta
  <2>5. QED
    BY <2>2, <2>3, <2>4 DEF Una
<1>6. QED
  BY <1>1, <1>2, <1>3, <1>4, <1>5 DEF ReservaYPago

\* The payment page, the browser's confirmation and the webhook of a hold.
LEMMA PasoUnaPago ==
    ASSUME Tipos, Orden, Nacidas, Una, NEW p \in Procesos, SoloPago(p)
    PROVE  Una'
<1>0. Respeta(p) /\ OrdenDe(p) /\ UnaDe(p)
  BY PasoRespeta DEF Orden, Una
<1>b. ASSUME Deshace(p) PROVE Una'
  <2>1. pc'[p] = "libre" /\ UNCHANGED <<pago, intencion, clave, entregadas>>
    BY <1>b DEF Deshace, Pasa, Tipos, TypeOK, tablas, stripe
  <2>2. QED
    BY <1>0, <2>1, QuietoNoRevive, PasoAjeno DEF Atento
<1>1. CASE IniciarPago(p)
  <2>1. /\ tarea'[p] = "pagar" /\ mem'[p] = pago
        /\ pc'[p] = IF pago.pi = 0 THEN "crear" ELSE "consultar"
        /\ UNCHANGED <<pago, intencion, clave, entregadas>>
    BY <1>1 DEF IniciarPago, BloqueaReserva, Tipos, TypeOK, tablas, stripe
  <2>2. NoRevive
    BY <2>1, QuietoNoRevive
  <2>3. SoloVive(pago.pi)'
    BY <2>1, <2>2 DEF Una, SoloVive, NoRevive
  <2>4. pago.pi = 0 => NingunaVive'
    BY <2>1, <2>3, ConstantesOK DEF SoloVive, NingunaVive, Intenciones
  <2>5. UnaDe(p)'
    BY <2>1, <2>3, <2>4 DEF UnaDe, SoloVive
  <2>6. QED
    BY <1>0, <2>1, <2>2, <2>5, UnaSegun
<1>2. CASE ConsultarAlPagar(p)
  <2> DEFINE enStripe == intencion[mem[p].pi]
  <2>1. /\ pc[p] = "consultar" /\ tarea[p] = "pagar" /\ mem[p].pi \in Intenciones
        /\ bloqueoReserva = p
    BY <1>0, <1>2, FilasConIntencion
    DEF ConsultarAlPagar, EnEtapa, EtapasConIntencion, OrdenDe, ConReserva, SoloDelPago
  <2>2. /\ pago' = pago /\ UNCHANGED <<intencion, clave>>
        /\ entregadas' = IF enStripe = "pagable" THEN entregadas \cup {mem[p].pi}
                                                 ELSE entregadas
    BY <1>2 DEF ConsultarAlPagar, tablas, stripe
  <2>3. /\ pc'[p] = IF enStripe = "canceled" THEN "crear" ELSE "guardar"
        /\ mem'[p].pi = mem[p].pi /\ tarea'[p] = "pagar"
    BY <1>2, <2>1 DEF ConsultarAlPagar, Sigue, Reflejada, Tipos, TypeOK
  <2>4. SoloVive(mem[p].pi) /\ (enStripe = "pagable" => mem[p].pi = pago.pi)
    BY <1>0, <2>1 DEF UnaDe
  <2>5. \A i \in Intenciones : Viva(i)' => Viva(i) \/ (enStripe = "pagable" /\ i = mem[p].pi)
    BY <2>2 DEF Viva, Renovada
  <2>6. /\ \A i \in Intenciones : Viva(i)' => i = mem[p].pi
        /\ SoloVive(pago.pi)'
    BY <2>2, <2>4, <2>5 DEF SoloVive, Una
  <2>7. enStripe = "canceled" => NingunaVive'
    BY <2>2, <2>6 DEF NingunaVive, Viva
  <2>8. UnaDe(p)'
    BY <2>3, <2>6, <2>7 DEF UnaDe, SoloVive
  <2>9. ASSUME NEW q \in Procesos \ {p} PROVE UnaDe(q)'
    <3>1. CASE enStripe = "pagable"
      <4>1. pc[q] \notin {"renovar", "guardarYSoltar"}
        BY <2>4, <3>1 DEF Una, UnaDe, Retuvo
      <4>2. ~Atento(q)
        BY <2>1, <4>1, NadieMas DEF Atento
      <4>3. QED
        BY <1>0, <4>2 DEF Atento, UnaDe, Respeta
    <3>2. CASE enStripe # "pagable"
      <4>1. NoRevive
        BY <2>2, <3>2, QuietoNoRevive
      <4>2. QED
        BY <1>0, <2>2, <4>1, UnaDeOtro DEF Una, Respeta
    <3>3. QED
      BY <3>1, <3>2
  <2>10. QED
    BY <2>6, <2>8, <2>9 DEF Una
<1>3. CASE CrearIntencion(p)
  <2>1. PICK t \in {"cobro", "reserva"}, i \in Intenciones :
          /\ Crea(<<t, mem[p].pi>>, "pagable", i)
          /\ Sigue(p, "escribir", [estado |-> "pending", pi |-> i, paidAt |-> "nunca"])
    BY <1>3 DEF CrearIntencion
  <2>2. UNCHANGED <<pago, entregadas>> /\ pc[p] = "crear"
    BY <1>3 DEF CrearIntencion, EnEtapa, tablas
  <2>3. NoRevive
    <3>1. <<t, mem[p].pi>> \in Claves
      BY DEF Claves, Tipos, TypeOK, Filas
    <3>2. Crea(<<t, mem[p].pi>>, "pagable", i) /\ UNCHANGED entregadas
      BY <2>1, <2>2
    <3>3. QED
      BY <3>1, <3>2, CreaNoRevive
  <2>4. pc'[p] = "escribir"
    BY <2>1 DEF Sigue, Tipos, TypeOK
  <2>5. NingunaVive'
    BY <1>0, <2>2, <2>3 DEF UnaDe, NingunaVive, NoRevive
  <2>6. UnaDe(p)'
    BY <2>4, <2>5 DEF UnaDe
  <2>7. QED
    BY <1>0, <2>2, <2>3, <2>6, UnaSegun
<1>4. CASE EscribirPago(p)
  <2>1. /\ pc[p] = "escribir" /\ pago' = mem[p] /\ entregadas' = entregadas \cup {mem[p].pi}
        /\ bloqueoPago \in {Nadie, p} /\ bloqueoReserva = p /\ pc'[p] = "libre"
        /\ UNCHANGED <<intencion, clave>>
    BY <1>0, <1>4 DEF EscribirPago, EnEtapa, Pasa, OrdenDe, ConReserva, Tipos, TypeOK, stripe
  <2>2. NingunaVive
    BY <1>0, <2>1 DEF UnaDe
  <2>3. SoloVive(pago.pi)'
    BY <2>1, <2>2 DEF NingunaVive, SoloVive, Viva, Renovada
  <2>4. ASSUME NEW q \in Procesos PROVE ~Atento(q)'
    <3>1. CASE q = p
      BY <2>1, <3>1 DEF Atento
    <3>2. CASE q # p
      BY <1>0, <2>1, <3>2, NadieMas DEF Atento, Respeta
    <3>3. QED
      BY <3>1, <3>2
  <2>5. \A q \in Procesos : UnaDe(q)'
    BY <2>4 DEF Atento, UnaDe
  <2>6. QED
    BY <2>3, <2>5 DEF Una
<1>5. CASE ConfirmarRetencion(p)
  <2>1. /\ pc'[p] = "consultar" /\ tarea'[p] = "confirmarPago"
        /\ UNCHANGED <<pago, intencion, clave, entregadas>>
    BY <1>5 DEF ConfirmarRetencion, BloqueaPago, Tipos, TypeOK, tablas, stripe
  <2>2. QED
    BY <1>0, <2>1, QuietoNoRevive, PasoAjeno DEF Atento
<1>6. CASE ConsultarAlConfirmar(p)
  <2>1. \/ Deshace(p)
        \/ /\ pc'[p] = "guardar" /\ tarea'[p] = "confirmarPago"
           /\ UNCHANGED <<pago, intencion, clave, entregadas>>
    BY <1>6 DEF ConsultarAlConfirmar, Sigue, Tipos, TypeOK, tablas, stripe
  <2>2. QED
    BY <1>0, <1>b, <2>1, QuietoNoRevive, PasoAjeno DEF Atento
<1>7. CASE AvisoRetenida(p)
  <2>1. pago'.pi = pago.pi /\ pc'[p] = "resolver" /\ UNCHANGED <<intencion, clave, entregadas>>
    BY <1>7 DEF AvisoRetenida, Retenida, Pasa, Tipos, TypeOK, stripe
  <2>2. QED
    BY <1>0, <2>1, QuietoNoRevive, PasoAjeno DEF Atento
<1>8. QED
  BY <1>1, <1>2, <1>3, <1>4, <1>5, <1>6, <1>7 DEF SoloPago

\* The hourly review.
LEMMA PasoUnaRevision ==
    ASSUME Tipos, Orden, Nacidas, Una, NEW p \in Procesos, Revision(p)
    PROVE  Una'
<1>0. Respeta(p) /\ OrdenDe(p) /\ UnaDe(p)
  BY PasoRespeta DEF Orden, Una
<1>b. ASSUME Deshace(p) PROVE Una'
  <2>1. pc'[p] = "libre" /\ UNCHANGED <<pago, intencion, clave, entregadas>>
    BY <1>b DEF Deshace, Pasa, Tipos, TypeOK, tablas, stripe
  <2>2. QED
    BY <1>0, <2>1, QuietoNoRevive, PasoAjeno DEF Atento
<1>1. CASE RevisarRetenida(p) \/ BloquearAlRevisar(p) \/ Conciliar(p)
  <2>1. \/ Deshace(p)
        \/ /\ \/ pc'[p] \in {"revisar", "resolver"}
              \/ pc'[p] = "consultar" /\ tarea'[p] \in SoloDelPago
           /\ UNCHANGED <<pago, intencion, clave, entregadas>>
    BY <1>1 DEF RevisarRetenida, BloquearAlRevisar, Conciliar, BloqueaPago, Pasa,
       Tipos, TypeOK, SoloDelPago, tablas, stripe
  <2>2. QED
    BY <1>0, <1>b, <2>1, QuietoNoRevive, PasoAjeno DEF Atento, SoloDelPago
<1>2. CASE ConsultarAlRevisar(p) \/ ConsultarAlConciliar(p)
  <2>1. \/ Deshace(p)
        \/ /\ tarea'[p] \in SoloDelPago
           /\ \/ pc'[p] = "guardar"
              \/ /\ pc'[p] = "renovar" /\ mem[p].pi = pago.pi
                 /\ EstadoSegunStripe(intencion[mem[p].pi]) = "held"
           /\ UNCHANGED <<pago, intencion, clave, entregadas>>
    BY <1>0, <1>2 DEF ConsultarAlRevisar, ConsultarAlConciliar, EnEtapa, Sigue, Tipos, TypeOK,
       OrdenDe, ConCopiaAlDia, SoloDelPago, tablas, stripe
  <2>2. CASE ~Deshace(p) /\ pc'[p] = "renovar"
    <3>1. mem[p].pi # 0 /\ intencion[mem[p].pi] = "requires_capture"
      <4>1. pc[p] = "consultar"
        BY <1>2 DEF ConsultarAlRevisar, ConsultarAlConciliar, EnEtapa
      <4>2. QED
        BY <2>1, <2>2, <4>1 DEF Tipos, SabeDeSuPago, EtapasConIntencion, EstadoSegunStripe
    <3>2. UnaDe(p)'
      BY <2>1, <2>2, <3>1 DEF UnaDe, Retuvo
    <3>3. QED
      BY <1>0, <2>1, <2>2, <3>2, QuietoNoRevive, UnaSegun
  <2>3. QED
    BY <1>0, <1>b, <2>1, <2>2, QuietoNoRevive, PasoAjeno DEF Atento, SoloDelPago
<1>3. CASE Renovar(p)
  <2>1. PICK i \in Intenciones :
          /\ Crea(<<"renovacion", mem[p].pi>>, "requires_capture", i)
          /\ Sigue(p, "guardarYSoltar", [estado |-> "held", pi |-> i, paidAt |-> "reciente"])
    BY <1>3 DEF Renovar
  <2>2. UNCHANGED <<pago, entregadas>> /\ pc[p] = "renovar"
    BY <1>3 DEF Renovar, EnEtapa, tablas
  <2>3. NoRevive
    BY <2>1, <2>2, CreaNoRevive DEF Claves, Tipos, TypeOK, Filas
  <2>4. clave'[i] = <<"renovacion", mem[p].pi>>
    BY <2>1, CreaNace DEF Claves, EstadosIntencion, Tipos, TypeOK, Filas
  <2>5. mem[p].pi = pago.pi /\ Retuvo /\ pago.pi \in Intenciones
    BY <1>0, <2>2, ConstantesOK
    DEF OrdenDe, ConCopiaAlDia, UnaDe, Retuvo, Tipos, TypeOK, Filas, Intenciones
  <2>6. Retuvo'
    BY <2>2, <2>3, <2>5 DEF Retuvo, NoRevive
  <2>7. NingunaVive'
    <3>1. SoloVive(pago.pi)'
      BY <2>2, <2>3 DEF Una, SoloVive, NoRevive
    <3>2. ~Viva(pago.pi)'
      BY <2>2, <2>4, <2>5, <2>6 DEF Viva, Renovada, Retuvo
    <3>3. QED
      BY <3>1, <3>2 DEF SoloVive, NingunaVive
  <2>8. pc'[p] = "guardarYSoltar"
    BY <2>1 DEF Sigue, Tipos, TypeOK
  <2>9. UnaDe(p)'
    BY <2>6, <2>7, <2>8 DEF UnaDe
  <2>10. QED
    BY <1>0, <2>2, <2>3, <2>9, UnaSegun
<1>4. CASE NoRenovable(p)
  <2>1. /\ pc[p] = "renovar" /\ pc'[p] = "guardarYSoltar" /\ mem'[p].pi = mem[p].pi
        /\ UNCHANGED <<pago, intencion, clave, entregadas>>
    BY <1>4 DEF NoRenovable, EnEtapa, Sigue, ConEstado, Tipos, TypeOK, Filas, tablas, stripe
  <2>2. mem[p].pi = pago.pi /\ Retuvo
    BY <1>0, <2>1 DEF OrdenDe, ConCopiaAlDia, UnaDe
  <2>3. UnaDe(p)'
    BY <2>1, <2>2 DEF UnaDe, Retuvo
  <2>4. QED
    BY <1>0, <2>1, <2>3, QuietoNoRevive, UnaSegun
<1>5. CASE SoltarVieja(p)
  <2>1. /\ pago' = pago /\ UNCHANGED entregadas /\ pc'[p] = "libre"
        /\ \/ UNCHANGED stripe
           \/ Cancelable(mem[p].pi) /\ Cancela(mem[p].pi)
    BY <1>5 DEF SoltarVieja, Pasa, Tipos, TypeOK, tablas
  <2>2. NoRevive
    BY <2>1, QuietoNoRevive, CancelaNoRevive DEF stripe
  <2>3. QED
    BY <1>0, <2>1, <2>2, PasoAjeno DEF Atento
<1>6. QED
  BY <1>1, <1>2, <1>3, <1>4, <1>5 DEF Revision

\* The commits, and the process that never gets to one.
LEMMA PasoUnaFinal ==
    ASSUME Tipos, Orden, Nacidas, Una, NEW p \in Procesos,
           Guardar(p) \/ GuardarYSoltar(p) \/ Caida(p)
    PROVE  Una'
<1>0. Respeta(p) /\ OrdenDe(p) /\ UnaDe(p)
  BY PasoRespeta DEF Orden, Una
<1>1. CASE Caida(p)
  <2>1. pc'[p] = "libre" /\ UNCHANGED <<pago, intencion, clave, entregadas>>
    BY <1>1 DEF Caida, Deshace, Pasa, Tipos, TypeOK, tablas, stripe
  <2>2. QED
    BY <1>0, <2>1, QuietoNoRevive, PasoAjeno DEF Atento
<1>2. CASE Guardar(p)
  <2>1. /\ pc[p] = "guardar" /\ pc'[p] \in {"libre", "resolver"}
        /\ pago' = IF bloqueoPago = p THEN mem[p] ELSE pago
        /\ UNCHANGED <<intencion, clave, entregadas>>
    BY <1>2 DEF Guardar, EnEtapa, Pasa, Tipos, TypeOK, stripe
  <2>2. CASE pago'.pi = pago.pi
    BY <1>0, <2>1, <2>2, QuietoNoRevive, PasoAjeno DEF Atento
  <2>3. CASE pago'.pi # pago.pi
    <3>1. tarea[p] = "pagar" /\ bloqueoPago = p /\ bloqueoReserva = p /\ pago' = mem[p]
      BY <1>0, <2>1, <2>3 DEF OrdenDe, ConCopiaAlDia, ConReserva, SoloDelPago
    <3>2. SoloVive(pago.pi)'
      BY <1>0, <2>1, <3>1 DEF UnaDe, SoloVive, Viva, Renovada
    <3>3. ASSUME NEW q \in Procesos PROVE ~Atento(q)'
      <4>1. CASE q = p
        BY <2>1, <4>1 DEF Atento
      <4>2. CASE q # p
        BY <1>0, <3>1, <4>2, NadieMas DEF Atento, Respeta
      <4>3. QED
        BY <4>1, <4>2
    <3>4. \A q \in Procesos : UnaDe(q)'
      BY <3>3 DEF Atento, UnaDe
    <3>5. QED
      BY <3>2, <3>4 DEF Una
  <2>4. QED
    BY <2>2, <2>3
<1>3. CASE GuardarYSoltar(p)
  <2>1. /\ pc[p] = "guardarYSoltar" /\ pc'[p] = "soltar" /\ pago' = mem[p]
        /\ UNCHANGED <<intencion, clave, entregadas>> /\ bloqueoPago = p
    BY <1>0, <1>3 DEF GuardarYSoltar, EnEtapa, Sigue, OrdenDe, ConPago, Tipos, TypeOK, stripe
  <2>2. CASE mem[p].pi = pago.pi
    BY <1>0, <2>1, <2>2, QuietoNoRevive, PasoAjeno DEF Atento
  <2>3. CASE mem[p].pi # pago.pi
    <3>1. NingunaVive' /\ Retuvo
      BY <1>0, <2>1, <2>3 DEF UnaDe, NingunaVive, Viva, Renovada
    <3>2. ASSUME NEW q \in Procesos PROVE UnaDe(q)'
      <4>1. CASE q = p
        BY <2>1, <4>1 DEF UnaDe
      <4>2. CASE q # p
        <5>1. pc'[q] = pc[q] /\ mem'[q] = mem[q] /\ tarea'[q] = tarea[q]
          BY <1>0, <4>2 DEF Respeta
        <5>2. pc[q] \notin {"renovar", "guardarYSoltar"}
          BY <2>1, <4>2, NadieMas
        <5>3. tarea[q] = "pagar" /\ pc[q] = "consultar" => intencion[mem[q].pi] # "pagable"
          BY <3>1 DEF Una, UnaDe, Retuvo
        <5>4. QED
          BY <2>1, <3>1, <5>1, <5>2, <5>3 DEF UnaDe, SoloVive, NingunaVive
      <4>3. QED
        BY <4>1, <4>2
    <3>3. QED
      BY <3>1, <3>2 DEF Una, SoloVive, NingunaVive
  <2>4. QED
    BY <2>2, <2>3
<1>4. QED
  BY <1>1, <1>2, <1>3

\* Every step of the system.
LEMMA PasoUna == Tipos /\ Orden /\ Nacidas /\ Una /\ [Next]_vars => Una'
<1> SUFFICES ASSUME Tipos, Orden, Nacidas, Una, [Next]_vars PROVE Una'
  OBVIOUS
<1>a. ASSUME UNCHANGED <<pc, tarea, mem, pago.pi>>, NoRevive PROVE Una'
  <2>1. SoloVive(pago.pi)'
    BY <1>a DEF Una, NoRevive, SoloVive
  <2>2. \A q \in Procesos : UnaDe(q)'
    BY <1>a, UnaDeOtro DEF Una
  <2>3. QED
    BY <2>1, <2>2 DEF Una
<1>1. CASE UNCHANGED vars
  BY <1>1, <1>a, QuietoNoRevive DEF vars, tablas, stripe, procesos
<1>2. CASE Externo \/ Confirmar \/ AvisoCobrada \/ AvisoCancelada
  <2>1. NoRevive
    <3>1. ASSUME NEW i \in Intenciones, ClientePaga(i) \/ StripeSuelta(i) PROVE NoRevive
      BY <3>1 DEF ClientePaga, StripeSuelta, NoRevive, Viva, Renovada, Tipos, TypeOK
    <3>2. CASE LlegaLaFecha \/ Envejece \/ Confirmar \/ AvisoCobrada \/ AvisoCancelada
      BY <3>2, QuietoNoRevive
      DEF LlegaLaFecha, Envejece, Confirmar, AvisoCobrada, AvisoCancelada, stripe
    <3>3. QED
      BY <1>2, <3>1, <3>2 DEF Externo
  <2>2. QED
    BY <1>2, <1>a, <2>1, ExternoQuieto DEF procesos
<1>3. ASSUME NEW p \in Procesos,
             \/ ReservaYPago(p) \/ SoloPago(p) \/ Revision(p)
             \/ Guardar(p) \/ GuardarYSoltar(p) \/ Caida(p)
      PROVE  Una'
  BY <1>3, PasoUnaReserva, PasoUnaPago, PasoUnaRevision, PasoUnaFinal
<1>4. QED
  BY <1>1, <1>2, <1>3 DEF Next

\* At the start no intent is live.
LEMMA IniciaUna == Init => Una
BY DEF Init, Una, UnaDe, SoloVive, Viva

\* The inductive invariant behind the theorems that follow: at most one intent is
\* live, and it is the payment row's.
THEOREM SpecUna == Spec => [](Orden /\ Nacidas /\ Una)
BY IniciaOrden, IniciaNacidas, IniciaUna, PasoOrden, PasoNacidas, PasoUna, SpecTipos, PTL
   DEF Spec

\* A booking is never charged twice, whatever fails and whoever retries.
THEOREM UnSoloCobro == Spec => []NuncaDosCobros
<1>1. Una => NuncaDosCobros
  BY DEF Una, SoloVive, Viva, NuncaDosCobros
<1>2. QED
  BY <1>1, SpecUna, PTL

\* A hold the payment row does not name is one a renewal left behind.
THEOREM SoloQuedanRenovadas == Spec => []SoloRenovarDejaHuerfanas
<1>1. Una => SoloRenovarDejaHuerfanas
  BY DEF Una, SoloVive, Viva, Renovada, SoloRenovarDejaHuerfanas
<1>2. QED
  BY <1>1, SpecUna, PTL

-----------------------------------------------------------------------------
(* The platform's promise.                                                 *)

Completa == {"completar", "completarSinCobro"}

\* What the operation of p, with the booking locked, knows of it.
EnCursoDe(p) ==
    ConReserva(p) =>
        /\ tarea[p] \in Completa => reserva = "confirmed" /\ llegada
        /\ tarea[p] = "cancelar" => reserva \in {"pending", "confirmed"}
        /\ tarea[p] \in {"rechazar", "caducar"} => reserva = "pending"
        /\ tarea[p] = "cobrar" => reserva = "completed"
        /\ tarea[p] \in {"reembolsar", "resolver"} => reserva \notin RESERVAS_ABIERTAS
        /\ pc[p] = "capturar" => Cobra(p)
        /\ pc[p] = "devolver" => tarea[p] = "reembolsar"

EnCurso == \A p \in Procesos : EnCursoDe(p)

\* The work was done on its date, only what is charged is refunded, and the intents
\* that charge at once are those of the work done.
AlDia ==
    /\ reserva = "completed" => llegada
    /\ \A i \in devueltas : intencion[i] = "succeeded"
    /\ \A i \in Intenciones : clave[i][1] = "cobro" => reserva = "completed"

\* While nobody dies halfway, the booking that has been charged is completed or
\* somebody is about to commit that it is.
CobradaCompleta ==
    \A i \in Intenciones : intencion[i] = "succeeded" =>
        \/ reserva = "completed"
        \/ \E p \in Procesos : pc[p] = "guardar" /\ tarea[p] \in Completa

\* What a step of p may do to the booking and to the client's money: only a commit
\* changes the booking, only a capture charges, only a refund gives back, and
\* only work done is given an intent that charges at once.
Efecto(p) ==
    /\ reserva' # reserva => Guardar(p)
    /\ llegada' = llegada
    /\ \A i \in Intenciones :
         /\ intencion'[i] = "succeeded" /\ intencion[i] # "succeeded" =>
              CapturarRetencion(p) /\ i = mem[p].pi
         /\ clave'[i][1] = "cobro" /\ clave[i][1] # "cobro" => reserva = "completed"
    /\ devueltas' # devueltas => DevolverCobro(p)

\* A step that leaves the booking and Stripe alone.
LEMMA QuietoEfecto ==
    ASSUME NEW p, UNCHANGED <<reserva, stripe, llegada>> PROVE Efecto(p)
BY DEF Efecto, stripe

\* Cancelling an intent charges nothing.
LEMMA CancelaEfecto ==
    ASSUME Tipos, NEW p, NEW i, Cancela(i), UNCHANGED <<reserva, llegada>>
    PROVE  Efecto(p)
BY DEF Tipos, TypeOK, Cancela, Efecto

\* Nor does asking for an intent.
LEMMA CreaEfecto ==
    ASSUME Tipos, NEW p, NEW k \in Claves, NEW e \in {"pagable", "requires_capture"},
           NEW i \in Intenciones, Crea(k, e, i), k[1] = "cobro" => reserva = "completed",
           UNCHANGED <<reserva, llegada>>
    PROVE  Efecto(p)
<1>1. CASE UNCHANGED stripe
  BY <1>1, QuietoEfecto
<1>2. CASE /\ intencion' = [intencion EXCEPT ![i] = e]
           /\ clave' = [clave EXCEPT ![i] = k]
           /\ UNCHANGED devueltas
  BY <1>2 DEF Tipos, TypeOK, Efecto
<1>3. QED
  BY <1>1, <1>2 DEF Crea

\* Every step of a process is of that kind.
LEMMA PasoEfecto ==
    ASSUME Tipos, NEW p \in Procesos,
           \/ ReservaYPago(p) \/ SoloPago(p) \/ Revision(p)
           \/ Guardar(p) \/ GuardarYSoltar(p) \/ Caida(p)
    PROVE  Efecto(p)
<1>a. Deshace(p) => UNCHANGED <<reserva, stripe>>
  BY DEF Deshace, tablas
<1>b. Error \/ SinRespuesta \/ UNCHANGED entorno => llegada' = llegada
  BY DEF Error, SinRespuesta, entorno
<1>c. \A t, e, f : BloqueaReserva(p, t, e, f) => UNCHANGED <<reserva, stripe, llegada>>
  BY DEF BloqueaReserva, tablas, entorno
<1>d. \A t : BloqueaPago(p, t) => UNCHANGED <<reserva, stripe, llegada>>
  BY DEF BloqueaPago, tablas, entorno
<1>1. CASE ReservaYPago(p)
  <2>1. CASE \/ \E t \in Cambios : CambiarEstado(p, t)
             \/ Caducar(p) \/ Capturar(p) \/ Reembolsar(p) \/ Resolver(p)
    BY <2>1, <1>a, <1>b, <1>c, QuietoEfecto
    DEF CambiarEstado, Caducar, Capturar, Reembolsar, Resolver
  <2>2. CASE \/ BloquearPago(p) \/ EsperaAgotada(p)
             \/ ConsultarAlSoltar(p) \/ ConsultaFallidaAlSoltar(p)
             \/ ConsultarAlCobrar(p) \/ CapturaRechazada(p) \/ FalloDeStripe(p)
    BY <2>2, <1>a, <1>b, QuietoEfecto
    DEF BloquearPago, EsperaAgotada, ConsultarAlSoltar, ConsultaFallidaAlSoltar,
        ConsultarAlCobrar, CapturaRechazada, FalloDeStripe, tablas
  <2>3. CASE CancelarAlSoltar(p) \/ CancelacionFallida(p)
    BY <2>3, <1>b, QuietoEfecto, CancelaEfecto
    DEF CancelarAlSoltar, CancelacionFallida, tablas
  <2>4. CASE CapturarRetencion(p)
    BY <2>4, <1>b DEF CapturarRetencion, Efecto, Tipos, TypeOK, tablas
  <2>5. CASE DevolverCobro(p)
    BY <2>5, <1>b DEF DevolverCobro, Efecto, tablas
  <2>6. QED
    BY <1>1, <2>1, <2>2, <2>3, <2>4, <2>5 DEF ReservaYPago
<1>2. CASE SoloPago(p)
  <2>1. CASE \/ IniciarPago(p) \/ ConsultarAlPagar(p) \/ EscribirPago(p)
             \/ ConfirmarRetencion(p) \/ ConsultarAlConfirmar(p) \/ AvisoRetenida(p)
    BY <2>1, <1>a, <1>b, <1>c, <1>d, QuietoEfecto
    DEF IniciarPago, ConsultarAlPagar, EscribirPago, ConfirmarRetencion,
        ConsultarAlConfirmar, AvisoRetenida, tablas
  <2>2. CASE CrearIntencion(p)
    <3>1. PICK t \in {"cobro", "reserva"}, i \in Intenciones :
            /\ t = "cobro" => reserva = "completed"
            /\ Crea(<<t, mem[p].pi>>, "pagable", i)
      BY <2>2 DEF CrearIntencion
    <3>2. <<t, mem[p].pi>> \in Claves /\ UNCHANGED <<reserva, llegada>>
      BY <2>2, <1>b DEF CrearIntencion, Claves, Tipos, TypeOK, Filas, tablas
    <3>3. QED
      BY <3>1, <3>2, CreaEfecto
  <2>3. QED
    BY <1>2, <2>1, <2>2 DEF SoloPago
<1>3. CASE Revision(p)
  <2>1. CASE \/ RevisarRetenida(p) \/ BloquearAlRevisar(p) \/ ConsultarAlRevisar(p)
             \/ NoRenovable(p) \/ Conciliar(p) \/ ConsultarAlConciliar(p)
    BY <2>1, <1>a, <1>b, <1>d, QuietoEfecto
    DEF RevisarRetenida, BloquearAlRevisar, ConsultarAlRevisar, NoRenovable,
        Conciliar, ConsultarAlConciliar, tablas
  <2>2. CASE Renovar(p)
    <3>1. PICK i \in Intenciones : Crea(<<"renovacion", mem[p].pi>>, "requires_capture", i)
      BY <2>2 DEF Renovar
    <3>2. <<"renovacion", mem[p].pi>> \in Claves /\ UNCHANGED <<reserva, llegada>>
      BY <2>2, <1>b DEF Renovar, Claves, Tipos, TypeOK, Filas, tablas
    <3>3. QED
      BY <3>1, <3>2, CreaEfecto
  <2>3. CASE SoltarVieja(p)
    BY <2>3, <1>b, QuietoEfecto, CancelaEfecto DEF SoltarVieja, tablas
  <2>4. QED
    BY <1>3, <2>1, <2>2, <2>3 DEF Revision
<1>4. CASE Guardar(p)
  BY <1>4, <1>b DEF Guardar, Efecto, stripe
<1>5. CASE GuardarYSoltar(p)
  BY <1>5, <1>b, QuietoEfecto DEF GuardarYSoltar
<1>6. CASE Caida(p)
  BY <1>6, <1>a, <1>b, QuietoEfecto DEF Caida
<1>7. QED
  BY <1>1, <1>2, <1>3, <1>4, <1>5, <1>6

\* Only the operation that has the booking locked changes it, and never that the
\* work was done.
LEMMA ReservaConCerrojo ==
    ASSUME Tipos, Orden, EnCurso, NEW p \in Procesos, Efecto(p), reserva' # reserva
    PROVE  /\ bloqueoReserva = p /\ reserva # "completed"
           /\ pc[p] = "guardar" /\ tarea[p] \in Cambios \cup {"caducar"}
           /\ reserva' = Destino(tarea[p])
<1>1. Guardar(p)
  BY DEF Efecto
<1>2. pc[p] = "guardar" /\ reserva' = Destino(tarea[p])
  BY <1>1 DEF Guardar, EnEtapa
<1>3. tarea[p] \in Cambios \cup {"caducar"}
  BY <1>2 DEF Destino, Cambios
<1>4. ConReserva(p)
  BY <1>2, <1>3 DEF ConReserva, SoloDelPago, Cambios
<1>5. QED
  BY <1>2, <1>3, <1>4 DEF Orden, OrdenDe, EnCurso, EnCursoDe, Cambios, Completa

\* A process between transactions, or with the payment alone, knows nothing of it.
LEMMA SinReservaEnCurso == ASSUME NEW p, ~ConReserva(p)' PROVE EnCursoDe(p)'
BY DEF EnCursoDe, ConReserva

\* A rollback or a commit leaves it that way...
LEMMA DeshaceEnCurso ==
    ASSUME Tipos, NEW p \in Procesos, NEW e \in EtapasSinCerrojo, NEW t, Pasa(p, e, t)
    PROVE  EnCursoDe(p)'
<1>1. pc'[p] = e
  BY DEF Pasa, Tipos, TypeOK
<1>2. QED
  BY <1>1, SinReservaEnCurso DEF ConReserva, EtapasSinCerrojo

\* ...and so does locking the payment alone.
LEMMA BloqueaPagoEnCurso ==
    ASSUME Tipos, NEW p \in Procesos, NEW t \in SoloDelPago, BloqueaPago(p, t)
    PROVE  EnCursoDe(p)'
<1>1. pc'[p] = "consultar" /\ tarea'[p] = t
  BY DEF BloqueaPago, Tipos, TypeOK
<1>2. QED
  BY <1>1, SinReservaEnCurso DEF ConReserva, SoloDelPago

\* A step within the transaction goes on knowing what it knew.
LEMMA SigueEnCurso ==
    ASSUME Tipos, NEW p \in Procesos, EnCursoDe(p), ConReserva(p), NEW e, NEW f,
           Sigue(p, e, f), UNCHANGED <<reserva, llegada>>,
           e = "capturar" => Cobra(p),
           e = "devolver" => tarea[p] = "reembolsar"
    PROVE  EnCursoDe(p)'
<1>1. pc'[p] = e /\ tarea' = tarea
  BY DEF Sigue, Tipos, TypeOK
<1>2. Cobra(p)' <=> Cobra(p)
  BY <1>1 DEF Cobra
<1>3. QED
  BY <1>1, <1>2 DEF EnCursoDe, Completa

\* Locking the booking is what tells p.
LEMMA BloqueaEnCurso ==
    ASSUME Tipos, NEW p \in Procesos, NEW t,
           BloqueaReserva(p, t, "pago", SinPago),
           t \in Completa => reserva = "confirmed" /\ llegada,
           t = "cancelar" => reserva \in {"pending", "confirmed"},
           t \in {"rechazar", "caducar"} => reserva = "pending",
           t = "cobrar" => reserva = "completed",
           t \in {"reembolsar", "resolver"} => reserva \notin RESERVAS_ABIERTAS
    PROVE  EnCursoDe(p)'
<1>1. pc'[p] = "pago" /\ tarea'[p] = t /\ UNCHANGED <<reserva, llegada>>
  BY DEF BloqueaReserva, Tipos, TypeOK, tablas, entorno
<1>2. QED
  BY <1>1 DEF EnCursoDe

\* Every step of a process leaves it knowing what it has to.
LEMMA PasoEnCurso ==
    ASSUME Tipos, Orden, EnCurso, NEW p \in Procesos,
           \/ ReservaYPago(p) \/ SoloPago(p) \/ Revision(p)
           \/ Guardar(p) \/ GuardarYSoltar(p) \/ Caida(p)
    PROVE  EnCursoDe(p)'
<1>0. EnCursoDe(p) /\ OrdenDe(p) /\ tarea[p] \in Tareas
  BY DEF EnCurso, Orden, Tipos, TypeOK
<1>a. Deshace(p) => EnCursoDe(p)'
  BY DeshaceEnCurso DEF Deshace, EtapasSinCerrojo
<1>b. Error \/ SinRespuesta \/ UNCHANGED entorno => llegada' = llegada
  BY DEF Error, SinRespuesta, entorno
<1>c. \A e \in EtapasSinCerrojo : \A t : Pasa(p, e, t) => EnCursoDe(p)'
  BY DeshaceEnCurso
<1>d. ASSUME ConReserva(p), NEW e \in Etapas \ {"capturar", "devolver"}, NEW f,
             Sigue(p, e, f), UNCHANGED <<reserva, llegada>>
      PROVE  EnCursoDe(p)'
  BY <1>0, <1>d, SigueEnCurso
<1>e. ASSUME NEW e \in {"guardar", "renovar", "guardarYSoltar", "soltar"}, NEW f,
             tarea[p] \in SoloDelPago, Sigue(p, e, f)
      PROVE  EnCursoDe(p)'
  <2>1. pc'[p] = e /\ tarea'[p] = tarea[p]
    BY <1>e DEF Sigue, Tipos, TypeOK
  <2>2. QED
    BY <1>e, <2>1, SinReservaEnCurso DEF ConReserva, SoloDelPago
<1>f. Suelta(p) \/ Cobra(p) => tarea[p] \notin SoloDelPago
  BY DEF Suelta, Cobra, SoloDelPago
<1>1. CASE ReservaYPago(p)
  <2>1. ASSUME NEW t \in Cambios, CambiarEstado(p, t) PROVE EnCursoDe(p)'
    <3>1. /\ BloqueaReserva(p, t, "pago", SinPago)
          /\ <<reserva, Destino(t)>> \in TransicionesReserva
          /\ t \in Completa => llegada
      BY <2>1 DEF CambiarEstado, Completa
    <3>2. /\ t \in Completa => Destino(t) = "completed"
          /\ t = "cancelar" => Destino(t) = "cancelled"
          /\ t = "rechazar" => Destino(t) = "rejected"
      BY DEF Destino, Completa
    <3>3. /\ t \in Completa => reserva = "confirmed"
          /\ t = "cancelar" => reserva \in {"pending", "confirmed"}
          /\ t = "rechazar" => reserva = "pending"
      BY <3>1, <3>2 DEF TransicionesReserva
    <3>4. QED
      BY <2>1, <3>1, <3>3, BloqueaEnCurso DEF Cambios
  <2>2. CASE Caducar(p) \/ Capturar(p) \/ Reembolsar(p)
    BY <2>2, BloqueaEnCurso DEF Caducar, Capturar, Reembolsar, Completa
  <2>3. CASE Resolver(p)
    BY <2>3, <1>a, BloqueaEnCurso DEF Resolver, Completa
  <2>4. CASE BloquearPago(p)
    <3>1. CASE EtapaTrasBloquear(p) = "libre"
      BY <2>4, <3>1, <1>a DEF BloquearPago
    <3>2. CASE EtapaTrasBloquear(p) # "libre"
      <4>1. /\ pc[p] = "pago" /\ Sigue(p, EtapaTrasBloquear(p), pago)
            /\ UNCHANGED <<reserva, llegada>>
        BY <2>4, <3>2, <1>b DEF BloquearPago, EnEtapa, tablas
      <4>2. /\ EtapaTrasBloquear(p) = "capturar" => Cobra(p)
            /\ EtapaTrasBloquear(p) = "devolver" => tarea[p] = "reembolsar"
        BY <3>2 DEF EtapaTrasBloquear
      <4>3. QED
        BY <4>1, <4>2, <1>0, SigueEnCurso DEF ConReserva
    <3>3. QED
      BY <3>1, <3>2
  <2>5. CASE EsperaAgotada(p) \/ CapturaRechazada(p) \/ FalloDeStripe(p)
    BY <2>5, <1>a DEF EsperaAgotada, CapturaRechazada, FalloDeStripe
  <2>6. CASE ConsultarAlSoltar(p) \/ ConsultaFallidaAlSoltar(p)
    <3>1. /\ ConReserva(p) /\ UNCHANGED <<reserva, llegada>>
          /\ \E e \in {"cancelar", "guardar"} : \E f : Sigue(p, e, f)
      BY <2>6, <1>b, <1>f
      DEF ConsultarAlSoltar, ConsultaFallidaAlSoltar, ConReserva, EnEtapa, tablas
    <3>2. QED
      BY <3>1, <1>d DEF Etapas
  <2>7. CASE ConsultarAlCobrar(p)
    <3>1. CASE Deshace(p)
      BY <3>1, <1>a
    <3>2. CASE ~Deshace(p)
      <4>1. /\ ConReserva(p) /\ UNCHANGED <<reserva, llegada>> /\ Cobra(p)
            /\ \E e \in {"capturar", "guardar"} : \E f : Sigue(p, e, f)
        BY <2>7, <3>2, <1>b, <1>f DEF ConsultarAlCobrar, ConReserva, EnEtapa, tablas
      <4>2. QED
        BY <4>1, <1>0, SigueEnCurso
    <3>3. QED
      BY <3>1, <3>2
  <2>8. CASE CancelarAlSoltar(p) \/ CapturarRetencion(p) \/ DevolverCobro(p)
    <3>1. ConReserva(p) /\ UNCHANGED <<reserva, llegada>> /\ \E f : Sigue(p, "guardar", f)
      BY <2>8, <1>b
      DEF CancelarAlSoltar, CapturarRetencion, DevolverCobro, ConReserva, EnEtapa, tablas
    <3>2. QED
      BY <3>1, <1>d DEF Etapas
  <2>9. CASE CancelacionFallida(p)
    <3>1. CASE Suelta(p)
      <4>1. ConReserva(p) /\ UNCHANGED <<reserva, llegada>> /\ Sigue(p, "guardar", pago)
        BY <2>9, <3>1, <1>b DEF CancelacionFallida, ConReserva, EnEtapa, tablas
      <4>2. QED
        BY <4>1, <1>d DEF Etapas
    <3>2. CASE ~Suelta(p)
      BY <2>9, <3>2, <1>c DEF CancelacionFallida, EtapasSinCerrojo
    <3>3. QED
      BY <3>1, <3>2
  <2>10. QED
    BY <1>1, <2>1, <2>2, <2>3, <2>4, <2>5, <2>6, <2>7, <2>8, <2>9 DEF ReservaYPago
<1>2. CASE SoloPago(p)
  <2>1. CASE IniciarPago(p)
    <3>1. /\ tarea'[p] = "pagar" /\ pc'[p] \in {"crear", "consultar"}
      BY <2>1 DEF IniciarPago, BloqueaReserva, Tipos, TypeOK
    <3>2. QED
      BY <3>1 DEF EnCursoDe, Completa
  <2>2. CASE ConsultarAlPagar(p)
    <3>1. /\ ConReserva(p) /\ UNCHANGED <<reserva, llegada>>
          /\ \E e \in {"crear", "guardar"} : \E f : Sigue(p, e, f)
      BY <2>2, <1>b DEF ConsultarAlPagar, ConReserva, SoloDelPago, EnEtapa, tablas
    <3>2. QED
      BY <3>1, <1>d DEF Etapas
  <2>3. CASE CrearIntencion(p)
    <3>1. ConReserva(p) /\ UNCHANGED <<reserva, llegada>> /\ \E f : Sigue(p, "escribir", f)
      BY <2>3, <1>b DEF CrearIntencion, ConReserva, EnEtapa, tablas
    <3>2. QED
      BY <3>1, <1>d DEF Etapas
  <2>4. CASE EscribirPago(p) \/ AvisoRetenida(p)
    BY <2>4, <1>c DEF EscribirPago, AvisoRetenida, EtapasSinCerrojo
  <2>5. CASE ConfirmarRetencion(p)
    BY <2>5, BloqueaPagoEnCurso DEF ConfirmarRetencion, SoloDelPago
  <2>6. CASE ConsultarAlConfirmar(p)
    <3>1. \/ Deshace(p)
          \/ tarea[p] \in SoloDelPago /\ \E f : Sigue(p, "guardar", f)
      BY <2>6 DEF ConsultarAlConfirmar, SoloDelPago
    <3>2. QED
      BY <3>1, <1>a, <1>e
  <2>7. QED
    BY <1>2, <2>1, <2>2, <2>3, <2>4, <2>5, <2>6 DEF SoloPago
<1>3. CASE Revision(p)
  <2>1. CASE RevisarRetenida(p) \/ SoltarVieja(p)
    BY <2>1, <1>c DEF RevisarRetenida, SoltarVieja, EtapasSinCerrojo
  <2>2. CASE BloquearAlRevisar(p) \/ Conciliar(p)
    BY <2>2, <1>a, BloqueaPagoEnCurso DEF BloquearAlRevisar, Conciliar, SoloDelPago
  <2>3. CASE ConsultarAlRevisar(p) \/ ConsultarAlConciliar(p)
    <3>1. \/ Deshace(p)
          \/ tarea[p] \in SoloDelPago /\ \E e \in {"guardar", "renovar"} : \E f : Sigue(p, e, f)
      BY <2>3 DEF ConsultarAlRevisar, ConsultarAlConciliar, SoloDelPago
    <3>2. QED
      BY <3>1, <1>a, <1>e
  <2>4. CASE Renovar(p) \/ NoRenovable(p)
    <3>1. tarea[p] \in SoloDelPago /\ \E f : Sigue(p, "guardarYSoltar", f)
      BY <2>4, <1>0 DEF Renovar, NoRenovable, OrdenDe, SoloDelPago, EnEtapa
    <3>2. QED
      BY <3>1, <1>e
  <2>5. QED
    BY <1>3, <2>1, <2>2, <2>3, <2>4 DEF Revision
<1>4. CASE Guardar(p)
  BY <1>4, <1>c DEF Guardar, EtapasSinCerrojo
<1>5. CASE GuardarYSoltar(p)
  <2>1. tarea[p] \in SoloDelPago /\ Sigue(p, "soltar", pago)
    BY <1>5, <1>0 DEF GuardarYSoltar, OrdenDe, SoloDelPago, EnEtapa
  <2>2. QED
    BY <2>1, <1>e
<1>6. CASE Caida(p)
  BY <1>6, <1>a DEF Caida
<1>7. QED
  BY <1>1, <1>2, <1>3, <1>4, <1>5, <1>6

\* The environment leaves the processes' operations as they knew them.
LEMMA ExternoEnCurso ==
    ASSUME Tipos, Orden, EnCurso, Externo \/ Confirmar \/ AvisoCobrada \/ AvisoCancelada
    PROVE  EnCurso'
<1>1. UNCHANGED <<pc, tarea>> /\ (llegada => llegada')
  BY DEF Externo, LlegaLaFecha, Envejece, ClientePaga, StripeSuelta, Confirmar,
     AvisoCobrada, AvisoCancelada, procesos, entorno
<1>2. bloqueoReserva = Nadie \/ reserva' = reserva
  BY DEF Externo, LlegaLaFecha, Envejece, ClientePaga, StripeSuelta, Confirmar,
     AvisoCobrada, AvisoCancelada, tablas
<1>3. ASSUME NEW p \in Procesos PROVE EnCursoDe(p)'
  <2>1. ConReserva(p) => reserva' = reserva
    BY <1>2, ConstantesOK DEF Orden, OrdenDe
  <2>2. QED
    BY <1>1, <2>1 DEF EnCurso, EnCursoDe, ConReserva, Cobra
<1>4. QED
  BY <1>3 DEF EnCurso

\* What every operation knows of its booking stays true while it has it locked.
LEMMA ConservaEnCurso == Tipos /\ Orden /\ EnCurso /\ [Next]_vars => EnCurso'
<1> SUFFICES ASSUME Tipos, Orden, EnCurso, [Next]_vars PROVE EnCurso'
  OBVIOUS
<1>1. CASE UNCHANGED vars
  BY <1>1 DEF vars, tablas, procesos, entorno, EnCurso, EnCursoDe, ConReserva, Cobra
<1>2. CASE Externo \/ Confirmar \/ AvisoCobrada \/ AvisoCancelada
  BY <1>2, ExternoEnCurso
<1>3. ASSUME NEW p \in Procesos,
             \/ ReservaYPago(p) \/ SoloPago(p) \/ Revision(p)
             \/ Guardar(p) \/ GuardarYSoltar(p) \/ Caida(p)
      PROVE  EnCurso'
  <2>1. Efecto(p) /\ Respeta(p) /\ EnCursoDe(p)'
    BY <1>3, PasoEfecto, PasoRespeta, PasoEnCurso
  <2>2. ASSUME NEW q \in Procesos \ {p} PROVE EnCursoDe(q)'
    <3>1. pc'[q] = pc[q] /\ tarea'[q] = tarea[q] /\ llegada' = llegada
      BY <2>1 DEF Respeta, Efecto
    <3>2. ConReserva(q) => reserva' = reserva
      BY <2>1, ReservaConCerrojo DEF Orden, OrdenDe
    <3>3. QED
      BY <3>1, <3>2 DEF EnCurso, EnCursoDe, ConReserva, Cobra
  <2>3. QED
    BY <2>1, <2>2 DEF EnCurso
<1>4. QED
  BY <1>1, <1>2, <1>3 DEF Next

\* The work done stays done, on its date, and what it charged stays charged.
LEMMA PasoAlDia == Tipos /\ Orden /\ EnCurso /\ AlDia /\ [Next]_vars => AlDia'
<1> SUFFICES ASSUME Tipos, Orden, EnCurso, AlDia, [Next]_vars PROVE AlDia'
  OBVIOUS
<1>0. NadaSeDeshace /\ devueltas \subseteq Intenciones
  BY StripeNoDeshace DEF Tipos, TypeOK
<1>1. CASE UNCHANGED <<clave, devueltas, reserva>> /\ (llegada => llegada')
  BY <1>0, <1>1 DEF AlDia, NadaSeDeshace
<1>2. CASE UNCHANGED vars
  BY <1>1, <1>2 DEF vars, tablas, stripe, entorno
<1>3. CASE Externo \/ AvisoCobrada \/ AvisoCancelada
  BY <1>1, <1>3
  DEF Externo, LlegaLaFecha, Envejece, ClientePaga, StripeSuelta, AvisoCobrada,
      AvisoCancelada, tablas, stripe, entorno
<1>4. CASE Confirmar
  BY <1>0, <1>4 DEF Confirmar, AlDia, NadaSeDeshace, stripe, entorno
<1>5. ASSUME NEW p \in Procesos,
             \/ ReservaYPago(p) \/ SoloPago(p) \/ Revision(p)
             \/ Guardar(p) \/ GuardarYSoltar(p) \/ Caida(p)
      PROVE  AlDia'
  <2>1. Efecto(p) /\ OrdenDe(p) /\ EnCursoDe(p)
    BY <1>5, PasoEfecto DEF Orden, EnCurso
  <2>2. reserva = "completed" => reserva' = "completed"
    BY <2>1, ReservaConCerrojo
  <2>3. reserva' = "completed" => llegada'
    <3>1. CASE reserva' = reserva
      BY <2>1, <3>1 DEF AlDia, Efecto
    <3>2. CASE reserva' # reserva /\ reserva' = "completed"
      <4>1. pc[p] = "guardar" /\ tarea[p] \in Completa
        BY <2>1, <3>2, ReservaConCerrojo DEF Destino, Completa, Cambios
      <4>2. llegada
        BY <2>1, <4>1 DEF EnCursoDe, ConReserva, SoloDelPago, Completa
      <4>3. QED
        BY <2>1, <4>2 DEF Efecto
    <3>3. QED
      BY <3>1, <3>2
  <2>4. \A i \in Intenciones : clave'[i][1] = "cobro" => reserva' = "completed"
    BY <2>1, <2>2 DEF AlDia, Efecto
  <2>5. ASSUME NEW i \in devueltas' PROVE intencion'[i] = "succeeded"
    <3>1. CASE i \in devueltas
      BY <1>0, <3>1 DEF AlDia, NadaSeDeshace
    <3>2. CASE i \notin devueltas
      <4>1. DevolverCobro(p)
        BY <2>1, <3>2 DEF Efecto
      <4>2. QED
        BY <3>2, <4>1 DEF DevolverCobro
    <3>3. QED
      BY <3>1, <3>2
  <2>6. QED
    BY <2>3, <2>4, <2>5 DEF AlDia
<1>6. QED
  BY <1>2, <1>3, <1>4, <1>5 DEF Next

\* While no process dies halfway, what is charged is of a booking completed, or
\* about to be.
LEMMA PasoCobrada ==
    ASSUME MaxCaidas = 0, Tipos, Orden, EnCurso, AlDia, CobradaCompleta, [Next]_vars
    PROVE  CobradaCompleta'
<1>1. CASE UNCHANGED <<intencion, pc, tarea, reserva>>
  BY <1>1 DEF CobradaCompleta
<1>2. CASE UNCHANGED vars
  BY <1>1, <1>2 DEF vars, tablas, stripe, procesos
<1>3. CASE LlegaLaFecha \/ Envejece \/ AvisoCobrada \/ AvisoCancelada
  BY <1>1, <1>3 DEF LlegaLaFecha, Envejece, AvisoCobrada, AvisoCancelada,
     tablas, stripe, procesos
<1>4. CASE Confirmar
  BY <1>4 DEF Confirmar, CobradaCompleta, stripe, procesos
<1>5. ASSUME NEW i \in Intenciones, ClientePaga(i) PROVE CobradaCompleta'
  BY <1>5 DEF ClientePaga, CobradaCompleta, AlDia, Tipos, TypeOK, tablas, procesos
<1>6. ASSUME NEW i \in Intenciones, StripeSuelta(i) PROVE CobradaCompleta'
  BY <1>6 DEF StripeSuelta, CobradaCompleta, Tipos, TypeOK, tablas, procesos
<1>7. ASSUME NEW p \in Procesos,
             \/ ReservaYPago(p) \/ SoloPago(p) \/ Revision(p)
             \/ Guardar(p) \/ GuardarYSoltar(p) \/ Caida(p)
      PROVE  CobradaCompleta'
  <2>1. /\ Efecto(p) /\ Respeta(p) /\ EnCursoDe(p) /\ OrdenDe(p)
        /\ reserva = "completed" => reserva' = "completed"
    BY <1>7, PasoEfecto, PasoRespeta, ReservaConCerrojo DEF EnCurso, Orden
  <2> SUFFICES ASSUME NEW i \in Intenciones, intencion'[i] = "succeeded"
               PROVE  \/ reserva' = "completed"
                      \/ \E q \in Procesos : pc'[q] = "guardar" /\ tarea'[q] \in Completa
    BY DEF CobradaCompleta
  <2>2. CASE intencion[i] # "succeeded"
    <3>1. CapturarRetencion(p)
      BY <2>1, <2>2 DEF Efecto
    <3>2. pc[p] = "capturar" /\ pc'[p] = "guardar" /\ tarea' = tarea
      BY <3>1 DEF CapturarRetencion, Sigue, EnEtapa, Tipos, TypeOK
    <3>3. tarea[p] \in Completa \/ reserva = "completed"
      BY <2>1, <3>2 DEF EnCursoDe, ConReserva, Cobra, Completa
    <3>4. QED
      BY <2>1, <3>2, <3>3
  <2>3. CASE intencion[i] = "succeeded" /\ reserva # "completed"
    <3>1. PICK q \in Procesos : pc[q] = "guardar" /\ tarea[q] \in Completa
      BY <2>3 DEF CobradaCompleta
    <3>2. CASE q # p
      BY <2>1, <3>1, <3>2 DEF Respeta
    <3>3. CASE q = p
      <4>1. ~Caida(p)
        BY ConstantesOK DEF Caida, SinRespuesta, Tipos, TypeOK
      <4>2. Guardar(p)
        BY <1>7, <3>1, <3>3, <4>1
        DEF ReservaYPago, SoloPago, Revision, CambiarEstado, Caducar, Capturar, Reembolsar,
            Resolver, BloquearPago, EsperaAgotada, ConsultarAlSoltar,
            ConsultaFallidaAlSoltar, ConsultarAlCobrar, CancelarAlSoltar,
            CancelacionFallida, CapturarRetencion, DevolverCobro, CapturaRechazada,
            FalloDeStripe, IniciarPago, ConsultarAlPagar, CrearIntencion, EscribirPago,
            ConfirmarRetencion, ConsultarAlConfirmar, AvisoRetenida, RevisarRetenida,
            BloquearAlRevisar, ConsultarAlRevisar, Renovar, NoRenovable, SoltarVieja,
            Conciliar, ConsultarAlConciliar, GuardarYSoltar, EnEtapa
      <4>3. QED
        BY <3>1, <3>3, <4>2 DEF Guardar, Destino, Completa
    <3>4. QED
      BY <3>2, <3>3
  <2>4. QED
    BY <2>1, <2>2, <2>3
<1>8. QED
  BY <1>2, <1>3, <1>4, <1>5, <1>6, <1>7 DEF Next, Externo

\* What the promise sees of the state.
Cobrados == {i \in Intenciones : intencion[i] = "succeeded"}
Prometido == Orden /\ Nacidas /\ Una /\ EnCurso /\ AlDia

\* One charge at most is made: a new one is the only one.
LEMMA CobroNuevo ==
    ASSUME Tipos, [Next]_vars, Una', Cobrados' # Cobrados
    PROVE  Cobrados = {} /\ \E i \in Intenciones : Cobrados' = {i} /\ intencion[i] # "succeeded"
<1>1. \A i, j \in Intenciones :
        intencion'[i] = "succeeded" /\ intencion'[j] = "succeeded" => i = j
  BY DEF Una, SoloVive, Viva
<1>2. Cobrados \subseteq Cobrados'
  BY StripeNoDeshace DEF NadaSeDeshace, Cobrados
<1>3. PICK i \in Cobrados' : i \notin Cobrados
  BY <1>2
<1>4. Cobrados' = {i} /\ i \in Intenciones
  BY <1>1, <1>3 DEF Cobrados
<1>5. QED
  BY <1>2, <1>3, <1>4 DEF Cobrados

\* While p has the booking locked and is not about to complete it, what has been
\* charged is of a booking already completed.
LEMMA CobradaConCerrojo ==
    ASSUME Orden, CobradaCompleta, NEW p \in Procesos, bloqueoReserva = p,
           ~(pc[p] = "guardar" /\ tarea[p] \in Completa), reserva # "completed"
    PROVE  Cobrados = {}
BY DEF Orden, OrdenDe, CobradaCompleta, Cobrados, ConReserva, SoloDelPago, Completa

\* A step of a process keeps the promise.
LEMMA ProcesoCumple ==
    ASSUME MaxCaidas = 0, Tipos, Prometido, CobradaCompleta, [Next]_vars, Una',
           NEW p \in Procesos,
           \/ ReservaYPago(p) \/ SoloPago(p) \/ Revision(p)
           \/ Guardar(p) \/ GuardarYSoltar(p) \/ Caida(p)
    PROVE  [Promesa!Next]_(Promesa!promesa)
<1>1. /\ Efecto(p) /\ OrdenDe(p) /\ EnCursoDe(p) /\ llegada' = llegada
      /\ Cobrados = {i \in Intenciones : intencion[i] = "succeeded"}
  BY PasoEfecto DEF Efecto, Prometido, Orden, EnCurso, Cobrados
<1>2. CASE reserva' # reserva
  <2>1. /\ pc[p] = "guardar" /\ tarea[p] \in Cambios \cup {"caducar"}
        /\ reserva' = Destino(tarea[p]) /\ bloqueoReserva = p /\ reserva # "completed"
    BY <1>1, <1>2, ReservaConCerrojo DEF Prometido
  <2>2. UNCHANGED <<intencion, devueltas>>
    BY <1>1, <1>2 DEF Efecto, Guardar, stripe
  <2>3. Cobrados' = Cobrados
    BY <2>2 DEF Cobrados
  <2>4. ConReserva(p)
    BY <2>1 DEF ConReserva, SoloDelPago, Cambios
  <2>5. CASE tarea[p] \in Completa
    <3>1. reserva = "confirmed" /\ llegada /\ reserva' = "completed"
      BY <1>1, <2>1, <2>4, <2>5 DEF EnCursoDe, Destino, Completa
    <3>2. Promesa!Completar
      BY <1>1, <2>2, <2>3, <3>1 DEF Promesa!Completar, Cobrados
    <3>3. QED
      BY <3>2 DEF Promesa!Next
  <2>6. CASE tarea[p] \notin Completa
    <3>1. Cobrados = {}
      BY <2>1, <2>6, CobradaConCerrojo DEF Prometido
    <3>2. CASE tarea[p] = "rechazar"
      <4>1. reserva = "pending" /\ reserva' = "rejected"
        BY <1>1, <2>1, <2>4, <3>2 DEF EnCursoDe, Destino
      <4>2. Promesa!Rechazar
        BY <1>1, <2>2, <2>3, <3>1, <4>1 DEF Promesa!Rechazar, Cobrados
      <4>3. QED
        BY <4>2 DEF Promesa!Next
    <3>3. CASE tarea[p] \in {"cancelar", "caducar"}
      <4>1. reserva \in {"pending", "confirmed"} /\ reserva' = "cancelled"
        BY <1>1, <2>1, <2>4, <3>3 DEF EnCursoDe, Destino
      <4>2. Promesa!Cancelar
        BY <1>1, <2>2, <2>3, <3>1, <4>1 DEF Promesa!Cancelar, Cobrados
      <4>3. QED
        BY <4>2 DEF Promesa!Next
    <3>4. QED
      BY <2>1, <2>6, <3>2, <3>3 DEF Cambios, Completa
  <2>7. QED
    BY <2>5, <2>6
<1>3. CASE reserva' = reserva /\ Cobrados' # Cobrados
  <2>1. PICK i \in Intenciones : Cobrados = {} /\ Cobrados' = {i} /\ intencion[i] # "succeeded"
    BY <1>3, CobroNuevo
  <2>2. CapturarRetencion(p)
    BY <1>1, <2>1 DEF Efecto, Cobrados
  <2>3. Cobra(p) /\ ConReserva(p) /\ UNCHANGED devueltas
    BY <1>1, <2>2 DEF CapturarRetencion, EnCursoDe, ConReserva, EnEtapa
  <2>4. reserva \in {"confirmed", "completed"} /\ llegada
    BY <1>1, <2>3 DEF EnCursoDe, Cobra, Completa, Prometido, AlDia
  <2>5. Promesa!Cobrar
    BY <1>1, <1>3, <2>1, <2>3, <2>4 DEF Promesa!Cobrar, Cobrados
  <2>6. QED
    BY <2>5 DEF Promesa!Next
<1>4. CASE reserva' = reserva /\ Cobrados' = Cobrados /\ devueltas' # devueltas
  <2>1. /\ DevolverCobro(p) /\ pc[p] = "devolver" /\ mem[p].pi \in Cobrados
        /\ devueltas' = devueltas \cup {mem[p].pi}
    <3>1. DevolverCobro(p) /\ pc[p] = "devolver"
      BY <1>1, <1>4 DEF Efecto, DevolverCobro, EnEtapa
    <3>2. mem[p].pi \in Intenciones
      BY <3>1, FilasConIntencion DEF EtapasConIntencion
    <3>3. QED
      BY <3>1, <3>2 DEF DevolverCobro, Cobrados
  <2>2. Cobrados = {mem[p].pi}
    BY <2>1 DEF Prometido, Una, SoloVive, Viva, Cobrados
  <2>3. devueltas = {} /\ devueltas' = Cobrados
    <3>1. devueltas \subseteq Cobrados
      BY DEF Prometido, AlDia, Tipos, TypeOK, Cobrados
    <3>2. QED
      BY <1>4, <2>1, <2>2, <3>1
  <2>4. reserva = "completed"
    <3>1. bloqueoReserva = p
      BY <1>1, <2>1 DEF OrdenDe, ConReserva
    <3>2. QED
      BY <2>1, <3>1, CobradaConCerrojo DEF Prometido
  <2>5. Promesa!Devolver
    BY <1>1, <1>4, <2>1, <2>3, <2>4 DEF Promesa!Devolver, Cobrados
  <2>6. QED
    BY <2>5 DEF Promesa!Next
<1>5. CASE reserva' = reserva /\ Cobrados' = Cobrados /\ devueltas' = devueltas
  BY <1>1, <1>5 DEF Promesa!promesa, Cobrados
<1>6. QED
  BY <1>2, <1>3, <1>4, <1>5

\* Every step of the system keeps the promise.
LEMMA PasoCumple ==
    ASSUME MaxCaidas = 0, Tipos, Prometido, CobradaCompleta, [Next]_vars, Una'
    PROVE  [Promesa!Next]_(Promesa!promesa)
<1>1. CASE UNCHANGED <<reserva, llegada, intencion, devueltas>>
  BY <1>1 DEF Promesa!promesa
<1>2. CASE UNCHANGED vars
  BY <1>1, <1>2 DEF vars, tablas, stripe, entorno
<1>3. CASE Envejece \/ AvisoCobrada \/ AvisoCancelada
  BY <1>1, <1>3 DEF Envejece, AvisoCobrada, AvisoCancelada, stripe, entorno
<1>4. CASE LlegaLaFecha
  BY <1>4 DEF LlegaLaFecha, tablas, stripe, Promesa!LlegaLaFecha, Promesa!Next
<1>5. CASE Confirmar
  BY <1>5 DEF Confirmar, stripe, entorno, Promesa!Aceptar, Promesa!Next
<1>6. ASSUME NEW i \in Intenciones, ClientePaga(i) \/ StripeSuelta(i)
      PROVE  [Promesa!Next]_(Promesa!promesa)
  <2>1. UNCHANGED <<reserva, llegada, devueltas>>
    BY <1>6 DEF ClientePaga, StripeSuelta, tablas, entorno
  <2>2. CASE Cobrados' = Cobrados
    BY <2>1, <2>2 DEF Cobrados, Promesa!promesa
  <2>3. CASE Cobrados' # Cobrados
    <3>1. PICK j \in Intenciones :
            Cobrados = {} /\ Cobrados' = {j} /\ intencion[j] # "succeeded"
      BY <2>3, CobroNuevo
    <3>2. clave[i][1] = "cobro"
      BY <1>6, <3>1 DEF ClientePaga, StripeSuelta, Tipos, TypeOK, Cobrados
    <3>3. reserva = "completed" /\ llegada
      BY <3>2 DEF Prometido, AlDia
    <3>4. Promesa!Cobrar
      BY <2>1, <3>1, <3>3 DEF Promesa!Cobrar, Cobrados
    <3>5. QED
      BY <3>4 DEF Promesa!Next
  <2>4. QED
    BY <2>2, <2>3
<1>7. QED
  BY <1>2, <1>3, <1>4, <1>5, <1>6, ProcesoCumple DEF Next, Externo

\* At the start nothing is promised yet.
LEMMA IniciaPrometido ==
    Init => EnCurso /\ AlDia /\ CobradaCompleta /\ Promesa!Init
<1> SUFFICES ASSUME Init PROVE EnCurso /\ AlDia /\ CobradaCompleta /\ Promesa!Init
  OBVIOUS
<1>1. EnCurso
  BY DEF Init, EnCurso, EnCursoDe, ConReserva
<1>2. AlDia /\ CobradaCompleta
  BY DEF Init, AlDia, CobradaCompleta, SinClave
<1>3. Promesa!Init
  BY DEF Init, Promesa!Init
<1>4. QED
  BY <1>1, <1>2, <1>3

\* The invariant behind the promise, whatever fails: every operation finds the
\* booking as it left it, and what is given back had been charged.
THEOREM SpecPrometido == Spec => []Prometido
<1>1. Init => EnCurso /\ AlDia
  BY IniciaPrometido
<1>2. Tipos /\ Orden /\ EnCurso /\ [Next]_vars => EnCurso'
  BY ConservaEnCurso
<1>3. Spec => [](EnCurso /\ AlDia)
  BY <1>1, <1>2, PasoAlDia, SpecOrden, SpecTipos, PTL DEF Spec
<1>4. QED
  BY <1>3, SpecUna, PTL DEF Prometido

\* What the program does to a booking and to its client's money, for any number
\* of requests, jobs, intents, renewals and errors of Stripe, is what the platform
\* promises, while what Stripe does is answered and no process dies halfway.
THEOREM ProgramaCumple == ASSUME MaxCaidas = 0 PROVE Spec => CumpleLaPromesa
<1>1. Init => CobradaCompleta /\ Promesa!Init
  BY IniciaPrometido
<1>2. Tipos /\ Prometido /\ CobradaCompleta /\ [Next]_vars => CobradaCompleta'
  BY PasoCobrada DEF Prometido
<1>3. Tipos /\ Prometido /\ Prometido' /\ CobradaCompleta /\ [Next]_vars
        => [Promesa!Next]_(Promesa!promesa)
  BY PasoCumple DEF Prometido
<1>4. QED
  BY <1>1, <1>2, <1>3, SpecPrometido, SpecTipos, PTL
  DEF Spec, CumpleLaPromesa, Promesa!Spec

-----------------------------------------------------------------------------
(* The payment page: the order in which intents are handed out.            *)

\* Stripe hands them out in order, each of them after the one its key names.
EnFila ==
    \A i \in Intenciones : intencion[i] # "libre" =>
        /\ clave[i][2] < i
        /\ \A j \in 1 .. (i - 1) : intencion[j] # "libre"

\* What createPaymentIntent is about to put in the row is not before what clients
\* have been given, and is after it if it is new; a renewal, after the row's.
VaDetras(p) ==
    /\ tarea[p] = "pagar" /\ pc[p] \in {"consultar", "crear", "guardar"} =>
         \A i \in entregadas : i <= mem[p].pi
    /\ pc[p] = "escribir" => \A i \in entregadas : i < mem[p].pi
    /\ pc[p] = "guardarYSoltar" => pago.pi <= mem[p].pi
    /\ tarea[p] = "pagar" /\ pc[p] = "consultar" => bloqueoPago # p

EnTurno == /\ EnFila
           /\ \A i \in entregadas : i <= pago.pi
           /\ \A p \in Procesos : VaDetras(p)

\* A step that hands out no intent leaves their order.
LEMMA QuietaLaFila ==
    ASSUME EnFila, clave' = clave,
           \A i \in Intenciones : intencion'[i] = "libre" <=> intencion[i] = "libre"
    PROVE  EnFila'
<1> SUFFICES ASSUME NEW i \in Intenciones, intencion'[i] # "libre"
             PROVE  clave'[i][2] < i /\ \A j \in 1 .. (i - 1) : intencion'[j] # "libre"
  BY DEF EnFila
<1>1. clave[i][2] < i /\ \A j \in 1 .. (i - 1) : intencion[j] # "libre"
  BY DEF EnFila
<1>2. \A j \in 1 .. (i - 1) : j \in Intenciones
  BY ConstantesOK DEF Intenciones
<1>3. QED
  BY <1>1, <1>2

\* The one a call is given comes after the one its key names.
LEMMA CreaEnFila ==
    ASSUME Tipos, Nacidas, EnFila, NEW x \in {"reserva", "cobro", "renovacion"},
           NEW b \in 0 .. MaxIntenciones, Nacida(b),
           NEW e \in EstadosIntencion \ {"libre"}, NEW i \in Intenciones,
           Crea(<<x, b>>, e, i)
    PROVE  EnFila' /\ b < i
<1>1. b \in Nat /\ i \in Nat /\ i > 0 /\ Intenciones \subseteq Nat
  BY ConstantesOK DEF Intenciones
<1>2. CASE clave[i] = <<x, b>> /\ UNCHANGED stripe
  <2>1. intencion[i] # "libre"
    BY <1>2 DEF Nacidas, SinClave
  <2>2. clave[i][2] = b
    BY <1>2
  <2>3. QED
    BY <1>2, <2>1, <2>2, QuietaLaFila DEF EnFila, stripe
<1>3. CASE ~(clave[i] = <<x, b>> /\ UNCHANGED stripe)
  <2>1. /\ intencion[i] = "libre"
        /\ \A j \in 1 .. (i - 1) : intencion[j] # "libre"
        /\ intencion' = [intencion EXCEPT ![i] = e]
        /\ clave' = [clave EXCEPT ![i] = <<x, b>>]
    BY <1>3 DEF Crea
  <2>2. b < i
    <3>1. b # i
      BY <2>1, <1>1 DEF Nacida
    <3>2. ~(b > i)
      <4> SUFFICES ASSUME b > i PROVE FALSE
        OBVIOUS
      <4>1. b \in Intenciones /\ intencion[b] # "libre" /\ i \in 1 .. (b - 1)
        BY <1>1, ConstantesOK DEF Nacida, Intenciones
      <4>2. QED
        BY <2>1, <4>1 DEF EnFila
    <3>3. QED
      BY <1>1, <3>1, <3>2
  <2>3. EnFila'
    <3> SUFFICES ASSUME NEW k \in Intenciones, intencion'[k] # "libre"
                 PROVE  /\ clave'[k][2] < k
                        /\ \A j \in 1 .. (k - 1) : intencion'[j] # "libre"
      BY DEF EnFila
    <3>1. \A j \in Intenciones : intencion[j] # "libre" => intencion'[j] # "libre"
      BY <2>1 DEF Tipos, TypeOK
    <3>2. \A j \in 1 .. (k - 1) : j \in Intenciones
      BY ConstantesOK DEF Intenciones
    <3>3. CASE k = i
      <4>1. clave'[k] = <<x, b>>
        BY <2>1, <3>3 DEF Tipos, TypeOK
      <4>2. QED
        BY <2>1, <2>2, <3>1, <3>2, <3>3, <4>1
    <3>4. CASE k # i
      <4>1. clave'[k] = clave[k] /\ intencion[k] # "libre"
        BY <2>1, <3>4 DEF Tipos, TypeOK
      <4>2. QED
        BY <3>1, <3>2, <4>1 DEF EnFila
    <3>5. QED
      BY <3>3, <3>4
  <2>4. QED
    BY <2>2, <2>3
<1>4. QED
  BY <1>2, <1>3

\* What the others are about to put in the row depends on what is given and on the
\* row's intent.
LEMMA VaDetrasOtro ==
    ASSUME Tipos, NEW p \in Procesos, Respeta(p), NEW q \in Procesos \ {p}, VaDetras(q),
           pago'.pi = pago.pi, entregadas' = entregadas
    PROVE  VaDetras(q)'
<1>1. pc'[q] = pc[q] /\ tarea'[q] = tarea[q] /\ mem'[q] = mem[q]
  BY DEF Respeta
<1>2. bloqueoPago # q => bloqueoPago' # q
  BY ConstantesOK DEF Respeta
<1>3. QED
  BY <1>1, <1>2 DEF VaDetras

\* So that most steps only have to see to the process's own.
LEMMA EnTurnoSegun ==
    ASSUME Tipos, EnTurno, NEW p \in Procesos, Respeta(p), EnFila',
           pago'.pi = pago.pi, entregadas' = entregadas, VaDetras(p)'
    PROVE  EnTurno'
BY VaDetrasOtro DEF EnTurno

\* Nothing is asked of most stages.
LEMMA EnTurnoAjeno ==
    ASSUME Tipos, EnTurno, NEW p \in Procesos, Respeta(p), EnFila',
           pago'.pi = pago.pi, entregadas' = entregadas, ~Atento(p)'
    PROVE  EnTurno'
<1>1. VaDetras(p)'
  BY DEF Atento, VaDetras
<1>2. QED
  BY <1>1, EnTurnoSegun

\* The operations on the booking and its payment hand nothing out.
LEMMA PasoEnTurnoReserva ==
    ASSUME Tipos, Orden, EnTurno, NEW p \in Procesos, ReservaYPago(p)
    PROVE  EnTurno'
<1>0. Respeta(p) /\ OrdenDe(p) /\ EnFila
  BY PasoRespeta DEF Orden, EnTurno
<1>b. ASSUME Deshace(p) PROVE EnTurno'
  <2>1. pc'[p] = "libre" /\ UNCHANGED <<pago, intencion, clave, entregadas>>
    BY <1>b DEF Deshace, Pasa, Tipos, TypeOK, tablas, stripe
  <2>2. QED
    BY <1>0, <2>1, QuietaLaFila, EnTurnoAjeno DEF Atento
<1>c. ASSUME NEW t, BloqueaReserva(p, t, "pago", SinPago) PROVE EnTurno'
  <2>1. pc'[p] = "pago" /\ UNCHANGED <<pago, intencion, clave, entregadas>>
    BY <1>c DEF BloqueaReserva, Tipos, TypeOK, tablas, stripe
  <2>2. QED
    BY <1>0, <2>1, QuietaLaFila, EnTurnoAjeno DEF Atento
<1>1. CASE \/ \E t \in Cambios : CambiarEstado(p, t)
           \/ Caducar(p) \/ Capturar(p) \/ Reembolsar(p) \/ Resolver(p)
  BY <1>1, <1>b, <1>c DEF CambiarEstado, Caducar, Capturar, Reembolsar, Resolver
<1>2. CASE EsperaAgotada(p) \/ CapturaRechazada(p) \/ FalloDeStripe(p)
  BY <1>2, <1>b DEF EsperaAgotada, CapturaRechazada, FalloDeStripe
<1>3. CASE \/ BloquearPago(p) \/ ConsultarAlSoltar(p) \/ ConsultaFallidaAlSoltar(p)
           \/ ConsultarAlCobrar(p) \/ DevolverCobro(p)
  <2>1. \/ Deshace(p)
        \/ /\ UNCHANGED <<pago, intencion, clave, entregadas>>
           /\ \E e \in {"consultar", "cancelar", "capturar", "devolver", "guardar"} : \E f :
                Sigue(p, e, f)
           /\ pc[p] \in {"pago", "devolver"} \/ Suelta(p) \/ Cobra(p)
    <3>1. CASE BloquearPago(p)
      BY <3>1, EtapasTrasBloquear DEF BloquearPago, EnEtapa, tablas, stripe
    <3>2. CASE ConsultarAlSoltar(p) \/ ConsultaFallidaAlSoltar(p)
      BY <3>2 DEF ConsultarAlSoltar, ConsultaFallidaAlSoltar, tablas, stripe
    <3>3. CASE ConsultarAlCobrar(p)
      BY <3>3 DEF ConsultarAlCobrar, tablas, stripe
    <3>4. CASE DevolverCobro(p)
      BY <3>4 DEF DevolverCobro, EnEtapa, tablas
    <3>5. QED
      BY <1>3, <3>1, <3>2, <3>3, <3>4
  <2>2. CASE ~Deshace(p)
    <3>1. /\ UNCHANGED <<pago, intencion, clave, entregadas>>
          /\ pc'[p] \in {"consultar", "cancelar", "capturar", "devolver", "guardar"}
          /\ tarea'[p] = tarea[p] /\ tarea[p] # "pagar"
      BY <1>0, <2>1, <2>2 DEF Sigue, OrdenDe, Suelta, Cobra, Tipos, TypeOK
    <3>2. QED
      BY <1>0, <3>1, QuietaLaFila, EnTurnoAjeno DEF Atento
  <2>3. QED
    BY <1>b, <2>2
<1>4. CASE CancelarAlSoltar(p) \/ CancelacionFallida(p) \/ CapturarRetencion(p)
  <2>1. /\ UNCHANGED <<pago, clave, entregadas>>
        /\ (\E f : Sigue(p, "guardar", f)) \/ Pasa(p, "libre", "ninguna")
        /\ pc[p] \in {"cancelar", "capturar"}
        /\ \/ UNCHANGED stripe
           \/ \E e \in {"canceled", "succeeded"} :
                intencion' = [intencion EXCEPT ![mem[p].pi] = e]
        /\ UNCHANGED stripe \/ intencion[mem[p].pi] # "libre"
    <3>1. CASE CancelarAlSoltar(p) \/ CancelacionFallida(p)
      BY <3>1 DEF CancelarAlSoltar, CancelacionFallida, Cancela, Cancelable, EnEtapa, tablas,
         stripe
    <3>2. CASE CapturarRetencion(p)
      BY <3>2 DEF CapturarRetencion, EnEtapa, tablas, stripe
    <3>3. QED
      BY <1>4, <3>1, <3>2
  <2>2. EnFila'
    <3>1. \A i \in Intenciones : intencion'[i] = "libre" <=> intencion[i] = "libre"
      BY <2>1 DEF Tipos, TypeOK, stripe
    <3>2. QED
      BY <1>0, <2>1, <3>1, QuietaLaFila
  <2>3. pc'[p] \in {"guardar", "libre"} /\ tarea'[p] \in {tarea[p], "ninguna"}
    BY <2>1 DEF Sigue, Pasa, Tipos, TypeOK
  <2>4. tarea[p] # "pagar"
    BY <1>0, <2>1 DEF OrdenDe
  <2>5. QED
    BY <1>0, <2>1, <2>2, <2>3, <2>4, EnTurnoAjeno DEF Atento
<1>5. QED
  BY <1>1, <1>2, <1>3, <1>4 DEF ReservaYPago

\* createPaymentIntent takes its turn with the booking locked.
LEMMA PasoEnTurnoPago ==
    ASSUME Tipos, Orden, Nacidas, Una, EnTurno, NEW p \in Procesos, SoloPago(p)
    PROVE  EnTurno'
<1>0. Respeta(p) /\ OrdenDe(p) /\ UnaDe(p) /\ EnFila /\ VaDetras(p)
  BY PasoRespeta DEF Orden, Una, EnTurno
<1>a. /\ pago.pi \in Nat /\ mem[p].pi \in Nat /\ mem[p].pi \in 0 .. MaxIntenciones
      /\ entregadas \subseteq Intenciones /\ Intenciones \subseteq Nat
  BY ConstantesOK DEF Tipos, TypeOK, Filas, Intenciones
<1>b. ASSUME Deshace(p) PROVE EnTurno'
  <2>1. pc'[p] = "libre" /\ UNCHANGED <<pago, intencion, clave, entregadas>>
    BY <1>b DEF Deshace, Pasa, Tipos, TypeOK, tablas, stripe
  <2>2. QED
    BY <1>0, <2>1, QuietaLaFila, EnTurnoAjeno DEF Atento
<1>1. CASE IniciarPago(p)
  <2>1. /\ tarea'[p] = "pagar" /\ mem'[p] = pago
        /\ pc'[p] \in {"crear", "consultar"} /\ pc[p] = "libre"
        /\ UNCHANGED <<pago, intencion, clave, entregadas, bloqueoPago>>
    BY <1>1 DEF IniciarPago, BloqueaReserva, EnEtapa, Tipos, TypeOK, tablas, stripe
  <2>2. bloqueoPago' # p
    BY <1>0, <2>1 DEF OrdenDe, EtapasSinCerrojo
  <2>3. VaDetras(p)'
    BY <2>1, <2>2 DEF VaDetras, EnTurno
  <2>4. QED
    BY <1>0, <2>1, <2>3, QuietaLaFila, EnTurnoSegun
<1>2. CASE ConsultarAlPagar(p)
  <2> DEFINE enStripe == intencion[mem[p].pi]
  <2>1. /\ pc[p] = "consultar" /\ tarea[p] = "pagar" /\ bloqueoReserva = p
    BY <1>0, <1>2 DEF ConsultarAlPagar, EnEtapa, OrdenDe, ConReserva, SoloDelPago
  <2>2. /\ UNCHANGED <<pago, intencion, clave>>
        /\ entregadas' = IF enStripe = "pagable" THEN entregadas \cup {mem[p].pi}
                                                 ELSE entregadas
    BY <1>2 DEF ConsultarAlPagar, tablas, stripe
  <2>3. /\ pc'[p] \in {"crear", "guardar"}
        /\ mem'[p].pi = mem[p].pi /\ tarea'[p] = "pagar"
    BY <1>2, <2>1 DEF ConsultarAlPagar, Sigue, Reflejada, Tipos, TypeOK
  <2>4. enStripe = "pagable" => mem[p].pi = pago.pi
    BY <1>0, <2>1 DEF UnaDe
  <2>5. EnFila'
    BY <1>0, <2>2, QuietaLaFila
  <2>6. \A i \in entregadas : i <= mem[p].pi
    BY <1>0, <2>1 DEF VaDetras
  <2>7. VaDetras(p)'
    BY <1>a, <2>2, <2>3, <2>6 DEF VaDetras
  <2>8. \A i \in entregadas' : i <= pago'.pi
    <3>1. pago.pi <= pago.pi /\ \A i \in entregadas : i <= pago.pi
      BY <1>a DEF EnTurno
    <3>2. \A i \in entregadas' : i \in entregadas \/ i = pago.pi
      BY <2>2, <2>4
    <3>3. QED
      BY <2>2, <3>1, <3>2
  <2>9. ASSUME NEW q \in Procesos \ {p} PROVE VaDetras(q)'
    <3>1. /\ pc'[q] = pc[q] /\ tarea'[q] = tarea[q] /\ mem'[q] = mem[q]
          /\ pc[q] \notin {"crear", "escribir"}
          /\ tarea[q] = "pagar" => pc[q] \notin {"consultar", "guardar"}
      BY <1>0, <2>1, NadieMas DEF Respeta
    <3>2. QED
      BY <2>2, <3>1 DEF VaDetras, EnTurno
  <2>10. QED
    BY <2>5, <2>7, <2>8, <2>9 DEF EnTurno
<1>3. CASE CrearIntencion(p)
  <2>1. PICK t \in {"cobro", "reserva"}, i \in Intenciones :
          /\ Crea(<<t, mem[p].pi>>, "pagable", i)
          /\ Sigue(p, "escribir", [estado |-> "pending", pi |-> i, paidAt |-> "nunca"])
    BY <1>3 DEF CrearIntencion
  <2>2. UNCHANGED <<pago, entregadas>> /\ pc[p] = "crear" /\ tarea[p] = "pagar"
    BY <1>0, <1>3 DEF CrearIntencion, EnEtapa, OrdenDe, tablas
  <2>3. EnFila' /\ mem[p].pi < i
    <3>1. Nacida(mem[p].pi) /\ "pagable" \in EstadosIntencion \ {"libre"}
      BY DEF Nacidas, EstadosIntencion
    <3>2. Crea(<<t, mem[p].pi>>, "pagable", i)
      BY <2>1
    <3>3. QED
      BY <1>0, <1>a, <3>1, <3>2, CreaEnFila
  <2>4. pc'[p] = "escribir" /\ mem'[p].pi = i
    BY <2>1 DEF Sigue, Tipos, TypeOK
  <2>5. \A j \in entregadas : j <= mem[p].pi
    BY <1>0, <2>2 DEF VaDetras
  <2>6. VaDetras(p)'
    <3>0. \A a, b, c \in Nat : a <= b /\ b < c => a < c
      OBVIOUS
    <3>1. \A j \in entregadas : j \in Nat
      BY <1>a
    <3>2. mem[p].pi \in Nat /\ i \in Nat
      BY <1>a
    <3>3. \A j \in entregadas : j < i
      BY <2>3, <2>5, <3>0, <3>1, <3>2
    <3>4. QED
      BY <2>2, <2>4, <3>3 DEF VaDetras
  <2>7. QED
    BY <1>0, <2>2, <2>3, <2>6, EnTurnoSegun
<1>4. CASE EscribirPago(p)
  <2>1. /\ pc[p] = "escribir" /\ pago' = mem[p] /\ entregadas' = entregadas \cup {mem[p].pi}
        /\ bloqueoPago \in {Nadie, p} /\ bloqueoReserva = p /\ pc'[p] = "libre"
        /\ UNCHANGED <<intencion, clave>>
    BY <1>0, <1>4 DEF EscribirPago, EnEtapa, Pasa, OrdenDe, ConReserva, Tipos, TypeOK, stripe
  <2>2. \A i \in entregadas : i < mem[p].pi
    BY <1>0, <2>1 DEF VaDetras
  <2>3. \A i \in entregadas' : i <= pago'.pi
    <3>0. \A m, n \in Nat : n <= n /\ (m < n => m <= n)
      OBVIOUS
    <3>1. mem[p].pi <= mem[p].pi /\ \A i \in entregadas : i <= mem[p].pi
      <4>1. \A i \in entregadas : i \in Nat
        BY <1>a
      <4>2. QED
        BY <1>a, <2>2, <3>0, <4>1
    <3>2. QED
      BY <2>1, <3>1
  <2>4. ASSUME NEW q \in Procesos PROVE ~Atento(q)' \/ pc'[q] = "renovar"
    <3>1. CASE q = p
      BY <2>1, <3>1 DEF Atento
    <3>2. CASE q # p
      BY <1>0, <2>1, <3>2, NadieMas DEF Atento, Respeta
    <3>3. QED
      BY <3>1, <3>2
  <2>5. \A q \in Procesos : VaDetras(q)'
    BY <2>4 DEF Atento, VaDetras
  <2>6. QED
    BY <1>0, <2>1, <2>3, <2>5, QuietaLaFila DEF EnTurno
<1>5. CASE ConfirmarRetencion(p)
  <2>1. /\ pc'[p] = "consultar" /\ tarea'[p] = "confirmarPago"
        /\ UNCHANGED <<pago, intencion, clave, entregadas>>
    BY <1>5 DEF ConfirmarRetencion, BloqueaPago, Tipos, TypeOK, tablas, stripe
  <2>2. QED
    BY <1>0, <2>1, QuietaLaFila, EnTurnoAjeno DEF Atento
<1>6. CASE ConsultarAlConfirmar(p)
  <2>1. \/ Deshace(p)
        \/ /\ pc'[p] = "guardar" /\ tarea'[p] = "confirmarPago"
           /\ UNCHANGED <<pago, intencion, clave, entregadas>>
    BY <1>6 DEF ConsultarAlConfirmar, Sigue, Tipos, TypeOK, tablas, stripe
  <2>2. QED
    BY <1>0, <1>b, <2>1, QuietaLaFila, EnTurnoAjeno DEF Atento
<1>7. CASE AvisoRetenida(p)
  <2>1. pago'.pi = pago.pi /\ pc'[p] = "resolver" /\ UNCHANGED <<intencion, clave, entregadas>>
    BY <1>7 DEF AvisoRetenida, Retenida, Pasa, Tipos, TypeOK, stripe
  <2>2. QED
    BY <1>0, <2>1, QuietaLaFila, EnTurnoAjeno DEF Atento
<1>8. QED
  BY <1>1, <1>2, <1>3, <1>4, <1>5, <1>6, <1>7 DEF SoloPago

\* The review takes it with the payment locked.
LEMMA PasoEnTurnoRevision ==
    ASSUME Tipos, Orden, Nacidas, EnTurno, NEW p \in Procesos, Revision(p)
    PROVE  EnTurno'
<1>0. Respeta(p) /\ OrdenDe(p) /\ EnFila
  BY PasoRespeta DEF Orden, EnTurno
<1>b. ASSUME Deshace(p) PROVE EnTurno'
  <2>1. pc'[p] = "libre" /\ UNCHANGED <<pago, intencion, clave, entregadas>>
    BY <1>b DEF Deshace, Pasa, Tipos, TypeOK, tablas, stripe
  <2>2. QED
    BY <1>0, <2>1, QuietaLaFila, EnTurnoAjeno DEF Atento
<1>1. CASE \/ RevisarRetenida(p) \/ BloquearAlRevisar(p) \/ Conciliar(p)
           \/ ConsultarAlRevisar(p) \/ ConsultarAlConciliar(p)
  <2>1. \/ Deshace(p)
        \/ /\ \/ pc'[p] \in {"revisar", "resolver", "renovar"}
              \/ pc'[p] \in {"consultar", "guardar"} /\ tarea'[p] \in SoloDelPago
           /\ UNCHANGED <<pago, intencion, clave, entregadas>>
    <3>1. CASE RevisarRetenida(p) \/ BloquearAlRevisar(p) \/ Conciliar(p)
      BY <3>1 DEF RevisarRetenida, BloquearAlRevisar, Conciliar, BloqueaPago, Pasa,
         Tipos, TypeOK, SoloDelPago, tablas, stripe
    <3>2. CASE ConsultarAlRevisar(p) \/ ConsultarAlConciliar(p)
      BY <3>2 DEF ConsultarAlRevisar, ConsultarAlConciliar, EnEtapa, Sigue, Tipos, TypeOK,
         SoloDelPago, tablas, stripe
    <3>3. QED
      BY <1>1, <3>1, <3>2
  <2>2. CASE ~Deshace(p)
    <3>1. VaDetras(p)'
      BY <2>1, <2>2 DEF VaDetras, SoloDelPago
    <3>2. QED
      BY <1>0, <2>1, <2>2, <3>1, QuietaLaFila, EnTurnoSegun
  <2>3. QED
    BY <1>b, <2>2
<1>2. CASE Renovar(p)
  <2>1. PICK i \in Intenciones :
          /\ Crea(<<"renovacion", mem[p].pi>>, "requires_capture", i)
          /\ Sigue(p, "guardarYSoltar", [estado |-> "held", pi |-> i, paidAt |-> "reciente"])
    BY <1>2 DEF Renovar
  <2>2. UNCHANGED <<pago, entregadas>> /\ pc[p] = "renovar" /\ mem[p].pi = pago.pi
    BY <1>0, <1>2 DEF Renovar, EnEtapa, OrdenDe, ConCopiaAlDia, tablas
  <2>3. EnFila' /\ mem[p].pi < i
    <3>1. /\ Nacida(mem[p].pi) /\ mem[p].pi \in 0 .. MaxIntenciones
          /\ "requires_capture" \in EstadosIntencion \ {"libre"}
      BY DEF Nacidas, EstadosIntencion, Tipos, TypeOK, Filas
    <3>2. Crea(<<"renovacion", mem[p].pi>>, "requires_capture", i)
      BY <2>1
    <3>3. QED
      BY <1>0, <3>1, <3>2, CreaEnFila
  <2>4. pc'[p] = "guardarYSoltar" /\ mem'[p].pi = i
    BY <2>1 DEF Sigue, Tipos, TypeOK
  <2>5. VaDetras(p)'
    BY <2>2, <2>3, <2>4, ConstantesOK DEF VaDetras, Tipos, TypeOK, Filas, Intenciones
  <2>6. QED
    BY <1>0, <2>2, <2>3, <2>5, EnTurnoSegun
<1>3. CASE NoRenovable(p)
  <2>1. /\ pc[p] = "renovar" /\ pc'[p] = "guardarYSoltar" /\ mem'[p].pi = mem[p].pi
        /\ UNCHANGED <<pago, intencion, clave, entregadas>>
    BY <1>3 DEF NoRenovable, EnEtapa, Sigue, ConEstado, Tipos, TypeOK, Filas, tablas, stripe
  <2>2. mem[p].pi = pago.pi /\ pago.pi <= pago.pi
    BY <1>0, <2>1, ConstantesOK DEF OrdenDe, ConCopiaAlDia, Tipos, TypeOK, Filas
  <2>3. VaDetras(p)'
    BY <2>1, <2>2 DEF VaDetras
  <2>4. QED
    BY <1>0, <2>1, <2>3, QuietaLaFila, EnTurnoSegun
<1>4. CASE SoltarVieja(p)
  <2>1. /\ UNCHANGED <<pago, clave, entregadas>> /\ pc'[p] = "libre"
        /\ \/ UNCHANGED stripe
           \/ Cancelable(mem[p].pi) /\ Cancela(mem[p].pi)
    BY <1>4 DEF SoltarVieja, Pasa, Cancela, Tipos, TypeOK, tablas, stripe
  <2>2. \A i \in Intenciones : intencion'[i] = "libre" <=> intencion[i] = "libre"
    BY <2>1 DEF Cancela, Cancelable, Tipos, TypeOK, stripe
  <2>3. QED
    BY <1>0, <2>1, <2>2, QuietaLaFila, EnTurnoAjeno DEF Atento
<1>5. QED
  BY <1>1, <1>2, <1>3, <1>4 DEF Revision

\* The commits keep the turn.
LEMMA PasoEnTurnoFinal ==
    ASSUME Tipos, Orden, EnTurno, NEW p \in Procesos,
           Guardar(p) \/ GuardarYSoltar(p) \/ Caida(p)
    PROVE  EnTurno'
<1>0. Respeta(p) /\ OrdenDe(p) /\ EnFila /\ VaDetras(p)
  BY PasoRespeta DEF Orden, EnTurno
<1>a. /\ pago.pi \in Nat /\ mem[p].pi \in Nat /\ entregadas \subseteq Nat
  BY ConstantesOK DEF Tipos, TypeOK, Filas, Intenciones
<1>1. CASE Caida(p)
  <2>1. pc'[p] = "libre" /\ UNCHANGED <<pago, intencion, clave, entregadas>>
    BY <1>1 DEF Caida, Deshace, Pasa, Tipos, TypeOK, tablas, stripe
  <2>2. QED
    BY <1>0, <2>1, QuietaLaFila, EnTurnoAjeno DEF Atento
<1>2. CASE Guardar(p)
  <2>1. /\ pc[p] = "guardar" /\ pc'[p] \in {"libre", "resolver"}
        /\ pago' = IF bloqueoPago = p THEN mem[p] ELSE pago
        /\ UNCHANGED <<intencion, clave, entregadas>>
    BY <1>2 DEF Guardar, EnEtapa, Pasa, Tipos, TypeOK, stripe
  <2>2. CASE pago'.pi = pago.pi
    BY <1>0, <2>1, <2>2, QuietaLaFila, EnTurnoAjeno DEF Atento
  <2>3. CASE pago'.pi # pago.pi
    <3>1. tarea[p] = "pagar" /\ bloqueoPago = p /\ bloqueoReserva = p /\ pago' = mem[p]
      BY <1>0, <2>1, <2>3 DEF OrdenDe, ConCopiaAlDia, ConReserva, SoloDelPago
    <3>2. \A i \in entregadas' : i <= pago'.pi
      BY <1>0, <2>1, <3>1 DEF VaDetras
    <3>3. ASSUME NEW q \in Procesos PROVE VaDetras(q)'
      <4>1. CASE q = p
        BY <2>1, <4>1 DEF VaDetras
      <4>2. CASE q # p
        BY <1>0, <3>1, <4>2, NadieMas DEF VaDetras, Respeta
      <4>3. QED
        BY <4>1, <4>2
    <3>4. QED
      BY <1>0, <2>1, <3>2, <3>3, QuietaLaFila DEF EnTurno
  <2>4. QED
    BY <2>2, <2>3
<1>3. CASE GuardarYSoltar(p)
  <2>1. /\ pc[p] = "guardarYSoltar" /\ pc'[p] = "soltar" /\ pago' = mem[p]
        /\ UNCHANGED <<intencion, clave, entregadas>> /\ bloqueoPago = p
    BY <1>0, <1>3 DEF GuardarYSoltar, EnEtapa, Sigue, OrdenDe, ConPago, Tipos, TypeOK, stripe
  <2>2. pago.pi <= mem[p].pi
    BY <1>0, <2>1 DEF VaDetras
  <2>3. \A i \in entregadas' : i <= pago'.pi
    <3>0. \A a, b, c \in Nat : a <= b /\ b <= c => a <= c
      OBVIOUS
    <3>1. \A i \in entregadas : i \in Nat /\ i <= pago.pi
      BY <1>a DEF EnTurno
    <3>2. pago.pi \in Nat /\ mem[p].pi \in Nat
      BY <1>a
    <3>3. \A i \in entregadas : i <= mem[p].pi
      BY <2>2, <3>0, <3>1, <3>2
    <3>4. QED
      BY <2>1, <3>3
  <2>4. ASSUME NEW q \in Procesos PROVE VaDetras(q)'
    <3>1. CASE q = p
      BY <2>1, <3>1 DEF VaDetras
    <3>2. CASE q # p
      <4>1. /\ pc'[q] = pc[q] /\ tarea'[q] = tarea[q] /\ mem'[q] = mem[q]
            /\ bloqueoPago' # q
        BY <1>0, <2>1, <3>2, ConstantesOK DEF Respeta
      <4>2. pc[q] # "guardarYSoltar"
        BY <2>1, <3>2, NadieMas
      <4>3. QED
        BY <2>1, <4>1, <4>2 DEF VaDetras, EnTurno
    <3>3. QED
      BY <3>1, <3>2
  <2>5. QED
    BY <1>0, <2>1, <2>3, <2>4, QuietaLaFila DEF EnTurno
<1>4. QED
  BY <1>1, <1>2, <1>3

\* Every step of the system.
LEMMA PasoEnTurno == Tipos /\ Orden /\ Nacidas /\ Una /\ EnTurno /\ [Next]_vars => EnTurno'
<1> SUFFICES ASSUME Tipos, Orden, Nacidas, Una, EnTurno, [Next]_vars PROVE EnTurno'
  OBVIOUS
<1>1. CASE UNCHANGED <<clave, cerrojos, procesos, entregadas, pago.pi>>
           /\ \A i \in Intenciones : intencion'[i] = "libre" <=> intencion[i] = "libre"
  BY <1>1, QuietaLaFila DEF EnTurno, VaDetras, cerrojos, procesos
<1>2. CASE UNCHANGED vars
  BY <1>1, <1>2 DEF vars, tablas, stripe
<1>3. CASE Externo \/ Confirmar \/ AvisoCobrada \/ AvisoCancelada
  <2>1. clave' = clave /\ \A i \in Intenciones : intencion'[i] = "libre" <=> intencion[i] = "libre"
    BY <1>3 DEF Externo, LlegaLaFecha, Envejece, ClientePaga, StripeSuelta, Confirmar,
       AvisoCobrada, AvisoCancelada, Tipos, TypeOK, stripe
  <2>2. QED
    BY <1>1, <1>3, <2>1, ExternoQuieto
<1>4. ASSUME NEW p \in Procesos,
             \/ ReservaYPago(p) \/ SoloPago(p) \/ Revision(p)
             \/ Guardar(p) \/ GuardarYSoltar(p) \/ Caida(p)
      PROVE  EnTurno'
  BY <1>4, PasoEnTurnoReserva, PasoEnTurnoPago, PasoEnTurnoRevision, PasoEnTurnoFinal
<1>5. QED
  BY <1>2, <1>3, <1>4 DEF Next

\* At the start none has been handed out.
LEMMA IniciaEnTurno == Init => EnTurno
BY DEF Init, EnTurno, EnFila, VaDetras

\* What createPaymentIntent writes over the row is an intent nobody has been given.
THEOREM SpecEnTurno == Spec => []EnTurno
BY IniciaEnTurno, PasoEnTurno, SpecUna, SpecTipos, PTL DEF Spec

-----------------------------------------------------------------------------
(* The payment page: what it has seen done stays done.                     *)

\* What Stripe no longer lets anybody pay.
Saldadas == {"requires_capture", "succeeded", "canceled"}

\* The client has paid it: it has been on hold, or it is charged.
Ocurrio(i) == i \in retenidas \/ intencion[i] = "succeeded"

\* What has been on hold cannot be paid again.
NoSeVuelveAPagar == \A i \in retenidas : intencion[i] \in Saldadas

\* What is given is not taken back, and what is paid is not undone.
Avanza ==
    /\ retenidas \subseteq retenidas' /\ entregadas \subseteq entregadas'
    /\ \A i \in Intenciones :
         /\ intencion[i] \in Saldadas => intencion'[i] \in Saldadas
         /\ i \in retenidas' \ retenidas => intencion'[i] = "requires_capture"

\* A step without a call to Stripe.
LEMMA QuietoAvanza ==
    ASSUME UNCHANGED stripe, entregadas \subseteq entregadas' PROVE Avanza
BY DEF Avanza, stripe

\* A call that settles an intent.
LEMMA SaldaAvanza ==
    ASSUME Tipos, NEW i, NEW e \in Saldadas, intencion' = [intencion EXCEPT ![i] = e],
           UNCHANGED <<retenidas, entregadas>>
    PROVE  Avanza
BY DEF Tipos, TypeOK, Avanza

\* A call for an intent.
LEMMA CreaAvanza ==
    ASSUME Tipos, NEW k, NEW e \in EstadosIntencion, NEW i \in Intenciones, Crea(k, e, i),
           UNCHANGED entregadas
    PROVE  Avanza
<1>1. CASE UNCHANGED stripe
  BY <1>1, QuietoAvanza
<1>2. CASE /\ intencion[i] = "libre"
           /\ intencion' = [intencion EXCEPT ![i] = e]
           /\ retenidas' = IF e = "requires_capture" THEN retenidas \cup {i} ELSE retenidas
  BY <1>2 DEF Avanza, Saldadas, Tipos, TypeOK
<1>3. QED
  BY <1>1, <1>2 DEF Crea

\* Every step of the system.
LEMMA PasoAvanza == Tipos /\ [Next]_vars => Avanza
<1> SUFFICES ASSUME Tipos, [Next]_vars PROVE Avanza
  OBVIOUS
<1>a. ASSUME NEW p, Deshace(p) PROVE Avanza
  BY <1>a, QuietoAvanza DEF Deshace
<1>1. CASE UNCHANGED vars
  BY <1>1, QuietoAvanza DEF vars
<1>2. ASSUME NEW i \in Intenciones, ClientePaga(i) PROVE Avanza
  BY <1>2 DEF ClientePaga, Tipos, TypeOK, Avanza, Saldadas
<1>3. ASSUME NEW i \in Intenciones, StripeSuelta(i) PROVE Avanza
  BY <1>3, SaldaAvanza DEF StripeSuelta, Saldadas
<1>4. CASE LlegaLaFecha \/ Envejece \/ Confirmar \/ AvisoCobrada \/ AvisoCancelada
  BY <1>4, QuietoAvanza DEF LlegaLaFecha, Envejece, Confirmar, AvisoCobrada, AvisoCancelada
<1>5. ASSUME NEW p \in Procesos, ReservaYPago(p) PROVE Avanza
  <2>1. CASE \/ \E t \in Cambios : CambiarEstado(p, t)
             \/ Caducar(p) \/ Capturar(p) \/ Reembolsar(p) \/ Resolver(p)
    BY <2>1, <1>a, QuietoAvanza
    DEF CambiarEstado, Caducar, Capturar, Reembolsar, Resolver, BloqueaReserva
  <2>2. CASE \/ BloquearPago(p) \/ EsperaAgotada(p) \/ ConsultarAlSoltar(p)
             \/ ConsultaFallidaAlSoltar(p) \/ ConsultarAlCobrar(p)
             \/ CapturaRechazada(p) \/ FalloDeStripe(p)
    BY <2>2, <1>a, QuietoAvanza
    DEF BloquearPago, EsperaAgotada, ConsultarAlSoltar, ConsultaFallidaAlSoltar,
        ConsultarAlCobrar, CapturaRechazada, FalloDeStripe
  <2>3. CASE CancelarAlSoltar(p) \/ CancelacionFallida(p) \/ CapturarRetencion(p)
    BY <2>3, QuietoAvanza, SaldaAvanza
    DEF CancelarAlSoltar, CancelacionFallida, CapturarRetencion, Cancela, Saldadas
  <2>4. CASE DevolverCobro(p)
    BY <2>4 DEF DevolverCobro, Avanza
  <2>5. QED
    BY <1>5, <2>1, <2>2, <2>3, <2>4 DEF ReservaYPago
<1>6. ASSUME NEW p \in Procesos, SoloPago(p) PROVE Avanza
  <2>1. CASE \/ IniciarPago(p) \/ EscribirPago(p) \/ ConsultarAlPagar(p)
             \/ ConfirmarRetencion(p) \/ ConsultarAlConfirmar(p) \/ AvisoRetenida(p)
    BY <2>1, <1>a, QuietoAvanza
    DEF IniciarPago, EscribirPago, ConsultarAlPagar, ConfirmarRetencion,
        ConsultarAlConfirmar, AvisoRetenida, BloqueaReserva, BloqueaPago
  <2>2. CASE CrearIntencion(p)
    BY <2>2, CreaAvanza DEF CrearIntencion, EstadosIntencion
  <2>3. QED
    BY <1>6, <2>1, <2>2 DEF SoloPago
<1>7. ASSUME NEW p \in Procesos, Revision(p) PROVE Avanza
  <2>1. CASE \/ RevisarRetenida(p) \/ BloquearAlRevisar(p) \/ ConsultarAlRevisar(p)
             \/ NoRenovable(p) \/ Conciliar(p) \/ ConsultarAlConciliar(p)
    BY <2>1, <1>a, QuietoAvanza
    DEF RevisarRetenida, BloquearAlRevisar, ConsultarAlRevisar, NoRenovable,
        Conciliar, ConsultarAlConciliar, BloqueaPago
  <2>2. CASE Renovar(p)
    BY <2>2, CreaAvanza DEF Renovar, EstadosIntencion
  <2>3. CASE SoltarVieja(p)
    BY <2>3, QuietoAvanza, SaldaAvanza DEF SoltarVieja, Cancela, Saldadas
  <2>4. QED
    BY <1>7, <2>1, <2>2, <2>3 DEF Revision
<1>8. ASSUME NEW p \in Procesos, Guardar(p) \/ GuardarYSoltar(p) \/ Caida(p) PROVE Avanza
  BY <1>8, <1>a, QuietoAvanza DEF Guardar, GuardarYSoltar, Caida
<1>9. QED
  BY <1>1, <1>2, <1>3, <1>4, <1>5, <1>6, <1>7, <1>8 DEF Next, Externo

\* What has been on hold never comes back.
LEMMA PasoNoSeVuelveAPagar ==
    Tipos /\ NoSeVuelveAPagar /\ [Next]_vars => NoSeVuelveAPagar'
<1> SUFFICES ASSUME Tipos, NoSeVuelveAPagar, [Next]_vars, Tipos' PROVE NoSeVuelveAPagar'
  BY PasoTipos
<1>1. Avanza /\ retenidas' \subseteq Intenciones
  BY PasoAvanza DEF Tipos, TypeOK
<1>2. QED
  BY <1>1 DEF Avanza, NoSeVuelveAPagar, Saldadas

-----------------------------------------------------------------------------
(* The payment page: what it has been told stays written.                  *)

\* The row does not say that i waits to be paid, nor is anybody about to write it.
SinPendiente(i) ==
    /\ ~(pago.pi = i /\ pago.estado = "pending")
    /\ \A q \in Procesos :
         bloqueoPago = q /\ mem[q].pi = i => mem[q].estado # "pending"

\* A step of p writes in the row and in its copy of it, and nothing else.
LEMMA SinPendienteSegun ==
    ASSUME Tipos, NEW i, SinPendiente(i), NEW p \in Procesos, Respeta(p),
           ~(pago'.pi = i /\ pago'.estado = "pending"),
           bloqueoPago' = p /\ mem'[p].pi = i => mem'[p].estado # "pending"
    PROVE  SinPendiente(i)'
<1>1. ASSUME NEW q \in Procesos \ {p}, bloqueoPago' = q, mem'[q].pi = i
      PROVE  mem'[q].estado # "pending"
  BY <1>1, ConstantesOK DEF SinPendiente, Respeta
<1>2. QED
  BY <1>1 DEF SinPendiente

\* Mirroring the intent cannot make the row wait for a payment that was made.
LEMMA ReflejoSinPendiente ==
    ASSUME NEW i, intencion[i] \in Saldadas
    PROVE  EstadoSegunStripe(intencion[i]) # "pending"
BY DEF Saldadas, EstadoSegunStripe

LEMMA PasoSinPendienteReserva ==
    ASSUME Tipos, Orden, NEW i \in Intenciones, intencion[i] \in Saldadas, SinPendiente(i),
           NEW p \in Procesos, ReservaYPago(p)
    PROVE  SinPendiente(i)'
<1>0. Respeta(p) /\ OrdenDe(p)
  BY PasoRespeta DEF Orden
<1>a. p # Nadie /\ ~(pago.pi = i /\ pago.estado = "pending")
  BY ConstantesOK DEF SinPendiente
<1>b. ASSUME pago' = pago, bloqueoPago' # p PROVE SinPendiente(i)'
  BY <1>0, <1>a, <1>b, SinPendienteSegun
<1>c. ASSUME Deshace(p) PROVE SinPendiente(i)'
  BY <1>a, <1>b, <1>c DEF Deshace, SueltaBloqueos, tablas
<1>d. ASSUME NEW e, NEW f, Sigue(p, e, f), pago' = pago, f.pi = i => f.estado # "pending"
      PROVE  SinPendiente(i)'
  BY <1>0, <1>a, <1>d, SinPendienteSegun DEF Sigue, Tipos, TypeOK
<1>e. mem[p] \in Filas
  BY DEF Tipos, TypeOK
<1>1. CASE \/ \E t \in Cambios : CambiarEstado(p, t)
           \/ Caducar(p) \/ Capturar(p) \/ Reembolsar(p) \/ Resolver(p)
  <2>1. \/ Deshace(p)
        \/ pago' = pago /\ bloqueoPago' = bloqueoPago /\ pc[p] \in EtapasSinCerrojo
    BY <1>1 DEF CambiarEstado, Caducar, Capturar, Reembolsar, Resolver, BloqueaReserva,
       EnEtapa, EtapasSinCerrojo, tablas
  <2>2. QED
    BY <1>0, <1>b, <1>c, <2>1 DEF OrdenDe
<1>2. CASE EsperaAgotada(p) \/ CapturaRechazada(p) \/ FalloDeStripe(p)
  BY <1>2, <1>c DEF EsperaAgotada, CapturaRechazada, FalloDeStripe
<1>3. CASE BloquearPago(p)
  BY <1>3, <1>a, <1>c, <1>d DEF BloquearPago, tablas
<1>4. CASE ConsultarAlSoltar(p) \/ ConsultaFallidaAlSoltar(p)
  <2>1. pago' = pago
    BY <1>4 DEF ConsultarAlSoltar, ConsultaFallidaAlSoltar, tablas
  <2>2. CASE ConsultarAlSoltar(p)
    <3> DEFINE e == EstadoSegunStripe(intencion[mem[p].pi])
               f == IF e \in {"held", "pending"} THEN ConEstado(mem[p], e) ELSE pago
    <3>1. Sigue(p, IF e \in {"held", "pending"} THEN "cancelar" ELSE "guardar", f)
      BY <2>2 DEF ConsultarAlSoltar
    <3>2. f.pi = i => f.estado # "pending"
      <4>1. CASE e \in {"held", "pending"}
        <5>1. f.estado = e /\ f.pi = mem[p].pi
          BY <1>e, <4>1 DEF ConEstado, Filas
        <5>2. QED
          BY <5>1, ReflejoSinPendiente
      <4>2. CASE e \notin {"held", "pending"}
        BY <1>a, <4>2
      <4>3. QED
        BY <4>1, <4>2
    <3>3. QED
      BY <1>d, <2>1, <3>1, <3>2
  <2>3. CASE ConsultaFallidaAlSoltar(p)
    BY <1>a, <1>d, <2>1, <2>3 DEF ConsultaFallidaAlSoltar
  <2>4. QED
    BY <1>4, <2>2, <2>3
<1>5. CASE ConsultarAlCobrar(p)
  <2>1. pc[p] = "consultar" /\ Cobra(p) /\ pago' = pago
    BY <1>5 DEF ConsultarAlCobrar, EnEtapa, Deshace, tablas
  <2>2. bloqueoPago = p
    BY <1>0, <2>1 DEF OrdenDe, ConPago, ConCopiaAlDia, Cobra
  <2>3. mem[p].pi = i => mem[p].estado # "pending"
    BY <2>2 DEF SinPendiente
  <2>4. /\ Reflejada(mem[p], "completed").estado = "completed"
    BY DEF Reflejada
  <2>5. \/ Deshace(p)
        \/ \E e, f : /\ Sigue(p, e, f)
                     /\ f \in {Reflejada(mem[p], "completed"), mem[p], pago}
    BY <1>5 DEF ConsultarAlCobrar
  <2>6. QED
    BY <1>a, <1>c, <1>d, <2>1, <2>3, <2>4, <2>5
<1>6. CASE CancelarAlSoltar(p) \/ CancelacionFallida(p)
  <2>1. pago' = pago
    BY <1>6 DEF CancelarAlSoltar, CancelacionFallida, tablas
  <2>2. CASE CancelarAlSoltar(p)
    <3>1. PICK e \in {"refunded", "failed"} : Sigue(p, "guardar", ConEstado(mem[p], e))
      BY <2>2 DEF CancelarAlSoltar
    <3>2. ConEstado(mem[p], e).estado = e
      BY <1>e DEF ConEstado, Filas
    <3>3. QED
      BY <1>d, <2>1, <3>1, <3>2
  <2>3. CASE CancelacionFallida(p)
    BY <1>a, <1>b, <1>d, <2>1, <2>3 DEF CancelacionFallida, SueltaBloqueos
  <2>4. QED
    BY <1>6, <2>2, <2>3
<1>7. CASE CapturarRetencion(p)
  <2>1. pago' = pago /\ Sigue(p, "guardar", Reflejada(mem[p], "completed"))
    BY <1>7 DEF CapturarRetencion, tablas
  <2>2. Reflejada(mem[p], "completed").estado = "completed"
    BY DEF Reflejada
  <2>3. QED
    BY <1>d, <2>1, <2>2
<1>8. CASE DevolverCobro(p)
  <2>1. pago' = pago /\ Sigue(p, "guardar", ConEstado(mem[p], "refunded"))
    BY <1>8 DEF DevolverCobro, tablas
  <2>2. ConEstado(mem[p], "refunded").estado = "refunded"
    BY <1>e DEF ConEstado, Filas
  <2>3. QED
    BY <1>d, <2>1, <2>2
<1>9. QED
  BY <1>1, <1>2, <1>3, <1>4, <1>5, <1>6, <1>7, <1>8 DEF ReservaYPago

\* What createPaymentIntent writes as pending nobody has been given yet.
LEMMA PasoSinPendientePago ==
    ASSUME Tipos, Orden, EnTurno, EnTurno', NEW i \in entregadas,
           entregadas \subseteq entregadas', intencion[i] \in Saldadas, SinPendiente(i),
           NEW p \in Procesos, SoloPago(p)
    PROVE  SinPendiente(i)'
<1>0. Respeta(p) /\ OrdenDe(p) /\ VaDetras(p) /\ VaDetras(p)'
  BY PasoRespeta DEF Orden, EnTurno
<1>a. /\ p # Nadie /\ ~(pago.pi = i /\ pago.estado = "pending")
      /\ mem[p] \in Filas /\ i \in Nat /\ i \in entregadas'
      /\ bloqueoPago = p /\ mem[p].pi = i => mem[p].estado # "pending"
  BY ConstantesOK DEF SinPendiente, Tipos, TypeOK, Intenciones
<1>b. ASSUME pago' = pago, bloqueoPago' # p PROVE SinPendiente(i)'
  BY <1>0, <1>a, <1>b, SinPendienteSegun
<1>c. ASSUME Deshace(p) PROVE SinPendiente(i)'
  BY <1>a, <1>b, <1>c DEF Deshace, SueltaBloqueos, tablas
<1>d. ASSUME NEW e, NEW f, Sigue(p, e, f), pago' = pago, f.pi = i => f.estado # "pending"
      PROVE  SinPendiente(i)'
  BY <1>0, <1>a, <1>d, SinPendienteSegun DEF Sigue, Tipos, TypeOK
<1>1. CASE IniciarPago(p)
  <2>1. pago' = pago /\ bloqueoPago' = bloqueoPago /\ pc[p] = "libre"
    BY <1>1 DEF IniciarPago, BloqueaReserva, EnEtapa, tablas
  <2>2. QED
    BY <1>0, <1>b, <2>1 DEF OrdenDe, EtapasSinCerrojo
<1>2. CASE ConsultarAlPagar(p)
  <2> DEFINE e == EstadoSegunStripe(intencion[mem[p].pi])
  <2>1. pago' = pago /\ pc[p] = "consultar" /\ tarea[p] = "pagar"
    BY <1>2 DEF ConsultarAlPagar, EnEtapa, tablas
  <2>2. CASE PuedeReflejar(mem[p].estado, e)
    <3>1. PICK x : Sigue(p, x, Reflejada(mem[p], e))
      BY <1>2, <2>2 DEF ConsultarAlPagar
    <3>2. Reflejada(mem[p], e).estado = e /\ Reflejada(mem[p], e).pi = mem[p].pi
      BY DEF Reflejada
    <3>3. QED
      BY <1>d, <2>1, <3>1, <3>2, ReflejoSinPendiente
  <2>3. CASE ~PuedeReflejar(mem[p].estado, e)
    <3>1. bloqueoPago' = bloqueoPago
      BY <1>2, <2>3 DEF ConsultarAlPagar
    <3>2. QED
      BY <1>0, <1>b, <2>1, <3>1 DEF VaDetras
  <2>4. QED
    BY <2>2, <2>3
<1>3. CASE CrearIntencion(p)
  <2>1. PICK j \in Intenciones :
          Sigue(p, "escribir", [estado |-> "pending", pi |-> j, paidAt |-> "nunca"])
    BY <1>3 DEF CrearIntencion
  <2>2. pago' = pago /\ pc'[p] = "escribir" /\ mem'[p].pi = j
    BY <1>3, <2>1 DEF CrearIntencion, Sigue, Tipos, TypeOK, tablas
  <2>3. i < j
    BY <1>0, <1>a, <2>2 DEF VaDetras
  <2>4. i # j
    BY <1>a, <2>3
  <2>5. QED
    BY <1>d, <2>1, <2>2, <2>4
<1>4. CASE EscribirPago(p)
  <2>1. /\ pc[p] = "escribir" /\ pago' = mem[p] /\ bloqueoPago' # p
    BY <1>4, ConstantesOK DEF EscribirPago, EnEtapa, SueltaBloqueos
  <2>2. i < mem[p].pi
    BY <1>0, <2>1 DEF VaDetras
  <2>3. pago'.pi # i
    BY <1>a, <2>1, <2>2
  <2>4. QED
    BY <1>0, <2>1, <2>3, SinPendienteSegun
<1>5. CASE ConfirmarRetencion(p)
  <2>1. pago' = pago /\ mem'[p] = pago
    BY <1>5 DEF ConfirmarRetencion, BloqueaPago, Tipos, TypeOK, tablas
  <2>2. QED
    BY <1>0, <1>a, <2>1, SinPendienteSegun
<1>6. CASE ConsultarAlConfirmar(p)
  <2>1. pago' = pago /\ pc[p] = "consultar" /\ tarea[p] = "confirmarPago"
    BY <1>6 DEF ConsultarAlConfirmar, EnEtapa, Deshace, tablas
  <2>2. bloqueoPago = p
    BY <1>0, <2>1 DEF OrdenDe, ConPago, ConCopiaAlDia
  <2>3. /\ Retenida(mem[p]).estado = "held"
        /\ Reflejada(mem[p], "completed").estado = "completed"
    BY DEF Retenida, Reflejada
  <2>4. \/ Deshace(p)
        \/ \E f \in {Retenida(mem[p]), Reflejada(mem[p], "completed"), mem[p]} :
             Sigue(p, "guardar", f)
    BY <1>6 DEF ConsultarAlConfirmar
  <2>5. QED
    BY <1>a, <1>c, <1>d, <2>1, <2>2, <2>3, <2>4
<1>7. CASE AvisoRetenida(p)
  <2>1. /\ pago' = Retenida(pago) \/ pago' = pago
        /\ bloqueoPago' = bloqueoPago /\ pc[p] = "libre"
    BY <1>7 DEF AvisoRetenida, EnEtapa, cerrojos
  <2>2. ~(pago'.pi = i /\ pago'.estado = "pending")
    BY <1>a, <2>1 DEF Retenida
  <2>3. bloqueoPago' # p
    BY <1>0, <2>1 DEF OrdenDe, EtapasSinCerrojo
  <2>4. QED
    BY <1>0, <2>2, <2>3, SinPendienteSegun
<1>8. QED
  BY <1>1, <1>2, <1>3, <1>4, <1>5, <1>6, <1>7 DEF SoloPago

\* The review writes what it has just asked, or that the hold was renewed or lost.
LEMMA PasoSinPendienteRevision ==
    ASSUME Tipos, Orden, NEW i \in Intenciones, intencion[i] \in Saldadas, SinPendiente(i),
           NEW p \in Procesos, Revision(p)
    PROVE  SinPendiente(i)'
<1>0. Respeta(p) /\ OrdenDe(p)
  BY PasoRespeta DEF Orden
<1>a. /\ p # Nadie /\ ~(pago.pi = i /\ pago.estado = "pending")
      /\ mem[p] \in Filas
      /\ bloqueoPago = p /\ mem[p].pi = i => mem[p].estado # "pending"
  BY ConstantesOK DEF SinPendiente, Tipos, TypeOK
<1>b. ASSUME pago' = pago, bloqueoPago' # p PROVE SinPendiente(i)'
  BY <1>0, <1>a, <1>b, SinPendienteSegun
<1>c. ASSUME Deshace(p) PROVE SinPendiente(i)'
  BY <1>a, <1>b, <1>c DEF Deshace, SueltaBloqueos, tablas
<1>d. ASSUME NEW e, NEW f, Sigue(p, e, f), pago' = pago, f.pi = i => f.estado # "pending"
      PROVE  SinPendiente(i)'
  BY <1>0, <1>a, <1>d, SinPendienteSegun DEF Sigue, Tipos, TypeOK
<1>f. \A e : ConEstado(mem[p], e).estado = e
  BY <1>a DEF ConEstado, Filas
<1>1. CASE RevisarRetenida(p) \/ BloquearAlRevisar(p) \/ Conciliar(p)
  <2>1. \/ Deshace(p)
        \/ /\ pago' = pago
           /\ \/ mem'[p] = pago
              \/ bloqueoPago' = bloqueoPago /\ pc[p] = "libre"
    BY <1>1 DEF RevisarRetenida, BloquearAlRevisar, Conciliar, BloqueaPago, EnEtapa,
       Tipos, TypeOK, tablas, cerrojos
  <2>2. QED
    BY <1>0, <1>a, <1>b, <1>c, <2>1, SinPendienteSegun DEF OrdenDe, EtapasSinCerrojo
<1>2. CASE ConsultarAlRevisar(p)
  <2>1. pago' = pago /\ pc[p] = "consultar" /\ tarea[p] = "revisar"
    BY <1>2 DEF ConsultarAlRevisar, EnEtapa, Deshace, tablas
  <2>2. bloqueoPago = p
    BY <1>0, <2>1 DEF OrdenDe, ConPago, ConCopiaAlDia
  <2>3. \/ Deshace(p)
        \/ Sigue(p, "renovar", mem[p])
        \/ \E e \in {"completed", "failed"} : Sigue(p, "guardar", ConEstado(mem[p], e))
    BY <1>2 DEF ConsultarAlRevisar
  <2>4. QED
    BY <1>a, <1>c, <1>d, <1>f, <2>1, <2>2, <2>3
<1>3. CASE ConsultarAlConciliar(p)
  <2> DEFINE e == EstadoSegunStripe(intencion[mem[p].pi])
  <2>1. pago' = pago
    BY <1>3 DEF ConsultarAlConciliar, Deshace, tablas
  <2>2. Deshace(p) \/ Sigue(p, "guardar", Reflejada(mem[p], e))
    BY <1>3 DEF ConsultarAlConciliar
  <2>3. Reflejada(mem[p], e).estado = e /\ Reflejada(mem[p], e).pi = mem[p].pi
    BY DEF Reflejada
  <2>4. QED
    BY <1>c, <1>d, <2>1, <2>2, <2>3, ReflejoSinPendiente
<1>4. CASE Renovar(p) \/ NoRenovable(p)
  <2>1. /\ pago' = pago
        /\ \E f : Sigue(p, "guardarYSoltar", f) /\ f.estado \in {"held", "failed"}
    <3>1. CASE Renovar(p)
      BY <3>1 DEF Renovar, tablas
    <3>2. CASE NoRenovable(p)
      BY <1>f, <3>2 DEF NoRenovable, tablas
    <3>3. QED
      BY <1>4, <3>1, <3>2
  <2>2. QED
    BY <1>d, <2>1
<1>5. CASE SoltarVieja(p)
  <2>1. pago' = pago /\ bloqueoPago' = bloqueoPago /\ pc[p] = "soltar"
    BY <1>5 DEF SoltarVieja, EnEtapa, tablas, cerrojos
  <2>2. QED
    BY <1>0, <1>b, <2>1 DEF OrdenDe, EtapasSinCerrojo
<1>6. QED
  BY <1>1, <1>2, <1>3, <1>4, <1>5 DEF Revision

\* A commit writes the copy of whoever has the payment locked.
LEMMA PasoSinPendienteFinal ==
    ASSUME Tipos, Orden, NEW i \in Intenciones, SinPendiente(i),
           NEW p \in Procesos, Guardar(p) \/ GuardarYSoltar(p) \/ Caida(p)
    PROVE  SinPendiente(i)'
<1>0. Respeta(p) /\ OrdenDe(p)
  BY PasoRespeta DEF Orden
<1>1. /\ bloqueoPago' # p
      /\ pago' = pago \/ (bloqueoPago = p /\ pago' = mem[p])
  <2>1. CASE Guardar(p)
    BY <2>1, ConstantesOK DEF Guardar, SueltaBloqueos
  <2>2. CASE GuardarYSoltar(p)
    BY <1>0, <2>2, ConstantesOK DEF GuardarYSoltar, SueltaBloqueos, EnEtapa, OrdenDe, ConPago
  <2>3. CASE Caida(p)
    BY <2>3, ConstantesOK DEF Caida, Deshace, SueltaBloqueos, tablas
  <2>4. QED
    BY <2>1, <2>2, <2>3
<1>2. ~(pago'.pi = i /\ pago'.estado = "pending")
  BY <1>1 DEF SinPendiente
<1>3. QED
  BY <1>0, <1>1, <1>2, SinPendienteSegun

\* The invariants of CobroReservas that the page rests on.
Base == Tipos /\ Prometido /\ EnTurno /\ NoSeVuelveAPagar

\* What a tab has seen, no step of anybody takes back.
Firme ==
    /\ entregadas \subseteq entregadas'
    /\ \A i \in Intenciones : Ocurrio(i) => Ocurrio(i)'
    /\ reserva = "completed" => reserva' = "completed"
    /\ \A i \in entregadas : Ocurrio(i) /\ SinPendiente(i) => SinPendiente(i)'

LEMMA PasoFirme == Base /\ EnTurno' /\ [Next]_vars => Firme
<1> SUFFICES ASSUME Base, EnTurno', [Next]_vars PROVE Firme
  OBVIOUS
<1>1. Avanza /\ NadaSeDeshace /\ Tipos /\ Orden /\ EnCurso /\ EnTurno
  BY PasoAvanza, StripeNoDeshace DEF Base, Prometido
<1>2. \A i \in Intenciones : Ocurrio(i) => Ocurrio(i)'
  BY <1>1 DEF Avanza, NadaSeDeshace, Ocurrio
<1>3. reserva = "completed" => reserva' = "completed"
  <2>1. CASE UNCHANGED vars
    BY <2>1 DEF vars, tablas
  <2>2. CASE Externo \/ Confirmar \/ AvisoCobrada \/ AvisoCancelada
    BY <2>2 DEF Externo, LlegaLaFecha, Envejece, ClientePaga, StripeSuelta, Confirmar,
       AvisoCobrada, AvisoCancelada, tablas
  <2>3. ASSUME NEW p \in Procesos,
               \/ ReservaYPago(p) \/ SoloPago(p) \/ Revision(p)
               \/ Guardar(p) \/ GuardarYSoltar(p) \/ Caida(p)
        PROVE  reserva = "completed" => reserva' = "completed"
    BY <1>1, <2>3, PasoEfecto, ReservaConCerrojo
  <2>4. QED
    BY <2>1, <2>2, <2>3 DEF Next
<1>4. ASSUME NEW i \in entregadas, Ocurrio(i), SinPendiente(i) PROVE SinPendiente(i)'
  <2>0. /\ i \in Intenciones /\ intencion[i] \in Saldadas
        /\ entregadas \subseteq entregadas'
    BY <1>1, <1>4 DEF Base, NoSeVuelveAPagar, Ocurrio, Saldadas, Avanza, Tipos, TypeOK
  <2>1. CASE UNCHANGED vars
    BY <1>4, <2>1 DEF vars, tablas, cerrojos, procesos, SinPendiente
  <2>2. CASE Externo \/ Confirmar \/ AvisoCobrada \/ AvisoCancelada
    <3>1. UNCHANGED <<cerrojos, procesos, pago.pi>>
      BY <1>1, <2>2, ExternoQuieto
    <3>2. pago'.estado = "pending" => pago.estado = "pending"
      BY <1>1, <2>2 DEF Externo, LlegaLaFecha, Envejece, ClientePaga, StripeSuelta, Confirmar,
         AvisoCobrada, AvisoCancelada, ConEstado, Tipos, TypeOK, Filas, tablas
    <3>3. QED
      BY <1>4, <3>1, <3>2 DEF SinPendiente, cerrojos, procesos
  <2>3. ASSUME NEW p \in Procesos,
               \/ ReservaYPago(p) \/ SoloPago(p) \/ Revision(p)
               \/ Guardar(p) \/ GuardarYSoltar(p) \/ Caida(p)
        PROVE  SinPendiente(i)'
    BY <1>1, <1>4, <2>0, <2>3, PasoSinPendienteReserva, PasoSinPendientePago,
       PasoSinPendienteRevision, PasoSinPendienteFinal
  <2>4. QED
    BY <2>1, <2>2, <2>3 DEF Next
<1>5. QED
  BY <1>1, <1>2, <1>3, <1>4 DEF Firme, Avanza

\* The base holds whatever the clients do.
THEOREM SpecBase == Spec => []Base
<1>1. Init => NoSeVuelveAPagar
  BY DEF Init, NoSeVuelveAPagar
<1>2. QED
  BY <1>1, PasoNoSeVuelveAPagar, SpecTipos, SpecPrometido, SpecEnTurno, PTL DEF Spec, Base

-----------------------------------------------------------------------------
(* The payment page: a client of what is above, in any number of tabs.     *)

\* What a request of a tab does, it may do without the tab.
PasoDe(t) == ReservaYPago(t) \/ SoloPago(t) \/ Guardar(t) \/ Caida(t)

\* A tab moves by itself, with the client's card, or as its request does.
LEMMA MueveUnaTienda ==
    ASSUME NEW t \in Tiendas,
           \/ AbrirPago(t) \/ PedirIntento(t) \/ SePideElIntento(t)
           \/ LlegaElIntento(t) \/ NoHayIntento(t) \/ PagarEnStripe(t) \/ IntentoCaducado(t)
           \/ PedirConfirmacion(t) \/ SePideConfirmar(t)
           \/ Confirmada(t) \/ NoSeConfirma(t) \/ SinContestar(t)
    PROVE  /\ UNCHANGED vars \/ ClientePaga(mostrador[t].pi) \/ PasoDe(t)
           /\ \E m : Pone(t, m)
<1>1. CASE AbrirPago(t) \/ IntentoCaducado(t) \/ SinContestar(t)
  BY <1>1 DEF AbrirPago, IntentoCaducado, SinContestar, Queda, SinIntento, SinConfirmar
<1>2. CASE PedirIntento(t) \/ SePideElIntento(t) \/ LlegaElIntento(t) \/ NoHayIntento(t)
  <2>1. PasoDe(t)
    BY <1>2 DEF PedirIntento, SePideElIntento, LlegaElIntento, NoHayIntento, PasoDe, SoloPago
  <2>2. QED
    BY <1>2, <2>1 DEF PedirIntento, SePideElIntento, LlegaElIntento, NoHayIntento, Queda,
       SinIntento
<1>3. CASE PagarEnStripe(t)
  BY <1>3 DEF PagarEnStripe, Queda
<1>4. CASE PedirConfirmacion(t) \/ SePideConfirmar(t) \/ Confirmada(t) \/ NoSeConfirma(t)
  <2>1. PasoDe(t)
    BY <1>4 DEF PedirConfirmacion, SePideConfirmar, Confirmada, NoSeConfirma, PasoDe, SoloPago
  <2>2. QED
    BY <1>4, <2>1 DEF PedirConfirmacion, SePideConfirmar, Confirmada, NoSeConfirma, Queda,
       SinConfirmar
<1>5. QED
  BY <1>1, <1>2, <1>3, <1>4

LEMMA PasoDePago == Tipos /\ [NextDePago]_varsDePago => [Next]_vars
<1> SUFFICES ASSUME Tipos, [NextDePago]_varsDePago PROVE [Next]_vars
  OBVIOUS
<1>1. ASSUME NEW p \in Procesos,
             \/ ReservaYPago(p) \/ SoloPago(p) \/ Revision(p)
             \/ Guardar(p) \/ GuardarYSoltar(p) \/ Caida(p)
      PROVE  Next
  BY <1>1 DEF Next
<1>2. CASE UNCHANGED varsDePago
  BY <1>2 DEF varsDePago
<1>3. CASE LoDemas
  BY <1>1, <1>3 DEF LoDemas, SinPeticion, Paso, Next
<1>4. ASSUME NEW t \in Tiendas, PasoDe(t) PROVE Next
  BY <1>1, <1>4, PaginaDePagoOK DEF PasoDe, Procesos
<1>5. ASSUME NEW i, ClientePaga(i) PROVE Next
  <2>1. i \in Intenciones
    BY <1>5 DEF ClientePaga, Tipos, TypeOK
  <2>2. QED
    BY <1>5, <2>1 DEF Next, Externo
<1>6. QED
  BY <1>2, <1>3, <1>4, <1>5, MueveUnaTienda DEF NextDePago

\* Whatever the page does, the requests and Stripe do by themselves: everything that
\* is proved of CobroReservas holds with the page.
THEOREM PaginaEsCobro == SpecDePago => Spec
<1>1. InitDePago => Init /\ Tipos
  BY IniciaTipos DEF InitDePago
<1>2. Tipos /\ [NextDePago]_varsDePago => Tipos'
  BY PasoDePago, PasoTipos
<1>3. QED
  BY <1>1, <1>2, PasoDePago, PTL DEF SpecDePago, Spec

-----------------------------------------------------------------------------
(* The payment page: what each tab may say.                                *)

\* The stages in which a tab has an intent it was given.
ConIntento == {"abonando", "caducado", "reabriendo", "pagado", "confirmando", "salida"}

\* The API has said, or is going to say, that it was paid.
Dicha(t) == EnTienda(t, "salida") \/ (EnTienda(t, "confirmando") /\ mostrador[t].bien)

\* What a tab has in its hands happened, and what its request is about is that.
TiendaEnOrden(t) ==
    LET m == mostrador[t] IN
    /\ Espera(t) => pc[t] # "libre"
    /\ m.etapa \in ConIntento => m.pi \in entregadas
    /\ m.etapa # "salida" => m.aviso \in {"ninguno", "noConfirmado"}
    /\ m.aviso = "cobrado" => m.leida = "completed"
    /\ m.leida = "completed" => reserva = "completed"
    /\ Pide(t) /\ m.bien =>
         tarea[t] = "pagar" /\ pc[t] = "guardar" /\ mem[t].pi \in entregadas
    /\ m.etapa \in {"pagado", "confirmando", "salida"} => Ocurrio(m.pi)
    /\ m.etapa = "confirmando" /\ m.bien = FALSE =>
         /\ tarea[t] = "confirmarPago" /\ pc[t] \in {"consultar", "guardar"}
         /\ mem[t].pi = m.pi
         /\ pc[t] = "guardar" => mem[t].estado # "pending"
    /\ Dicha(t) => SinPendiente(m.pi)

TiendasEnOrden == TipoDePago /\ \A t \in Tiendas : TiendaEnOrden(t)

\* What the others do leaves a tab in order, if it leaves its request alone.
LEMMA TiendaAparte ==
    ASSUME Tipos, TipoDePago, Firme, NEW t \in Tiendas, TiendaEnOrden(t),
           mostrador'[t] = mostrador[t],
           Espera(t) => pc'[t] = pc[t] /\ tarea'[t] = tarea[t] /\ mem'[t] = mem[t]
    PROVE  TiendaEnOrden(t)'
<1> DEFINE m == mostrador[t]
<1>1. m.etapa \in ConIntento => m.pi \in entregadas' /\ m.pi \in Intenciones
  BY DEF TiendaEnOrden, Firme, Tipos, TypeOK
<1>2. m.etapa \in {"pagado", "confirmando", "salida"} => Ocurrio(m.pi)'
  BY <1>1 DEF TiendaEnOrden, Firme, ConIntento
<1>3. Dicha(t) => SinPendiente(m.pi)'
  BY <1>1 DEF TiendaEnOrden, Firme, ConIntento, Dicha, EnTienda
<1>4. Dicha(t)' <=> Dicha(t)
  BY DEF Dicha, EnTienda
<1>5. (Espera(t)' <=> Espera(t)) /\ (Pide(t)' <=> Pide(t)) /\ (Pide(t) => Espera(t))
  BY DEF Espera, Pide, EnTienda
<1>6. m.etapa = "confirmando" => Espera(t)
  BY DEF Espera, EnTienda
<1>7. /\ Espera(t)' => pc'[t] # "libre"
      /\ Pide(t)' /\ m.bien =>
           tarea'[t] = "pagar" /\ pc'[t] = "guardar" /\ mem'[t].pi \in entregadas'
      /\ m.etapa = "confirmando" /\ m.bien = FALSE =>
           /\ tarea'[t] = "confirmarPago" /\ pc'[t] \in {"consultar", "guardar"}
           /\ mem'[t].pi = m.pi
           /\ pc'[t] = "guardar" => mem'[t].estado # "pending"
  BY <1>5, <1>6 DEF TiendaEnOrden, Firme
<1>8. /\ m.etapa # "salida" => m.aviso \in {"ninguno", "noConfirmado"}
      /\ m.aviso = "cobrado" => m.leida = "completed"
      /\ m.leida = "completed" => reserva' = "completed"
  BY DEF TiendaEnOrden, Firme
<1>9. QED
  BY <1>1, <1>2, <1>3, <1>4, <1>7, <1>8 DEF TiendaEnOrden

\* A tab that is put out of any call, with what it had or without it.
LEMMA TiendaLibre ==
    ASSUME Tipos, TipoDePago, Firme, NEW t \in Tiendas, TiendaEnOrden(t),
           NEW m, Pone(t, m),
           m.etapa \in {"leida", "abonando", "caducado", "error"},
           m.aviso \in {"ninguno", "noConfirmado"}, m.leida = "completed" => reserva' = "completed",
           m.etapa \in ConIntento => m.pi \in entregadas'
    PROVE  TiendaEnOrden(t)'
<1>1. mostrador'[t] = m
  BY DEF Pone, TipoDePago
<1>2. /\ Espera(t)' = FALSE /\ Pide(t)' = FALSE /\ Dicha(t)' = FALSE
  BY <1>1 DEF Espera, Pide, Dicha, EnTienda
<1>3. QED
  BY <1>1, <1>2 DEF TiendaEnOrden

\* The tab's own moves that make no call, or are answered that there is nothing.
LEMMA TiendaSeQueda ==
    ASSUME Tipos, TipoDePago, Firme, NEW t \in Tiendas, TiendaEnOrden(t),
           AbrirPago(t) \/ NoHayIntento(t) \/ IntentoCaducado(t) \/ NoSeConfirma(t)
             \/ SinContestar(t)
    PROVE  TiendaEnOrden(t)' /\ TipoDePago'
<1> DEFINE m == mostrador[t]
<1>a. /\ m \in [etapa : EtapasDePago, leida : EstadosReserva, pi : 0 .. MaxIntenciones,
                bien : BOOLEAN, aviso : AvisosDePago]
      /\ 0 \in 0 .. MaxIntenciones /\ reserva \in EstadosReserva
  BY ConstantesOK DEF TipoDePago, Tipos, TypeOK
<1>b. entregadas \subseteq entregadas' /\ (m.leida = "completed" => reserva' = "completed")
  BY DEF Firme, TiendaEnOrden
<1>1. CASE AbrirPago(t)
  <2> DEFINE n == Tienda("leida", reserva, 0)
  <2>1. /\ n.etapa = "leida" /\ n.leida = reserva /\ n.aviso = "ninguno"
        /\ Pone(t, n) /\ (reserva = "completed" => reserva' = "completed")
        /\ n \in [etapa : EtapasDePago, leida : EstadosReserva, pi : 0 .. MaxIntenciones,
                  bien : BOOLEAN, aviso : AvisosDePago]
    BY <1>1, <1>a DEF AbrirPago, Tienda, EtapasDePago, AvisosDePago, Firme
  <2>2. TipoDePago'
    <3> HIDE DEF n
    <3>1. QED
      BY <2>1 DEF Pone, TipoDePago
  <2>3. TiendaEnOrden(t)'
    <3> HIDE DEF n
    <3>1. QED
      BY <2>1, TiendaLibre DEF ConIntento
  <2>4. QED
    BY <2>2, <2>3
<1>2. ASSUME NEW e \in {"abonando", "caducado", "error"}, Queda(t, e),
             m.etapa # "salida", e # "error" => m.etapa \in ConIntento
      PROVE  TiendaEnOrden(t)' /\ TipoDePago'
  <2> DEFINE n == [m EXCEPT !.etapa = e, !.bien = FALSE]
  <2>1. /\ n.etapa = e /\ n.leida = m.leida /\ n.aviso = m.aviso /\ n.pi = m.pi /\ Pone(t, n)
        /\ n \in [etapa : EtapasDePago, leida : EstadosReserva, pi : 0 .. MaxIntenciones,
                  bien : BOOLEAN, aviso : AvisosDePago]
    BY <1>2, <1>a DEF Queda, EtapasDePago
  <2>2. TipoDePago'
    <3> HIDE DEF n
    <3>1. QED
      BY <2>1 DEF Pone, TipoDePago
  <2>3. /\ m.aviso \in {"ninguno", "noConfirmado"}
        /\ m.etapa \in ConIntento => m.pi \in entregadas'
    BY <1>2, <1>b DEF TiendaEnOrden
  <2>4. TiendaEnOrden(t)'
    <3> HIDE DEF n
    <3>1. n.etapa \in ConIntento => n.pi \in entregadas'
      BY <1>2, <2>1, <2>3 DEF ConIntento
    <3>2. QED
      BY <1>b, <1>2, <2>1, <2>3, <3>1, TiendaLibre
  <2>5. QED
    BY <2>2, <2>4
<1>3. ASSUME SinIntento(t), m.etapa \in {"leida", "pidiendo", "caducado", "reabriendo"}
      PROVE  TiendaEnOrden(t)' /\ TipoDePago'
  BY <1>2, <1>3 DEF SinIntento, ConIntento
<1>4. ASSUME SinConfirmar(t), m.etapa \in {"pagado", "confirmando"}
      PROVE  TiendaEnOrden(t)' /\ TipoDePago'
  <2> DEFINE n == [m EXCEPT !.etapa = "abonando", !.bien = FALSE, !.aviso = "noConfirmado"]
  <2>1. /\ n.etapa = "abonando" /\ n.leida = m.leida /\ n.aviso = "noConfirmado"
        /\ n.pi = m.pi /\ Pone(t, n)
        /\ n \in [etapa : EtapasDePago, leida : EstadosReserva, pi : 0 .. MaxIntenciones,
                  bien : BOOLEAN, aviso : AvisosDePago]
    BY <1>4, <1>a DEF SinConfirmar, EtapasDePago, AvisosDePago
  <2>2. TipoDePago'
    <3> HIDE DEF n
    <3>1. QED
      BY <2>1 DEF Pone, TipoDePago
  <2>3. m.pi \in entregadas'
    BY <1>b, <1>4 DEF TiendaEnOrden, ConIntento
  <2>4. TiendaEnOrden(t)'
    <3> HIDE DEF n
    <3>1. QED
      BY <1>b, <2>1, <2>3, TiendaLibre
  <2>5. QED
    BY <2>2, <2>4
<1>5. CASE NoHayIntento(t)
  BY <1>3, <1>5 DEF NoHayIntento, Pide
<1>6. CASE IntentoCaducado(t)
  BY <1>2, <1>6 DEF IntentoCaducado, EnTienda, ConIntento
<1>7. CASE NoSeConfirma(t)
  BY <1>4, <1>7 DEF NoSeConfirma, EnTienda
<1>8. CASE SinContestar(t)
  BY <1>3, <1>4, <1>8 DEF SinContestar, Pide
<1>9. QED
  BY <1>1, <1>5, <1>6, <1>7, <1>8

\* A tab whose call for an intent goes on, or is answered with one.
LEMMA TiendaPide ==
    ASSUME Base, TipoDePago, Firme, NEW t \in Tiendas, TiendaEnOrden(t),
           PedirIntento(t) \/ SePideElIntento(t) \/ LlegaElIntento(t)
    PROVE  TiendaEnOrden(t)' /\ TipoDePago'
<1> DEFINE m == mostrador[t]
           Forma == [etapa : EtapasDePago, leida : EstadosReserva, pi : 0 .. MaxIntenciones,
                     bien : BOOLEAN, aviso : AvisosDePago]
<1>a. m \in Forma /\ Tipos /\ t \in Procesos /\ mem[t].pi \in 0 .. MaxIntenciones
  BY PaginaDePagoOK DEF TipoDePago, Base, Tipos, TypeOK, Procesos, Filas
<1>b. entregadas \subseteq entregadas' /\ (m.leida = "completed" => reserva' = "completed")
  BY DEF Firme, TiendaEnOrden
<1>c. ASSUME NEW n \in Forma, Pone(t, n) PROVE mostrador'[t] = n /\ TipoDePago'
  BY <1>c DEF Pone, TipoDePago
<1>1. CASE PedirIntento(t)
  <2> DEFINE e == IF EnTienda(t, "leida") THEN "pidiendo" ELSE "reabriendo"
             n == [m EXCEPT !.etapa = e, !.bien = FALSE]
  <2>1. /\ m.etapa \in {"leida", "caducado"} /\ Pone(t, n)
        /\ e = "reabriendo" => m.etapa = "caducado"
    BY <1>1 DEF PedirIntento, Queda, EnTienda
  <2>2. /\ n.etapa = e /\ n.leida = m.leida /\ n.aviso = m.aviso /\ n.pi = m.pi
        /\ n.bien = FALSE /\ n \in Forma /\ e \in {"pidiendo", "reabriendo"}
    BY <1>a DEF EtapasDePago
  <2>3. pc'[t] # "libre"
    BY <1>1, <1>a DEF PedirIntento, IniciarPago, BloqueaReserva, Tipos, TypeOK
  <2>4. /\ m.aviso \in {"ninguno", "noConfirmado"}
        /\ e = "reabriendo" => m.pi \in entregadas'
    BY <1>b, <2>1 DEF TiendaEnOrden, ConIntento
  <2> HIDE DEF n, e, Forma
  <2>5. mostrador'[t] = n /\ TipoDePago'
    BY <1>c, <2>1, <2>2
  <2>6. Dicha(t)' = FALSE
    BY <2>2, <2>5 DEF Dicha, EnTienda
  <2>7. TiendaEnOrden(t)'
    BY <1>b, <2>2, <2>3, <2>4, <2>5, <2>6 DEF TiendaEnOrden, ConIntento
  <2>8. QED
    BY <2>5, <2>7
<1>2. CASE SePideElIntento(t)
  <2> DEFINE n == [m EXCEPT !.bien = ElDeAntes(t)]
  <2>1. /\ m.etapa \in {"pidiendo", "reabriendo"} /\ Pone(t, n) /\ pc'[t] # "libre"
        /\ ReservaYPago(t) \/ SoloPago(t) \/ Guardar(t)
    BY <1>2 DEF SePideElIntento, Pide
  <2>2. /\ n.etapa = m.etapa /\ n.leida = m.leida /\ n.aviso = m.aviso /\ n.pi = m.pi
        /\ n.bien = ElDeAntes(t) /\ n \in Forma
    BY <1>a DEF ElDeAntes, EnEtapa
  <2>3. /\ m.aviso \in {"ninguno", "noConfirmado"}
        /\ m.etapa = "reabriendo" => m.pi \in entregadas'
    BY <1>b, <2>1 DEF TiendaEnOrden, ConIntento
  <2>4. ASSUME ElDeAntes(t)
        PROVE  tarea'[t] = "pagar" /\ pc'[t] = "guardar" /\ mem'[t].pi \in entregadas'
    <3>1. /\ pc[t] = "consultar" /\ tarea[t] = "pagar" /\ intencion[mem[t].pi] = "pagable"
          /\ ~Suelta(t) /\ ~Cobra(t)
      BY <2>4 DEF ElDeAntes, EnEtapa, Suelta, Cobra
    <3>2. ~Deshace(t)
      BY <1>a, <2>1 DEF Deshace, Pasa, Tipos, TypeOK
    <3>3. ~ReservaYPago(t)
      BY <3>1, <3>2 DEF ReservaYPago, CambiarEstado, Caducar, Capturar, Reembolsar, Resolver,
         BloquearPago, EsperaAgotada, ConsultarAlSoltar, ConsultaFallidaAlSoltar,
         ConsultarAlCobrar, CancelarAlSoltar, CancelacionFallida, CapturarRetencion,
         DevolverCobro, CapturaRechazada, FalloDeStripe, EnEtapa
    <3>4. ConsultarAlPagar(t)
      BY <2>1, <3>1, <3>3 DEF SoloPago, IniciarPago, CrearIntencion, EscribirPago,
         ConfirmarRetencion, ConsultarAlConfirmar, AvisoRetenida, Guardar, EnEtapa
    <3>5. /\ tarea'[t] = "pagar" /\ pc'[t] = "guardar" /\ mem'[t].pi = mem[t].pi
          /\ mem[t].pi \in entregadas'
      BY <1>a, <3>1, <3>4 DEF ConsultarAlPagar, Sigue, Reflejada, Tipos, TypeOK
    <3>6. QED
      BY <3>5
  <2> HIDE DEF n, Forma
  <2>5. mostrador'[t] = n /\ TipoDePago'
    BY <1>c, <2>1, <2>2
  <2>6. Dicha(t)' = FALSE
    BY <2>1, <2>2, <2>5 DEF Dicha, EnTienda
  <2>7. TiendaEnOrden(t)'
    BY <1>b, <2>1, <2>2, <2>3, <2>4, <2>5, <2>6 DEF TiendaEnOrden, ConIntento
  <2>8. QED
    BY <2>5, <2>7
<1>3. CASE LlegaElIntento(t)
  <2> DEFINE n == Tienda("abonando", m.leida, mem[t].pi)
  <2>1. /\ Pone(t, n) /\ Pide(t)
        /\ EscribirPago(t) \/ m.bien
    BY <1>3 DEF LlegaElIntento
  <2>2. /\ n.etapa = "abonando" /\ n.leida = m.leida /\ n.aviso = "ninguno"
        /\ n.pi = mem[t].pi /\ n \in Forma
    BY <1>a DEF Tienda, EtapasDePago, AvisosDePago
  <2>3. mem[t].pi \in entregadas'
    BY <1>b, <2>1 DEF EscribirPago, TiendaEnOrden
  <2> HIDE DEF n, Forma
  <2>4. TipoDePago'
    BY <1>c, <2>1, <2>2
  <2>5. TiendaEnOrden(t)'
    BY <1>a, <1>b, <2>1, <2>2, <2>3, TiendaLibre
  <2>6. QED
    BY <2>4, <2>5
<1>4. QED
  BY <1>1, <1>2, <1>3

\* What confirmPaymentHold saves is what was paid, with nobody else about to write.
LEMMA ConfirmaYGuarda ==
    ASSUME Base, NEW t \in Procesos, Guardar(t), tarea[t] = "confirmarPago",
           mem[t].estado # "pending", NEW i
    PROVE  SinPendiente(i)'
<1>1. pc[t] = "guardar" /\ OrdenDe(t)
  BY DEF Guardar, EnEtapa, Base, Prometido, Orden
<1>2. bloqueoPago = t
  BY <1>1 DEF OrdenDe, ConPago, ConCopiaAlDia
<1>3. pago' = mem[t] /\ bloqueoPago' = Nadie
  BY <1>2 DEF Guardar, SueltaBloqueos
<1>4. QED
  BY <1>3, ConstantesOK DEF SinPendiente

\* A tab that pays, asks for that to be confirmed and hears that it is.
LEMMA TiendaConfirma ==
    ASSUME Base, TipoDePago, Firme, NEW t \in Tiendas, TiendaEnOrden(t),
           \/ PagarEnStripe(t) \/ PedirConfirmacion(t)
           \/ SePideConfirmar(t) \/ Confirmada(t)
    PROVE  TiendaEnOrden(t)' /\ TipoDePago'
<1> DEFINE m == mostrador[t]
           Forma == [etapa : EtapasDePago, leida : EstadosReserva, pi : 0 .. MaxIntenciones,
                     bien : BOOLEAN, aviso : AvisosDePago]
<1>a. /\ m \in Forma /\ Tipos /\ t \in Procesos
  BY PaginaDePagoOK DEF TipoDePago, Base, Procesos
<1>b. entregadas \subseteq entregadas' /\ (m.leida = "completed" => reserva' = "completed")
  BY DEF Firme, TiendaEnOrden
<1>c. ASSUME NEW n \in Forma, Pone(t, n) PROVE mostrador'[t] = n /\ TipoDePago'
  BY <1>c DEF Pone, TipoDePago
<1>i. PICK i \in Nat : i = m.pi
  BY <1>a, ConstantesOK
<1>d. m.etapa \in ConIntento => m.pi \in entregadas /\ m.pi \in Intenciones
  BY <1>a DEF TiendaEnOrden, Tipos, TypeOK
<1>e. /\ m.etapa \in {"pagado", "confirmando"} => Ocurrio(i)'
      /\ Dicha(t) => SinPendiente(i)'
  <2>1. m.etapa \in {"pagado", "confirmando", "salida"} =>
          m.pi \in entregadas /\ m.pi \in Intenciones /\ Ocurrio(m.pi) /\ Ocurrio(i)'
    <3>1. m.etapa \in {"pagado", "confirmando", "salida"} => Ocurrio(m.pi)
      BY DEF TiendaEnOrden
    <3>2. QED
      BY <1>d, <1>i, <3>1 DEF Firme, ConIntento
  <2>2. Dicha(t) => SinPendiente(m.pi) /\ m.etapa \in {"confirmando", "salida"}
    BY DEF TiendaEnOrden, Dicha, EnTienda
  <2>3. QED
    BY <1>i, <2>1, <2>2 DEF Firme
<1>f. m.etapa \in {"abonando", "pagado", "confirmando"} =>
        m.pi \in entregadas' /\ m.aviso \in {"ninguno", "noConfirmado"}
  BY <1>b DEF TiendaEnOrden, ConIntento
\* While its call is not known to have gone well it is at one of two stages.
<1>g. m.etapa = "confirmando" /\ m.bien = FALSE =>
        /\ tarea[t] = "confirmarPago" /\ pc[t] \in {"consultar", "guardar"}
        /\ mem[t].pi = m.pi /\ ~Suelta(t) /\ ~Cobra(t)
        /\ pc[t] = "guardar" => mem[t].estado # "pending"
  BY DEF TiendaEnOrden, Suelta, Cobra
<1>h. m.etapa = "confirmando" /\ m.bien = FALSE /\ Guardar(t) => SinPendiente(i)'
  BY <1>a, <1>g, ConfirmaYGuarda DEF Guardar, EnEtapa
<1>1. CASE PagarEnStripe(t)
  <2> DEFINE n == [m EXCEPT !.etapa = "pagado", !.bien = FALSE]
  <2>1. /\ n.etapa = "pagado" /\ n.leida = m.leida /\ n.aviso = m.aviso /\ n.pi = m.pi
        /\ n.bien = FALSE /\ n \in Forma /\ Pone(t, n) /\ m.etapa = "abonando"
    BY <1>1, <1>a DEF PagarEnStripe, Queda, EnTienda, EtapasDePago
  <2>2. Ocurrio(i)'
    <3>1. m.pi \in Intenciones /\ ClientePaga(m.pi)
      BY <1>1, <1>d, <2>1 DEF PagarEnStripe, ConIntento
    <3>2. intencion'[m.pi] = "succeeded" \/ m.pi \in retenidas'
      BY <1>a, <3>1 DEF ClientePaga, Tipos, TypeOK
    <3>3. QED
      BY <1>i, <3>2 DEF Ocurrio
  <2> HIDE DEF n, Forma
  <2>3. mostrador'[t] = n /\ TipoDePago'
    BY <1>c, <2>1
  <2>4. (Dicha(t)' = FALSE) /\ (Espera(t)' = FALSE) /\ (Pide(t)' = FALSE)
    BY <2>1, <2>3 DEF Dicha, Espera, Pide, EnTienda
  <2>5. TiendaEnOrden(t)'
    BY <1>b, <1>i, <1>f, <2>1, <2>2, <2>3, <2>4 DEF TiendaEnOrden
  <2>6. QED
    BY <2>3, <2>5
<1>2. CASE PedirConfirmacion(t)
  <2> DEFINE n == [m EXCEPT !.etapa = "confirmando", !.bien = FALSE]
  <2>1. /\ n.etapa = "confirmando" /\ n.leida = m.leida /\ n.aviso = m.aviso /\ n.pi = m.pi
        /\ n.bien = FALSE /\ n \in Forma /\ Pone(t, n)
        /\ m.etapa = "pagado" /\ pago.pi = m.pi
    BY <1>2, <1>a DEF PedirConfirmacion, Queda, EnTienda, EtapasDePago
  <2>2. pc'[t] = "consultar" /\ tarea'[t] = "confirmarPago" /\ mem'[t].pi = m.pi
    BY <1>2, <1>a, <2>1 DEF PedirConfirmacion, ConfirmarRetencion, BloqueaPago, Tipos, TypeOK
  <2> HIDE DEF n, Forma
  <2>3. mostrador'[t] = n /\ TipoDePago'
    BY <1>c, <2>1
  <2>4. (Dicha(t)' = FALSE) /\ (Pide(t)' = FALSE)
    BY <2>1, <2>3 DEF Dicha, Pide, EnTienda
  <2>5. TiendaEnOrden(t)'
    BY <1>b, <1>i, <1>e, <1>f, <2>1, <2>2, <2>3, <2>4 DEF TiendaEnOrden
  <2>6. QED
    BY <2>3, <2>5
<1>3. CASE SePideConfirmar(t)
  <2> DEFINE b == m.bien \/ EnEtapa(t, "guardar")
             n == [m EXCEPT !.bien = b]
  <2>1. /\ n.etapa = "confirmando" /\ n.leida = m.leida /\ n.aviso = m.aviso /\ n.pi = m.pi
        /\ n.bien = b /\ n \in Forma /\ Pone(t, n)
        /\ m.etapa = "confirmando" /\ pc'[t] # "libre"
    BY <1>3, <1>a DEF SePideConfirmar, EnTienda, EnEtapa
  <2>2. CASE m.bien
    <3>1. n.bien = TRUE /\ SinPendiente(i)'
      BY <1>e, <2>1, <2>2 DEF Dicha, EnTienda
    <3> HIDE DEF n, b, Forma
    <3>2. mostrador'[t] = n /\ TipoDePago'
      BY <1>c, <2>1
    <3>3. Pide(t)' = FALSE
      BY <2>1, <3>2 DEF Pide
    <3>4. TiendaEnOrden(t)'
      BY <1>b, <1>i, <1>e, <1>f, <2>1, <3>1, <3>2, <3>3 DEF TiendaEnOrden
    <3>5. QED
      BY <3>2, <3>4
  <2>3. CASE m.bien = FALSE /\ pc[t] = "guardar"
    <3>1. Guardar(t)
      BY <1>3, <1>a, <1>g, <2>1, <2>3
      DEF SePideConfirmar, ReservaYPago, CambiarEstado, Caducar, Capturar, Reembolsar,
          Resolver, BloquearPago, EsperaAgotada, ConsultarAlSoltar, ConsultaFallidaAlSoltar,
          ConsultarAlCobrar, CancelarAlSoltar, CancelacionFallida, CapturarRetencion,
          DevolverCobro, CapturaRechazada, FalloDeStripe, ConsultarAlConfirmar, EnEtapa
    <3>2. n.bien = TRUE /\ SinPendiente(i)'
      BY <1>h, <2>1, <2>3, <3>1 DEF EnEtapa
    <3> HIDE DEF n, b, Forma
    <3>3. mostrador'[t] = n /\ TipoDePago'
      BY <1>c, <2>1
    <3>4. Pide(t)' = FALSE
      BY <2>1, <3>3 DEF Pide
    <3>5. TiendaEnOrden(t)'
      BY <1>b, <1>i, <1>e, <1>f, <2>1, <3>2, <3>3, <3>4 DEF TiendaEnOrden
    <3>6. QED
      BY <3>3, <3>5
  <2>4. CASE m.bien = FALSE /\ pc[t] # "guardar"
    <3>1. pc[t] = "consultar" /\ tarea[t] = "confirmarPago" /\ mem[t].pi = m.pi
          /\ ~Suelta(t) /\ ~Cobra(t)
      BY <1>g, <2>1, <2>4
    <3>2. ~Deshace(t)
      BY <1>a, <2>1 DEF Deshace, Pasa, Tipos, TypeOK
    <3>3. ~ReservaYPago(t)
      BY <3>1, <3>2 DEF ReservaYPago, CambiarEstado, Caducar, Capturar, Reembolsar, Resolver,
         BloquearPago, EsperaAgotada, ConsultarAlSoltar, ConsultaFallidaAlSoltar,
         ConsultarAlCobrar, CancelarAlSoltar, CancelacionFallida, CapturarRetencion,
         DevolverCobro, CapturaRechazada, FalloDeStripe, EnEtapa
    <3>4. ConsultarAlConfirmar(t)
      BY <1>3, <3>1, <3>3 DEF SePideConfirmar, Guardar, EnEtapa
    <3>5. PICK f : /\ Sigue(t, "guardar", f)
                   /\ \/ f = mem[t] /\ mem[t].estado # "pending"
                      \/ f = Retenida(mem[t])
                      \/ \E e \in {"held", "completed"} : f = Reflejada(mem[t], e)
      <4> DEFINE e == EstadoSegunStripe(intencion[mem[t].pi])
                 g == IF e = "held" THEN Retenida(mem[t]) ELSE Reflejada(mem[t], e)
      <4>1. /\ e \in {"held", "completed"}
            /\ Sigue(t, "guardar", IF PuedeReflejar(mem[t].estado, e) THEN g ELSE mem[t])
        BY <3>2, <3>4 DEF ConsultarAlConfirmar
      <4>2. ~PuedeReflejar(mem[t].estado, e) => mem[t].estado # "pending"
        BY <4>1 DEF PuedeReflejar, REFLEJOS, TRANSICIONES
      <4> HIDE DEF e
      <4>3. QED
        BY <4>1, <4>2
    <3>6. f.pi = mem[t].pi /\ f.estado # "pending"
      BY <3>5 DEF Retenida, Reflejada
    <3>7. /\ tarea'[t] = "confirmarPago" /\ pc'[t] = "guardar"
          /\ mem'[t].pi = m.pi /\ mem'[t].estado # "pending"
      BY <1>a, <3>1, <3>5, <3>6 DEF Sigue, Tipos, TypeOK
    <3>8. n.bien = FALSE
      BY <2>1, <2>4 DEF EnEtapa
    <3> HIDE DEF n, b, Forma
    <3>9. mostrador'[t] = n /\ TipoDePago'
      BY <1>c, <2>1
    <3>10. (Dicha(t)' = FALSE) /\ (Pide(t)' = FALSE)
      BY <2>1, <3>8, <3>9 DEF Dicha, Pide, EnTienda
    <3>11. TiendaEnOrden(t)'
      BY <1>b, <1>i, <1>e, <1>f, <2>1, <3>7, <3>8, <3>9, <3>10 DEF TiendaEnOrden
    <3>12. QED
      BY <3>9, <3>11
  <2>5. QED
    BY <1>a, <2>2, <2>3, <2>4
<1>4. CASE Confirmada(t)
  <2> DEFINE n == [m EXCEPT !.etapa = "salida", !.bien = FALSE,
                            !.aviso = AvisoAlPagar(m.leida)]
  <2>1. /\ n.etapa = "salida" /\ n.leida = m.leida /\ n.aviso = AvisoAlPagar(m.leida)
        /\ n.pi = m.pi /\ n.bien = FALSE /\ n \in Forma /\ Pone(t, n)
        /\ m.etapa = "confirmando"
        /\ Guardar(t) \/ m.bien
        /\ n.aviso = "cobrado" => m.leida = "completed"
    BY <1>4, <1>a DEF Confirmada, EnTienda, EtapasDePago, AvisosDePago, AvisoAlPagar,
       AnunciaCobro
  <2>2. SinPendiente(i)'
    BY <1>a, <1>e, <1>h, <2>1 DEF Dicha, EnTienda
  <2> HIDE DEF n, Forma
  <2>3. mostrador'[t] = n /\ TipoDePago'
    BY <1>c, <2>1
  <2>4. (Espera(t)' = FALSE) /\ (Pide(t)' = FALSE)
    BY <2>1, <2>3 DEF Espera, Pide, EnTienda
  <2>5. TiendaEnOrden(t)'
    BY <1>b, <1>i, <1>e, <1>f, <2>1, <2>2, <2>3, <2>4 DEF TiendaEnOrden
  <2>6. QED
    BY <2>3, <2>5
<1>5. QED
  BY <1>1, <1>2, <1>3, <1>4

\* A tab is left alone by whoever is not its request.
LEMMA TiendaDeOtro ==
    ASSUME Base, TipoDePago, Firme, NEW t \in Tiendas, TiendaEnOrden(t),
           mostrador'[t] = mostrador[t],
           \/ UNCHANGED vars
           \/ Externo \/ Confirmar \/ AvisoCobrada \/ AvisoCancelada
           \/ \E p \in Procesos : /\ p = t => ~Espera(t)
                                  /\ Paso(p)
    PROVE  TiendaEnOrden(t)'
<1>0. Tipos /\ Orden /\ t \in Procesos
  BY PaginaDePagoOK DEF Base, Prometido, Procesos
<1>1. CASE UNCHANGED procesos
  BY <1>0, <1>1, TiendaAparte DEF procesos
<1>2. CASE Externo \/ Confirmar \/ AvisoCobrada \/ AvisoCancelada
  BY <1>0, <1>1, <1>2, ExternoQuieto
<1>3. ASSUME NEW p \in Procesos, p = t => ~Espera(t), Paso(p) PROVE TiendaEnOrden(t)'
  <2>1. Respeta(p)
    BY <1>0, <1>3, PasoRespeta DEF Paso
  <2>2. QED
    BY <1>0, <1>3, <2>1, TiendaAparte DEF Respeta
<1>4. QED
  BY <1>1, <1>2, <1>3 DEF vars

\* Every step, of the page or of anybody else.
LEMMA PasoTiendas ==
    Base /\ EnTurno' /\ TiendasEnOrden /\ [NextDePago]_varsDePago => TiendasEnOrden'
<1> SUFFICES ASSUME Base, EnTurno', TiendasEnOrden, [NextDePago]_varsDePago
             PROVE  TiendasEnOrden'
  OBVIOUS
<1>0. Tipos /\ Firme /\ TipoDePago /\ \A t \in Tiendas : TiendaEnOrden(t)
  BY PasoDePago, PasoFirme DEF Base, TiendasEnOrden
<1>1. CASE UNCHANGED varsDePago
  BY <1>0, <1>1, TiendaDeOtro DEF varsDePago, TiendasEnOrden, TipoDePago
<1>2. CASE LoDemas
  <2>1. mostrador' = mostrador
    BY <1>2 DEF LoDemas
  <2>2. ASSUME NEW t \in Tiendas PROVE TiendaEnOrden(t)'
    <3>1. \/ Externo \/ Confirmar \/ AvisoCobrada \/ AvisoCancelada
          \/ \E p \in Procesos : /\ p = t => ~Espera(t)
                                 /\ Paso(p)
      BY <1>2 DEF LoDemas, SinPeticion
    <3>2. QED
      BY <1>0, <2>1, <3>1, TiendaDeOtro
  <2>3. QED
    BY <1>0, <2>1, <2>2 DEF TiendasEnOrden, TipoDePago
<1>3. ASSUME NEW u \in Tiendas,
             \/ AbrirPago(u) \/ PedirIntento(u) \/ SePideElIntento(u)
             \/ LlegaElIntento(u) \/ NoHayIntento(u)
             \/ PagarEnStripe(u) \/ IntentoCaducado(u)
             \/ PedirConfirmacion(u) \/ SePideConfirmar(u)
             \/ Confirmada(u) \/ NoSeConfirma(u) \/ SinContestar(u)
      PROVE  TiendasEnOrden'
  <2>1. TiendaEnOrden(u)' /\ TipoDePago'
    BY <1>0, <1>3, TiendaSeQueda, TiendaPide, TiendaConfirma
  <2>2. ASSUME NEW t \in Tiendas \ {u} PROVE TiendaEnOrden(t)'
    <3>1. /\ UNCHANGED vars \/ ClientePaga(mostrador[u].pi) \/ PasoDe(u)
          /\ \E m : Pone(u, m)
      BY <1>3, MueveUnaTienda
    <3>2. mostrador'[t] = mostrador[t]
      BY <1>0, <3>1 DEF Pone, TipoDePago
    <3>3. u \in Procesos /\ (ClientePaga(mostrador[u].pi) => mostrador[u].pi \in Intenciones)
      BY <1>0, PaginaDePagoOK DEF Procesos, ClientePaga, Tipos, TypeOK
    <3>4. \/ UNCHANGED vars
          \/ Externo \/ Confirmar \/ AvisoCobrada \/ AvisoCancelada
          \/ \E p \in Procesos : /\ p = t => ~Espera(t)
                                 /\ Paso(p)
      BY <3>1, <3>3 DEF PasoDe, Paso, Externo
    <3>5. QED
      BY <1>0, <3>2, <3>4, TiendaDeOtro
  <2>3. QED
    BY <2>1, <2>2 DEF TiendasEnOrden
<1>4. QED
  BY <1>1, <1>2, <1>3 DEF NextDePago

\* What each tab has in its hands happened, and its request is about that: with the
\* calls of the page cut where the API's are, and everybody else in between.
THEOREM PaginaInvariante == SpecDePago => [](Base /\ TiendasEnOrden)
<1>1. InitDePago => TiendasEnOrden
  <2> SUFFICES ASSUME InitDePago PROVE TiendasEnOrden
    OBVIOUS
  <2>1. TipoDePago
    BY ConstantesOK DEF InitDePago, TipoDePago, Tienda, EtapasDePago, AvisosDePago,
       EstadosReserva
  <2>2. ASSUME NEW t \in Tiendas PROVE TiendaEnOrden(t)
    <3>1. /\ mostrador[t].etapa = "fuera" /\ mostrador[t].aviso = "ninguno"
          /\ mostrador[t].leida = "pending"
      BY DEF InitDePago, Tienda
    <3>2. QED
      BY <3>1 DEF TiendaEnOrden, Espera, Pide, Dicha, EnTienda, ConIntento
  <2>3. QED
    BY <2>1, <2>2 DEF TiendasEnOrden
<1>2. SpecDePago => []Base
  BY PaginaEsCobro, SpecBase
<1>3. Base => EnTurno
  BY DEF Base
<1>4. QED
  BY <1>1, <1>2, <1>3, PasoTiendas, PTL DEF SpecDePago

\* Nobody is offered to pay again what is paid; what the page said was paid was, and
\* is written; and it charges at once, without saying so, only what was completed
\* after it was read.
THEOREM SiempreCuadra == SpecDePago => []PagarCuadra
<1>1. Base /\ TiendasEnOrden => PagarCuadra
  <2> SUFFICES ASSUME Base, TiendasEnOrden PROVE PagarCuadra
    OBVIOUS
  <2>0. Tipos /\ Una /\ AlDia /\ \A t \in Tiendas : TiendaEnOrden(t)
    BY DEF Base, Prometido, TiendasEnOrden
  <2>1. NoSePagaDosVeces
    <3> SUFFICES ASSUME NEW t \in Tiendas, EnTienda(t, "abonando"),
                        intencion[mostrador[t].pi] = "pagable"
                 PROVE  /\ pago.pi = mostrador[t].pi
                        /\ \A i \in Intenciones :
                             intencion[i] \in {"requires_capture", "succeeded"} =>
                               DeRenovacion(i)
      BY DEF NoSePagaDosVeces
    <3>1. mostrador[t].pi \in entregadas /\ mostrador[t].pi \in Intenciones
      BY <2>0 DEF TiendaEnOrden, EnTienda, ConIntento, Tipos, TypeOK
    <3>2. pago.pi = mostrador[t].pi /\ \A i \in Intenciones : Viva(i) => i = pago.pi
      BY <2>0, <3>1 DEF Una, SoloVive, Viva
    <3>3. ASSUME NEW i \in Intenciones,
                 intencion[i] \in {"requires_capture", "succeeded"}, ~DeRenovacion(i)
          PROVE  FALSE
      <4>1. Viva(i)
        BY <3>3 DEF DeRenovacion, Viva, Renovada
      <4>2. QED
        BY <3>2, <3>3, <4>1
    <3>4. QED
      BY <3>2, <3>3
  <2>2. LoDichoConsta
    <3> SUFFICES ASSUME NEW t \in Tiendas,
                        mostrador[t].aviso \in {"cobrado", "retenidoConfirmada", "completado"}
                 PROVE  /\ Ocurrio(mostrador[t].pi) /\ SinPendiente(mostrador[t].pi)
                        /\ mostrador[t].aviso = "cobrado" => reserva = "completed"
      BY DEF LoDichoConsta, Ocurrio, SinPendiente
    <3>1. mostrador[t].etapa = "salida"
      BY <2>0 DEF TiendaEnOrden
    <3>2. QED
      BY <2>0, <3>1 DEF TiendaEnOrden, Dicha, EnTienda
  <2>3. LoAnunciadoVale
    BY <2>0 DEF LoAnunciadoVale, TiendaEnOrden, EnTienda, ConIntento, AlDia, Tipos, TypeOK
  <2>4. QED
    BY <2>1, <2>2, <2>3 DEF PagarCuadra
<1>2. QED
  BY <1>1, PaginaInvariante, PTL
=============================================================================
