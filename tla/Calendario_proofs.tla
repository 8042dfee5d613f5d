-------------------------- MODULE Calendario_proofs --------------------------
(***************************************************************************)
(* The provider's calendar for any number of bookings, any durations and   *)
(* any horizon.                                                            *)
(*                                                                         *)
(* SinSolapes is not inductive: a transaction the constraint has let       *)
(* through will confirm its booking whatever happens meanwhile, so the     *)
(* invariant counts its slot as taken from then on.                        *)
(***************************************************************************)
EXTENDS Calendario, TLAPS

\* Confirmed, or about to be without looking again.
Tomado(r) == estado[r] = "confirmed" \/ tx[r] = "pasada"

HuecosDisjuntos ==
    \A r, q \in Reservas :
        r # q /\ Tomado(r) /\ Tomado(q) => ~SePisan(hueco[r], hueco[q])

Inv == TypeOK /\ HuecosDisjuntos

-----------------------------------------------------------------------------

\* Overlapping is the same thing seen from either booking (horarioOcupado).
LEMMA SePisanSimetrico ==
    ASSUME NEW x, NEW y
    PROVE  SePisan(x, y) <=> SePisan(y, x)
BY DEF SePisan

\* The ends of a slot are numbers.
LEMMA HuecoEsNumerico ==
    ASSUME NEW x \in Huecos \cup {SinHueco}
    PROVE  x.inicio \in Nat /\ x.dura \in Nat
<1>1. CASE x \in Huecos
  <2>1. x.inicio \in 0 .. Horizonte /\ x.dura \in Duraciones
    BY <1>1 DEF Huecos, Instantes
  <2>2. x.inicio \in Nat
    BY <2>1, CalendarioOK
  <2>3. x.dura \in Nat
    <3>1. Duraciones \subseteq Nat \ {0}
      BY CalendarioOK
    <3> QED BY <2>1, <3>1
  <2> QED BY <2>2, <2>3
<1>2. CASE x = SinHueco
  BY <1>2 DEF SinHueco
<1> QED BY <1>1, <1>2

\* Two slots that the comparison of their ends keeps apart share no instant.
LEMMA NoSePisanEsDisjuntos ==
    ASSUME NEW x \in Huecos \cup {SinHueco}, NEW y \in Huecos \cup {SinHueco},
           ~SePisan(x, y)
    PROVE  (x.inicio .. (x.inicio + x.dura - 1)) \cap (y.inicio .. (y.inicio + y.dura - 1)) = {}
<1>1. /\ x.inicio \in Nat /\ x.dura \in Nat
      /\ y.inicio \in Nat /\ y.dura \in Nat
  BY HuecoEsNumerico
<1>2. ASSUME NEW t \in x.inicio .. (x.inicio + x.dura - 1),
             t \in y.inicio .. (y.inicio + y.dura - 1)
      PROVE  FALSE
  BY <1>1, <1>2 DEF SePisan
<1> QED BY <1>2

-----------------------------------------------------------------------------

\* The type invariant holds of every calendar.
THEOREM CalendarioTipos == Spec => []TypeOK
<1>1. Init => TypeOK
  BY CalendarioOK DEF Init, TypeOK, Huecos, SinHueco, Instantes, EstadosDeReserva, EtapasDeTx
<1>2. TypeOK /\ [Next]_vars => TypeOK'
  <2> SUFFICES ASSUME TypeOK, [Next]_vars PROVE TypeOK'
    OBVIOUS
  <2> USE DEF TypeOK, EstadosDeReserva, EtapasDeTx
  <2>1. CASE Tic
    BY <2>1, CalendarioOK DEF Tic, Instantes
  <2>2. ASSUME NEW r \in Reservas, NEW h \in Huecos, Pedir(r, h) PROVE TypeOK'
    BY <2>2 DEF Pedir
  <2>3. ASSUME NEW r \in Reservas, IniciarConfirmacion(r) \/ CaidaDeTx(r) PROVE TypeOK'
    BY <2>3 DEF IniciarConfirmacion, CaidaDeTx, SigueTx
  <2>4. ASSUME NEW r \in Reservas, AvanceDeTx(r) PROVE TypeOK'
    BY <2>4 DEF AvanceDeTx, Insertar, ComprobarHorario, Escribir, PasarRestriccion,
                RechazoDeLaRestriccion, EsperaAgotadaEnRestriccion, Comprometer,
                SigueTx, Cambia
  <2>5. ASSUME NEW r \in Reservas, NEW nuevo \in {"completed", "cancelled", "rejected"},
               CerrarReserva(r, nuevo)
        PROVE  TypeOK'
    BY <2>5 DEF CerrarReserva, Cambia
  <2>6. ASSUME NEW r \in Reservas, CaducarSolicitud(r) PROVE TypeOK'
    BY <2>6 DEF CaducarSolicitud, Cambia
  <2>7. CASE UNCHANGED vars
    BY <2>7 DEF vars
  <2> QED BY <2>1, <2>2, <2>3, <2>4, <2>5, <2>6, <2>7 DEF Next
<1> QED BY <1>1, <1>2, PTL DEF Spec

\* A step that takes no new slot and moves none keeps the taken ones apart.
LEMMA SinTomarMas ==
    ASSUME HuecosDisjuntos, UNCHANGED hueco,
           \A q \in Reservas : Tomado(q)' => Tomado(q)
    PROVE  HuecosDisjuntos'
BY DEF HuecosDisjuntos

\* The constraint lets a booking through only beside slots it does not touch.
LEMMA PasarNoSePisa ==
    ASSUME ConRestriccion, Inv, NEW r \in Reservas, PasarRestriccion(r)
    PROVE  HuecosDisjuntos'
<1>1. ASSUME NEW q \in Reservas, q # r, Tomado(q)
      PROVE  ~SePisan(hueco[r], hueco[q])
  BY <1>1 DEF PasarRestriccion, HorarioOcupado, Rivales, Tomado
<1>2. \A q \in Reservas : q # r => (Tomado(q)' <=> Tomado(q))
  BY DEF Inv, TypeOK, PasarRestriccion, SigueTx, Tomado
<1>3. hueco' = hueco
  BY DEF PasarRestriccion, SigueTx
<1>4. ASSUME NEW p \in Reservas, NEW q \in Reservas, p # q, Tomado(p)', Tomado(q)'
      PROVE  ~SePisan(hueco[p], hueco[q])
  <2>1. CASE p = r
    BY <1>1, <1>2, <1>4, <2>1
  <2>2. CASE q = r
    BY <1>1, <1>2, <1>4, <2>2, SePisanSimetrico
  <2>3. CASE p # r /\ q # r
    BY <1>2, <1>4, <2>3 DEF Inv, HuecosDisjuntos
  <2> QED BY <2>1, <2>2, <2>3
<1> QED BY <1>3, <1>4 DEF HuecosDisjuntos, SePisan

\* With the constraint, a provider's confirmed bookings never share an
\* instant, for any number of simultaneous confirmations.
THEOREM CalendarioSinSolapes == ASSUME ConRestriccion PROVE Spec => []SinSolapes
<1>1. Init => HuecosDisjuntos
  BY DEF Init, HuecosDisjuntos, Tomado
<1>2. TypeOK /\ HuecosDisjuntos /\ [Next]_vars => HuecosDisjuntos'
  <2> SUFFICES ASSUME TypeOK, HuecosDisjuntos, [Next]_vars PROVE HuecosDisjuntos'
    OBVIOUS
  <2>1. CASE Tic
    BY <2>1, SinTomarMas DEF Tic, Tomado
  <2>2. ASSUME NEW r \in Reservas, NEW h \in Huecos, Pedir(r, h) PROVE HuecosDisjuntos'
    <3>1. ~Tomado(r)' /\ \A q \in Reservas : Tomado(q)' => Tomado(q)
      BY <2>2 DEF Pedir, EnTx, TypeOK, Tomado
    <3>2. \A q \in Reservas : q # r => hueco'[q] = hueco[q]
      BY <2>2 DEF Pedir, TypeOK
    <3> QED BY <3>1, <3>2 DEF HuecosDisjuntos, Tomado, SePisan
  <2>3. ASSUME NEW r \in Reservas, IniciarConfirmacion(r) \/ CaidaDeTx(r)
        PROVE  HuecosDisjuntos'
    BY <2>3, SinTomarMas DEF IniciarConfirmacion, CaidaDeTx, SigueTx, TypeOK, Tomado
  <2>4. ASSUME NEW r \in Reservas, AvanceDeTx(r) PROVE HuecosDisjuntos'
    <3>1. CASE PasarRestriccion(r)
      BY <3>1, PasarNoSePisa DEF Inv
    <3>2. CASE \/ Insertar(r) \/ ComprobarHorario(r) \/ Escribir(r)
               \/ RechazoDeLaRestriccion(r) \/ EsperaAgotadaEnRestriccion(r)
      BY <3>2, SinTomarMas DEF Insertar, ComprobarHorario, Escribir,
         RechazoDeLaRestriccion, EsperaAgotadaEnRestriccion, SigueTx, Cambia,
         TypeOK, Tomado
    <3>3. CASE Comprometer(r)
      BY <3>3, SinTomarMas DEF Comprometer, EnTx, Cambia, TypeOK, Tomado
    <3> QED BY <2>4, <3>1, <3>2, <3>3 DEF AvanceDeTx
  <2>5. ASSUME NEW r \in Reservas, NEW nuevo \in {"completed", "cancelled", "rejected"},
               CerrarReserva(r, nuevo)
        PROVE  HuecosDisjuntos'
    BY <2>5, SinTomarMas DEF CerrarReserva, Cambia, TypeOK, Tomado
  <2>6. ASSUME NEW r \in Reservas, CaducarSolicitud(r) PROVE HuecosDisjuntos'
    BY <2>6, SinTomarMas DEF CaducarSolicitud, Cambia, TypeOK, Tomado
  <2>7. CASE UNCHANGED vars
    BY <2>7, SinTomarMas DEF vars, Tomado
  <2> QED BY <2>1, <2>2, <2>3, <2>4, <2>5, <2>6, <2>7 DEF Next
<1>3. TypeOK /\ HuecosDisjuntos => SinSolapes
  <2> SUFFICES ASSUME TypeOK, HuecosDisjuntos,
                      NEW r \in Reservas, NEW q \in Reservas,
                      estado[r] = "confirmed", estado[q] = "confirmed", r # q
               PROVE  Ocupa(r) \cap Ocupa(q) = {}
    BY DEF SinSolapes
  <2>1. ~SePisan(hueco[r], hueco[q])
    BY DEF HuecosDisjuntos, Tomado
  <2>2. hueco[r] \in Huecos \cup {SinHueco} /\ hueco[q] \in Huecos \cup {SinHueco}
    BY DEF TypeOK
  <2> QED BY <2>1, <2>2, NoSePisanEsDisjuntos DEF Ocupa
<1> QED BY <1>1, <1>2, <1>3, CalendarioTipos, PTL DEF Spec
=============================================================================
