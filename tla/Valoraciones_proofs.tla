------------------------- MODULE Valoraciones_proofs -------------------------
(***************************************************************************)
(* Reviews for any number of bookings, requests, ratings and reasons.      *)
(*                                                                         *)
(* That a review is never confused with another needs to be said of every  *)
(* copy of it at once, in the table and in the hands of the requests: each *)
(* identifier has had one owner, a booking and a rating, and all its       *)
(* copies are of that owner.                                               *)
(*                                                                         *)
(* And the notices of a booking, for any number of changes at once: each   *)
(* change being served is one of the steps of the booking, which goes      *)
(* through a status once at most, and whoever has not been told of a step  *)
(* has missed a notice or is among those it is still to be told to.        *)
(*                                                                         *)
(* And all of it together with the bell (Campana_proofs), as it is run.    *)
(***************************************************************************)
EXTENDS MCValoraciones, Campana_proofs

ConReserva ==
    \A p \in Peticiones :
        peticion[p].etapa \in {"creando", "guardando", "comparada", "borrando"}
            => peticion[p].reserva \in Reservas

LeidaDeLaTabla ==
    \A p \in Peticiones :
        /\ peticion[p].etapa \in {"guardando", "comparada", "borrando"} => peticion[p].fila.id # 0
        /\ peticion[p].etapa = "comparada"
              => peticion[p].base.id = 0 \/ peticion[p].base.id = peticion[p].fila.id

\* A copy of a review of booking r that has been given an identifier.
DeSuDueno(f, r, fila) ==
    fila.id # 0 => /\ fila.id < siguiente
                   /\ f[fila.id].reserva = r
                   /\ f[fila.id].nota = fila.nota

Atribuye(f) ==
    /\ \A r \in Reservas : DeSuDueno(f, r, valoraciones[r])
    /\ \A p \in Peticiones : /\ DeSuDueno(f, peticion[p].reserva, peticion[p].fila)
                            /\ DeSuDueno(f, peticion[p].reserva, peticion[p].base)

Duenos == [Ids -> [reserva : Reservas \cup {Ninguno}, nota : 0 .. 5]]

CadaIdUnDueno == \E f \in Duenos : Atribuye(f)

Inv == TypeOK /\ ConReserva /\ LeidaDeLaTabla /\ CadaIdUnDueno

-----------------------------------------------------------------------------

\* The average of any reviews is a pair of numbers.
LEMMA MediaEsMedia ==
    ASSUME NEW v
    PROVE  MediaDe(v) \in Medias
<1>1. ASSUME NEW S, S \subseteq Reservas PROVE Cardinality(S) \in Nat
  BY <1>1, ValoracionesOK, FS_Subset, FS_CardinalityType
<1>2. \A n : Con(v, n) \in Nat
  BY <1>1 DEF Con
<1>3. Total(v) \in Nat
  BY <1>1 DEF Total
<1>4. Suma(v) \in Nat
  BY <1>2 DEF Suma
<1>5. Total(v) # 0 => (200 * Suma(v) + Total(v)) \div (2 * Total(v)) \in Nat
  BY <1>3, <1>4
<1> QED BY <1>3, <1>5 DEF MediaDe, Medias, SinMedia

\* Where each request starts and ends.
LEMMA LibreEsTrabajo ==
    /\ Libre \in Trabajos
    /\ NoHay \in Filas
    /\ SinMedia \in Medias
    /\ Libre.etapa = "libre"
BY DEF Libre, ConServicio, Trabajos, NoHay, Filas, SinMedia, Medias, Etapas

\* A row saved is a row.
LEMMA MezclaEsFila ==
    ASSUME NEW x \in Filas, NEW y \in Filas, NEW z \in Filas
    PROVE  Mezcla(x, y, z) \in Filas
BY DEF Mezcla, Columna, Filas

\* The row a save finds is a row.
LEMMA FilaDeEsFila ==
    ASSUME TypeOK, NEW p \in Peticiones, peticion[p].reserva \in Reservas
    PROVE  FilaDe(peticion[p]) \in Filas
BY LibreEsTrabajo DEF FilaDe, TypeOK

-----------------------------------------------------------------------------
(* What beginning a request and going on with it keep.                     *)

\* A request that begins with well-typed hands keeps the types.
LEMMA EmpiezaTipos ==
    ASSUME TypeOK, NEW p \in Peticiones, NEW t \in Trabajos, Empieza(p, t)
    PROVE  TypeOK'
<1>1. servidas' \in 0 .. MaxPeticiones
  BY ValoracionesOK DEF Empieza, TypeOK
<1> QED BY <1>1 DEF Empieza, TypeOK

\* So does one that goes on with them.
LEMMA PasaTipos ==
    ASSUME TypeOK, NEW p \in Peticiones, NEW t \in Trabajos, Pasa(p, t),
           valoraciones' \in [Reservas -> Filas], media' \in Medias,
           siguiente' \in 1 .. MaxValoraciones + 1
    PROVE  TypeOK'
BY DEF Pasa, TypeOK

\* What a request has in its hands is well-typed.
LEMMA ManosTipos ==
    /\ \A e \in Etapas, r \in Reservas, f \in Filas, m \in Motivos \cup {Ninguno} :
          ConResena(e, r, f, m) \in Trabajos
    /\ \A e \in Etapas, s \in Medias : ConServicio(e, s) \in Trabajos
BY LibreEsTrabajo DEF ConResena, ConServicio, Trabajos

\* So are the changes made to a review in memory.
LEMMA CambiosTipos ==
    ASSUME NEW f \in Filas
    PROVE  /\ f.motivo \in Motivos \cup {Ninguno}
           /\ [f EXCEPT !.respuesta = TRUE] \in Filas
           /\ \A m \in Motivos \cup {Ninguno} : [f EXCEPT !.motivo = m] \in Filas
           /\ \A n \in 0 .. 5 : [f EXCEPT !.nota = n] \in Filas
           /\ \A i \in Ids : [f EXCEPT !.id = i] \in Filas
BY DEF Filas

\* Next, with the request that moves named.
UnPaso(p) ==
    \/ \E r \in Reservas, n \in Notas : Valorar(p, r, n)
    \/ \E r \in Reservas, m \in Motivos : Denunciar(p, r, m)
    \/ \E r \in Reservas : Responder(p, r) \/ Descartar(p, r) \/ Borrar(p, r)
    \/ Insertar(p) \/ ChocaLaReserva(p)
    \/ Comparar(p) \/ Escribir(p) \/ Reinsertar(p)
    \/ Quitar(p) \/ LeerMedia(p) \/ EscribirMedia(p)
    \/ EditarServicio(p) \/ CotejarServicio(p) \/ GuardarServicio(p)
    \/ Caida(p)

LEMMA PasoDeNext == Next => \E p \in Peticiones : UnPaso(p)
BY DEF Next, UnPaso

Resenas == {"creando", "guardando", "comparada", "borrando"}
Comienzos == {"creando", "guardando", "borrando"}

\* The five requests about a review begin alike.
LEMMA EmpiezaConResena ==
    ASSUME TypeOK, NEW p \in Peticiones,
           \/ \E r \in Reservas, n \in Notas : Valorar(p, r, n)
           \/ \E r \in Reservas, m \in Motivos : Denunciar(p, r, m)
           \/ \E r \in Reservas : Responder(p, r) \/ Descartar(p, r) \/ Borrar(p, r)
    PROVE  \E r \in Reservas, e \in Comienzos, f \in Filas, m \in Motivos \cup {Ninguno} :
              /\ Empieza(p, ConResena(e, r, f, m))
              /\ e # "creando" => /\ valoraciones[r].id # 0
                                  /\ f.id = valoraciones[r].id
                                  /\ f.nota = valoraciones[r].nota
              /\ e = "creando" => f.id = 0
<1>1. CASE \E r \in Reservas, n \in Notas : Valorar(p, r, n)
  <2>1. PICK r \in Reservas, n \in Notas : Valorar(p, r, n)
    BY <1>1
  <2>2. n \in 0 .. 5
    BY ValoracionesOK
  <2>3. [NoHay EXCEPT !.nota = n] \in Filas
    BY <2>2, LibreEsTrabajo, CambiosTipos
  <2>4. [NoHay EXCEPT !.nota = n].id = 0
    BY DEF NoHay
  <2> QED BY <2>1, <2>3, <2>4 DEF Valorar, Comienzos
<1>2. ASSUME NEW r \in Reservas
      PROVE  /\ valoraciones[r] \in Filas
             /\ \A m : /\ [valoraciones[r] EXCEPT !.motivo = m].id = valoraciones[r].id
                       /\ [valoraciones[r] EXCEPT !.motivo = m].nota = valoraciones[r].nota
             /\ [valoraciones[r] EXCEPT !.respuesta = TRUE].id = valoraciones[r].id
             /\ [valoraciones[r] EXCEPT !.respuesta = TRUE].nota = valoraciones[r].nota
  <2>1. valoraciones[r] \in Filas
    BY DEF TypeOK
  <2> QED BY <2>1 DEF Filas
<1>3. CASE \E r \in Reservas, m \in Motivos : Denunciar(p, r, m)
  BY <1>2, <1>3, CambiosTipos DEF Denunciar, Hay, Comienzos
<1>4. CASE \E r \in Reservas : Responder(p, r)
  BY <1>2, <1>4, CambiosTipos DEF Responder, Hay, Comienzos
<1>5. CASE \E r \in Reservas : Descartar(p, r)
  BY <1>2, <1>5, CambiosTipos DEF Descartar, Hay, Comienzos
<1>6. CASE \E r \in Reservas : Borrar(p, r)
  BY <1>2, <1>6 DEF Borrar, Hay, Comienzos
<1> QED BY <1>1, <1>3, <1>4, <1>5, <1>6

\* Every step keeps the types, and a booking for each request about a review.
LEMMA TiposYReservas ==
    ASSUME TypeOK, ConReserva, NEW p \in Peticiones, UnPaso(p)
    PROVE  TypeOK' /\ ConReserva'
<1> USE DEF Resenas
<1>t. /\ peticion[p] \in Trabajos
      /\ Libre \in Trabajos
      /\ Libre.etapa = "libre"
  BY LibreEsTrabajo DEF TypeOK
<1>0. ASSUME NEW t \in Trabajos, peticion' = [peticion EXCEPT ![p] = t],
             t.etapa \in Resenas => t.reserva \in Reservas
      PROVE  ConReserva'
  BY <1>0 DEF TypeOK, ConReserva
<1>1. CASE \/ \E r \in Reservas, n \in Notas : Valorar(p, r, n)
           \/ \E r \in Reservas, m \in Motivos : Denunciar(p, r, m)
           \/ \E r \in Reservas : Responder(p, r) \/ Descartar(p, r) \/ Borrar(p, r)
  <2>1. PICK r \in Reservas, e \in Comienzos, f \in Filas, m \in Motivos \cup {Ninguno} :
              Empieza(p, ConResena(e, r, f, m))
    BY <1>1, EmpiezaConResena
  <2>2. ConResena(e, r, f, m) \in Trabajos
    BY ManosTipos DEF Comienzos, Etapas
  <2>3. ConResena(e, r, f, m).reserva = r
    BY DEF ConResena
  <2> QED BY <1>0, <2>1, <2>2, <2>3, EmpiezaTipos DEF Empieza
<1>2. CASE EditarServicio(p)
  <2>1. ConServicio("editando", media) \in Trabajos
    BY ManosTipos DEF TypeOK, Etapas
  <2>2. ConServicio("editando", media).etapa = "editando"
    BY DEF ConServicio
  <2> QED BY <1>0, <1>2, <2>1, <2>2, EmpiezaTipos DEF EditarServicio, Empieza
<1>3. ASSUME NEW t \in Trabajos, Pasa(p, t),
             t.etapa \in Resenas => t.reserva \in Reservas,
             valoraciones' \in [Reservas -> Filas], media' \in Medias,
             siguiente' \in 1 .. MaxValoraciones + 1
      PROVE  TypeOK' /\ ConReserva'
  BY <1>0, <1>3, PasaTipos DEF Pasa
<1>4. CASE Insertar(p)
  <2>1. /\ [peticion[p].fila EXCEPT !.id = siguiente] \in Filas
        /\ siguiente' \in 1 .. MaxValoraciones + 1
    <3>1. peticion[p].fila \in Filas
      BY <1>t DEF Trabajos
    <3>2. siguiente \in Ids /\ siguiente' = siguiente + 1
      BY <1>4 DEF Insertar
    <3>3. siguiente' \in 1 .. MaxValoraciones + 1
      BY <3>2, ValoracionesOK DEF Ids
    <3> QED BY <3>1, <3>2, <3>3, CambiosTipos
  <2>2. /\ ConServicio("recontando", SinMedia) \in Trabajos
        /\ ConServicio("recontando", SinMedia).etapa = "recontando"
    BY ManosTipos, LibreEsTrabajo DEF Etapas, ConServicio
  <2>3. valoraciones' \in [Reservas -> Filas] /\ media' \in Medias
    BY <1>4, <2>1 DEF Insertar, TypeOK
  <2> QED BY <1>3, <1>4, <2>1, <2>2, <2>3 DEF Insertar, Recuenta
<1>5. CASE ChocaLaReserva(p)
  BY <1>t, <1>3, <1>5 DEF ChocaLaReserva, TypeOK
<1>6. CASE Comparar(p)
  <2>1. peticion[p].reserva \in Reservas
    BY <1>6 DEF Comparar, EnEtapa, ConReserva
  <2> DEFINE t == [peticion[p] EXCEPT !.etapa = "comparada", !.base = FilaDe(peticion[p])]
  <2>2. t \in Trabajos /\ t.reserva \in Reservas
    BY <1>t, <2>1, FilaDeEsFila DEF Trabajos, Etapas
  <2> QED BY <1>3, <1>6, <2>2 DEF Comparar, TypeOK
<1>7. CASE Escribir(p)
  <2>1. peticion[p].reserva \in Reservas
    BY <1>7 DEF Escribir, EnEtapa, ConReserva
  <2>2. Mezcla(peticion[p].fila, peticion[p].base, valoraciones[peticion[p].reserva]) \in Filas
    BY <1>t, <2>1, MezclaEsFila DEF TypeOK, Trabajos
  <2>3. valoraciones' \in [Reservas -> Filas]
    BY <1>7, <2>1, <2>2 DEF Escribir, TypeOK
  <2> QED BY <1>t, <1>3, <1>7, <2>3 DEF Escribir, TypeOK
<1>8. CASE Reinsertar(p)
  <2>1. valoraciones' \in [Reservas -> Filas]
    BY <1>t, <1>8 DEF Reinsertar, TypeOK, Trabajos
  <2> QED BY <1>t, <1>3, <1>8, <2>1 DEF Reinsertar, TypeOK
<1>9. CASE Quitar(p)
  <2>1. valoraciones' \in [Reservas -> Filas]
    BY <1>9, LibreEsTrabajo DEF Quitar, TypeOK
  <2>2. /\ ConServicio("recontando", SinMedia) \in Trabajos
        /\ ConServicio("recontando", SinMedia).etapa = "recontando"
    BY ManosTipos, LibreEsTrabajo DEF Etapas, ConServicio
  <2> QED BY <1>3, <1>9, <2>1, <2>2 DEF Quitar, Recuenta, TypeOK
<1>10. CASE LeerMedia(p)
  <2>1. /\ ConServicio("recontada", MediaDe(valoraciones)) \in Trabajos
        /\ ConServicio("recontada", MediaDe(valoraciones)).etapa = "recontada"
    BY ManosTipos, MediaEsMedia DEF Etapas, ConServicio
  <2> QED BY <1>3, <1>10, <2>1 DEF LeerMedia, TypeOK
<1>11. CASE EscribirMedia(p)
  <2>1. media' \in Medias
    BY <1>t, <1>11 DEF EscribirMedia, Trabajos
  <2> QED BY <1>t, <1>3, <1>11, <2>1 DEF EscribirMedia, TypeOK
<1>12. CASE CotejarServicio(p)
  <2> DEFINE t == [peticion[p] EXCEPT !.etapa = "cotejada", !.cotejo = media]
  <2>1. t \in Trabajos /\ t.etapa = "cotejada"
    BY <1>t DEF Trabajos, Etapas, TypeOK
  <2> QED BY <1>3, <1>12, <2>1 DEF CotejarServicio, TypeOK
<1>13. CASE GuardarServicio(p)
  <2>1. media' \in Medias
    BY <1>t, <1>13 DEF GuardarServicio, MezclaMedia, Columna, Medias, Trabajos, TypeOK
  <2> QED BY <1>t, <1>3, <1>13, <2>1 DEF GuardarServicio, TypeOK
<1>14. CASE Caida(p)
  <2>1. TypeOK'
    <3>1. caidas' \in 0 .. MaxCaidas
      BY <1>14, ValoracionesOK DEF Caida, TypeOK
    <3> QED BY <1>t, <1>14, <3>1 DEF Caida, TypeOK
  <2> QED BY <1>t, <1>0, <1>14, <2>1 DEF Caida
<1> QED BY <1>1, <1>2, <1>4, <1>5, <1>6, <1>7, <1>8, <1>9, <1>10, <1>11, <1>12, <1>13, <1>14 DEF UnPaso

-----------------------------------------------------------------------------
(* Reviews are never confused.                                             *)

\* Every step keeps a saved review apart from one that is not.
LEMMA SigueLeida ==
    ASSUME TypeOK, ConReserva, LeidaDeLaTabla, NEW p \in Peticiones, UnPaso(p)
    PROVE  LeidaDeLaTabla'
<1>t. peticion[p] \in Trabajos /\ Libre.etapa = "libre"
  BY LibreEsTrabajo DEF TypeOK
<1>0. ASSUME NEW t, peticion' = [peticion EXCEPT ![p] = t],
             t.etapa \in {"guardando", "comparada", "borrando"} => t.fila.id # 0,
             t.etapa = "comparada" => t.base.id = 0 \/ t.base.id = t.fila.id
      PROVE  LeidaDeLaTabla'
  BY <1>0 DEF TypeOK, LeidaDeLaTabla
<1>1. CASE \/ \E r \in Reservas, n \in Notas : Valorar(p, r, n)
           \/ \E r \in Reservas, m \in Motivos : Denunciar(p, r, m)
           \/ \E r \in Reservas : Responder(p, r) \/ Descartar(p, r) \/ Borrar(p, r)
  <2>1. PICK r \in Reservas, e \in Comienzos, f \in Filas, m \in Motivos \cup {Ninguno} :
              /\ Empieza(p, ConResena(e, r, f, m))
              /\ e # "creando" => valoraciones[r].id # 0 /\ f.id = valoraciones[r].id
    BY <1>1, EmpiezaConResena
  <2>2. ConResena(e, r, f, m).etapa = e /\ ConResena(e, r, f, m).fila = f
    BY DEF ConResena
  <2> QED BY <1>0, <2>1, <2>2 DEF Empieza, Comienzos
<1>2. \A e, s : ConServicio(e, s).etapa = e
  BY DEF ConServicio
<1>3. CASE EditarServicio(p)
  BY <1>0, <1>2, <1>3, ZenonT(60) DEF EditarServicio, Empieza
<1>4. CASE Insertar(p) \/ Quitar(p)
  BY <1>0, <1>2, <1>4 DEF Insertar, Quitar, Recuenta, Pasa
<1>5. CASE ChocaLaReserva(p) \/ Escribir(p) \/ Reinsertar(p) \/ EscribirMedia(p) \/ GuardarServicio(p) \/ Caida(p)
  BY <1>t, <1>0, <1>5 DEF ChocaLaReserva, Escribir, Reinsertar, EscribirMedia, GuardarServicio, Caida, Pasa
<1>6. CASE LeerMedia(p)
  BY <1>0, <1>2, <1>6, ZenonT(60) DEF LeerMedia, Pasa
<1>7. CASE Comparar(p)
  <2> DEFINE t == [peticion[p] EXCEPT !.etapa = "comparada", !.base = FilaDe(peticion[p])]
  <2>1. t.fila = peticion[p].fila /\ t.base = FilaDe(peticion[p])
    BY <1>t DEF Trabajos
  <2>2. FilaDe(peticion[p]).id = 0 \/ FilaDe(peticion[p]).id = peticion[p].fila.id
    BY DEF FilaDe, NoHay
  <2>3. peticion[p].fila.id # 0
    BY <1>7 DEF Comparar, EnEtapa, LeidaDeLaTabla
  <2> QED BY <1>0, <1>7, <2>1, <2>2, <2>3 DEF Comparar, Pasa
<1>8. CASE CotejarServicio(p)
  <2> DEFINE t == [peticion[p] EXCEPT !.etapa = "cotejada", !.cotejo = media]
  <2>1. t.etapa = "cotejada"
    BY <1>t DEF Trabajos
  <2> QED BY <1>0, <1>8, <2>1 DEF CotejarServicio, Pasa
<1> QED BY <1>1, <1>3, <1>4, <1>5, <1>6, <1>7, <1>8 DEF UnPaso

\* What Escribir leaves in the table has the identifier and the rating of what
\* it read, of what it compared and of what was there.
LEMMA EscribirNoCambiaDeDueno ==
    ASSUME TypeOK, ConReserva, LeidaDeLaTabla, CadaIdUnDueno,
           NEW p \in Peticiones, Escribir(p), NEW r \in Reservas
    PROVE  valoraciones'[r].id = valoraciones[r].id /\ valoraciones'[r].nota = valoraciones[r].nota
<1> DEFINE t == peticion[p]
<1>1. /\ t.reserva \in Reservas
      /\ t.fila.id # 0 /\ t.base.id = t.fila.id
  BY DEF Escribir, EnEtapa, ConReserva, LeidaDeLaTabla
<1>2. CASE FilaDe(t) = NoHay
  BY <1>2 DEF Escribir
<1>3. CASE FilaDe(t) # NoHay /\ r # t.reserva
  BY <1>3 DEF Escribir, TypeOK
<1>4. CASE FilaDe(t) # NoHay /\ r = t.reserva
  <2>1. valoraciones[r].id = t.fila.id
    BY <1>4 DEF FilaDe
  <2>2. PICK f \in Duenos : Atribuye(f)
    BY DEF CadaIdUnDueno
  <2>3. t.fila.nota = t.base.nota /\ t.fila.nota = valoraciones[r].nota
    BY <1>1, <2>1, <2>2 DEF Atribuye, DeSuDueno
  <2>4. valoraciones'[r] = Mezcla(t.fila, t.base, valoraciones[r])
    BY <1>1, <1>4 DEF Escribir, TypeOK
  <2> QED BY <1>1, <2>1, <2>3, <2>4 DEF Mezcla, Columna
<1> QED BY <1>2, <1>3, <1>4

\* Copies are made of copies, and a new identifier has nobody else.
LEMMA SigueUnDueno ==
    ASSUME TypeOK, ConReserva, LeidaDeLaTabla, CadaIdUnDueno, NEW p \in Peticiones, UnPaso(p)
    PROVE  CadaIdUnDueno'
<1>t. peticion[p] \in Trabajos
  BY DEF TypeOK
<1>f. PICK f \in Duenos : Atribuye(f)
  BY DEF CadaIdUnDueno
<1>l. Libre.fila = NoHay /\ Libre.base = NoHay /\ NoHay.id = 0
  BY DEF Libre, ConServicio, NoHay
<1>s. \A e, s : ConServicio(e, s).fila = NoHay /\ ConServicio(e, s).base = NoHay
  BY DEF ConServicio
<1>0. ASSUME NEW t, peticion' = [peticion EXCEPT ![p] = t], siguiente' = siguiente,
             DeSuDueno(f, t.reserva, t.fila), DeSuDueno(f, t.reserva, t.base),
             \A r \in Reservas : DeSuDueno(f, r, valoraciones'[r])
      PROVE  CadaIdUnDueno'
  <2>1. Atribuye(f)'
    BY <1>f, <1>0 DEF Atribuye, DeSuDueno, TypeOK
  <2> QED BY <1>f, <2>1 DEF CadaIdUnDueno, Duenos
<1>1. CASE \/ \E r \in Reservas, n \in Notas : Valorar(p, r, n)
           \/ \E r \in Reservas, m \in Motivos : Denunciar(p, r, m)
           \/ \E r \in Reservas : Responder(p, r) \/ Descartar(p, r) \/ Borrar(p, r)
  <2>1. PICK r \in Reservas, e \in Comienzos, x \in Filas, m \in Motivos \cup {Ninguno} :
              /\ Empieza(p, ConResena(e, r, x, m))
              /\ e # "creando" => /\ x.id = valoraciones[r].id
                                  /\ x.nota = valoraciones[r].nota
              /\ e = "creando" => x.id = 0
    BY <1>1, EmpiezaConResena
  <2> DEFINE t == ConResena(e, r, x, m)
  <2>2. t.reserva = r /\ t.fila = x /\ t.base = NoHay
    BY DEF ConResena
  <2>3. DeSuDueno(f, r, x) /\ DeSuDueno(f, r, NoHay)
    BY <1>f, <1>l, <2>1 DEF DeSuDueno, Atribuye
  <2>4. /\ peticion' = [peticion EXCEPT ![p] = t] /\ siguiente' = siguiente
        /\ valoraciones' = valoraciones
    BY <2>1 DEF Empieza
  <2> HIDE DEF t
  <2> QED BY <1>0, <1>f, <2>2, <2>3, <2>4 DEF Atribuye
<1>2. ASSUME NEW t, peticion' = [peticion EXCEPT ![p] = t], siguiente' = siguiente,
             t.fila = NoHay, t.base = NoHay,
             \A r \in Reservas : DeSuDueno(f, r, valoraciones'[r])
      PROVE  CadaIdUnDueno'
  BY <1>0, <1>l, <1>2 DEF DeSuDueno
<1>3. ASSUME valoraciones' = valoraciones
      PROVE  \A r \in Reservas : DeSuDueno(f, r, valoraciones'[r])
  BY <1>f, <1>3 DEF Atribuye
<1>4. CASE EditarServicio(p)
  BY <1>2, <1>3, <1>4, <1>s DEF EditarServicio, Empieza
<1>5. CASE ChocaLaReserva(p) \/ EscribirMedia(p) \/ GuardarServicio(p) \/ Caida(p)
  BY <1>2, <1>3, <1>5, <1>l DEF ChocaLaReserva, EscribirMedia, GuardarServicio, Caida, Pasa
<1>6. CASE LeerMedia(p)
  BY <1>2, <1>3, <1>6, <1>s DEF LeerMedia, Pasa
<1>7. CASE Comparar(p)
  <2> DEFINE t == [peticion[p] EXCEPT !.etapa = "comparada", !.base = FilaDe(peticion[p])]
  <2>1. t.fila = peticion[p].fila /\ t.base = FilaDe(peticion[p]) /\ t.reserva = peticion[p].reserva
    BY <1>t DEF Trabajos
  <2>2. peticion[p].reserva \in Reservas
    BY <1>7 DEF Comparar, EnEtapa, ConReserva
  <2>3. DeSuDueno(f, t.reserva, t.base)
    BY <1>f, <1>l, <2>1, <2>2 DEF FilaDe, DeSuDueno, Atribuye
  <2>4. DeSuDueno(f, t.reserva, t.fila)
    BY <1>f, <2>1 DEF Atribuye
  <2>5. /\ peticion' = [peticion EXCEPT ![p] = t] /\ siguiente' = siguiente
        /\ valoraciones' = valoraciones
    BY <1>7 DEF Comparar, Pasa
  <2> HIDE DEF t
  <2> QED BY <1>0, <1>3, <2>3, <2>4, <2>5
<1>8. CASE CotejarServicio(p)
  <2> DEFINE t == [peticion[p] EXCEPT !.etapa = "cotejada", !.cotejo = media]
  <2>1. t.fila = peticion[p].fila /\ t.base = peticion[p].base /\ t.reserva = peticion[p].reserva
    BY <1>t DEF Trabajos
  <2>2. DeSuDueno(f, t.reserva, t.base) /\ DeSuDueno(f, t.reserva, t.fila)
    BY <1>f, <2>1 DEF Atribuye
  <2>3. /\ peticion' = [peticion EXCEPT ![p] = t] /\ siguiente' = siguiente
        /\ valoraciones' = valoraciones
    BY <1>8 DEF CotejarServicio, Pasa
  <2> HIDE DEF t
  <2> QED BY <1>0, <1>3, <2>2, <2>3
<1>9. CASE Escribir(p)
  <2>1. \A r \in Reservas : /\ valoraciones'[r].id = valoraciones[r].id
                            /\ valoraciones'[r].nota = valoraciones[r].nota
    BY <1>9, EscribirNoCambiaDeDueno
  <2>2. \A r \in Reservas : DeSuDueno(f, r, valoraciones'[r])
    BY <1>f, <2>1 DEF Atribuye, DeSuDueno
  <2> QED BY <1>2, <1>9, <1>l, <2>2 DEF Escribir, Pasa
<1>10. CASE Reinsertar(p)
  <2>1. valoraciones' = [valoraciones EXCEPT ![peticion[p].reserva] = peticion[p].fila]
    BY <1>10 DEF Reinsertar
  <2>2. \A r \in Reservas : DeSuDueno(f, r, valoraciones'[r])
    BY <1>f, <2>1 DEF Atribuye, TypeOK
  <2> QED BY <1>2, <1>10, <1>l, <2>2 DEF Reinsertar, Pasa
<1>11. CASE Quitar(p)
  <2>1. \A r \in Reservas : valoraciones'[r] = valoraciones[r] \/ valoraciones'[r] = NoHay
    BY <1>11 DEF Quitar, TypeOK
  <2>2. \A r \in Reservas : DeSuDueno(f, r, valoraciones'[r])
    BY <1>f, <1>l, <2>1 DEF Atribuye, DeSuDueno
  <2> QED BY <1>2, <1>11, <1>s, <2>2 DEF Quitar, Recuenta, Pasa
<1>12. CASE Insertar(p)
  <2>0. PICK x, q, i : x = peticion[p].fila /\ q = peticion[p].reserva /\ i = siguiente
    OBVIOUS
  <2>1. q \in Reservas /\ x \in Filas /\ i \in Ids /\ x.nota \in 0 .. 5
    BY <1>t, <1>12, <2>0 DEF Insertar, EnEtapa, ConReserva, Trabajos, Filas
  <2>2. PICK g \in Duenos : g = [f EXCEPT ![i] = [reserva |-> q, nota |-> x.nota]]
    BY <1>f, <2>1 DEF Duenos
  <2>3. g[i].reserva = q /\ g[i].nota = x.nota
    BY <1>f, <2>1, <2>2 DEF Duenos
  <2>4. \A k \in Ids : k < i => g[k] = f[k]
    BY <1>f, <2>1, <2>2 DEF Duenos, Ids
  <2>5. /\ peticion' = [peticion EXCEPT ![p] = ConServicio("recontando", SinMedia)]
        /\ siguiente' = i + 1 /\ siguiente = i /\ i \in Nat
        /\ valoraciones' = [valoraciones EXCEPT ![q] = [x EXCEPT !.id = i]]
    BY <1>12, <2>0, <2>1 DEF Insertar, Recuenta, Pasa, Ids
  <2>6. [x EXCEPT !.id = i].id = i /\ [x EXCEPT !.id = i].nota = x.nota
    BY <2>1 DEF Filas
  <2>7. ASSUME NEW r, NEW y \in Filas, DeSuDueno(f, r, y)
        PROVE  DeSuDueno(g, r, y)'
    BY <2>4, <2>5, <2>7 DEF DeSuDueno, Filas, Ids
  <2>8. \A r \in Reservas : DeSuDueno(g, r, valoraciones[r])'
    <3>1. ASSUME NEW r \in Reservas, r # q PROVE DeSuDueno(g, r, valoraciones[r])'
      <4>1. valoraciones'[r] = valoraciones[r] /\ valoraciones[r] \in Filas
        BY <2>5, <3>1 DEF TypeOK
      <4>2. DeSuDueno(f, r, valoraciones[r])
        BY <1>f DEF Atribuye
      <4> QED BY <4>1, <4>2, <2>7 DEF DeSuDueno
    <3>2. valoraciones'[q] = [x EXCEPT !.id = i]
      BY <2>1, <2>5 DEF TypeOK
    <3>3. valoraciones'[q].id = i /\ valoraciones'[q].nota = x.nota
      BY <2>6, <3>2
    <3>4. i < siguiente'
      BY <2>5
    <3>5. DeSuDueno(g, q, valoraciones[q])'
      BY <2>3, <3>3, <3>4 DEF DeSuDueno
    <3> QED BY <3>1, <3>5
  <2>9. \A c \in Peticiones : /\ DeSuDueno(g, peticion[c].reserva, peticion[c].fila)'
                              /\ DeSuDueno(g, peticion[c].reserva, peticion[c].base)'
    <3>1. ASSUME NEW c \in Peticiones, c # p
          PROVE  /\ DeSuDueno(g, peticion[c].reserva, peticion[c].fila)'
                 /\ DeSuDueno(g, peticion[c].reserva, peticion[c].base)'
      <4>1. /\ peticion'[c] = peticion[c]
            /\ peticion[c].fila \in Filas /\ peticion[c].base \in Filas
        BY <2>5, <3>1 DEF TypeOK, Trabajos
      <4>2. /\ DeSuDueno(f, peticion[c].reserva, peticion[c].fila)
            /\ DeSuDueno(f, peticion[c].reserva, peticion[c].base)
        BY <1>f DEF Atribuye
      <4> QED BY <4>1, <4>2, <2>7 DEF DeSuDueno
    <3>2. peticion'[p].fila = NoHay /\ peticion'[p].base = NoHay
      BY <1>s, <2>5 DEF TypeOK
    <3>3. /\ DeSuDueno(g, peticion[p].reserva, peticion[p].fila)'
          /\ DeSuDueno(g, peticion[p].reserva, peticion[p].base)'
      BY <1>l, <3>2 DEF DeSuDueno
    <3> QED BY <3>1, <3>3
  <2>10. Atribuye(g)'
    BY <2>8, <2>9 DEF Atribuye
  <2> QED BY <2>2, <2>10 DEF CadaIdUnDueno, Duenos
<1> QED BY <1>1, <1>4, <1>5, <1>6, <1>7, <1>8, <1>9, <1>10, <1>11, <1>12 DEF UnPaso

-----------------------------------------------------------------------------
(* The theorems.                                                           *)

LEMMA InicioCumpleInv == Init => Inv
<1> SUFFICES ASSUME Init PROVE Inv
  OBVIOUS
<1>1. TypeOK
  BY LibreEsTrabajo, ValoracionesOK DEF Init, TypeOK
<1>2. ConReserva /\ LeidaDeLaTabla
  BY LibreEsTrabajo DEF Init, ConReserva, LeidaDeLaTabla
<1>3. CadaIdUnDueno
  <2>1. /\ NoHay.id = 0
        /\ \A p \in Peticiones : peticion[p].fila = NoHay /\ peticion[p].base = NoHay
        /\ \A r \in Reservas : valoraciones[r] = NoHay
    BY DEF Init, Libre, ConServicio, NoHay
  <2>2. \E f : f \in Duenos
    <3>1. [i \in Ids |-> [reserva |-> Ninguno, nota |-> 0]] \in Duenos
      BY DEF Duenos
    <3> QED BY <3>1
  <2>3. \A f : Atribuye(f)
    BY <2>1 DEF Atribuye, DeSuDueno
  <2> QED BY <2>2, <2>3 DEF CadaIdUnDueno
<1> QED BY <1>1, <1>2, <1>3 DEF Inv

LEMMA PasoCumpleInv == Inv /\ [Next]_vars => Inv'
<1> SUFFICES ASSUME Inv, [Next]_vars PROVE Inv'
  OBVIOUS
<1>1. CASE Next
  <2>1. PICK p \in Peticiones : UnPaso(p)
    BY <1>1, PasoDeNext
  <2> QED BY <2>1, TiposYReservas, SigueLeida, SigueUnDueno DEF Inv
<1>2. CASE UNCHANGED vars
  <2>1. TypeOK' /\ ConReserva' /\ LeidaDeLaTabla'
    BY <1>2 DEF Inv, vars, TypeOK, ConReserva, LeidaDeLaTabla
  <2>2. CadaIdUnDueno'
    BY <1>2 DEF Inv, vars, CadaIdUnDueno, Atribuye, DeSuDueno
  <2> QED BY <2>1, <2>2 DEF Inv
<1> QED BY <1>1, <1>2

\* Each copy of a review is of the owner of its identifier, always.
THEOREM SpecCumpleInv == Spec => []Inv
BY InicioCumpleInv, PasoCumpleInv, PTL DEF Spec

\* The types, for any number of bookings and requests.
THEOREM ValoracionesTipos == Spec => []TypeOK
<1>1. Inv => TypeOK
  BY DEF Inv
<1> QED BY <1>1, SpecCumpleInv, PTL

\* What a step does to the reviews of any two bookings.
LEMMA PasoNoConfunde ==
    ASSUME Inv, NEW p \in Peticiones, UnPaso(p), NEW r \in Reservas, NEW q \in Reservas,
           valoraciones[r].id # 0, valoraciones'[q].id # 0
    PROVE  /\ valoraciones'[q].id = valoraciones[r].id <=> q = r
           /\ q = r => valoraciones'[q].nota = valoraciones[r].nota
<1>f. PICK f \in Duenos : Atribuye(f)
  BY DEF Inv, CadaIdUnDueno
<1>0. \A x, y \in Reservas : valoraciones[x].id # 0 /\ valoraciones[x].id = valoraciones[y].id => x = y
  BY <1>f DEF Atribuye, DeSuDueno
<1>1. CASE \A x \in Reservas : /\ valoraciones'[x].id = valoraciones[x].id
                               /\ valoraciones'[x].nota = valoraciones[x].nota
  BY <1>0, <1>1
<1>2. CASE UNCHANGED valoraciones
  BY <1>1, <1>2
<1>3. CASE Escribir(p)
  BY <1>1, <1>3, EscribirNoCambiaDeDueno DEF Inv
<1>4. CASE Quitar(p)
  <2>1. valoraciones'[q] = valoraciones[q] \/ valoraciones'[q] = NoHay
    BY <1>4 DEF Quitar, Inv, TypeOK
  <2>2. valoraciones'[q] = valoraciones[q]
    BY <2>1 DEF NoHay
  <2> QED BY <1>0, <2>2
<1>5. CASE Insertar(p)
  <2> DEFINE t == peticion[p]
  <2>1. /\ t.reserva \in Reservas /\ t.reserva # r
        /\ valoraciones' = [valoraciones EXCEPT ![t.reserva] = [t.fila EXCEPT !.id = siguiente]]
    BY <1>5 DEF Insertar, EnEtapa, Hay, Inv, ConReserva
  <2>2. CASE q # t.reserva
    <3>1. valoraciones'[q] = valoraciones[q]
      BY <2>1, <2>2 DEF Inv, TypeOK
    <3> QED BY <1>0, <3>1
  <2>3. CASE q = t.reserva
    <3>1. valoraciones'[q].id = siguiente
      BY <2>1, <2>3 DEF Inv, TypeOK, Trabajos, Filas
    <3>2. valoraciones[r].id < siguiente /\ siguiente \in Nat /\ valoraciones[r].id \in Nat
      BY <1>f DEF Atribuye, DeSuDueno, Inv, TypeOK, Filas, Ids
    <3>3. siguiente # valoraciones[r].id
      BY <3>2
    <3> QED BY <2>1, <2>3, <3>1, <3>3
  <2> QED BY <2>2, <2>3
<1>6. CASE Reinsertar(p)
  <2> DEFINE t == peticion[p]
  <2>1. /\ t.reserva \in Reservas /\ t.reserva # r /\ t.fila.id # 0
        /\ valoraciones' = [valoraciones EXCEPT ![t.reserva] = t.fila]
    BY <1>6 DEF Reinsertar, EnEtapa, Hay, Inv, ConReserva, LeidaDeLaTabla
  <2>2. CASE q # t.reserva
    <3>1. valoraciones'[q] = valoraciones[q]
      BY <2>1, <2>2 DEF Inv, TypeOK
    <3> QED BY <1>0, <3>1
  <2>3. CASE q = t.reserva
    <3>1. valoraciones'[q] = t.fila
      BY <2>1, <2>3 DEF Inv, TypeOK
    <3>2. t.fila.id # valoraciones[r].id
      BY <1>f, <2>1 DEF Atribuye, DeSuDueno
    <3> QED BY <2>1, <2>3, <3>1, <3>2
  <2> QED BY <2>2, <2>3
<1> QED
  BY <1>2, <1>3, <1>4, <1>5, <1>6
  DEF UnPaso, Valorar, Denunciar, Responder, Descartar, Borrar, Empieza, ChocaLaReserva,
      Comparar, LeerMedia, EscribirMedia, EditarServicio, CotejarServicio, GuardarServicio, Caida

\* Reviews are never confused, whatever is saved late, for any number of
\* bookings and of requests at once.
THEOREM CadaIdEsUnaValoracion == Spec => CadaIdUnaValoracion
<1>1. Inv /\ [Next]_vars =>
        [\A r, q \in Reservas :
           Hay(r) /\ valoraciones'[q].id # 0
              => /\ valoraciones'[q].id = valoraciones[r].id <=> q = r
                 /\ q = r => valoraciones'[q].nota = valoraciones[r].nota]_vars
  <2> SUFFICES ASSUME Inv, Next, NEW r \in Reservas, NEW q \in Reservas,
                      Hay(r), valoraciones'[q].id # 0
               PROVE  /\ valoraciones'[q].id = valoraciones[r].id <=> q = r
                      /\ q = r => valoraciones'[q].nota = valoraciones[r].nota
    OBVIOUS
  <2>1. PICK p \in Peticiones : UnPaso(p)
    BY PasoDeNext
  <2> QED BY <2>1, PasoNoConfunde DEF Hay
<1> QED BY <1>1, SpecCumpleInv, PTL DEF Spec, CadaIdUnaValoracion

-----------------------------------------------------------------------------
(* The average, one request at a time.                                     *)

Recuentos == {"recontando", "recontada"}

\* What a request has read is still so.
AlDia(t, v, m) ==
    /\ t.etapa \in {"guardando", "borrando", "comparada"} => t.fila.id = v[t.reserva].id
    /\ t.etapa = "comparada" => t.base.id = t.fila.id
    /\ t.etapa = "recontada" => t.servicio = MediaDe(v)
    /\ t.etapa \in {"editando", "cotejada"} => t.servicio = m
    /\ t.etapa = "cotejada" => t.cotejo = m

EnOrden ==
    enFila =>
        /\ \A p, q \in Peticiones : p = q \/ peticion[p] = Libre \/ peticion[q] = Libre
        /\ \A p \in Peticiones : AlDia(peticion[p], valoraciones, media)
        /\ (\A p \in Peticiones : peticion[p].etapa \notin Recuentos)
              => media = MediaDe(valoraciones)

\* The average looks at who has a review and at its rating (updateServiceRating).
LEMMA MediaMiraIdYNota ==
    ASSUME NEW v, NEW w,
           \A r \in Reservas : v[r].id = w[r].id /\ v[r].nota = w[r].nota
    PROVE  MediaDe(v) = MediaDe(w)
<1>1. {r \in Reservas : v[r].id # 0} = {r \in Reservas : w[r].id # 0}
  OBVIOUS
<1>2. \A n : {r \in Reservas : v[r].id # 0 /\ v[r].nota = n}
              = {r \in Reservas : w[r].id # 0 /\ w[r].nota = n}
  OBVIOUS
<1>3. Total(v) = Total(w)
  BY <1>1 DEF Total
<1>4. \A n : Con(v, n) = Con(w, n)
  BY <1>2 DEF Con
<1>5. Suma(v) = Suma(w)
  BY <1>4 DEF Suma
<1> QED BY <1>3, <1>5 DEF MediaDe

LEMMA SigueEnOrden ==
    ASSUME Inv, EnOrden, NEW p \in Peticiones, UnPaso(p), enFila'
    PROVE  EnOrden'
<1>t. /\ TypeOK /\ peticion[p] \in Trabajos /\ Libre.etapa = "libre"
      /\ \A v, m : AlDia(Libre, v, m)
  BY LibreEsTrabajo DEF Inv, TypeOK, AlDia
<1>s. \A e, s : ConServicio(e, s).etapa = e /\ ConServicio(e, s).servicio = s
  BY DEF ConServicio
<1>e. enFila
  BY DEF UnPaso, Valorar, Denunciar, Responder, Descartar, Borrar, EditarServicio, Empieza,
         Insertar, Recuenta, ChocaLaReserva, Comparar, Escribir, Reinsertar, Quitar,
         LeerMedia, EscribirMedia, CotejarServicio, GuardarServicio, Pasa, Caida
<1>0. ASSUME NEW t, peticion' = [peticion EXCEPT ![p] = t],
             \A q \in Peticiones \ {p} : peticion[q] = Libre,
             AlDia(t, valoraciones', media'),
             t.etapa \notin Recuentos => media' = MediaDe(valoraciones')
      PROVE  EnOrden'
  <2>1. peticion'[p] = t /\ \A q \in Peticiones \ {p} : peticion'[q] = Libre
    BY <1>t, <1>0 DEF TypeOK
  <2>2. \A q \in Peticiones : AlDia(peticion'[q], valoraciones', media')
    BY <1>t, <1>0, <2>1
  <2>3. (\A q \in Peticiones : peticion'[q].etapa \notin Recuentos) => media' = MediaDe(valoraciones')
    BY <1>0, <2>1
  <2>4. \A a, b \in Peticiones : a = b \/ peticion'[a] = Libre \/ peticion'[b] = Libre
    BY <2>1
  <2> QED BY <2>2, <2>3, <2>4 DEF EnOrden
<1>1. ASSUME NEW t, Empieza(p, t), t.etapa \notin Recuentos, AlDia(t, valoraciones, media)
      PROVE  EnOrden'
  <2>1. \A q \in Peticiones : peticion[q] = Libre
    BY <1>1 DEF Empieza
  <2>2. media = MediaDe(valoraciones)
    BY <1>e, <1>t, <2>1 DEF EnOrden, Recuentos
  <2> QED BY <1>0, <1>1, <2>1, <2>2 DEF Empieza
<1>2. CASE \/ \E r \in Reservas, n \in Notas : Valorar(p, r, n)
           \/ \E r \in Reservas, m \in Motivos : Denunciar(p, r, m)
           \/ \E r \in Reservas : Responder(p, r) \/ Descartar(p, r) \/ Borrar(p, r)
  <2>1. PICK r \in Reservas, e \in Comienzos, f \in Filas, m \in Motivos \cup {Ninguno} :
              /\ Empieza(p, ConResena(e, r, f, m))
              /\ e # "creando" => f.id = valoraciones[r].id
    BY <1>2, <1>t, EmpiezaConResena
  <2>2. /\ ConResena(e, r, f, m).etapa = e /\ ConResena(e, r, f, m).reserva = r
        /\ ConResena(e, r, f, m).fila = f
    BY DEF ConResena
  <2>3. AlDia(ConResena(e, r, f, m), valoraciones, media)
    BY <2>1, <2>2 DEF AlDia, Comienzos
  <2> QED BY <1>1, <2>1, <2>2, <2>3 DEF Comienzos, Recuentos
<1>3. CASE EditarServicio(p)
  <2>1. AlDia(ConServicio("editando", media), valoraciones, media)
    BY <1>s DEF AlDia
  <2> QED BY <1>1, <1>3, <1>s, <2>1 DEF EditarServicio, Recuentos
<1>4. ASSUME peticion[p] # Libre
      PROVE  /\ \A q \in Peticiones \ {p} : peticion[q] = Libre
             /\ AlDia(peticion[p], valoraciones, media)
             /\ peticion[p].etapa \notin Recuentos => media = MediaDe(valoraciones)
  <2>1. \A q \in Peticiones \ {p} : peticion[q] = Libre
    BY <1>e, <1>4 DEF EnOrden
  <2>2. \A q \in Peticiones \ {p} : peticion[q].etapa \notin Recuentos
    BY <1>t, <2>1 DEF Recuentos
  <2> QED BY <1>e, <2>1, <2>2 DEF EnOrden
<1>5. ASSUME peticion[p].etapa # "libre" PROVE peticion[p] # Libre
  BY <1>t, <1>5
<1>6. CASE Insertar(p) \/ Quitar(p)
  <2>1. peticion[p] # Libre /\ peticion' = [peticion EXCEPT ![p] = ConServicio("recontando", SinMedia)]
    BY <1>5, <1>6 DEF Insertar, Quitar, EnEtapa, Recuenta, Pasa
  <2>2. AlDia(ConServicio("recontando", SinMedia), valoraciones', media')
    BY <1>s DEF AlDia
  <2> QED BY <1>0, <1>4, <1>s, <2>1, <2>2 DEF Recuentos
<1>7. CASE LeerMedia(p)
  <2>1. /\ peticion[p] # Libre /\ valoraciones' = valoraciones
        /\ peticion' = [peticion EXCEPT ![p] = ConServicio("recontada", MediaDe(valoraciones))]
    BY <1>5, <1>7 DEF LeerMedia, EnEtapa, Pasa
  <2>2. AlDia(ConServicio("recontada", MediaDe(valoraciones)), valoraciones', media')
    BY <1>s, <2>1 DEF AlDia
  <2> QED BY <1>0, <1>4, <1>s, <2>1, <2>2 DEF Recuentos
<1>8. ASSUME peticion[p] # Libre, peticion' = [peticion EXCEPT ![p] = Libre],
             media' = MediaDe(valoraciones')
      PROVE  EnOrden'
  BY <1>0, <1>4, <1>8, <1>t
<1>9. CASE EscribirMedia(p)
  BY <1>4, <1>5, <1>8, <1>9 DEF EscribirMedia, EnEtapa, Pasa, AlDia
<1>10. CASE ChocaLaReserva(p)
  BY <1>4, <1>5, <1>8, <1>10 DEF ChocaLaReserva, EnEtapa, Pasa, Recuentos
<1>11. CASE Escribir(p)
  <2>1. \A r \in Reservas : /\ valoraciones'[r].id = valoraciones[r].id
                            /\ valoraciones'[r].nota = valoraciones[r].nota
    BY <1>11, EscribirNoCambiaDeDueno DEF Inv
  <2>2. MediaDe(valoraciones') = MediaDe(valoraciones)
    BY <2>1, MediaMiraIdYNota
  <2>3. /\ peticion[p].etapa = "comparada" /\ media' = media
        /\ peticion' = [peticion EXCEPT ![p] = Libre]
    BY <1>11 DEF Escribir, EnEtapa, Pasa
  <2> QED BY <1>4, <1>5, <1>8, <2>2, <2>3 DEF Recuentos
<1>12. CASE Reinsertar(p)
  <2>1. peticion[p].etapa = "comparada" /\ peticion[p].base.id = 0
    BY <1>12 DEF Reinsertar, EnEtapa
  <2>2. peticion[p].base.id = peticion[p].fila.id
    BY <1>4, <1>5, <2>1 DEF AlDia
  <2>3. peticion[p].fila.id # 0
    BY <2>1 DEF Inv, LeidaDeLaTabla
  <2> QED BY <2>1, <2>2, <2>3
<1>13. CASE Comparar(p)
  <2> DEFINE t == [peticion[p] EXCEPT !.etapa = "comparada", !.base = FilaDe(peticion[p])]
  <2>1. /\ peticion[p].etapa = "guardando" /\ valoraciones' = valoraciones /\ media' = media
        /\ peticion' = [peticion EXCEPT ![p] = t]
    BY <1>13 DEF Comparar, EnEtapa, Pasa
  <2>2. /\ t.etapa = "comparada" /\ t.fila = peticion[p].fila
        /\ t.base = FilaDe(peticion[p]) /\ t.reserva = peticion[p].reserva
    BY <1>t DEF Trabajos
  <2>3. peticion[p].fila.id = valoraciones[peticion[p].reserva].id
    BY <1>4, <1>5, <2>1 DEF AlDia
  <2>4. FilaDe(peticion[p]).id = peticion[p].fila.id
    BY <2>3 DEF FilaDe
  <2> HIDE DEF t
  <2>5. AlDia(t, valoraciones', media')
    BY <2>1, <2>2, <2>3, <2>4 DEF AlDia
  <2> QED BY <1>0, <1>4, <1>5, <2>1, <2>5 DEF Recuentos
<1>14. CASE CotejarServicio(p)
  <2> DEFINE t == [peticion[p] EXCEPT !.etapa = "cotejada", !.cotejo = media]
  <2>1. /\ peticion[p].etapa = "editando" /\ valoraciones' = valoraciones /\ media' = media
        /\ peticion' = [peticion EXCEPT ![p] = t]
    BY <1>14 DEF CotejarServicio, EnEtapa, Pasa
  <2>2. t.etapa = "cotejada" /\ t.servicio = peticion[p].servicio /\ t.cotejo = media
    BY <1>t DEF Trabajos
  <2> HIDE DEF t
  <2>3. AlDia(t, valoraciones', media')
    BY <1>4, <1>5, <2>1, <2>2 DEF AlDia
  <2> QED BY <1>0, <1>4, <1>5, <2>1, <2>3 DEF Recuentos
<1>15. CASE GuardarServicio(p)
  <2>1. /\ peticion[p].etapa = "cotejada" /\ valoraciones' = valoraciones
        /\ media' = MezclaMedia(peticion[p].servicio, peticion[p].cotejo, media)
        /\ peticion' = [peticion EXCEPT ![p] = Libre]
    BY <1>15 DEF GuardarServicio, EnEtapa, Pasa
  <2>2. peticion[p].servicio = media /\ peticion[p].cotejo = media
    BY <1>4, <1>5, <2>1 DEF AlDia
  <2>3. media' = media
    BY <1>t, <2>1, <2>2 DEF MezclaMedia, Columna, Medias, TypeOK
  <2> QED BY <1>4, <1>5, <1>8, <2>1, <2>3 DEF Recuentos
<1>16. CASE Caida(p)
  BY <1>16 DEF Caida
<1> QED BY <1>2, <1>3, <1>6, <1>7, <1>9, <1>10, <1>11, <1>12, <1>13, <1>14, <1>15, <1>16 DEF UnPaso

\* At rest the service shows the average of its reviews, for any number of them,
\* as long as requests come one at a time.
THEOREM LaMediaCuadraEnFila == Spec => []LaMediaCuadra
<1>1. Init => EnOrden
  <2>1. ASSUME Init PROVE \A p \in Peticiones : peticion[p] = Libre
    BY <2>1 DEF Init
  <2>2. ASSUME Init PROVE media = MediaDe(valoraciones)
    <3>1. \A r \in Reservas : valoraciones[r].id = 0
      BY <2>2 DEF Init, NoHay
    <3>2. {r \in Reservas : valoraciones[r].id # 0} = {}
      BY <3>1
    <3>3. Total(valoraciones) = 0
      BY <3>2, FS_EmptySet DEF Total
    <3> QED BY <2>2, <3>3 DEF MediaDe, Init
  <2>3. ASSUME NEW v, NEW m PROVE AlDia(Libre, v, m)
    BY LibreEsTrabajo DEF AlDia
  <2> QED BY <2>1, <2>2, <2>3 DEF EnOrden
<1>2. Inv /\ EnOrden /\ [Next]_vars => EnOrden'
  <2> SUFFICES ASSUME Inv, EnOrden, [Next]_vars PROVE EnOrden'
    OBVIOUS
  <2>1. CASE UNCHANGED vars
    BY <2>1 DEF vars, EnOrden
  <2>2. CASE Next /\ enFila'
    BY <2>2, PasoDeNext, SigueEnOrden
  <2>3. CASE ~enFila'
    BY <2>3 DEF EnOrden
  <2> QED BY <2>1, <2>2, <2>3
<1>3. EnOrden => LaMediaCuadra
  <2>1. Libre.etapa \notin Recuentos
    BY LibreEsTrabajo DEF Recuentos
  <2> QED BY <2>1 DEF EnOrden, LaMediaCuadra, Tranquilo
<1> QED BY <1>1, <1>2, <1>3, SpecCumpleInv, PTL DEF Spec

-----------------------------------------------------------------------------
(* The notices of a booking.                                               *)

\* The types the argument needs, with the bounds of the model left out.
Pendientes == {<<>>, <<"cliente">>, <<"profesional">>, <<"cliente", "profesional">>}
TramitesDe ==
    [etapa : EtapasTramite, quien : Mirones \cup {"reloj"}, antes : EstadosReserva,
     ahora : EstadosReserva, sinCobro : BOOLEAN, pendientes : Pendientes]
PasosDe ==
    [quien : Mirones \cup {"reloj"}, antes : EstadosReserva, ahora : Sabidos, cobrada : BOOLEAN]

TiposNoticias ==
    /\ situacion \in EstadosReserva
    /\ garantia \in BOOLEAN
    /\ tramite \in [Tramites -> TramitesDe]
    /\ noticias \in [LasDosPartes -> Seq([estado : Sabidos, sinCobro : BOOLEAN])]
    /\ asientos \in Seq(EstadosReserva \X EstadosReserva)
    /\ pasos \in Seq(PasosDe)
    /\ perdido \subseteq Olvidables

\* A booking goes through a status once at most, and its steps say which.
Hechos == {pasos[n].ahora : n \in DOMAIN pasos}
Historia ==
    /\ \/ situacion = "pending" /\ Hechos = {}
       \/ situacion = "confirmed" /\ Hechos = {"confirmed"}
       \/ situacion = "completed" /\ Hechos = {"confirmed", "completed"}
       \/ situacion = "rejected" /\ Hechos = {"rejected"}
       \/ situacion = "cancelled" /\ Hechos \in {{"cancelled"}, {"confirmed", "cancelled"}}
    /\ \A m, n \in DOMAIN pasos : pasos[m].ahora = pasos[n].ahora => m = n

\* A change being served is one of the steps, and each has its own.
Activos == {t \in Tramites : tramite[t].etapa # "libre"}
EsElPaso(s, r) ==
    /\ s.quien = r.quien /\ s.antes = r.antes /\ s.ahora = r.ahora
    /\ r.sinCobro => ~s.cobrada
CadaUnoDeSuPaso ==
    /\ \A t \in Activos : \E n \in DOMAIN pasos : EsElPaso(pasos[n], tramite[t])
    /\ \A t, u \in Activos : tramite[t].ahora = tramite[u].ahora => t = u

\* Who is still to be told of a change.
PorAvisar(r) == IF r.etapa = "releer" THEN Destinos(r.quien, r.ahora) ELSE r.pendientes
Faltan(r) == Range(PorAvisar(r))

AvisosEnOrden ==
    /\ \A t \in Activos : \A p \in Faltan(tramite[t]) :
           p # tramite[t].quien /\ tramite[t].ahora \notin Avisados(p)
    /\ LoAvisadoOcurrio
    /\ \A p \in LasDosPartes : IsFiniteSet(Avisados(p))

NadieSinAviso ==
    \A p \in LasDosPartes \ perdido, n \in DOMAIN pasos :
        \/ pasos[n].quien = p
        \/ pasos[n].ahora \in Avisados(p)
        \/ p = "profesional" /\ EsAdmin(pasos[n].quien) /\ pasos[n].ahora # "cancelled"
        \/ \E t \in Activos : tramite[t].ahora = pasos[n].ahora /\ p \in Faltan(tramite[t])

\* What the moderation did, and what of it is in the history.
Suyos == {n \in DOMAIN pasos : EsAdmin(pasos[n].quien)}
Hechas == {<<pasos[n].antes, pasos[n].ahora>> : n \in Suyos}
Anotadas == Range(asientos)
HistorialEnOrden ==
    /\ Anotadas \subseteq Hechas
    /\ IsFiniteSet(Anotadas) /\ Len(asientos) = Cardinality(Anotadas)
    /\ IsFiniteSet(Suyos) /\ IsFiniteSet(Hechas) /\ Cardinality(Suyos) = Cardinality(Hechas)
    /\ \A t \in Activos : <<tramite[t].antes, tramite[t].ahora>> \notin Anotadas
    /\ "historial" \notin perdido =>
           \A n \in Suyos : \/ <<pasos[n].antes, pasos[n].ahora>> \in Anotadas
                            \/ \E t \in Activos : tramite[t].ahora = pasos[n].ahora

NoticiasEnOrden ==
    /\ TiposNoticias
    /\ Historia
    /\ CadaUnoDeSuPaso
    /\ AvisosEnOrden
    /\ NadieSinAviso
    /\ HistorialEnOrden

-----------------------------------------------------------------------------

\* Telling one after another: who is first, and who is left.
LEMMA UnoTrasOtro ==
    ASSUME NEW ps \in Pendientes
    PROVE  /\ Range(ps) \subseteq LasDosPartes
           /\ ps = <<>> => Range(ps) = {}
           /\ ps # <<>> => /\ Head(ps) \in LasDosPartes
                           /\ Tail(ps) \in Pendientes
                           /\ Range(ps) = Range(Tail(ps)) \cup {Head(ps)}
                           /\ Head(ps) \notin Range(Tail(ps))
<1>1. /\ Range(<<>>) = {}
      /\ Range(<<"cliente">>) = {"cliente"}
      /\ Range(<<"profesional">>) = {"profesional"}
      /\ Range(<<"cliente", "profesional">>) = {"cliente", "profesional"}
  BY DEF Range
<1>2. /\ Head(<<"cliente">>) = "cliente" /\ Tail(<<"cliente">>) = <<>>
      /\ Head(<<"profesional">>) = "profesional" /\ Tail(<<"profesional">>) = <<>>
      /\ Head(<<"cliente", "profesional">>) = "cliente"
      /\ Tail(<<"cliente", "profesional">>) = <<"profesional">>
  OBVIOUS
<1>. QED
  BY <1>1, <1>2 DEF Pendientes, LasDosPartes

\* To whom a change is told.
LEMMA ADonde ==
    ASSUME NEW q, NEW e
    PROVE  /\ Destinos(q, e) \in Pendientes
           /\ e # "cancelled" => Range(Destinos(q, e)) = {"cliente"}
           /\ e = "cancelled" => Range(Destinos(q, e)) = LasDosPartes \ {q}
<1>1. /\ Range(<<"cliente">>) = {"cliente"}
      /\ Range(<<"profesional">>) = {"profesional"}
      /\ Range(<<"cliente", "profesional">>) = {"cliente", "profesional"}
  BY DEF Range
<1>2. e # "cancelled" => Destinos(q, e) = <<"cliente">>
  BY DEF Destinos
<1>3. e = "cancelled" /\ q = "profesional" => Destinos(q, e) = <<"cliente">>
  BY DEF Destinos
<1>4. e = "cancelled" /\ q = "cliente" => Destinos(q, e) = <<"profesional">>
  BY DEF Destinos
<1>5. e = "cancelled" /\ q \notin LasDosPartes => Destinos(q, e) = <<"cliente", "profesional">>
  BY DEF Destinos, LasDosPartes
<1>. QED
  BY <1>1, <1>2, <1>3, <1>4, <1>5 DEF Pendientes, LasDosPartes

\* Only the parties are told.
LEMMA FaltanPartes ==
    ASSUME NEW r \in TramitesDe
    PROVE  Faltan(r) \subseteq LasDosPartes /\ PorAvisar(r) \in Pendientes
<1>1. PorAvisar(r) \in Pendientes
  BY ADonde DEF PorAvisar, TramitesDe
<1>. QED
  BY <1>1, UnoTrasOtro DEF Faltan

\* One more at the end of a sequence.
LEMMA UnoMas ==
    ASSUME NEW S, NEW s \in Seq(S), NEW x \in S
    PROVE  /\ Append(s, x) \in Seq(S)
           /\ DOMAIN s = 1 .. Len(s) /\ Len(s) \in Nat
           /\ DOMAIN Append(s, x) = 1 .. Len(s) + 1
           /\ Len(Append(s, x)) = Len(s) + 1
           /\ Append(s, x)[Len(s) + 1] = x
           /\ \A n \in DOMAIN s : Append(s, x)[n] = s[n] /\ n \in DOMAIN Append(s, x)
           /\ \A n \in DOMAIN Append(s, x) : n \in DOMAIN s \/ n = Len(s) + 1
           /\ Range(Append(s, x)) = Range(s) \cup {x}
<1>1. /\ Append(s, x) \in Seq(S)
      /\ DOMAIN s = 1 .. Len(s) /\ Len(s) \in Nat
      /\ DOMAIN Append(s, x) = 1 .. Len(s) + 1
      /\ Len(Append(s, x)) = Len(s) + 1
      /\ Append(s, x)[Len(s) + 1] = x
      /\ \A n \in 1 .. Len(s) : Append(s, x)[n] = s[n]
  OBVIOUS
<1>. DEFINE r == Append(s, x)
<1>. HIDE DEF r
<1>2. /\ DOMAIN r = 1 .. Len(s) + 1 /\ r[Len(s) + 1] = x
      /\ \A n \in 1 .. Len(s) : r[n] = s[n]
  BY <1>1 DEF r
<1>3. \A n \in 1 .. Len(s) + 1 : n \in 1 .. Len(s) \/ n = Len(s) + 1
  BY <1>1
<1>4. Range(r) = Range(s) \cup {x}
  BY <1>1, <1>2, <1>3 DEF Range
<1>. QED
  BY <1>1, <1>3, <1>4 DEF r


-----------------------------------------------------------------------------
(* What the steps have in common.                                          *)

\* Nothing has happened to the booking yet.
LEMMA IniciaNoticias == InitNoticias => NoticiasEnOrden
<1>. SUFFICES ASSUME InitNoticias PROVE NoticiasEnOrden
  OBVIOUS
<1>1. SinTramite \in TramitesDe /\ SinTramite.etapa = "libre"
  BY DEF SinTramite, Tramite, TramitesDe, EtapasTramite, Mirones, EstadosReserva, Pendientes
<1>2. /\ tramite = [t \in Tramites |-> SinTramite] /\ pasos = <<>> /\ asientos = <<>>
      /\ noticias = [p \in LasDosPartes |-> <<>>] /\ perdido = {} /\ situacion = "pending"
      /\ garantia \in BOOLEAN
  BY DEF InitNoticias
<1>3. TiposNoticias
  BY <1>1, <1>2 DEF TiposNoticias, EstadosReserva
<1>4. Activos = {} /\ DOMAIN pasos = {} /\ Hechos = {} /\ Suyos = {}
  BY <1>1, <1>2 DEF Activos, Hechos, Suyos
<1>5. Hechas = {} /\ Anotadas = {} /\ Len(asientos) = 0
  BY <1>2, <1>4 DEF Hechas, Anotadas, Range
<1>6. \A p \in LasDosPartes : noticias[p] = <<>> /\ Avisados(p) = {} /\ Len(noticias[p]) = 0
  BY <1>2 DEF Avisados
<1>7. Historia /\ CadaUnoDeSuPaso /\ NadieSinAviso
  BY <1>2, <1>4 DEF Historia, CadaUnoDeSuPaso, NadieSinAviso
<1>8. AvisosEnOrden
  <2>1. \A p \in LasDosPartes : DOMAIN noticias[p] = {} /\ Len(noticias[p]) = 0
    BY <1>6
  <2>2. \A p \in LasDosPartes : IsFiniteSet(Avisados(p)) /\ Cardinality(Avisados(p)) = 0
    BY <1>6, FS_EmptySet
  <2>. QED
    BY <1>4, <2>1, <2>2 DEF AvisosEnOrden, LoAvisadoOcurrio
<1>9. HistorialEnOrden
  BY <1>4, <1>5, FS_EmptySet DEF HistorialEnOrden
<1>. QED
  BY <1>3, <1>7, <1>8, <1>9 DEF NoticiasEnOrden

\* The day comes, or the hold changes: it is nobody's news.
LEMMA SinNoticia ==
    ASSUME NoticiasEnOrden, situacion' = situacion, garantia' \in BOOLEAN, tramite' = tramite,
           noticias' = noticias, asientos' = asientos, pasos' = pasos, perdido' = perdido
    PROVE  NoticiasEnOrden'
<1>1. /\ Hechos' = Hechos /\ Activos' = Activos /\ Suyos' = Suyos
      /\ Anotadas' = Anotadas /\ \A p : Avisados(p)' = Avisados(p)
  BY DEF Hechos, Activos, Suyos, Anotadas, Avisados
<1>2. Hechas' = Hechas
  BY <1>1 DEF Hechas
<1>3. TiposNoticias' /\ Historia' /\ CadaUnoDeSuPaso'
  BY <1>1 DEF NoticiasEnOrden, TiposNoticias, Historia, CadaUnoDeSuPaso
<1>4. AvisosEnOrden'
  BY <1>1 DEF NoticiasEnOrden, AvisosEnOrden, LoAvisadoOcurrio
<1>5. NadieSinAviso'
  BY <1>1 DEF NoticiasEnOrden, NadieSinAviso
<1>6. HistorialEnOrden'
  BY <1>1, <1>2 DEF NoticiasEnOrden, HistorialEnOrden
<1>. QED
  BY <1>3, <1>4, <1>5, <1>6 DEF NoticiasEnOrden

\* A change being served goes on, or ends: the steps of the booking are the same.
LEMMA Sigue ==
    ASSUME NoticiasEnOrden, NEW t \in Activos, NEW r \in TramitesDe,
           tramite' = [tramite EXCEPT ![t] = r],
           situacion' = situacion, pasos' = pasos,
           \/ r.etapa = "libre"
           \/ /\ r.etapa # "libre"
              /\ r.quien = tramite[t].quien /\ r.antes = tramite[t].antes
              /\ r.ahora = tramite[t].ahora /\ r.sinCobro = tramite[t].sinCobro
    PROVE  /\ tramite' \in [Tramites -> TramitesDe]
           /\ tramite'[t] = r /\ \A u \in Tramites \ {t} : tramite'[u] = tramite[u]
           /\ Activos' = IF r.etapa = "libre" THEN Activos \ {t} ELSE Activos
           /\ \A u \in Activos' : /\ u \in Activos
                                  /\ tramite'[u].quien = tramite[u].quien
                                  /\ tramite'[u].antes = tramite[u].antes
                                  /\ tramite'[u].ahora = tramite[u].ahora
           /\ Historia' /\ CadaUnoDeSuPaso'
           /\ Hechas' = Hechas /\ Suyos' = Suyos
<1>1. t \in Tramites /\ tramite[t].etapa # "libre" /\ tramite \in [Tramites -> TramitesDe]
  BY DEF Activos, NoticiasEnOrden, TiposNoticias
<1>2. /\ tramite' \in [Tramites -> TramitesDe]
      /\ tramite'[t] = r /\ \A u \in Tramites \ {t} : tramite'[u] = tramite[u]
  BY <1>1
<1>3. Activos' = IF r.etapa = "libre" THEN Activos \ {t} ELSE Activos
  <2>1. \A u \in Tramites \ {t} : u \in Activos' <=> u \in Activos
    BY <1>2 DEF Activos
  <2>2. t \in Activos' <=> r.etapa # "libre"
    BY <1>1, <1>2 DEF Activos
  <2>3. Activos' \subseteq Tramites /\ Activos \subseteq Tramites
    BY DEF Activos
  <2>. QED
    BY <2>1, <2>2, <2>3
<1>4. \A u \in Activos' : /\ u \in Activos
                          /\ tramite'[u].quien = tramite[u].quien
                          /\ tramite'[u].antes = tramite[u].antes
                          /\ tramite'[u].ahora = tramite[u].ahora
                          /\ tramite'[u].sinCobro = tramite[u].sinCobro
  BY <1>2, <1>3 DEF Activos
<1>5. Historia'
  <2>1. Hechos' = Hechos
    BY DEF Hechos
  <2>. QED
    BY <2>1 DEF NoticiasEnOrden, Historia
<1>6. CadaUnoDeSuPaso'
  <2>1. \A u \in Activos' : \A n \in DOMAIN pasos :
            EsElPaso(pasos[n], tramite[u]) => EsElPaso(pasos[n], tramite'[u])
    BY <1>4 DEF EsElPaso
  <2>2. \A u \in Activos' : \E n \in DOMAIN pasos' : EsElPaso(pasos'[n], tramite'[u])
    BY <1>4, <2>1 DEF NoticiasEnOrden, CadaUnoDeSuPaso
  <2>3. \A u, v \in Activos' : tramite'[u].ahora = tramite'[v].ahora => u = v
    BY <1>4 DEF NoticiasEnOrden, CadaUnoDeSuPaso
  <2>. QED
    BY <2>2, <2>3 DEF CadaUnoDeSuPaso
<1>7. Suyos' = Suyos
  BY DEF Suyos
<1>8. Hechas' = Hechas
  BY <1>7 DEF Hechas
<1>. QED
  BY <1>2, <1>3, <1>4, <1>5, <1>6, <1>7, <1>8

\* Only who is told changes.
LEMMA MismosAvisos ==
    ASSUME noticias' = noticias
    PROVE  \A p : Avisados(p)' = Avisados(p)
BY DEF Avisados

\* Nothing told, and nothing else to tell than there was.
LEMMA NadaQueContar ==
    ASSUME NoticiasEnOrden, NEW t \in Activos, NEW r \in TramitesDe,
           tramite' = [tramite EXCEPT ![t] = r],
           situacion' = situacion, pasos' = pasos, noticias' = noticias,
           \/ r.etapa = "libre"
           \/ /\ r.etapa # "libre"
              /\ r.quien = tramite[t].quien /\ r.antes = tramite[t].antes
              /\ r.ahora = tramite[t].ahora /\ r.sinCobro = tramite[t].sinCobro
              /\ Faltan(r) \subseteq Faltan(tramite[t]),
           perdido \subseteq perdido',
           \A p \in Faltan(tramite[t]) : p \in perdido' \/ (r.etapa # "libre" /\ p \in Faltan(r))
    PROVE  AvisosEnOrden' /\ NadieSinAviso'
<1>1. /\ tramite'[t] = r /\ \A u \in Tramites \ {t} : tramite'[u] = tramite[u]
      /\ Activos' = IF r.etapa = "libre" THEN Activos \ {t} ELSE Activos
      /\ \A u \in Activos' : /\ u \in Activos
                             /\ tramite'[u].quien = tramite[u].quien
                             /\ tramite'[u].ahora = tramite[u].ahora
  BY Sigue
<1>2. \A p : Avisados(p)' = Avisados(p)
  BY MismosAvisos
<1>3. \A u \in Activos' : Faltan(tramite'[u]) \subseteq Faltan(tramite[u])
  BY <1>1 DEF Activos
<1>4. LoAvisadoOcurrio'
  BY <1>2 DEF NoticiasEnOrden, AvisosEnOrden, LoAvisadoOcurrio
<1>5. AvisosEnOrden'
  BY <1>1, <1>2, <1>3, <1>4 DEF NoticiasEnOrden, AvisosEnOrden
<1>6. NadieSinAviso'
  <2>1. SUFFICES ASSUME NEW p \in LasDosPartes, p \notin perdido', NEW n \in DOMAIN pasos,
                        pasos[n].quien # p, pasos[n].ahora \notin Avisados(p),
                        ~(p = "profesional" /\ EsAdmin(pasos[n].quien)
                             /\ pasos[n].ahora # "cancelled")
                 PROVE  \E u \in Activos' : /\ tramite'[u].ahora = pasos[n].ahora
                                            /\ p \in Faltan(tramite'[u])
    BY <1>2 DEF NadieSinAviso
  <2>2. PICK u \in Activos : tramite[u].ahora = pasos[n].ahora /\ p \in Faltan(tramite[u])
    BY <2>1 DEF NoticiasEnOrden, NadieSinAviso
  <2>3. CASE u = t
    BY <1>1, <2>1, <2>2, <2>3
  <2>4. CASE u # t
    BY <1>1, <2>2, <2>4 DEF Activos
  <2>. QED
    BY <2>3, <2>4
<1>. QED
  BY <1>5, <1>6


\* A change begins, asked for by somebody or by the clock.
LEMMA CambiaElEstado ==
    ASSUME NoticiasEnOrden, NEW t \in Tramites, NEW s \in PasosDe, NEW r \in TramitesDe,
           tramite[t].etapa = "libre", r.etapa # "libre", EsElPaso(s, r),
           s.antes = situacion, <<situacion, s.ahora>> \in TransicionesReserva,
           s.ahora # "cancelled" => s.quien = "profesional" \/ EsAdmin(s.quien),
           PorAvisar(r) = Destinos(s.quien, s.ahora),
           situacion' = s.ahora, garantia' \in BOOLEAN,
           pasos' = Append(pasos, s), tramite' = [tramite EXCEPT ![t] = r],
           noticias' = noticias, asientos' = asientos, perdido' = perdido
    PROVE  NoticiasEnOrden'
<1>. DEFINE n == Len(pasos) + 1
<1>1. /\ tramite \in [Tramites -> TramitesDe] /\ pasos \in Seq(PasosDe)
      /\ situacion \in EstadosReserva
  BY DEF NoticiasEnOrden, TiposNoticias
<1>2. /\ Append(pasos, s) \in Seq(PasosDe)
      /\ DOMAIN pasos = 1 .. Len(pasos) /\ Len(pasos) \in Nat
      /\ Append(pasos, s)[Len(pasos) + 1] = s
      /\ DOMAIN Append(pasos, s) = 1 .. Len(pasos) + 1
      /\ \A m \in DOMAIN pasos : /\ Append(pasos, s)[m] = pasos[m]
                                 /\ m \in DOMAIN Append(pasos, s)
      /\ \A m \in DOMAIN Append(pasos, s) : m \in DOMAIN pasos \/ m = Len(pasos) + 1
      /\ Range(Append(pasos, s)) = Range(pasos) \cup {s}
  BY <1>1, UnoMas
<1>3. /\ pasos' \in Seq(PasosDe)
      /\ pasos'[n] = s /\ n \in DOMAIN pasos' /\ n \notin DOMAIN pasos
      /\ \A m \in DOMAIN pasos : pasos'[m] = pasos[m] /\ m \in DOMAIN pasos'
      /\ \A m \in DOMAIN pasos' : m \in DOMAIN pasos \/ m = n
      /\ Range(pasos') = Range(pasos) \cup {s}
  BY <1>2
<1>4. /\ tramite' \in [Tramites -> TramitesDe] /\ tramite'[t] = r
      /\ \A u \in Tramites \ {t} : tramite'[u] = tramite[u]
  BY <1>1
<1>. HIDE DEF n
<1>5. /\ Activos' = Activos \cup {t} /\ t \notin Activos /\ Activos \subseteq Tramites
      /\ \A u \in Activos : tramite'[u] = tramite[u]
  BY <1>4 DEF Activos
<1>6. /\ s.ahora \notin Hechos
      /\ Hechos' = Hechos \cup {s.ahora}
      /\ \A m \in DOMAIN pasos : pasos[m].ahora \in Hechos
  <2>1. s.ahora \notin Hechos
    BY <1>1 DEF NoticiasEnOrden, Historia, TransicionesReserva
  <2>2. Hechos' = Hechos \cup {s.ahora}
    BY <1>3 DEF Hechos
  <2>. QED
    BY <2>1, <2>2 DEF Hechos
<1>7. TiposNoticias'
  BY <1>1, <1>3, <1>4 DEF NoticiasEnOrden, TiposNoticias, TransicionesReserva, EstadosReserva
<1>8. Historia'
  <2>1. \A l, m \in DOMAIN pasos' : pasos'[l].ahora = pasos'[m].ahora => l = m
    BY <1>3, <1>6 DEF NoticiasEnOrden, Historia
  <2>2. /\ \/ situacion = "pending" /\ Hechos = {}
           \/ situacion = "confirmed" /\ Hechos = {"confirmed"}
        /\ situacion = "pending" => s.ahora \in {"confirmed", "rejected", "cancelled"}
        /\ situacion = "confirmed" => s.ahora \in {"completed", "cancelled"}
    BY DEF NoticiasEnOrden, Historia, TransicionesReserva
  <2>3. \/ situacion' = "confirmed" /\ Hechos' = {"confirmed"}
        \/ situacion' = "completed" /\ Hechos' = {"confirmed", "completed"}
        \/ situacion' = "rejected" /\ Hechos' = {"rejected"}
        \/ situacion' = "cancelled" /\ Hechos' \in {{"cancelled"}, {"confirmed", "cancelled"}}
    BY <1>6, <2>2
  <2>. QED
    BY <2>1, <2>3 DEF Historia
<1>9. \A u \in Activos : tramite[u].ahora \in Hechos
  BY <1>6 DEF NoticiasEnOrden, CadaUnoDeSuPaso, EsElPaso
<1>10. r.ahora = s.ahora /\ r.antes = s.antes /\ r.quien = s.quien
  BY DEF EsElPaso
<1>11. CadaUnoDeSuPaso'
  <2>1. \A u \in Activos' : \E m \in DOMAIN pasos' : EsElPaso(pasos'[m], tramite'[u])
    BY <1>3, <1>4, <1>5 DEF NoticiasEnOrden, CadaUnoDeSuPaso
  <2>2. \A u, v \in Activos' : tramite'[u].ahora = tramite'[v].ahora => u = v
    BY <1>4, <1>5, <1>6, <1>9, <1>10 DEF NoticiasEnOrden, CadaUnoDeSuPaso
  <2>. QED
    BY <2>1, <2>2 DEF CadaUnoDeSuPaso
<1>12. \A p : Avisados(p)' = Avisados(p)
  BY MismosAvisos
<1>13. \A p \in LasDosPartes : Avisados(p) \subseteq Hechos
  <2>1. \A x \in Range(pasos) : x.ahora \in Hechos
    BY <1>6 DEF Range
  <2>2. \A p \in LasDosPartes : \A k \in DOMAIN noticias[p] : noticias[p][k].estado \in Hechos
    BY <2>1 DEF NoticiasEnOrden, AvisosEnOrden, LoAvisadoOcurrio
  <2>. QED
    BY <2>2 DEF Avisados
<1>14. /\ s.ahora # "cancelled" => Faltan(r) = {"cliente"}
       /\ s.ahora = "cancelled" => Faltan(r) = LasDosPartes \ {s.quien}
  BY ADonde DEF Faltan
<1>15. AvisosEnOrden'
  <2>1. \A p \in Faltan(r) : p \in LasDosPartes /\ p # r.quien
    BY <1>10, <1>14 DEF LasDosPartes, EsAdmin, Moderacion
  <2>2. \A u \in Activos' : \A p \in Faltan(tramite'[u]) :
            p # tramite'[u].quien /\ tramite'[u].ahora \notin Avisados(p)
    BY <1>4, <1>5, <1>6, <1>10, <1>13, <2>1 DEF NoticiasEnOrden, AvisosEnOrden
  <2>3. LoAvisadoOcurrio'
    BY <1>3, <1>12 DEF NoticiasEnOrden, AvisosEnOrden, LoAvisadoOcurrio
  <2>. QED
    BY <1>12, <2>2, <2>3 DEF NoticiasEnOrden, AvisosEnOrden
<1>16. NadieSinAviso'
  <2>1. SUFFICES ASSUME NEW p \in LasDosPartes, p \notin perdido, NEW m \in DOMAIN pasos'
                 PROVE  \/ pasos'[m].quien = p
                        \/ pasos'[m].ahora \in Avisados(p)
                        \/ /\ p = "profesional" /\ EsAdmin(pasos'[m].quien)
                           /\ pasos'[m].ahora # "cancelled"
                        \/ \E u \in Activos' : /\ tramite'[u].ahora = pasos'[m].ahora
                                               /\ p \in Faltan(tramite'[u])
    BY <1>12 DEF NadieSinAviso
  <2>2. CASE m = n
    BY <1>3, <1>4, <1>5, <1>10, <1>14, <2>2 DEF LasDosPartes
  <2>3. CASE m # n
    BY <1>3, <1>5, <2>1, <2>3 DEF NoticiasEnOrden, NadieSinAviso
  <2>. QED
    BY <2>2, <2>3
<1>17. HistorialEnOrden'
  <2>1. Anotadas' = Anotadas
    BY DEF Anotadas
  <2>2. Suyos' = IF EsAdmin(s.quien) THEN Suyos \cup {n} ELSE Suyos
    BY <1>3 DEF Suyos
  <2>3. n \notin Suyos /\ \A m \in Suyos : m \in DOMAIN pasos /\ pasos'[m] = pasos[m]
    BY <1>3 DEF Suyos
  <2>4. Hechas' = IF EsAdmin(s.quien) THEN Hechas \cup {<<s.antes, s.ahora>>} ELSE Hechas
    BY <1>3, <2>2, <2>3 DEF Hechas
  <2>5. <<s.antes, s.ahora>> \notin Hechas
    BY <1>6, <2>3 DEF Hechas
  <2>6. /\ IsFiniteSet(Suyos) /\ IsFiniteSet(Hechas)
        /\ Cardinality(Suyos) = Cardinality(Hechas)
        /\ Anotadas \subseteq Hechas
    BY DEF NoticiasEnOrden, HistorialEnOrden
  <2>7. /\ IsFiniteSet(Suyos \cup {n}) /\ Cardinality(Suyos \cup {n}) = Cardinality(Suyos) + 1
        /\ IsFiniteSet(Hechas \cup {<<s.antes, s.ahora>>})
        /\ Cardinality(Hechas \cup {<<s.antes, s.ahora>>}) = Cardinality(Hechas) + 1
    BY <2>3, <2>5, <2>6, FS_AddElement
  <2>8. IsFiniteSet(Suyos') /\ IsFiniteSet(Hechas') /\ Cardinality(Suyos') = Cardinality(Hechas')
    BY <2>2, <2>4, <2>6, <2>7
  <2>9. \A u \in Activos' : <<tramite'[u].antes, tramite'[u].ahora>> \notin Anotadas
    BY <1>4, <1>5, <1>10, <2>5, <2>6, SMTT(30) DEF NoticiasEnOrden, HistorialEnOrden
  <2>10. ASSUME "historial" \notin perdido, NEW m \in Suyos'
         PROVE  \/ <<pasos'[m].antes, pasos'[m].ahora>> \in Anotadas
                \/ \E u \in Activos' : tramite'[u].ahora = pasos'[m].ahora
    <3>1. CASE m = n
      BY <1>3, <1>4, <1>5, <1>10, <3>1
    <3>2. CASE m # n
      BY <1>5, <2>2, <2>3, <2>10, <3>2 DEF NoticiasEnOrden, HistorialEnOrden
    <3>. QED
      BY <3>1, <3>2
  <2>11. Anotadas' \subseteq Hechas'
    BY <2>1, <2>4, <2>6
  <2>. QED
    BY <2>1, <2>8, <2>9, <2>10, <2>11 DEF NoticiasEnOrden, HistorialEnOrden
<1>. QED
  BY <1>7, <1>8, <1>11, <1>15, <1>16, <1>17 DEF NoticiasEnOrden


-----------------------------------------------------------------------------
(* The steps.                                                              *)

\* updateStatus: the transaction, with whoever may ask for it.
LEMMA PedirTramiteEnOrden ==
    ASSUME NoticiasEnOrden, NEW t \in Tramites, PedirTramite(t)
    PROVE  NoticiasEnOrden'
<1>1. PICK quien \in Mirones \ {"escaparate"}, estado \in Sabidos, sinCobro \in BOOLEAN :
          /\ Permitido(quien, estado)
          /\ sinCobro => estado = "completed"
          /\ estado = "completed" /\ ~sinCobro => garantia
          /\ LET cobra == estado = "completed" /\ garantia IN
             /\ situacion' = estado
             /\ pasos' = Append(pasos, Paso(quien, situacion, estado, cobra))
             /\ tramite' = [tramite EXCEPT ![t] =
                    Tramite("releer", quien, situacion, estado, sinCobro /\ ~cobra, <<>>)]
             /\ garantia' = FALSE
  BY DEF PedirTramite
<1>. DEFINE cobra == estado = "completed" /\ garantia
            callada == sinCobro /\ ~cobra
<1>2. cobra \in BOOLEAN /\ callada \in BOOLEAN /\ (callada => ~cobra)
  BY <1>1
<1>3. /\ situacion' = estado
      /\ pasos' = Append(pasos, Paso(quien, situacion, estado, cobra))
      /\ tramite' = [tramite EXCEPT ![t] =
             Tramite("releer", quien, situacion, estado, callada, <<>>)]
      /\ garantia' = FALSE
  BY <1>1
<1>. HIDE DEF cobra, callada
<1>. DEFINE s == Paso(quien, situacion, estado, cobra)
            r == Tramite("releer", quien, situacion, estado, callada, <<>>)
<1>4. situacion \in EstadosReserva /\ estado \in EstadosReserva
  BY DEF NoticiasEnOrden, TiposNoticias, Sabidos, EstadosReserva
<1>5. s \in PasosDe
  BY <1>2, <1>4 DEF Paso, PasosDe
<1>6. r \in TramitesDe
  BY <1>2, <1>4 DEF Tramite, TramitesDe, EtapasTramite, Pendientes
<1>7. /\ s.quien = quien /\ s.antes = situacion /\ s.ahora = estado /\ s.cobrada = cobra
      /\ r.etapa = "releer" /\ r.quien = quien /\ r.antes = situacion /\ r.ahora = estado
      /\ r.sinCobro = callada
  BY DEF Paso, Tramite
<1>8. /\ <<situacion, estado>> \in TransicionesReserva
      /\ estado # "cancelled" => quien = "profesional" \/ EsAdmin(quien)
  BY <1>1 DEF Permitido, Sabidos
<1>9. /\ tramite[t].etapa = "libre"
      /\ noticias' = noticias /\ asientos' = asientos /\ perdido' = perdido
  BY DEF PedirTramite
<1>10. pasos' = Append(pasos, s) /\ tramite' = [tramite EXCEPT ![t] = r] /\ garantia' \in BOOLEAN
  BY <1>3
<1>. HIDE DEF s, r
<1>11. EsElPaso(s, r)
  BY <1>2, <1>7 DEF EsElPaso
<1>12. PorAvisar(r) = Destinos(s.quien, s.ahora)
  BY <1>7 DEF PorAvisar
<1>. QED
  BY <1>3, <1>5, <1>6, <1>7, <1>8, <1>9, <1>10, <1>11, <1>12, CambiaElEstado

\* caducarPendientes: the clock cancels, and both are to be told.
LEMMA CaducarReservaEnOrden ==
    ASSUME NoticiasEnOrden, NEW t \in Tramites, CaducarReserva(t)
    PROVE  NoticiasEnOrden'
<1>. DEFINE s == Paso("reloj", "pending", "cancelled", FALSE)
            r == Tramite("avisar", "reloj", "pending", "cancelled", FALSE,
                         <<"cliente", "profesional">>)
<1>1. s \in PasosDe
  BY DEF Paso, PasosDe, EstadosReserva, Sabidos
<1>2. r \in TramitesDe
  BY DEF Tramite, TramitesDe, EtapasTramite, Pendientes, EstadosReserva
<1>3. /\ s.quien = "reloj" /\ s.antes = "pending" /\ s.ahora = "cancelled"
      /\ r.etapa = "avisar" /\ r.ahora = "cancelled" /\ r.pendientes = <<"cliente", "profesional">>
      /\ EsElPaso(s, r)
  BY DEF Paso, Tramite, EsElPaso
<1>4. PorAvisar(r) = Destinos(s.quien, s.ahora)
  BY <1>3 DEF PorAvisar, Destinos
<1>5. <<"pending", "cancelled">> \in TransicionesReserva
  BY DEF TransicionesReserva
<1>6. /\ tramite[t].etapa = "libre" /\ situacion = "pending"
      /\ situacion' = "cancelled" /\ garantia' \in BOOLEAN
      /\ pasos' = Append(pasos, s) /\ tramite' = [tramite EXCEPT ![t] = r]
      /\ noticias' = noticias /\ asientos' = asientos /\ perdido' = perdido
  BY DEF CaducarReserva
<1>. HIDE DEF s, r
<1>. QED
  BY <1>1, <1>2, <1>3, <1>4, <1>5, <1>6, CambiaElEstado

\* What is common to the steps that do not touch the history of the moderation.
LEMMA MismoHistorial ==
    ASSUME NoticiasEnOrden, asientos' = asientos, perdido' = perdido \/ \E p \in LasDosPartes :
               perdido' = perdido \cup {p},
           Suyos' = Suyos, Hechas' = Hechas, pasos' = pasos,
           Activos' = Activos,
           \A u \in Activos : /\ tramite'[u].antes = tramite[u].antes
                              /\ tramite'[u].ahora = tramite[u].ahora
    PROVE  HistorialEnOrden'
<1>1. Anotadas' = Anotadas
  BY DEF Anotadas
<1>2. "historial" \notin perdido' => "historial" \notin perdido
  OBVIOUS
<1>3. Len(asientos') = Cardinality(Anotadas')
  BY <1>1 DEF NoticiasEnOrden, HistorialEnOrden
<1>. QED
  BY <1>1, <1>2, <1>3 DEF NoticiasEnOrden, HistorialEnOrden

\* The booking is read again: who is to be told is the same.
LEMMA ReleerReservaEnOrden ==
    ASSUME NoticiasEnOrden, NEW t \in Tramites, ReleerReserva(t)
    PROVE  NoticiasEnOrden'
<1>. DEFINE d == Destinos(tramite[t].quien, tramite[t].ahora)
            r == [tramite[t] EXCEPT !.etapa = "avisar", !.pendientes = d]
<1>1. /\ tramite[t] \in TramitesDe /\ tramite[t].etapa = "releer" /\ t \in Activos
  BY DEF NoticiasEnOrden, TiposNoticias, ReleerReserva, Activos
<1>2. d \in Pendientes
  BY ADonde
<1>3. tramite' = [tramite EXCEPT ![t] = r]
  BY DEF ReleerReserva
<1>. HIDE DEF d
<1>4. /\ r \in TramitesDe /\ r.etapa = "avisar" /\ r.pendientes = d
      /\ r.quien = tramite[t].quien /\ r.antes = tramite[t].antes
      /\ r.ahora = tramite[t].ahora /\ r.sinCobro = tramite[t].sinCobro
  BY <1>1, <1>2 DEF TramitesDe, EtapasTramite
<1>. HIDE DEF r
<1>5. Faltan(r) = Faltan(tramite[t])
  BY <1>1, <1>4 DEF Faltan, PorAvisar, d
<1>6. /\ situacion' = situacion /\ garantia' = garantia /\ pasos' = pasos
      /\ noticias' = noticias /\ asientos' = asientos /\ perdido' = perdido
  BY DEF ReleerReserva
<1>7. AvisosEnOrden' /\ NadieSinAviso'
  BY <1>1, <1>3, <1>4, <1>5, <1>6, NadaQueContar
<1>8. /\ tramite' \in [Tramites -> TramitesDe]
      /\ Activos' = Activos
      /\ \A u \in Activos' : /\ tramite'[u].antes = tramite[u].antes
                             /\ tramite'[u].ahora = tramite[u].ahora
      /\ Historia' /\ CadaUnoDeSuPaso' /\ Hechas' = Hechas /\ Suyos' = Suyos
  BY <1>1, <1>3, <1>4, <1>6, Sigue
<1>9. HistorialEnOrden'
  BY <1>6, <1>8, MismoHistorial
<1>10. TiposNoticias'
  BY <1>6, <1>8 DEF NoticiasEnOrden, TiposNoticias
<1>. QED
  BY <1>7, <1>8, <1>9, <1>10 DEF NoticiasEnOrden

\* One of those who were to be told is told, or misses it.
LEMMA AvisarAUnoEnOrden ==
    ASSUME NoticiasEnOrden, NEW t \in Tramites, AvisarAUno(t)
    PROVE  NoticiasEnOrden'
<1>. DEFINE ps == tramite[t].pendientes
            p == Head(ps)
            r == [tramite[t] EXCEPT !.pendientes = Tail(ps)]
            aviso == Noticia(tramite[t].ahora, tramite[t].sinCobro)
<1>1. /\ tramite[t] \in TramitesDe /\ tramite[t].etapa = "avisar" /\ t \in Activos
      /\ ps \in Pendientes /\ ps # <<>>
  BY DEF NoticiasEnOrden, TiposNoticias, AvisarAUno, Activos, TramitesDe
<1>2. /\ p \in LasDosPartes /\ Tail(ps) \in Pendientes
      /\ Range(ps) = Range(Tail(ps)) \cup {p} /\ p \notin Range(Tail(ps))
  BY <1>1, UnoTrasOtro
<1>3. /\ tramite' = [tramite EXCEPT ![t] = r]
      /\ situacion' = situacion /\ garantia' = garantia /\ pasos' = pasos
      /\ asientos' = asientos
      /\ \/ noticias' = [noticias EXCEPT ![p] = Append(@, aviso)] /\ perdido' = perdido
         \/ noticias' = noticias /\ perdido' = perdido \cup {p}
  BY DEF AvisarAUno, Olvido
<1>4. /\ r \in TramitesDe /\ r.etapa = "avisar" /\ r.pendientes = Tail(ps)
      /\ r.quien = tramite[t].quien /\ r.antes = tramite[t].antes
      /\ r.ahora = tramite[t].ahora /\ r.sinCobro = tramite[t].sinCobro
  BY <1>1, <1>2 DEF TramitesDe, EtapasTramite
<1>5. /\ Faltan(r) = Range(Tail(ps)) /\ Faltan(tramite[t]) = Range(ps)
  BY <1>1, <1>4 DEF Faltan, PorAvisar
<1>6. aviso.estado = tramite[t].ahora /\ aviso.sinCobro = tramite[t].sinCobro
  BY DEF Noticia
<1>7. PICK n \in DOMAIN pasos : EsElPaso(pasos[n], tramite[t])
  BY <1>1 DEF NoticiasEnOrden, CadaUnoDeSuPaso
<1>8. tramite[t].ahora \in Sabidos
  <2>1. pasos[n] \in PasosDe
    BY DEF NoticiasEnOrden, TiposNoticias
  <2>. QED
    BY <1>7, <2>1 DEF PasosDe, EsElPaso
<1>9. aviso \in [estado : Sabidos, sinCobro : BOOLEAN]
  BY <1>1, <1>8 DEF Noticia, TramitesDe
<1>. HIDE DEF r, ps, aviso
<1>10. PICK q \in LasDosPartes : q = p
  BY <1>2
<1>11. /\ tramite' \in [Tramites -> TramitesDe]
       /\ tramite'[t] = r /\ \A u \in Tramites \ {t} : tramite'[u] = tramite[u]
       /\ Activos' = Activos
       /\ \A u \in Activos' : /\ tramite'[u].quien = tramite[u].quien
                              /\ tramite'[u].antes = tramite[u].antes
                              /\ tramite'[u].ahora = tramite[u].ahora
       /\ Historia' /\ CadaUnoDeSuPaso' /\ Hechas' = Hechas /\ Suyos' = Suyos
  BY <1>1, <1>3, <1>4, Sigue
<1>12. HistorialEnOrden'
  BY <1>2, <1>3, <1>11, MismoHistorial
<1>13. CASE noticias' = noticias /\ perdido' = perdido \cup {p}
  <2>0. /\ Faltan(r) \subseteq Faltan(tramite[t]) /\ perdido \subseteq perdido'
        /\ \A x \in Faltan(tramite[t]) : x \in perdido' \/ x \in Faltan(r)
        /\ r.etapa # "libre"
    BY <1>2, <1>4, <1>5, <1>13
  <2>1. AvisosEnOrden' /\ NadieSinAviso'
    BY <1>1, <1>3, <1>4, <1>13, <2>0, NadaQueContar
  <2>2. TiposNoticias'
    BY <1>2, <1>3, <1>11, <1>13 DEF NoticiasEnOrden, TiposNoticias, Olvidables
  <2>. QED
    BY <1>11, <1>12, <2>1, <2>2 DEF NoticiasEnOrden
<1>14. CASE noticias' = [noticias EXCEPT ![p] = Append(@, aviso)] /\ perdido' = perdido
  <2>1. /\ noticias[q] \in Seq([estado : Sabidos, sinCobro : BOOLEAN])
        /\ noticias \in [LasDosPartes -> Seq([estado : Sabidos, sinCobro : BOOLEAN])]
    BY DEF NoticiasEnOrden, TiposNoticias
  <2>2. /\ noticias'[q] = Append(noticias[q], aviso)
        /\ \A x \in LasDosPartes \ {q} : noticias'[x] = noticias[x]
    BY <1>10, <1>14, <2>1
  <2>3. /\ Append(noticias[q], aviso) \in Seq([estado : Sabidos, sinCobro : BOOLEAN])
        /\ DOMAIN noticias[q] = 1 .. Len(noticias[q]) /\ Len(noticias[q]) \in Nat
        /\ Len(Append(noticias[q], aviso)) = Len(noticias[q]) + 1
        /\ Append(noticias[q], aviso)[Len(noticias[q]) + 1] = aviso
        /\ Len(noticias[q]) + 1 \in DOMAIN Append(noticias[q], aviso)
        /\ \A k \in DOMAIN noticias[q] : /\ Append(noticias[q], aviso)[k] = noticias[q][k]
                                         /\ k \in DOMAIN Append(noticias[q], aviso)
        /\ \A k \in DOMAIN Append(noticias[q], aviso) :
               k \in DOMAIN noticias[q] \/ k = Len(noticias[q]) + 1
    BY <1>9, <2>1, UnoMas
  <2>4. /\ Avisados(q)' = Avisados(q) \cup {tramite[t].ahora}
        /\ \A x \in LasDosPartes \ {q} : Avisados(x)' = Avisados(x)
    BY <1>6, <2>2, <2>3 DEF Avisados
  <2>5. tramite[t].ahora \notin Avisados(q) /\ q # tramite[t].quien
    BY <1>1, <1>2, <1>5, <1>10 DEF NoticiasEnOrden, AvisosEnOrden
  <2>6. \A x \in LasDosPartes : \A k \in DOMAIN noticias'[x] :
            \E s \in Range(pasos) : /\ s.ahora = noticias'[x][k].estado /\ s.quien # x
                                    /\ noticias'[x][k].sinCobro => ~s.cobrada
    <3>1. ASSUME NEW x \in LasDosPartes, NEW k \in DOMAIN noticias[x],
                 noticias'[x][k] = noticias[x][k]
          PROVE  \E s \in Range(pasos) : /\ s.ahora = noticias'[x][k].estado /\ s.quien # x
                                         /\ noticias'[x][k].sinCobro => ~s.cobrada
      BY <3>1 DEF NoticiasEnOrden, AvisosEnOrden, LoAvisadoOcurrio
    <3>2. /\ pasos[n] \in Range(pasos)
          /\ pasos[n].ahora = aviso.estado /\ pasos[n].quien # q
          /\ aviso.sinCobro => ~pasos[n].cobrada
      BY <1>6, <1>7, <2>5 DEF EsElPaso, Range
    <3>. QED
      BY <2>2, <2>3, <3>1, <3>2
  <2>7. \A x \in LasDosPartes : /\ IsFiniteSet(Avisados(x))
                                /\ Len(noticias[x]) = Cardinality(Avisados(x))
    BY DEF NoticiasEnOrden, AvisosEnOrden, LoAvisadoOcurrio
  <2>8. /\ IsFiniteSet(Avisados(q) \cup {tramite[t].ahora})
        /\ Cardinality(Avisados(q) \cup {tramite[t].ahora}) = Cardinality(Avisados(q)) + 1
    BY <2>5, <2>7, FS_AddElement
  <2>9. \A x \in LasDosPartes : /\ IsFiniteSet(Avisados(x)')
                                /\ Len(noticias'[x]) = Cardinality(Avisados(x)')
    BY <2>2, <2>3, <2>4, <2>7, <2>8
  <2>10. LoAvisadoOcurrio'
    BY <1>3, <2>6, <2>9 DEF LoAvisadoOcurrio
  <2>11. \A u \in Activos' : \A x \in Faltan(tramite'[u]) :
             x # tramite'[u].quien /\ tramite'[u].ahora \notin Avisados(x)'
    <3>1. SUFFICES ASSUME NEW u \in Activos, NEW x \in Faltan(tramite'[u])
                   PROVE  x # tramite[u].quien /\ tramite[u].ahora \notin Avisados(x)'
      BY <1>11
    <3>2. u \in Tramites /\ tramite[u] \in TramitesDe
      BY DEF Activos, NoticiasEnOrden, TiposNoticias
    <3>3. CASE u = t
      <4>1. x \in Faltan(tramite[t]) /\ x # q /\ x \in LasDosPartes
        BY <1>1, <1>2, <1>5, <1>10, <1>11, <3>1, <3>3, FaltanPartes
      <4>. QED
        BY <1>1, <2>4, <3>3, <4>1 DEF NoticiasEnOrden, AvisosEnOrden
    <3>4. CASE u # t
      <4>1. /\ x \in Faltan(tramite[u]) /\ x \in LasDosPartes
            /\ tramite[u].ahora # tramite[t].ahora
        BY <1>1, <1>11, <3>1, <3>2, <3>4, FaltanPartes DEF NoticiasEnOrden, CadaUnoDeSuPaso
      <4>. QED
        BY <2>4, <4>1 DEF NoticiasEnOrden, AvisosEnOrden
    <3>. QED
      BY <3>3, <3>4
  <2>12. AvisosEnOrden'
    BY <2>9, <2>10, <2>11 DEF AvisosEnOrden
  <2>13. NadieSinAviso'
    <3>1. SUFFICES ASSUME NEW x \in LasDosPartes, x \notin perdido, NEW m \in DOMAIN pasos,
                          pasos[m].quien # x, pasos[m].ahora \notin Avisados(x)',
                          ~(x = "profesional" /\ EsAdmin(pasos[m].quien)
                               /\ pasos[m].ahora # "cancelled")
                   PROVE  \E u \in Activos' : /\ tramite'[u].ahora = pasos[m].ahora
                                              /\ x \in Faltan(tramite'[u])
      BY <1>3, <1>14 DEF NadieSinAviso
    <3>2. pasos[m].ahora \notin Avisados(x)
      BY <2>4, <3>1
    <3>3. PICK u \in Activos : tramite[u].ahora = pasos[m].ahora /\ x \in Faltan(tramite[u])
      BY <3>1, <3>2 DEF NoticiasEnOrden, NadieSinAviso
    <3>4. CASE u = t
      <4>1. x # q
        BY <2>4, <3>1, <3>3, <3>4
      <4>. QED
        BY <1>2, <1>5, <1>10, <1>11, <3>3, <3>4, <4>1
    <3>5. CASE u # t
      BY <1>11, <3>3, <3>5 DEF Activos
    <3>. QED
      BY <3>4, <3>5
  <2>14. TiposNoticias'
    BY <1>3, <1>10, <1>11, <1>14, <2>1, <2>2, <2>3 DEF NoticiasEnOrden, TiposNoticias
  <2>. QED
    BY <1>11, <1>12, <2>12, <2>13, <2>14 DEF NoticiasEnOrden
<1>. QED
  BY <1>3, <1>13, <1>14


\* Everybody has been told: what the moderation did goes into the history, or misses it.
LEMMA AcabarDeAvisarEnOrden ==
    ASSUME NoticiasEnOrden, NEW t \in Tramites, AcabarDeAvisar(t)
    PROVE  NoticiasEnOrden'
<1>. DEFINE q == tramite[t].quien
            par == <<tramite[t].antes, tramite[t].ahora>>
<1>1. /\ tramite[t] \in TramitesDe /\ tramite[t].etapa = "avisar" /\ t \in Activos
      /\ tramite[t].pendientes = <<>>
  BY DEF NoticiasEnOrden, TiposNoticias, AcabarDeAvisar, Activos
<1>2. /\ tramite' = [tramite EXCEPT ![t] = SinTramite]
      /\ situacion' = situacion /\ garantia' = garantia /\ pasos' = pasos
      /\ noticias' = noticias
      /\ \/ EsAdmin(q) /\ asientos' = Append(asientos, par) /\ perdido' = perdido
         \/ EsAdmin(q) /\ asientos' = asientos /\ perdido' = perdido \cup {"historial"}
         \/ ~EsAdmin(q) /\ asientos' = asientos /\ perdido' = perdido
  BY DEF AcabarDeAvisar, Olvido
<1>3. SinTramite \in TramitesDe /\ SinTramite.etapa = "libre"
  BY DEF SinTramite, Tramite, TramitesDe, EtapasTramite, Mirones, EstadosReserva, Pendientes
<1>4. Faltan(tramite[t]) = {}
  BY <1>1, UnoTrasOtro DEF Faltan, PorAvisar, Pendientes
<1>5. perdido \subseteq perdido'
  BY <1>2
<1>6. AvisosEnOrden' /\ NadieSinAviso'
  BY <1>1, <1>2, <1>3, <1>4, <1>5, NadaQueContar
<1>7. /\ tramite' \in [Tramites -> TramitesDe]
      /\ Activos' = Activos \ {t}
      /\ \A u \in Activos' : /\ tramite'[u].antes = tramite[u].antes
                             /\ tramite'[u].ahora = tramite[u].ahora
      /\ Historia' /\ CadaUnoDeSuPaso' /\ Hechas' = Hechas /\ Suyos' = Suyos
  BY <1>1, <1>2, <1>3, Sigue
<1>8. PICK n \in DOMAIN pasos : EsElPaso(pasos[n], tramite[t])
  BY <1>1 DEF NoticiasEnOrden, CadaUnoDeSuPaso
<1>9. /\ asientos \in Seq(EstadosReserva \X EstadosReserva)
      /\ par \in EstadosReserva \X EstadosReserva
  BY <1>1 DEF NoticiasEnOrden, TiposNoticias, TramitesDe
<1>10. \A m \in DOMAIN pasos : pasos[m].ahora = tramite[t].ahora => m = n
  BY <1>8 DEF NoticiasEnOrden, Historia, EsElPaso
<1>11. HistorialEnOrden'
  <2>1. CASE EsAdmin(q) /\ asientos' = Append(asientos, par) /\ perdido' = perdido
    <3>1. PICK x \in EstadosReserva \X EstadosReserva : x = par
      BY <1>9
    <3>2. Anotadas' = Anotadas \cup {x} /\ Len(asientos') = Len(asientos) + 1
      BY <1>9, <2>1, <3>1, UnoMas DEF Anotadas
    <3>3. x \notin Anotadas
      BY <1>1, <3>1 DEF NoticiasEnOrden, HistorialEnOrden
    <3>4. /\ IsFiniteSet(Anotadas) /\ Len(asientos) = Cardinality(Anotadas)
          /\ IsFiniteSet(Suyos) /\ IsFiniteSet(Hechas) /\ Cardinality(Suyos) = Cardinality(Hechas)
          /\ Anotadas \subseteq Hechas
      BY DEF NoticiasEnOrden, HistorialEnOrden
    <3>5. /\ IsFiniteSet(Anotadas \cup {x})
          /\ Cardinality(Anotadas \cup {x}) = Cardinality(Anotadas) + 1
      BY <3>3, <3>4, FS_AddElement
    <3>6. IsFiniteSet(Anotadas') /\ Len(asientos') = Cardinality(Anotadas')
      BY <3>2, <3>4, <3>5
    <3>7. x \in Hechas
      BY <1>8, <2>1, <3>1 DEF Hechas, Suyos, EsElPaso
    <3>8. \A u \in Activos' : <<tramite'[u].antes, tramite'[u].ahora>> \notin Anotadas'
      <4>1. SUFFICES ASSUME NEW u \in Activos, u # t
                     PROVE  <<tramite[u].antes, tramite[u].ahora>> \notin Anotadas \cup {x}
        BY <1>7, <3>2
      <4>2. tramite[u].ahora # tramite[t].ahora
        BY <1>1, <4>1 DEF NoticiasEnOrden, CadaUnoDeSuPaso
      <4>. QED
        BY <3>1, <4>2 DEF NoticiasEnOrden, HistorialEnOrden
    <3>9. ASSUME "historial" \notin perdido', NEW m \in Suyos'
          PROVE  \/ <<pasos'[m].antes, pasos'[m].ahora>> \in Anotadas'
                 \/ \E u \in Activos' : tramite'[u].ahora = pasos'[m].ahora
      <4>1. m \in Suyos /\ m \in DOMAIN pasos /\ "historial" \notin perdido
        BY <1>7, <2>1, <3>9 DEF Suyos
      <4>2. CASE m = n
        BY <1>2, <1>8, <3>1, <3>2, <4>2 DEF EsElPaso
      <4>3. CASE m # n
        BY <1>2, <1>7, <1>10, <3>2, <4>1, <4>3 DEF NoticiasEnOrden, HistorialEnOrden
      <4>. QED
        BY <4>2, <4>3
    <3>. QED
      BY <1>7, <3>2, <3>4, <3>6, <3>7, <3>8, <3>9 DEF HistorialEnOrden
  <2>2. CASE asientos' = asientos /\ "historial" \in perdido'
    <3>1. Anotadas' = Anotadas
      BY <2>2 DEF Anotadas
    <3>. QED
      BY <1>7, <2>2, <3>1 DEF NoticiasEnOrden, HistorialEnOrden
  <2>3. CASE ~EsAdmin(q) /\ asientos' = asientos /\ perdido' = perdido
    <3>1. Anotadas' = Anotadas
      BY <2>3 DEF Anotadas
    <3>2. n \notin Suyos
      BY <1>8, <2>3 DEF Suyos, EsElPaso
    <3>3. ASSUME "historial" \notin perdido', NEW m \in Suyos'
          PROVE  \/ <<pasos'[m].antes, pasos'[m].ahora>> \in Anotadas'
                 \/ \E u \in Activos' : tramite'[u].ahora = pasos'[m].ahora
      <4>1. m \in Suyos /\ m \in DOMAIN pasos /\ "historial" \notin perdido /\ m # n
        BY <1>7, <2>3, <3>2, <3>3 DEF Suyos
      <4>. QED
        BY <1>2, <1>7, <1>10, <3>1, <4>1 DEF NoticiasEnOrden, HistorialEnOrden
    <3>4. Len(asientos') = Cardinality(Anotadas')
      BY <2>3, <3>1 DEF NoticiasEnOrden, HistorialEnOrden
    <3>. QED
      BY <1>7, <3>1, <3>3, <3>4 DEF NoticiasEnOrden, HistorialEnOrden
  <2>. QED
    BY <1>2, <2>1, <2>2, <2>3
<1>12. TiposNoticias'
  <2>1. asientos' \in Seq(EstadosReserva \X EstadosReserva)
    BY <1>2, <1>9
  <2>2. perdido' \subseteq Olvidables
    BY <1>2 DEF NoticiasEnOrden, TiposNoticias, Olvidables
  <2>. QED
    BY <1>2, <1>7, <2>1, <2>2 DEF NoticiasEnOrden, TiposNoticias
<1>. QED
  BY <1>6, <1>7, <1>11, <1>12 DEF NoticiasEnOrden

\* Whoever was still to be told misses it.
LEMMA TramiteCortadoEnOrden ==
    ASSUME NoticiasEnOrden, NEW t \in Tramites, TramiteCortado(t)
    PROVE  NoticiasEnOrden'
<1>1. /\ tramite[t] \in TramitesDe /\ t \in Activos
      /\ tramite[t].quien \in Mirones \cup {"reloj"}
  BY DEF NoticiasEnOrden, TiposNoticias, TramiteCortado, Activos, TramitesDe
<1>2. /\ tramite' = [tramite EXCEPT ![t] = SinTramite]
      /\ situacion' = situacion /\ garantia' = garantia /\ pasos' = pasos
      /\ noticias' = noticias /\ asientos' = asientos
      /\ perdido' = (perdido \cup Faltan(tramite[t]))
                        \cup (IF EsAdmin(tramite[t].quien) THEN {"historial"} ELSE {})
  BY DEF TramiteCortado, Olvido, Faltan, PorAvisar
<1>3. SinTramite \in TramitesDe /\ SinTramite.etapa = "libre"
  BY DEF SinTramite, Tramite, TramitesDe, EtapasTramite, Mirones, EstadosReserva, Pendientes
<1>4. perdido \subseteq perdido' /\ \A p \in Faltan(tramite[t]) : p \in perdido'
  BY <1>2
<1>5. AvisosEnOrden' /\ NadieSinAviso'
  BY <1>1, <1>2, <1>3, <1>4, NadaQueContar
<1>6. /\ tramite' \in [Tramites -> TramitesDe]
      /\ Activos' = Activos \ {t}
      /\ \A u \in Activos' : /\ tramite'[u].antes = tramite[u].antes
                             /\ tramite'[u].ahora = tramite[u].ahora
      /\ Historia' /\ CadaUnoDeSuPaso' /\ Hechas' = Hechas /\ Suyos' = Suyos
  BY <1>1, <1>2, <1>3, Sigue
<1>7. PICK n \in DOMAIN pasos : EsElPaso(pasos[n], tramite[t])
  BY <1>1 DEF NoticiasEnOrden, CadaUnoDeSuPaso
<1>8. \A m \in DOMAIN pasos : pasos[m].ahora = tramite[t].ahora => m = n
  BY <1>7 DEF NoticiasEnOrden, Historia, EsElPaso
<1>9. HistorialEnOrden'
  <2>1. Anotadas' = Anotadas
    BY <1>2 DEF Anotadas
  <2>2. Len(asientos') = Cardinality(Anotadas')
    BY <1>2, <2>1 DEF NoticiasEnOrden, HistorialEnOrden
  <2>3. ASSUME "historial" \notin perdido', NEW m \in Suyos'
        PROVE  \/ <<pasos'[m].antes, pasos'[m].ahora>> \in Anotadas'
               \/ \E u \in Activos' : tramite'[u].ahora = pasos'[m].ahora
    <3>1. ~EsAdmin(tramite[t].quien) /\ "historial" \notin perdido
      BY <1>2, <2>3
    <3>2. m \in Suyos /\ m \in DOMAIN pasos /\ m # n
      BY <1>6, <1>7, <2>3, <3>1 DEF Suyos, EsElPaso
    <3>. QED
      BY <1>2, <1>6, <1>8, <2>1, <3>1, <3>2 DEF NoticiasEnOrden, HistorialEnOrden
  <2>. QED
    BY <1>6, <2>1, <2>2, <2>3 DEF NoticiasEnOrden, HistorialEnOrden
<1>10. TiposNoticias'
  <2>1. Faltan(tramite[t]) \subseteq LasDosPartes
    BY <1>1, FaltanPartes
  <2>2. perdido' \subseteq Olvidables
    BY <1>2, <2>1 DEF NoticiasEnOrden, TiposNoticias, Olvidables
  <2>. QED
    BY <1>2, <1>6, <2>2 DEF NoticiasEnOrden, TiposNoticias
<1>. QED
  BY <1>5, <1>6, <1>9, <1>10 DEF NoticiasEnOrden

\* Every step keeps the invariant.
LEMMA PasoNoticias ==
    ASSUME NoticiasEnOrden, [NextNoticias]_varsNoticias
    PROVE  NoticiasEnOrden'
<1>1. garantia \in BOOLEAN /\ (~garantia) \in BOOLEAN
  BY DEF NoticiasEnOrden, TiposNoticias
<1>2. CASE UNCHANGED varsNoticias
  BY <1>1, <1>2, SinNoticia DEF varsNoticias
<1>3. CASE LlegaElDia
  BY <1>1, <1>3, SinNoticia DEF LlegaElDia
<1>4. CASE CambiaLaGarantia
  BY <1>1, <1>4, SinNoticia DEF CambiaLaGarantia
<1>5. CASE \E t \in Tramites : \/ PedirTramite(t) \/ CaducarReserva(t) \/ ReleerReserva(t)
                               \/ AvisarAUno(t) \/ AcabarDeAvisar(t) \/ TramiteCortado(t)
  BY <1>5, PedirTramiteEnOrden, CaducarReservaEnOrden, ReleerReservaEnOrden, AvisarAUnoEnOrden,
     AcabarDeAvisarEnOrden, TramiteCortadoEnOrden
<1>. QED
  BY <1>2, <1>3, <1>4, <1>5 DEF NextNoticias

\* What the invariant says once nobody is at work.
LEMMA CuadranEnOrden == NoticiasEnOrden => LasNoticiasCuadran
<1>. SUFFICES ASSUME NoticiasEnOrden PROVE LasNoticiasCuadran
  OBVIOUS
<1>1. LoAvisadoOcurrio
  BY DEF NoticiasEnOrden, AvisosEnOrden
<1>2. (\A t \in Tramites : tramite[t].etapa = "libre") => Activos = {}
  BY DEF Activos
<1>3. TodosSeEnteran
  BY <1>2 DEF NoticiasEnOrden, NadieSinAviso, TodosSeEnteran
<1>4. ElHistorialCuadra
  <2>1. /\ Range(asientos) \subseteq Hechas
        /\ Len(asientos) = Cardinality(Range(asientos))
        /\ Cardinality(Suyos) = Cardinality(Hechas)
    BY DEF NoticiasEnOrden, HistorialEnOrden, Anotadas
  <2>2. ASSUME "historial" \notin perdido, \A t \in Tramites : tramite[t].etapa = "libre"
        PROVE  Range(asientos) = Hechas
    BY <1>2, <2>1, <2>2 DEF NoticiasEnOrden, HistorialEnOrden, Anotadas, Hechas
  <2>. QED
    BY <2>1, <2>2 DEF ElHistorialCuadra, Suyos, Hechas
<1>5. VenLoMismo
  <2>1. \A q \in Mirones : /\ PuedeVerla(q) <=> PuedeVerSuPago(q)
                           /\ EnSusListas(q) \/ PagoEnSuLista(q) => PuedeVerla(q)
    BY DEF Mirones, Moderacion, LasDosPartes, PuedeVerla, PuedeVerSuPago, SoloVeLaDemostracion,
           EsAdmin, EnSusListas, PagoEnSuLista
  <2>2. Vista.contacto <=> situacion \in {"confirmed", "completed"}
    BY DEF Vista, ConContacto
  <2>3. ASSUME Vista.contacto
        PROVE  /\ \E s \in Range(pasos) : s.ahora = "confirmed"
               /\ \A s \in Range(pasos) : s.ahora \notin {"cancelled", "rejected"}
    <3>1. Hechos = {"confirmed"} \/ Hechos = {"confirmed", "completed"}
      BY <2>2, <2>3 DEF NoticiasEnOrden, Historia
    <3>2. \A s \in Range(pasos) : s.ahora \in Hechos
      BY DEF Range, Hechos
    <3>3. \E s \in Range(pasos) : s.ahora = "confirmed"
      <4>1. "confirmed" \in Hechos
        BY <3>1
      <4>. QED
        BY <4>1 DEF Range, Hechos
    <3>. QED
      BY <3>1, <3>2, <3>3
  <2>4. \A p \in LasDosPartes : PuedeVerla(p)
    BY DEF LasDosPartes, PuedeVerla, SoloVeLaDemostracion
  <2>. QED
    BY <2>1, <2>3, <2>4 DEF VenLoMismo
<1>. QED
  BY <1>1, <1>3, <1>4, <1>5 DEF LasNoticiasCuadran

\* The steps of a booking, the changes being served, the notices and the history are
\* always as NoticiasEnOrden says.
THEOREM NoticiasInvariante == SpecNoticias => []NoticiasEnOrden
BY IniciaNoticias, PasoNoticias, PTL DEF SpecNoticias

\* updateStatus and caducarPendientes commit first and tell afterwards, each notice and
\* the entry of the history on its own.  Whatever fails and however many changes are
\* served at once: a notice tells, once, of what somebody else did; whoever has missed
\* nothing has been told of every change of others, but for what the moderation
\* accepts, rejects or completes; the history has what the moderation did and nothing
\* else; and lists, notices and pages let the same people in.
THEOREM NoticiasSiempreCuadran == SpecNoticias => []LasNoticiasCuadran
BY CuadranEnOrden, NoticiasInvariante, PTL

\* What of its state the invariant does not need to say.
CuentasDeNoticias ==
    /\ llegado \in BOOLEAN /\ mundo \in BOOLEAN
    /\ contado \in [tramites : 0 .. MaxTramites, olvidos : 0 .. MaxOlvidos]

LEMMA CuentasMantiene == CuentasDeNoticias /\ [NextNoticias]_varsNoticias => CuentasDeNoticias'
<1> SUFFICES ASSUME CuentasDeNoticias, [NextNoticias]_varsNoticias PROVE CuentasDeNoticias'
  OBVIOUS
<1> USE NoticiasOK DEF CuentasDeNoticias
<1>1. Olvido => contado' \in [tramites : 0 .. MaxTramites, olvidos : 0 .. MaxOlvidos]
  BY DEF Olvido
<1>2. ASSUME NEW t \in Tramites, PedirTramite(t) PROVE CuentasDeNoticias'
  BY <1>2 DEF PedirTramite
<1>3. ASSUME NEW t \in Tramites, CaducarReserva(t) \/ ReleerReserva(t) PROVE CuentasDeNoticias'
  BY <1>3 DEF CaducarReserva, ReleerReserva
<1>4. ASSUME NEW t \in Tramites, AvisarAUno(t) PROVE CuentasDeNoticias'
  BY <1>1, <1>4 DEF AvisarAUno
<1>5. ASSUME NEW t \in Tramites, AcabarDeAvisar(t) PROVE CuentasDeNoticias'
  BY <1>1, <1>5 DEF AcabarDeAvisar
<1>6. ASSUME NEW t \in Tramites, TramiteCortado(t) PROVE CuentasDeNoticias'
  BY <1>1, <1>6 DEF TramiteCortado
<1>7. CASE LlegaElDia \/ CambiaLaGarantia
  BY <1>7 DEF LlegaElDia, CambiaLaGarantia
<1>8. CASE UNCHANGED varsNoticias
  BY <1>8 DEF varsNoticias
<1>. QED
  BY <1>2, <1>3, <1>4, <1>5, <1>6, <1>7, <1>8 DEF NextNoticias

LEMMA NoticiasTipadas == TiposNoticias /\ CuentasDeNoticias => TipoNoticias
<1> SUFFICES ASSUME TiposNoticias, CuentasDeNoticias PROVE TipoNoticias
  OBVIOUS
<1>1. ASSUME NEW t \in Tramites
      PROVE  /\ tramite[t].etapa \in EtapasTramite
             /\ tramite[t].quien \in Mirones \cup {"reloj"}
             /\ {tramite[t].antes, tramite[t].ahora} \subseteq EstadosReserva
             /\ tramite[t].sinCobro \in BOOLEAN
             /\ Range(tramite[t].pendientes) \subseteq LasDosPartes
  <2>1. tramite[t] \in TramitesDe
    BY DEF TiposNoticias
  <2>2. tramite[t].pendientes \in Pendientes
    BY <2>1 DEF TramitesDe
  <2>. QED
    BY <2>1, <2>2, UnoTrasOtro DEF TramitesDe
<1>2. ASSUME NEW p \in LasDosPartes, NEW n \in Range(noticias[p]) PROVE n.estado \in Sabidos
  <2>. DEFINE N == [estado : Sabidos, sinCobro : BOOLEAN]
  <2>1. noticias[p] \in Seq(N)
    BY DEF TiposNoticias
  <2>2. \A x \in N : x.estado \in Sabidos
    OBVIOUS
  <2>. HIDE DEF N
  <2>3. PICK q \in Seq(N) : q = noticias[p]
    BY <2>1
  <2>4. PICK k \in DOMAIN q : n = q[k]
    BY <2>3 DEF Range
  <2>5. n \in N
    BY <2>4
  <2>. QED
    BY <2>2, <2>5
<1>. QED
  BY <1>1, <1>2 DEF TiposNoticias, CuentasDeNoticias, TipoNoticias

\* The type invariant, for any number of changes, failures and stops.
THEOREM NoticiasTipos == SpecNoticias => []TipoNoticias
<1>1. InitNoticias => CuentasDeNoticias
  <2>1. [tramites |-> 0, olvidos |-> 0] \in [tramites : 0 .. MaxTramites, olvidos : 0 .. MaxOlvidos]
    BY NoticiasOK
  <2>. QED
    BY <2>1 DEF InitNoticias, CuentasDeNoticias
<1>2. NoticiasEnOrden => TiposNoticias
  BY DEF NoticiasEnOrden
<1>. QED
  BY <1>1, <1>2, CuentasMantiene, NoticiasTipadas, NoticiasInvariante, PTL DEF SpecNoticias

-----------------------------------------------------------------------------
(***************************************************************************)
(* The three of them together, as they are run.                            *)
(***************************************************************************)

\* A behaviour of them all is one of each, and meets what each promises, for any
\* bookings, requests, changes of status and bounds.
THEOREM LoDeLaReservaCumple ==
    SpecTodas => /\ [](TiposOK /\ LaMediaCuadra
                       /\ LasNoticiasCuadran /\ LaCampanaCuadra)
                 /\ CadaIdUnaValoracion
<1>1. InitTodas => Init /\ InitNoticias /\ InitCampana
  BY DEF InitTodas
<1>2. [NextTodas]_varsTodas => /\ [Next]_vars
                               /\ [NextNoticias]_varsNoticias /\ [NextCampana]_varsCampana
  BY DEF NextTodas, Llegan, SeLeen, varsTodas
<1>3. SpecTodas => Spec /\ SpecNoticias /\ SpecCampana
  BY <1>1, <1>2, PTL DEF SpecTodas, Spec, SpecNoticias, SpecCampana
<1>4. TypeOK /\ TipoNoticias /\ TipoCampana => TiposOK
  BY DEF TiposOK
<1>5. SpecTodas => [](TypeOK /\ TipoNoticias /\ TipoCampana)
  BY <1>3, ValoracionesTipos, NoticiasTipos, CampanaTipos, PTL
<1>6. SpecTodas => CadaIdUnaValoracion
  BY <1>3, CadaIdEsUnaValoracion
<1>. QED
  BY <1>3, <1>4, <1>5, <1>6, LaMediaCuadraEnFila, NoticiasSiempreCuadran,
     SiempreCuadraLaCampana, PTL
=============================================================================
