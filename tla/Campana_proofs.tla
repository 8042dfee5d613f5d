---------------------------- MODULE Campana_proofs ----------------------------
(***************************************************************************)
(* A bell ends up with the last notices, for any number of tabs, notices,  *)
(* lists and failures.                                                     *)
(*                                                                         *)
(* It takes two invariants.  CInv bounds what a bell shows and what is on  *)
(* its way, and follows each mark from the bell to the server.  AInv says  *)
(* of what the bell lacks that it is on its way, and how what a bell shows *)
(* is put together of the notices come and of lists read at other moments. *)
(***************************************************************************)
EXTENDS Campana, FiniteSetTheorems, WellFoundedInduction, TLAPS

-----------------------------------------------------------------------------
(* Sequences.                                                              *)

\* Some naturals have a least one.
Menores == {p \in Nat \X Nat : p[1] < p[2]}

LEMMA ElMenor ==
    ASSUME NEW T \in SUBSET Nat, T # {} PROVE \E x \in T : \A y \in T : x <= y
<1>1. OpToRel(<, Nat) = Menores
  BY DEF OpToRel, Menores
<1>2. IsWellFoundedOn(Menores, Nat)
  BY <1>1, NatLessThanWellFounded
<1>3. PICK x \in T : \A y \in T : <<y, x>> \notin Menores
  <2> HIDE DEF Menores
  <2>. QED
    BY <1>2, WFMin
<1>4. \A a, b \in Nat : <<a, b>> \in Menores <=> a < b
  BY DEF Menores
<1>5. \A y \in T : ~(y < x) /\ x \in Nat /\ y \in Nat
  BY <1>3, <1>4
<1>. QED
  BY <1>5

\* Among some places of a sequence there is a first, a second and so on.
LEMMA Puestos ==
    ASSUME NEW n \in Nat, NEW I \in SUBSET (1 .. n)
    PROVE  /\ IsFiniteSet(I) /\ Cardinality(I) \in Nat /\ Cardinality(I) <= n
           /\ \A i \in I : IsFiniteSet({j \in I : j <= i})
           /\ \A k \in 1 .. Cardinality(I) : \E i \in I : Cardinality({j \in I : j <= i}) = k
<1> DEFINE B(i) == {j \in I : j <= i}
           c == Cardinality(I)
           T == {k \in 1 .. c : \A i \in I : Cardinality(B(i)) # k}
<1>1. IsFiniteSet(1 .. n) /\ Cardinality(1 .. n) = n
  BY FS_Interval
<1>2. IsFiniteSet(I) /\ c \in Nat /\ c <= n
  BY <1>1, FS_Subset, FS_CardinalityType
<1>3. \A i \in I : IsFiniteSet(B(i))
  BY <1>2, FS_Subset
<1>0. \A j \in I : j \in Nat /\ j >= 1
  OBVIOUS
<1>4. T = {}
  <2>1. SUFFICES ASSUME T # {} PROVE FALSE
    OBVIOUS
  <2>2. T \in SUBSET Nat
    OBVIOUS
  <2>3. PICK k \in T : \A y \in T : k <= y
    BY <2>1, <2>2, ElMenor
  <2>4. k \in 1 .. c
    OBVIOUS
  <2>5. \E i0 \in I \cup {0} : Cardinality(B(i0)) = k - 1 /\ IsFiniteSet(B(i0))
    <3>1. CASE k = 1
      <4>0. \A j \in I : ~(j <= 0)
        BY <1>0
      <4>1. B(0) = {}
        BY <4>0
      <4>2. Cardinality({}) = 0 /\ IsFiniteSet({})
        BY FS_EmptySet
      <4>. QED
        BY <3>1, <4>1, <4>2
    <3>2. CASE k # 1
      <4>1. k - 1 \in 1 .. c /\ k - 1 < k
        BY <1>2, <2>4, <3>2
      <4>2. k - 1 \notin T
        BY <2>2, <2>3, <4>1
      <4>. QED
        BY <1>3, <4>1, <4>2
    <3>. QED
      BY <3>1, <3>2
  <2>6. PICK i0 \in I \cup {0} : Cardinality(B(i0)) = k - 1 /\ IsFiniteSet(B(i0))
    BY <2>5
  <2>7. I \ B(i0) # {}
    <3>1. CASE I \ B(i0) = {}
      <4>1. I = B(i0)
        BY <3>1
      <4>. QED
        BY <1>2, <2>4, <2>6, <4>1
    <3>. QED
      BY <3>1
  <2>8. PICK i \in I \ B(i0) : \A y \in I \ B(i0) : i <= y
    <3>1. I \ B(i0) \in SUBSET Nat
      BY <1>0
    <3> HIDE DEF B
    <3>. QED
      BY <2>7, <3>1, ElMenor
  <2>9. B(i) = B(i0) \cup {i}
    <3>1. i0 \in Nat /\ i \in I /\ ~(i <= i0) /\ i \in Nat
      BY <1>0, <2>6, <2>8
    <3>2. \A j \in I : j <= i0 => j <= i
      BY <1>0, <3>1
    <3>3. \A j \in I : j <= i /\ ~(j <= i0) => j = i
      BY <1>0, <2>8, <3>1
    <3>4. \A x, j : j \in B(x) <=> j \in I /\ j <= x
      OBVIOUS
    <3>5. i <= i
      BY <3>1
    <3> HIDE DEF B
    <3>6. \A j : j \in B(i) <=> j \in B(i0) \cup {i}
      BY <3>1, <3>2, <3>3, <3>4, <3>5
    <3>. QED
      BY <3>6
  <2>10. Cardinality(B(i)) = (k - 1) + 1
    <3>1. i \notin B(i0)
      BY <2>8
    <3>. QED
      BY <2>6, <2>9, <3>1, FS_AddElement
  <2>11. Cardinality(B(i)) = k
    BY <1>2, <2>4, <2>10
  <2>. QED
    BY <2>3, <2>8, <2>11
<1>. QED
  BY <1>2, <1>3, <1>4

\* q has what s has at the places of I, which w gives one by one.
SonDe(q, s, I, w) ==
    /\ \A k \in 1 .. Cardinality(I) : q[k] = s[w[k]]
    /\ \A k, l \in 1 .. Cardinality(I) : k # l => w[k] # w[l]
    /\ \A i \in I : \E k \in 1 .. Cardinality(I) : w[k] = i

\* What is kept of a sequence is what was there, each once, in some order.
LEMMA QuedanEs ==
    ASSUME NEW S, NEW s \in Seq(S), NEW I \in SUBSET (DOMAIN s)
    PROVE  /\ Cardinality(I) \in Nat /\ Cardinality(I) <= Len(s)
           /\ Quedan(s, I) \in Seq(S) /\ Len(Quedan(s, I)) = Cardinality(I)
           /\ \E w \in [1 .. Cardinality(I) -> I] : SonDe(Quedan(s, I), s, I, w)
<1> DEFINE c == Cardinality(I)
           B(i) == {j \in I : j <= i}
           w == [k \in 1 .. c |-> CHOOSE i \in I : Cardinality(B(i)) = k]
<1>1. DOMAIN s = 1 .. Len(s) /\ Len(s) \in Nat
  OBVIOUS
<1>2. /\ IsFiniteSet(I) /\ c \in Nat /\ c <= Len(s)
      /\ \A k \in 1 .. c : \E i \in I : Cardinality(B(i)) = k
  BY <1>1, Puestos
<1>3. ASSUME NEW k \in 1 .. c PROVE w[k] \in I /\ Cardinality(B(w[k])) = k
  BY <1>2
<1>4. w \in [1 .. c -> I]
  BY <1>3
<1>5. \A k, l \in 1 .. c : k # l => w[k] # w[l]
  BY <1>3
<1>6. Quedan(s, I) = [k \in 1 .. c |-> s[w[k]]]
  BY DEF Quedan
<1>7. IsFiniteSet(1 .. c) /\ Cardinality(1 .. c) = c
  BY <1>2, FS_Interval
<1> HIDE DEF w, B
<1>8. w \in Injection(1 .. c, I)
  BY <1>4, <1>5 DEF Injection, IsInjective
<1>9. w \in Surjection(1 .. c, I)
  BY <1>2, <1>7, <1>8, FS_Injection
<1>10. \A i \in I : \E k \in 1 .. c : w[k] = i
  BY <1>9 DEF Surjection
<1>11. Quedan(s, I) \in Seq(S) /\ Len(Quedan(s, I)) = c
  <2>1. \A k \in 1 .. c : w[k] \in 1 .. Len(s)
    BY <1>1, <1>4
  <2>2. \A k \in 1 .. c : s[w[k]] \in S
    BY <2>1
  <2> HIDE DEF c
  <2>3. [k \in 1 .. c |-> s[w[k]]] \in Seq(S) /\ Len([k \in 1 .. c |-> s[w[k]]]) = c
    BY <1>2, <2>2
  <2>. QED
    BY <1>6, <2>3
<1>12. SonDe(Quedan(s, I), s, I, w)
  BY <1>5, <1>6, <1>10 DEF SonDe
<1>. QED
  BY <1>2, <1>4, <1>11, <1>12

\* The first ones, when all are kept, stay where they are.
LEMMA QuedanLosPrimeros ==
    ASSUME NEW S, NEW s \in Seq(S), NEW I \in SUBSET (DOMAIN s),
           NEW m \in 0 .. Len(s), 1 .. m \subseteq I
    PROVE  /\ m <= Cardinality(I)
           /\ \A k \in 1 .. m : Quedan(s, I)[k] = s[k]
<1> DEFINE B(i) == {j \in I : j <= i}
           c == Cardinality(I)
<1>1. DOMAIN s = 1 .. Len(s) /\ Len(s) \in Nat /\ m \in Nat
  OBVIOUS
<1>2. /\ IsFiniteSet(I) /\ c \in Nat
      /\ \A i \in I : IsFiniteSet(B(i))
  BY <1>1, Puestos
<1>3. ASSUME NEW k \in 1 .. m PROVE IsFiniteSet(1 .. k) /\ Cardinality(1 .. k) = k
  <2>1. k \in Int /\ k >= 1
    BY <1>1
  <2> HIDE DEF B, c
  <2>. QED
    BY <2>1, FS_Interval
<1>4. IsFiniteSet(1 .. m) /\ Cardinality(1 .. m) = m
  BY <1>1, FS_Interval
<1>5. m <= c
  BY <1>2, <1>4, FS_Subset
<1>6. ASSUME NEW i \in 1 .. m PROVE Cardinality(B(i)) = i
  <2>1. B(i) = 1 .. i
    BY <1>1
  <2> HIDE DEF B
  <2>. QED
    BY <1>3, <2>1
<1>7. ASSUME NEW i \in I, i \notin 1 .. m PROVE Cardinality(B(i)) > m
  <2>1. (1 .. m) \cup {i} \subseteq B(i)
    BY <1>1, <1>7
  <2>2. Cardinality((1 .. m) \cup {i}) = m + 1
    BY <1>4, <1>7, FS_AddElement
  <2> HIDE DEF B
  <2>3. Cardinality((1 .. m) \cup {i}) <= Cardinality(B(i)) /\ Cardinality(B(i)) \in Nat
    BY <1>2, <2>1, FS_Subset, FS_CardinalityType
  <2>. QED
    BY <1>1, <2>2, <2>3
<1> HIDE DEF B
<1>8. ASSUME NEW k \in 1 .. m PROVE (CHOOSE i \in I : Cardinality(B(i)) = k) = k
  <2>1. k \in I /\ Cardinality(B(k)) = k
    BY <1>6
  <2>2. \A i \in I : Cardinality(B(i)) = k => i = k
    <3> TAKE i \in I
    <3>1. CASE i \in 1 .. m
      BY <1>6, <3>1
    <3>2. CASE i \notin 1 .. m
      BY <1>1, <1>7, <3>2
    <3>. QED
      BY <3>1, <3>2
  <2>. QED
    BY <2>1, <2>2
<1>9. ASSUME NEW k \in 1 .. m PROVE Quedan(s, I)[k] = s[k]
  <2>1. k \in 1 .. c
    BY <1>1, <1>2, <1>5
  <2>2. Quedan(s, I)[k] = s[CHOOSE i \in I : Cardinality(B(i)) = k]
    BY <2>1 DEF Quedan, B
  <2>. QED
    BY <1>8, <2>2
<1>. QED
  BY <1>5, <1>9

-----------------------------------------------------------------------------
(* The bell: what is done with a list.                                     *)

LEMMA VistosBien == \A x \in Vistos : /\ x.id \in Nat /\ x.id >= 1 /\ x.id \in Avisos
                                      /\ x.leido \in BOOLEAN
BY CampanaOK DEF Vistos, Avisos

\* No more notices in a sequence than numbers up to n, if none comes twice.
LEMMA Caben ==
    ASSUME NEW s \in Seq(Vistos), NEW n \in Nat,
           \A i \in DOMAIN s : s[i].id <= n,
           \A i, j \in DOMAIN s : s[i].id = s[j].id => i = j
    PROVE  Len(s) <= n
<1> DEFINE f == [i \in 1 .. Len(s) |-> s[i].id]
<1>1. DOMAIN s = 1 .. Len(s) /\ Len(s) \in Nat /\ \A i \in 1 .. Len(s) : s[i] \in Vistos
  OBVIOUS
<1>2. f \in [1 .. Len(s) -> 1 .. n]
  BY <1>1, VistosBien
<1>3. f \in Injection(1 .. Len(s), 1 .. n)
  BY <1>1, <1>2 DEF Injection, IsInjective
<1>4. /\ IsFiniteSet(1 .. Len(s)) /\ Cardinality(1 .. Len(s)) = Len(s)
      /\ IsFiniteSet(1 .. n) /\ Cardinality(1 .. n) = n
  <2>1. IsFiniteSet(1 .. Len(s)) /\ Cardinality(1 .. Len(s)) = Len(s)
    BY <1>1, FS_Interval
  <2>2. IsFiniteSet(1 .. n) /\ Cardinality(1 .. n) = n
    BY FS_Interval
  <2>. QED
    BY <2>1, <2>2
<1>5. Cardinality(1 .. Len(s)) <= Cardinality(1 .. n)
  BY <1>3, <1>4, FS_Injection
<1>. QED
  BY <1>4, <1>5

\* One before the others.
LEMMA Antepone ==
    ASSUME NEW S, NEW x \in S, NEW s \in Seq(S), NEW T, T = <<x>> \o s
    PROVE  /\ T \in Seq(S) /\ Len(T) = Len(s) + 1 /\ DOMAIN T = 1 .. Len(s) + 1
           /\ T[1] = x
           /\ \A k \in 1 .. Len(s) : T[k + 1] = s[k]
<1>1. <<x>> \in Seq(S) /\ Len(<<x>>) = 1 /\ <<x>>[1] = x
  OBVIOUS
<1>2. PICK a \in Seq(S) : a = <<x>> /\ Len(a) = 1 /\ a[1] = x
  BY <1>1
<1>3. T = a \o s
  BY <1>2
<1>. QED
  BY <1>2, <1>3

\* slice takes the first ones.
LEMMA RecortaEs ==
    ASSUME NEW S, NEW s \in Seq(S)
    PROVE  /\ Recorta(s) \in Seq(S)
           /\ Len(Recorta(s)) = IF Len(s) < Limite THEN Len(s) ELSE Limite
           /\ Len(Recorta(s)) <= Limite /\ Len(Recorta(s)) <= Len(s)
           /\ \A k \in DOMAIN Recorta(s) : k \in DOMAIN s /\ Recorta(s)[k] = s[k]
BY CampanaOK DEF Recorta

\* What the bell has is of notices saved, each once; what is on its way, too.
CampanaBien(t) ==
    /\ \A i \in DOMAIN campana[t] : campana[t][i].id <= guardados
    /\ \A i, j \in DOMAIN campana[t] : campana[t][i].id = campana[t][j].id => i = j
    /\ \A i \in DOMAIN llegando[t] : llegando[t][i] <= guardados
    /\ \A q \in tachados[t] : q <= guardados

\* s is a list of the last ones when g had been saved.
EsVentana(s, g) ==
    /\ Len(s) = IF g < Limite THEN g ELSE Limite
    /\ \A i \in DOMAIN s : s[i].id + i = g + 1

RespuestasBien(t) ==
    \A r \in respuestas[t] :
        /\ Ultimo(r.lista) \in 0 .. guardados
        /\ EsVentana(r.lista, Ultimo(r.lista))
        /\ \A i \in DOMAIN r.lista : r.lista[i].leido => r.lista[i].id \in leidos
        /\ r.dentro => t \in EnSala

SalaBien(t) ==
    /\ t \in cubierta => t \in EnSala
    /\ enlace[t] \in {"conPase", "sinPase", "aceptado", "mudo"} => llegando[t] = <<>>

\* What is shown as read and the server does not know yet is being told to it, or
\* a list is to come that puts it right.
PorArreglar(t, n) ==
    \/ n \in leidos
    \/ n \in tachados[t] \/ Todos \in tachados[t]
    \/ listas[t] > 0
    \/ \E r \in respuestas[t] : n <= Ultimo(r.lista)

LoTachadoVa(t) ==
    t \notin fallidas =>
        \A i \in DOMAIN campana[t] : campana[t][i].leido => PorArreglar(t, campana[t][i].id)

CInv ==
    /\ TipoCampana
    /\ \A t \in Pestanas : CampanaBien(t) /\ RespuestasBien(t) /\ SalaBien(t) /\ LoTachadoVa(t)

\* As long as a list has room for all, none is missing.
EnCamino(t, n) ==
    \/ n \in EnCampana(t)
    \/ \E i \in DOMAIN llegando[t] : llegando[t][i] = n
    \/ n \in porEmitir

NadaFalta(t) ==
    guardados <= Limite =>
        /\ \A r \in respuestas[t] :
               r.dentro => \A n \in 1 .. guardados : n <= Ultimo(r.lista) \/ EnCamino(t, n)
        /\ t \in cubierta => \A n \in 1 .. guardados : EnCamino(t, n)

\* Created one at a time, they are sent, and come, in their order.
Emitidos == IF porEmitir = {} THEN guardados ELSE guardados - 1
DeUnoEnUno ==
    /\ porEmitir = {} \/ (guardados > 0 /\ porEmitir = {guardados})
    /\ \A t \in EnSala : /\ Len(llegando[t]) <= Emitidos
                         /\ \A i \in DOMAIN llegando[t] : llegando[t][i] + Len(llegando[t]) = Emitidos + i

\* The last that has come to a bell.
Llegado(t) == Emitidos - Len(llegando[t])

\* In a bell with c and the first e notices come, what came since a list whose
\* newest is g was read is on top, and below, what was there.
Sobre(c, e, g) ==
    IF e <= g THEN \A i \in DOMAIN c : c[i].id <= g
    ELSE /\ Limite <= Len(c) \/ e <= Len(c) + g
         /\ \A i \in DOMAIN c : IF i + g <= e THEN c[i].id + i = e + 1 ELSE c[i].id <= g

\* The bell has the last ones of those come; or a list whose newest is g, with some
\* that had still to come, and above it the p of these that were not in it.
Mezclada(c, e, g, p) ==
    /\ e < g
    /\ p = 0 \/ (p <= e /\ e + 1 + Limite <= g + p)
    /\ Len(c) = IF g + p < Limite THEN g + p ELSE Limite
    /\ \A i \in DOMAIN c : c[i].id + i = IF i <= p THEN e + 1 ELSE g + p + 1

BienPuesta(t) == EsVentana(campana[t], Llegado(t))
PorDelante(t) ==
    \E g \in 0 .. guardados : \E p \in 0 .. Limite :
        /\ Mezclada(campana[t], Llegado(t), g, p)
        /\ \A r \in respuestas[t] : g <= Ultimo(r.lista)

LoMostrado(t) ==
    t \in EnSala \ adelantadas =>
        /\ \A r \in respuestas[t] : r.dentro => Sobre(campana[t], Llegado(t), Ultimo(r.lista))
        /\ t \in cubierta => BienPuesta(t) \/ PorDelante(t)

AInv ==
    /\ \A t \in Pestanas : NadaFalta(t)
    /\ deUnEnUno => DeUnoEnUno /\ \A t \in Pestanas : LoMostrado(t)

\* Q is what stays above the list l, whose newest is g, of what s had, at the places w.
SeQuedan(s, l, g, Q, w) ==
    /\ FundeLista(s, l) = Recorta(Q \o l)
    /\ Len(Q) <= Len(s)
    /\ \A k \in DOMAIN Q : Q[k] = s[w[k]] /\ g < Q[k].id
    /\ \A j, k \in DOMAIN Q : j # k => w[j] # w[k]
    /\ \A i \in DOMAIN s : g < s[i].id => \E k \in DOMAIN Q : w[k] = i
    /\ \A m \in 0 .. Len(s) : (\A i \in 1 .. m : g < s[i].id) =>
           m <= Len(Q) /\ \A k \in 1 .. m : Q[k] = s[k]
    /\ \A m \in 0 .. Len(s) : (\A i \in DOMAIN s : g < s[i].id <=> i <= m) => Len(Q) = m

\* FundeLista: what is newer than the list stays above it, in its order and as much
\* of both as fits.
LEMMA FundeParte ==
    ASSUME NEW s \in Seq(Vistos), NEW l \in Seq(Vistos), NEW g \in Nat,
           g = Ultimo(l), EsVentana(l, g)
    PROVE  \E Q \in Seq(Vistos) : \E w \in [1 .. Len(Q) -> DOMAIN s] : SeQuedan(s, l, g, Q, w)
<1> DEFINE I == {i \in DOMAIN s : g < s[i].id}
           Q == Quedan(s, I)
<1>1. DOMAIN s = 1 .. Len(s) /\ Len(s) \in Nat /\ \A i \in DOMAIN s : s[i] \in Vistos
  OBVIOUS
<1>2. FundeLista(s, l) = Recorta(Q \o l)
  <2>1. \A i \in DOMAIN l : l[i].id <= g
    <3>1. \A i \in DOMAIN l : l[i].id \in Nat /\ i \in Nat /\ i >= 1 /\ l[i].id + i = g + 1
      BY VistosBien DEF EsVentana
    <3>. QED
      BY <3>1
  <2>2. \A i \in DOMAIN s : g < s[i].id =>  s[i].id \notin {l[j].id : j \in DOMAIN l}
    <3>1. \A i \in DOMAIN s : s[i].id \in Nat
      BY <1>1, VistosBien
    <3>. QED
      BY <2>1, <3>1
  <2>3. {i \in DOMAIN s : /\ s[i].id \notin {l[j].id : j \in DOMAIN l}
                          /\ s[i].id > Ultimo(l)} = I
    <3>1. \A i \in DOMAIN s : s[i].id > g <=> g < s[i].id
      BY <1>1, VistosBien
    <3>. QED
      BY <2>2, <3>1
  <2> HIDE DEF I
  <2>. QED
    BY <2>3 DEF FundeLista
<1>3. I \in SUBSET (DOMAIN s)
  OBVIOUS
<1>4. \A i \in I : g < s[i].id
  OBVIOUS
<1>5. \A i \in DOMAIN s : g < s[i].id => i \in I
  OBVIOUS
<1>6. \A m \in 0 .. Len(s) : (\A i \in 1 .. m : g < s[i].id) => 1 .. m \subseteq I
  BY <1>1
<1>7. \A m \in 0 .. Len(s) : (\A i \in DOMAIN s : g < s[i].id <=> i <= m) => I = 1 .. m
  BY <1>1
<1> HIDE DEF I
<1>8. /\ Cardinality(I) \in Nat /\ Cardinality(I) <= Len(s)
      /\ Q \in Seq(Vistos) /\ Len(Q) = Cardinality(I)
  BY <1>3, QuedanEs
<1>9. PICK w \in [1 .. Cardinality(I) -> I] : SonDe(Q, s, I, w)
  BY <1>3, QuedanEs
<1>18. /\ \A k \in 1 .. Cardinality(I) : Q[k] = s[w[k]]
       /\ \A j, k \in 1 .. Cardinality(I) : j # k => w[j] # w[k]
       /\ \A i \in I : \E k \in 1 .. Cardinality(I) : w[k] = i
  BY <1>9 DEF SonDe
<1>10. ASSUME NEW m \in 0 .. Len(s), \A i \in 1 .. m : g < s[i].id
       PROVE  m <= Len(Q) /\ \A k \in 1 .. m : Q[k] = s[k]
  BY <1>3, <1>6, <1>8, <1>10, QuedanLosPrimeros
<1>11. ASSUME NEW m \in 0 .. Len(s), \A i \in DOMAIN s : g < s[i].id <=> i <= m
       PROVE  Len(Q) = m
  <2>1. Len(Q) = Cardinality(1 .. m)
    BY <1>7, <1>8, <1>11
  <2>2. Cardinality(1 .. m) = m
    BY FS_Interval
  <2>. QED
    BY <2>1, <2>2
<1>12. DOMAIN Q = 1 .. Cardinality(I)
  BY <1>8
<1>13. w \in [1 .. Len(Q) -> DOMAIN s]
  BY <1>3, <1>8, <1>9
<1> HIDE DEF Q
<1>14. \A k \in DOMAIN Q : Q[k] = s[w[k]] /\ g < Q[k].id
  BY <1>4, <1>9, <1>12, <1>18
<1>15. \A i \in DOMAIN s : g < s[i].id => \E k \in DOMAIN Q : w[k] = i
  BY <1>5, <1>9, <1>12, <1>18
<1>16. \A j, k \in DOMAIN Q : j # k => w[j] # w[k]
  BY <1>12, <1>18
<1>17. Len(Q) <= Len(s)
  BY <1>8
<1>19. SeQuedan(s, l, g, Q, w)
  BY <1>2, <1>10, <1>11, <1>14, <1>15, <1>16, <1>17 DEF SeQuedan
<1>. QED
  BY <1>8, <1>13, <1>19

\* A window has what goes down from its newest.
LEMMA VentanaEs ==
    ASSUME NEW l \in Seq(Vistos), NEW g \in Nat, EsVentana(l, g)
    PROVE  /\ Len(l) \in Nat /\ DOMAIN l = 1 .. Len(l) /\ Len(l) <= Limite /\ Len(l) <= g
           /\ g <= Limite => Len(l) = g
           /\ \A i \in DOMAIN l : i \in Nat /\ l[i].id \in Nat /\ l[i].id + i = g + 1 /\ l[i].id <= g
           /\ \A n \in Nat : n >= 1 /\ n <= g /\ g < n + Limite =>
                  /\ g + 1 - n \in DOMAIN l
                  /\ l[g + 1 - n].id = n
<1>1. Len(l) \in Nat /\ DOMAIN l = 1 .. Len(l) /\ Len(l) <= Limite /\ Len(l) <= g /\ Limite \in Nat
  BY CampanaOK DEF EsVentana
<1>2. g <= Limite => Len(l) = g
  BY CampanaOK DEF EsVentana
<1>3. \A i \in DOMAIN l : i \in Nat /\ i >= 1 /\ l[i] \in Vistos /\ l[i].id + i = g + 1
  BY <1>1 DEF EsVentana
<1>4. \A i \in DOMAIN l : i \in Nat /\ l[i].id \in Nat /\ l[i].id + i = g + 1 /\ l[i].id <= g
  BY <1>3, VistosBien
<1>5. ASSUME NEW n \in Nat, n >= 1, n <= g, g < n + Limite
      PROVE  g + 1 - n \in DOMAIN l /\ l[g + 1 - n].id = n
  <2>1. g + 1 - n \in Nat /\ g + 1 - n >= 1 /\ g + 1 - n <= g /\ g + 1 - n <= Limite
    BY <1>1, <1>5
  <2>2. Len(l) = IF g < Limite THEN g ELSE Limite
    BY DEF EsVentana
  <2>3. g + 1 - n \in DOMAIN l
    BY <1>1, <2>1, <2>2
  <2>4. l[g + 1 - n].id \in Nat /\ l[g + 1 - n].id + (g + 1 - n) = g + 1
    BY <1>4, <2>3
  <2>. QED
    BY <1>5, <2>3, <2>4
<1>. QED
  BY <1>1, <1>2, <1>4, <1>5

SinRepetir(s) == \A i, j \in DOMAIN s : s[i].id = s[j].id => i = j

\* R is what a bell with s shows after the list l, whose newest is g.
Fundida(R, s, l, g) ==
    /\ R \in Seq(Vistos) /\ Len(R) <= Limite /\ Len(R) >= Len(l)
    /\ \A k \in DOMAIN R : \/ \E i \in DOMAIN s : R[k] = s[i] /\ g < s[i].id
                           \/ \E i \in DOMAIN l : R[k] = l[i]
    /\ SinRepetir(R)
    /\ \A m \in 0 .. Len(s) : (\A i \in 1 .. m : g < s[i].id) =>
           m <= Len(R) /\ \A k \in 1 .. m : R[k] = s[k]
    /\ \A m \in 0 .. Len(s) : (\A i \in DOMAIN s : g < s[i].id <=> i <= m) =>
           /\ Len(R) = IF m + Len(l) < Limite THEN m + Len(l) ELSE Limite
           /\ \A k \in DOMAIN R : R[k] = IF k <= m THEN s[k] ELSE l[k - m]
    /\ (g <= Limite /\ \A i \in DOMAIN s : s[i].id <= Limite) =>
           /\ \A i \in DOMAIN s : g < s[i].id => \E k \in DOMAIN R : R[k] = s[i]
           /\ \A i \in DOMAIN l : \E k \in DOMAIN R : R[k] = l[i]

\* What the bell shows after a list.
LEMMA FundeEs ==
    ASSUME NEW s \in Seq(Vistos), NEW l \in Seq(Vistos), NEW g \in Nat, NEW R,
           g = Ultimo(l), EsVentana(l, g), Len(s) <= Limite, SinRepetir(s),
           R = FundeLista(s, l)
    PROVE  Fundida(R, s, l, g)
<1>1. PICK Q \in Seq(Vistos) : \E w \in [1 .. Len(Q) -> DOMAIN s] : SeQuedan(s, l, g, Q, w)
  BY FundeParte
<1>18. PICK w \in [1 .. Len(Q) -> DOMAIN s] : SeQuedan(s, l, g, Q, w)
  BY <1>1
<1>2. /\ R = Recorta(Q \o l)
      /\ Len(Q) <= Len(s)
      /\ \A k \in DOMAIN Q : Q[k] = s[w[k]] /\ g < Q[k].id
      /\ \A j, k \in DOMAIN Q : j # k => w[j] # w[k]
      /\ \A i \in DOMAIN s : g < s[i].id => \E k \in DOMAIN Q : w[k] = i
      /\ \A m \in 0 .. Len(s) : (\A i \in 1 .. m : g < s[i].id) =>
                     m <= Len(Q) /\ \A k \in 1 .. m : Q[k] = s[k]
      /\ \A m \in 0 .. Len(s) : (\A i \in DOMAIN s : g < s[i].id <=> i <= m) => Len(Q) = m
  BY <1>18 DEF SeQuedan
<1> DEFINE T == Q \o l
<1>3. /\ Len(Q) \in Nat /\ DOMAIN Q = 1 .. Len(Q) /\ \A k \in DOMAIN Q : Q[k] \in Vistos
      /\ Len(s) \in Nat /\ DOMAIN s = 1 .. Len(s) /\ \A k \in DOMAIN s : s[k] \in Vistos
      /\ Limite \in Nat
  BY CampanaOK
<1>4. /\ Len(l) \in Nat /\ DOMAIN l = 1 .. Len(l) /\ Len(l) <= Limite /\ Len(l) <= g
      /\ \A i \in DOMAIN l : i \in Nat /\ l[i].id \in Nat /\ l[i].id + i = g + 1 /\ l[i].id <= g
  BY VentanaEs
<1>5. /\ T \in Seq(Vistos) /\ Len(T) = Len(Q) + Len(l) /\ DOMAIN T = 1 .. Len(Q) + Len(l)
      /\ \A k \in 1 .. Len(Q) : T[k] = Q[k]
      /\ \A k \in 1 .. Len(l) : T[Len(Q) + k] = l[k]
  BY <1>3, <1>4
<1>6. \A k \in DOMAIN T : \/ k \in DOMAIN Q /\ T[k] = Q[k]
                          \/ k - Len(Q) \in DOMAIN l /\ T[k] = l[k - Len(Q)] /\ k > Len(Q)
  <2> TAKE k \in DOMAIN T
  <2>1. CASE k <= Len(Q)
    BY <1>3, <1>5, <2>1
  <2>2. CASE ~(k <= Len(Q))
    <3>1. k - Len(Q) \in 1 .. Len(l) /\ k = Len(Q) + (k - Len(Q)) /\ k > Len(Q)
      BY <1>3, <1>4, <1>5, <2>2
    <3>. QED
      BY <1>4, <1>5, <3>1
  <2>. QED
    BY <2>1, <2>2
<1>7. R = Recorta(T)
  BY <1>2
<1> HIDE DEF T
<1>8. /\ R \in Seq(Vistos)
      /\ Len(R) = IF Len(T) < Limite THEN Len(T) ELSE Limite
      /\ Len(R) <= Limite /\ Len(R) <= Len(T)
      /\ \A k \in DOMAIN R : k \in DOMAIN T /\ R[k] = T[k]
  BY <1>5, <1>7, RecortaEs
<1>9. Len(R) \in Nat /\ DOMAIN R = 1 .. Len(R)
  BY <1>8
<1>10. \A k \in DOMAIN R : \/ k \in DOMAIN Q /\ R[k] = Q[k] /\ g < R[k].id
                           \/ k - Len(Q) \in DOMAIN l /\ R[k] = l[k - Len(Q)] /\ k > Len(Q)
  BY <1>2, <1>6, <1>8
<1>11. Len(R) >= Len(l)
  BY <1>3, <1>4, <1>5, <1>8
<1>12. \A k \in DOMAIN R : \/ \E i \in DOMAIN s : R[k] = s[i] /\ g < s[i].id
                           \/ \E i \in DOMAIN l : R[k] = l[i]
  <2> TAKE k \in DOMAIN R
  <2>1. CASE k \in DOMAIN Q /\ R[k] = Q[k] /\ g < R[k].id
    <3>1. w[k] \in DOMAIN s /\ R[k] = s[w[k]]
      BY <1>2, <1>3, <2>1
    <3>. QED
      BY <2>1, <3>1
  <2>2. CASE k - Len(Q) \in DOMAIN l /\ R[k] = l[k - Len(Q)]
    BY <2>2
  <2>. QED
    BY <1>10, <2>1, <2>2
<1>13. ASSUME NEW j \in DOMAIN R, NEW k \in DOMAIN R, R[j].id = R[k].id PROVE j = k
  <2>1. CASE j \in DOMAIN Q /\ k \in DOMAIN Q /\ R[j] = Q[j] /\ R[k] = Q[k]
    <3>1. s[w[j]].id = s[w[k]].id /\ w[j] \in DOMAIN s /\ w[k] \in DOMAIN s
      BY <1>2, <1>3, <1>13, <2>1
    <3>2. w[j] = w[k]
      BY <3>1 DEF SinRepetir
    <3>. QED
      BY <1>2, <2>1, <3>2
  <2>2. CASE /\ j - Len(Q) \in DOMAIN l /\ R[j] = l[j - Len(Q)]
             /\ k - Len(Q) \in DOMAIN l /\ R[k] = l[k - Len(Q)]
    <3>1. /\ l[j - Len(Q)].id \in Nat /\ l[j - Len(Q)].id + (j - Len(Q)) = g + 1
          /\ l[k - Len(Q)].id \in Nat /\ l[k - Len(Q)].id + (k - Len(Q)) = g + 1
      BY <1>4, <2>2
    <3>2. j \in Nat /\ k \in Nat
      BY <1>9
    <3>. QED
      BY <1>3, <1>13, <2>2, <3>1, <3>2
  <2>3. CASE j \in DOMAIN Q /\ g < R[j].id /\ k - Len(Q) \in DOMAIN l /\ R[k] = l[k - Len(Q)]
    <3>1. R[k].id \in Nat /\ R[k].id <= g
      BY <1>4, <2>3
    <3>. QED
      BY <1>13, <2>3, <3>1
  <2>4. CASE k \in DOMAIN Q /\ g < R[k].id /\ j - Len(Q) \in DOMAIN l /\ R[j] = l[j - Len(Q)]
    <3>1. R[j].id \in Nat /\ R[j].id <= g
      BY <1>4, <2>4
    <3>. QED
      BY <1>13, <2>4, <3>1
  <2>. QED
    BY <1>10, <2>1, <2>2, <2>3, <2>4
<1>14. ASSUME NEW m \in 0 .. Len(s), \A i \in 1 .. m : g < s[i].id
       PROVE  m <= Len(R) /\ \A k \in 1 .. m : R[k] = s[k]
  <2>1. m <= Len(Q) /\ \A k \in 1 .. m : Q[k] = s[k]
    BY <1>2, <1>14
  <2>2. m \in Nat /\ m <= Len(R)
    BY <1>3, <1>4, <1>5, <1>8, <2>1
  <2>3. \A k \in 1 .. m : k \in DOMAIN R /\ k \in 1 .. Len(Q)
    BY <1>3, <1>9, <2>1, <2>2
  <2>. QED
    BY <1>5, <1>8, <2>1, <2>2, <2>3
<1>15. ASSUME NEW m \in 0 .. Len(s), \A i \in DOMAIN s : g < s[i].id <=> i <= m
       PROVE  /\ Len(R) = IF m + Len(l) < Limite THEN m + Len(l) ELSE Limite
              /\ \A k \in DOMAIN R : R[k] = IF k <= m THEN s[k] ELSE l[k - m]
  <2>1. Len(Q) = m
    BY <1>2, <1>15
  <2>2. \A i \in 1 .. m : g < s[i].id
    BY <1>3, <1>15
  <2>3. \A k \in 1 .. m : R[k] = s[k]
    BY <1>14, <2>2
  <2>4. m \in Nat
    BY <1>3
  <2>5. \A k \in DOMAIN R : ~(k <= m) => R[k] = l[k - m]
    BY <1>3, <1>10, <2>1
  <2>6. \A k \in DOMAIN R : k <= m => k \in 1 .. m
    BY <1>9, <2>4
  <2>. QED
    BY <1>5, <1>8, <2>1, <2>3, <2>5, <2>6
<1>16. ASSUME g <= Limite, \A i \in DOMAIN s : s[i].id <= Limite
       PROVE  /\ \A i \in DOMAIN s : g < s[i].id => \E k \in DOMAIN R : R[k] = s[i]
              /\ \A i \in DOMAIN l : \E k \in DOMAIN R : R[k] = l[i]
  <2>1. \A k \in DOMAIN T : T[k].id <= Limite
    <3>1. \A k \in DOMAIN Q : w[k] \in DOMAIN s
      BY <1>3
    <3>2. \A k \in DOMAIN Q : Q[k].id <= Limite
      BY <1>2, <1>16, <3>1
    <3>3. \A k \in DOMAIN l : l[k].id <= Limite
      BY <1>3, <1>4, <1>16
    <3>. QED
      BY <1>6, <3>2, <3>3
  <2>2. ASSUME NEW j \in DOMAIN T, NEW k \in DOMAIN T, T[j].id = T[k].id PROVE j = k
    <3>1. CASE j \in DOMAIN Q /\ k \in DOMAIN Q /\ T[j] = Q[j] /\ T[k] = Q[k]
      <4>1. s[w[j]].id = s[w[k]].id /\ w[j] \in DOMAIN s /\ w[k] \in DOMAIN s
        BY <1>2, <1>3, <2>2, <3>1
      <4>2. w[j] = w[k]
        BY <4>1 DEF SinRepetir
      <4>. QED
        BY <1>2, <3>1, <4>2
    <3>2. CASE /\ j - Len(Q) \in DOMAIN l /\ T[j] = l[j - Len(Q)]
               /\ k - Len(Q) \in DOMAIN l /\ T[k] = l[k - Len(Q)]
      <4>1. /\ l[j - Len(Q)].id \in Nat /\ l[j - Len(Q)].id + (j - Len(Q)) = g + 1
            /\ l[k - Len(Q)].id \in Nat /\ l[k - Len(Q)].id + (k - Len(Q)) = g + 1
        BY <1>4, <3>2
      <4>2. j \in Nat /\ k \in Nat
        BY <1>3, <1>4, <1>5
      <4>. QED
        BY <1>3, <2>2, <3>2, <4>1, <4>2
    <3>3. CASE j \in DOMAIN Q /\ T[j] = Q[j] /\ k - Len(Q) \in DOMAIN l /\ T[k] = l[k - Len(Q)]
      <4>1. T[k].id \in Nat /\ T[k].id <= g /\ g < T[j].id
        BY <1>2, <1>4, <3>3
      <4>. QED
        BY <2>2, <4>1
    <3>4. CASE k \in DOMAIN Q /\ T[k] = Q[k] /\ j - Len(Q) \in DOMAIN l /\ T[j] = l[j - Len(Q)]
      <4>1. T[j].id \in Nat /\ T[j].id <= g /\ g < T[k].id
        BY <1>2, <1>4, <3>4
      <4>. QED
        BY <2>2, <4>1
    <3>. QED
      BY <1>6, <3>1, <3>2, <3>3, <3>4
  <2>3. Len(T) <= Limite
    <3>2. T \in Seq(Vistos) /\ Limite \in Nat
      BY <1>3, <1>5
    <3>3. \A j, k \in DOMAIN T : T[j].id = T[k].id => j = k
      BY <2>2
    <3>. QED
      BY <2>1, <3>2, <3>3, Caben
  <2>4. Len(R) = Len(T) /\ DOMAIN R = DOMAIN T
    <3>1. Len(T) \in Nat /\ DOMAIN T = 1 .. Len(T) /\ Limite \in Nat
      BY <1>3, <1>4, <1>5
    <3>2. Len(R) = IF Len(T) < Limite THEN Len(T) ELSE Limite
      BY <1>8
    <3>3. PICK n \in Nat : n = Len(T)
      BY <3>1
    <3>4. n <= Limite /\ Len(R) = (IF n < Limite THEN n ELSE Limite)
      BY <2>3, <3>2, <3>3
    <3>5. Limite \in Nat
      BY <3>1
    <3>6. Len(R) = n
      BY ONLY <3>3, <3>4, <3>5
    <3>. QED
      BY <1>9, <3>1, <3>3, <3>6
  <2>5. ASSUME NEW i \in DOMAIN s, g < s[i].id PROVE \E k \in DOMAIN R : R[k] = s[i]
    <3>1. PICK k \in DOMAIN Q : w[k] = i
      BY <1>2, <2>5
    <3>3. Q[k] = s[i] /\ k \in 1 .. Len(Q)
      BY <1>2, <1>3, <3>1
    <3>2. k \in DOMAIN T /\ T[k] = s[i]
      BY <1>3, <1>4, <1>5, <3>3
    <3>. QED
      BY <1>8, <2>4, <3>2
  <2>6. ASSUME NEW i \in DOMAIN l PROVE \E k \in DOMAIN R : R[k] = l[i]
    <3>1. Len(Q) + i \in DOMAIN T /\ T[Len(Q) + i] = l[i]
      BY <1>3, <1>4, <1>5
    <3>. QED
      BY <1>8, <2>4, <3>1
  <2>. QED
    BY <2>5, <2>6
<1>17. SinRepetir(R)
  BY <1>13 DEF SinRepetir
<1>. QED
  BY <1>8, <1>11, <1>12, <1>14, <1>15, <1>16, <1>17 DEF Fundida

\* And after a notice that was not there.
LEMMA LlegaEs ==
    ASSUME NEW s \in Seq(Vistos), NEW v \in Vistos, NEW R, Len(s) <= Limite,
           R = Recorta(<<v>> \o s)
    PROVE  /\ R \in Seq(Vistos)
           /\ Len(R) = IF Len(s) < Limite THEN Len(s) + 1 ELSE Limite
           /\ 1 \in DOMAIN R /\ R[1] = v
           /\ \A k \in DOMAIN R : k # 1 => k - 1 \in DOMAIN s /\ R[k] = s[k - 1]
<1> DEFINE T == <<v>> \o s
<1>3. Len(s) \in Nat /\ DOMAIN s = 1 .. Len(s) /\ Limite \in Nat /\ Limite >= 1
  BY CampanaOK
<1>4. /\ T \in Seq(Vistos) /\ Len(T) = Len(s) + 1 /\ DOMAIN T = 1 .. Len(s) + 1
      /\ T[1] = v
      /\ \A k \in 1 .. Len(s) : T[k + 1] = s[k]
  BY Antepone
<1>6. R = Recorta(T)
  OBVIOUS
<1> HIDE DEF T
<1>5. \A k \in DOMAIN T : k # 1 => k - 1 \in DOMAIN s /\ T[k] = s[k - 1]
  <2> TAKE k \in DOMAIN T
  <2>1. k # 1 => k - 1 \in 1 .. Len(s) /\ k = (k - 1) + 1
    BY <1>3, <1>4
  <2>. QED
    BY <1>3, <1>4, <2>1
<1>7. /\ R \in Seq(Vistos)
      /\ Len(R) = IF Len(T) < Limite THEN Len(T) ELSE Limite
      /\ \A k \in DOMAIN R : k \in DOMAIN T /\ R[k] = T[k]
  <2>1. T \in Seq(Vistos)
    BY <1>4
  <2>2. /\ Recorta(T) \in Seq(Vistos)
        /\ Len(Recorta(T)) = IF Len(T) < Limite THEN Len(T) ELSE Limite
        /\ \A k \in DOMAIN Recorta(T) : k \in DOMAIN T /\ Recorta(T)[k] = T[k]
    BY ONLY <2>1, RecortaEs
  <2>. QED
    BY <1>6, <2>2
<1>8. Len(R) = IF Len(s) < Limite THEN Len(s) + 1 ELSE Limite
  BY <1>3, <1>4, <1>7
<1>9. 1 \in DOMAIN R
  BY <1>3, <1>7, <1>8
<1>. QED
  BY <1>4, <1>5, <1>7, <1>8, <1>9

-----------------------------------------------------------------------------
(* The bell: its types, and what it shows as read.                         *)

TipoResto ==
    /\ guardados \in 0 .. MaxAvisos
    /\ porEmitir \subseteq 1 .. guardados
    /\ leidos \subseteq 1 .. guardados
    /\ fallo \subseteq Pestanas /\ cubierta \subseteq Pestanas
    /\ fallidas \subseteq Pestanas /\ adelantadas \subseteq Pestanas
    /\ deUnEnUno \in BOOLEAN

TipoListas ==
    /\ campana \in [Pestanas -> Seq(Vistos)]
    /\ listas \in [Pestanas -> Nat]
    /\ respuestas \in [Pestanas -> SUBSET Respuestas]
    /\ llegando \in [Pestanas -> Seq(Avisos)]
    /\ tachados \in [Pestanas -> SUBSET (Avisos \cup {Todos})]

Largos ==
    \A t \in Pestanas : /\ Len(campana[t]) <= Limite
                        /\ \A r \in respuestas[t] : Len(r.lista) <= Limite

LEMMA TipoPartes ==
    /\ TipoCampana <=> TipoTiempoReal /\ TipoResto /\ TipoListas /\ Largos
    /\ TipoCampana' <=> TipoTiempoReal' /\ TipoResto' /\ TipoListas' /\ Largos'
<1>1. TipoCampana <=> TipoTiempoReal /\ TipoResto /\ TipoListas /\ Largos
  BY DEF TipoCampana, TipoResto, TipoListas, Largos
<1>2. TipoCampana' <=> TipoTiempoReal' /\ TipoResto' /\ TipoListas' /\ Largos'
  BY DEF TipoCampana, TipoResto, TipoListas, Largos
<1>. QED
  BY <1>1, <1>2

LEMMA DeCadaUna ==
    ASSUME TipoListas, NEW t \in Pestanas
    PROVE  /\ campana[t] \in Seq(Vistos) /\ Len(campana[t]) \in Nat
           /\ DOMAIN campana[t] = 1 .. Len(campana[t])
           /\ \A i \in DOMAIN campana[t] : /\ campana[t][i] \in Vistos
                                           /\ campana[t][i].id \in Nat /\ campana[t][i].id >= 1
                                           /\ campana[t][i].id \in Avisos
                                           /\ campana[t][i].leido \in BOOLEAN
           /\ llegando[t] \in Seq(Avisos) /\ Len(llegando[t]) \in Nat
           /\ DOMAIN llegando[t] = 1 .. Len(llegando[t])
           /\ \A i \in DOMAIN llegando[t] : /\ llegando[t][i] \in Avisos
                                            /\ llegando[t][i] \in Nat /\ llegando[t][i] >= 1
           /\ \A q \in tachados[t] : q \in Nat
           /\ \A r \in respuestas[t] : r \in Respuestas /\ r.lista \in Seq(Vistos) /\ r.dentro \in BOOLEAN
           /\ listas[t] \in Nat
<1>1. campana[t] \in Seq(Vistos) /\ llegando[t] \in Seq(Avisos) /\ listas[t] \in Nat
  BY DEF TipoListas
<1>2. \A i \in DOMAIN campana[t] : campana[t][i] \in Vistos
  BY <1>1
<1>3. \A i \in DOMAIN llegando[t] : llegando[t][i] \in Avisos
  BY <1>1
<1>4. \A n \in Avisos : n \in Nat /\ n >= 1
  BY CampanaOK DEF Avisos
<1>5. \A q \in tachados[t] : q \in Nat
  BY <1>4 DEF TipoListas, Todos
<1>6. \A r \in respuestas[t] : r \in Respuestas /\ r.lista \in Seq(Vistos) /\ r.dentro \in BOOLEAN
  BY DEF TipoListas, Respuestas
<1>7. \A i \in DOMAIN campana[t] : /\ campana[t][i].id \in Nat /\ campana[t][i].id >= 1
                                   /\ campana[t][i].id \in Avisos
                                   /\ campana[t][i].leido \in BOOLEAN
  BY <1>2, VistosBien
<1>8. /\ Len(campana[t]) \in Nat /\ DOMAIN campana[t] = 1 .. Len(campana[t])
      /\ Len(llegando[t]) \in Nat /\ DOMAIN llegando[t] = 1 .. Len(llegando[t])
  BY <1>1
<1>. QED
  BY <1>1, <1>2, <1>3, <1>4, <1>5, <1>6, <1>7, <1>8

\* The life of a connection keeps its type.
LEMMA EnlaceTipo ==
    ASSUME TipoTiempoReal, NEW t \in Pestanas
    PROVE  /\ Conecta(t) \/ ConectaSinPase(t) \/ EntraEnSala(t) \/ Rechaza(t) \/ Corta(t) => TipoTiempoReal'
           /\ \A r \in SUBSET conSesion : Desconecta(r) => TipoTiempoReal'
           /\ NoResponde(t) /\ enlace' = enlace /\ conSesion' = conSesion /\ cortes' = cortes => TipoTiempoReal'
           /\ UNCHANGED varsTiempoReal => TipoTiempoReal'
<1>. USE TiempoRealOK DEF TipoTiempoReal
<1>1. NoResponde(t) => mudas' \in 0 .. MaxMudas
  BY DEF NoResponde
<1>2. Conecta(t) => TipoTiempoReal'
  BY DEF Conecta, Enlaza, Enlaces
<1>3. ConectaSinPase(t) => TipoTiempoReal'
  BY <1>1 DEF ConectaSinPase, Enlaza, Enlaces
<1>4. EntraEnSala(t) => TipoTiempoReal'
  BY DEF EntraEnSala, Enlaza, Enlaces
<1>5. Rechaza(t) => TipoTiempoReal'
  BY DEF Rechaza, Enlaza, Enlaces
<1>6. Corta(t) => TipoTiempoReal'
  BY DEF Corta, Enlaces
<1>7. \A r \in SUBSET conSesion : Desconecta(r) => TipoTiempoReal'
  BY DEF Desconecta, Enlaces
<1>8. NoResponde(t) /\ enlace' = enlace /\ conSesion' = conSesion /\ cortes' = cortes => TipoTiempoReal'
  BY <1>1
<1>9. UNCHANGED varsTiempoReal => TipoTiempoReal'
  BY DEF varsTiempoReal
<1>. QED
  BY <1>2, <1>3, <1>4, <1>5, <1>6, <1>7, <1>8, <1>9

\* At the beginning.
LEMMA CampanaEmpieza == InitCampana => CInv
<1> SUFFICES ASSUME InitCampana PROVE CInv
  OBVIOUS
<1>1. TipoTiempoReal
  BY TiempoRealOK DEF InitCampana, InitTiempoReal, TipoTiempoReal, Enlaces
<1>2. TipoResto /\ TipoListas /\ Largos
  BY CampanaOK DEF InitCampana, TipoResto, TipoListas, Largos
<1>3. ASSUME NEW t \in Pestanas
      PROVE  CampanaBien(t) /\ RespuestasBien(t) /\ SalaBien(t) /\ LoTachadoVa(t)
  BY DEF InitCampana, CampanaBien, RespuestasBien, SalaBien, LoTachadoVa
<1>. QED
  BY <1>1, <1>2, <1>3, TipoPartes DEF CInv

\* A notice is saved.
LEMMA GuardarCampana == ASSUME CInv, GuardarAviso PROVE CInv'
<1>1. TipoTiempoReal /\ TipoResto /\ TipoListas /\ Largos
  BY TipoPartes DEF CInv
<1>2. /\ guardados \in Nat /\ guardados' = guardados + 1 /\ guardados' \in 0 .. MaxAvisos
      /\ UNCHANGED <<varsTiempoReal, leidos, campana, fallo, fallidas, adelantadas, listas, respuestas,
                     llegando, tachados, cubierta>>
      /\ enlace' = enlace
  BY <1>1, CampanaOK DEF GuardarAviso, TipoResto, varsTiempoReal
<1>3. TipoTiempoReal' /\ TipoListas' /\ Largos'
  BY <1>1, <1>2 DEF TipoTiempoReal, TipoListas, Largos, varsTiempoReal
<1>4. TipoResto'
  <2>1. porEmitir' \subseteq 1 .. guardados' /\ deUnEnUno' \in BOOLEAN
    BY <1>1, <1>2 DEF GuardarAviso, TipoResto
  <2>. QED
    BY <1>1, <1>2, <2>1 DEF TipoResto
<1>5. ASSUME NEW t \in Pestanas
      PROVE  (CampanaBien(t) /\ RespuestasBien(t) /\ SalaBien(t) /\ LoTachadoVa(t))'
  <2>0. CampanaBien(t) /\ RespuestasBien(t) /\ SalaBien(t) /\ LoTachadoVa(t)
    BY DEF CInv
  <2>1. CampanaBien(t)'
    <3>1. /\ \A i \in DOMAIN campana[t] : campana[t][i].id \in Nat
          /\ \A i \in DOMAIN llegando[t] : llegando[t][i] \in Nat
          /\ \A q \in tachados[t] : q \in Nat
      BY <1>1, DeCadaUna
    <3>. QED
      BY <1>2, <2>0, <3>1 DEF CampanaBien
  <2>2. RespuestasBien(t)'
    <3>1. \A r \in respuestas[t] : Ultimo(r.lista) \in 0 .. guardados'
      BY <1>2, <2>0 DEF RespuestasBien
    <3>. QED
      BY <1>2, <2>0, <3>1 DEF RespuestasBien, EnSala
  <2>3. SalaBien(t)'
    BY <1>2, <2>0 DEF SalaBien, EnSala
  <2>4. LoTachadoVa(t)'
    BY <1>2, <2>0 DEF LoTachadoVa, PorArreglar
  <2>. QED
    BY <2>1, <2>2, <2>3, <2>4
<1>. QED
  BY <1>3, <1>4, <1>5, TipoPartes DEF CInv

\* What is sent comes to whoever is in the room.
LEMMA EmitirCampana == ASSUME CInv, NEW n \in Avisos, EmitirAviso(n) PROVE CInv'
<1>1. TipoTiempoReal /\ TipoResto /\ TipoListas /\ Largos
  BY TipoPartes DEF CInv
<1>2. /\ n \in porEmitir /\ porEmitir' = porEmitir \ {n}
      /\ llegando' = [t \in Pestanas |-> IF t \in EnSala THEN Append(llegando[t], n) ELSE llegando[t]]
      /\ UNCHANGED <<varsTiempoReal, guardados, leidos, campana, fallo, fallidas, adelantadas, listas,
                     respuestas, tachados, cubierta, deUnEnUno>>
      /\ enlace' = enlace
  BY DEF EmitirAviso, varsTiempoReal
<1>3. TipoTiempoReal' /\ Largos'
  BY <1>1, <1>2 DEF TipoTiempoReal, Largos, varsTiempoReal
<1>4. TipoResto'
  BY <1>1, <1>2 DEF TipoResto
<1>5. TipoListas'
  <2>1. \A t \in Pestanas : llegando'[t] \in Seq(Avisos)
    BY <1>1, <1>2 DEF TipoListas
  <2>2. llegando' \in [Pestanas -> Seq(Avisos)]
    BY <1>2, <2>1
  <2>. QED
    BY <1>1, <1>2, <2>2 DEF TipoListas
<1>6. ASSUME NEW t \in Pestanas
      PROVE  (CampanaBien(t) /\ RespuestasBien(t) /\ SalaBien(t) /\ LoTachadoVa(t))'
  <2>0. CampanaBien(t) /\ RespuestasBien(t) /\ SalaBien(t) /\ LoTachadoVa(t)
    BY DEF CInv
  <2>1. CampanaBien(t)'
    <3>1. n <= guardados
      BY <1>1, <1>2 DEF TipoResto
    <3>2. llegando[t] \in Seq(Avisos)
      BY <1>1 DEF TipoListas
    <3>3. \A i \in DOMAIN Append(llegando[t], n) :
              Append(llegando[t], n)[i] = n \/ (i \in DOMAIN llegando[t]
                                                /\ Append(llegando[t], n)[i] = llegando[t][i])
      BY <3>2
    <3>4. \A i \in DOMAIN llegando'[t] : llegando'[t][i] <= guardados
      BY <1>2, <2>0, <3>1, <3>3 DEF CampanaBien
    <3>. QED
      BY <1>2, <2>0, <3>4 DEF CampanaBien
  <2>2. RespuestasBien(t)'
    BY <1>2, <2>0 DEF RespuestasBien, EnSala
  <2>3. SalaBien(t)'
    BY <1>2, <2>0 DEF SalaBien, EnSala
  <2>4. LoTachadoVa(t)'
    BY <1>2, <2>0 DEF LoTachadoVa, PorArreglar
  <2>. QED
    BY <2>1, <2>2, <2>3, <2>4
<1>. QED
  BY <1>3, <1>4, <1>5, <1>6, TipoPartes DEF CInv

\* What listar gives.
LEMMA ListadoEs ==
    ASSUME TipoResto
    PROVE  /\ Listado \in Seq(Vistos) /\ EsVentana(Listado, guardados) /\ Len(Listado) <= Limite
           /\ Ultimo(Listado) = guardados /\ guardados \in Nat
           /\ \A i \in DOMAIN Listado : Listado[i].leido => Listado[i].id \in leidos
           /\ \A i \in DOMAIN Listado : Listado[i].id + i = guardados + 1
<1> DEFINE c == IF guardados < Limite THEN guardados ELSE Limite
<1>1. /\ guardados \in Nat /\ guardados <= MaxAvisos /\ MaxAvisos \in Nat
      /\ Limite \in Nat /\ Limite >= 1 /\ c \in Nat /\ c <= guardados /\ c <= Limite
  BY CampanaOK DEF TipoResto
<1>2. Listado = [i \in 1 .. c |-> Visto(guardados + 1 - i, guardados + 1 - i \in leidos)]
  BY DEF Listado
<1> DEFINE f(i) == Visto(guardados + 1 - i, guardados + 1 - i \in leidos)
<1>3. ASSUME NEW i \in 1 .. c
      PROVE  /\ f(i) \in Vistos /\ f(i).id + i = guardados + 1
             /\ f(i).leido => f(i).id \in leidos
  <2>1. guardados + 1 - i \in Avisos /\ (guardados + 1 - i) + i = guardados + 1
    BY <1>1 DEF Avisos
  <2>2. (guardados + 1 - i \in leidos) \in BOOLEAN
    OBVIOUS
  <2>. QED
    BY <2>1, <2>2 DEF Visto, Vistos
<1> HIDE DEF c, f
<1>4. Listado = [i \in 1 .. c |-> f(i)]
  BY <1>2 DEF f
<1>5. Listado \in Seq(Vistos) /\ Len(Listado) = c /\ DOMAIN Listado = 1 .. c
  BY <1>1, <1>3, <1>4
<1>6. \A i \in 1 .. c : Listado[i] = f(i)
  BY <1>4
<1>7. EsVentana(Listado, guardados)
  BY <1>3, <1>5, <1>6 DEF EsVentana, c
<1>8. Ultimo(Listado) = guardados
  <2>1. CASE guardados = 0
    <3>1. Len(Listado) = 0
      BY <1>1, <1>5, <2>1
    <3>2. Listado = <<>>
      BY <1>5, <3>1
    <3>. QED
      BY <2>1, <3>2 DEF Ultimo
  <2>2. CASE guardados # 0
    <3>1. c >= 1
      BY <1>1, <2>2 DEF c
    <3>2. 1 \in 1 .. c
      BY <1>1, <3>1
    <3>3. Listado # <<>>
      BY <1>5, <3>2
    <3>4. Listado[1].id + 1 = guardados + 1 /\ Listado[1] \in Vistos
      BY <1>3, <1>6, <3>2
    <3>5. Listado[1].id \in Nat
      BY <3>4, VistosBien
    <3>. QED
      BY <1>1, <3>3, <3>4, <3>5 DEF Ultimo
  <2>. QED
    BY <2>1, <2>2
<1>. QED
  BY <1>1, <1>3, <1>5, <1>6, <1>7, <1>8

\* What does not touch the bell of u.
LEMMA LosDemas ==
    ASSUME CInv, NEW u \in Pestanas,
           campana'[u] = campana[u], llegando'[u] = llegando[u], tachados'[u] = tachados[u],
           respuestas'[u] = respuestas[u], listas'[u] = listas[u], enlace'[u] = enlace[u],
           u \in cubierta' => u \in cubierta, u \in fallidas => u \in fallidas',
           guardados' = guardados, leidos \subseteq leidos'
    PROVE  (CampanaBien(u) /\ RespuestasBien(u) /\ SalaBien(u) /\ LoTachadoVa(u))'
<1>0. CampanaBien(u) /\ RespuestasBien(u) /\ SalaBien(u) /\ LoTachadoVa(u)
  BY DEF CInv
<1>1. CampanaBien(u)'
  BY <1>0 DEF CampanaBien
<1>2. RespuestasBien(u)'
  BY <1>0 DEF RespuestasBien, EnSala
<1>3. SalaBien(u)'
  BY <1>0 DEF SalaBien, EnSala
<1>4. LoTachadoVa(u)'
  BY <1>0 DEF LoTachadoVa, PorArreglar
<1>. QED
  BY <1>1, <1>2, <1>3, <1>4

\* A list is read.
LEMMA LeerCampana == ASSUME CInv, NEW t \in Pestanas, LeerLista(t) PROVE CInv'
<1> DEFINE r0 == [lista |-> Listado, dentro |-> t \in EnSala]
<1>1. TipoTiempoReal /\ TipoResto /\ TipoListas /\ Largos
  BY TipoPartes DEF CInv
<1>2. /\ listas' = [listas EXCEPT ![t] = @ - 1] /\ listas[t] > 0
      /\ respuestas' = [respuestas EXCEPT ![t] = @ \cup {r0}]
      /\ UNCHANGED <<varsTiempoReal, varsAvisos, leidos, campana, fallo, fallidas, adelantadas, llegando, tachados, cubierta>>
      /\ enlace' = enlace /\ guardados' = guardados /\ porEmitir' = porEmitir /\ deUnEnUno' = deUnEnUno
  BY DEF LeerLista, varsTiempoReal, varsAvisos
<1>3. /\ Listado \in Seq(Vistos) /\ EsVentana(Listado, guardados) /\ Len(Listado) <= Limite
      /\ Ultimo(Listado) = guardados /\ guardados \in Nat
      /\ \A i \in DOMAIN Listado : Listado[i].leido => Listado[i].id \in leidos
  BY <1>1, ListadoEs
<1>4. r0 \in Respuestas /\ r0.lista = Listado /\ (r0.dentro => t \in EnSala)
  <2>1. (t \in EnSala) \in BOOLEAN
    OBVIOUS
  <2>. QED
    BY <1>3, <2>1 DEF Respuestas
<1> HIDE DEF r0
<1>5. TipoTiempoReal' /\ TipoResto'
  BY <1>1, <1>2 DEF TipoTiempoReal, TipoResto, varsTiempoReal
<1>6. TipoListas'
  BY <1>1, <1>2, <1>4 DEF TipoListas
<1>7. Largos'
  BY <1>1, <1>2, <1>3, <1>4 DEF Largos, TipoListas
<1>8. ASSUME NEW u \in Pestanas
      PROVE  (CampanaBien(u) /\ RespuestasBien(u) /\ SalaBien(u) /\ LoTachadoVa(u))'
  <2>1. CASE u # t
    <3>1. respuestas'[u] = respuestas[u] /\ listas'[u] = listas[u]
      BY <1>1, <1>2, <2>1 DEF TipoListas
    <3>. QED
      BY <1>2, <3>1, LosDemas
  <2>2. CASE u = t
    <3>0. CampanaBien(u) /\ RespuestasBien(u) /\ SalaBien(u) /\ LoTachadoVa(u)
      BY DEF CInv
    <3>1. respuestas'[u] = respuestas[u] \cup {r0}
      BY <1>1, <1>2, <2>2 DEF TipoListas
    <3>2. CampanaBien(u)' /\ SalaBien(u)'
      BY <1>2, <3>0 DEF CampanaBien, SalaBien, EnSala
    <3>3. RespuestasBien(u)'
      <4>1. SUFFICES ASSUME NEW r \in respuestas'[u]
                     PROVE  /\ Ultimo(r.lista) \in 0 .. guardados
                            /\ EsVentana(r.lista, Ultimo(r.lista))
                            /\ \A i \in DOMAIN r.lista : r.lista[i].leido => r.lista[i].id \in leidos
                            /\ r.dentro => u \in EnSala
        BY <1>2 DEF RespuestasBien, EnSala
      <4>2. CASE r \in respuestas[u]
        BY <3>0, <4>2 DEF RespuestasBien
      <4>3. CASE r = r0
        BY <1>3, <1>4, <2>2, <4>3
      <4>. QED
        BY <3>1, <4>2, <4>3
    <3>4. LoTachadoVa(u)'
      <4>1. SUFFICES ASSUME u \notin fallidas, NEW i \in DOMAIN campana[u], campana[u][i].leido
                     PROVE  PorArreglar(u, campana[u][i].id)'
        BY <1>2 DEF LoTachadoVa
      <4>2. campana[u][i].id <= guardados
        BY <3>0 DEF CampanaBien
      <4>3. r0 \in respuestas'[u] /\ campana[u][i].id <= Ultimo(r0.lista)
        BY <1>3, <1>4, <3>1, <4>2
      <4>. QED
        BY <1>2, <4>3 DEF PorArreglar
    <3>. QED
      BY <3>2, <3>3, <3>4
  <2>. QED
    BY <2>1, <2>2
<1>. QED
  BY <1>5, <1>6, <1>7, <1>8, TipoPartes DEF CInv

\* A list that does not come.
LEMMA FallaCampana == ASSUME CInv, NEW t \in Pestanas, ListaFallida(t) PROVE CInv'
<1>1. TipoTiempoReal /\ TipoResto /\ TipoListas /\ Largos
  BY TipoPartes DEF CInv
<1>2. /\ listas' = [listas EXCEPT ![t] = @ - 1] /\ listas[t] > 0 /\ NoResponde(t)
      /\ fallo' = fallo \cup {t} /\ fallidas' = fallidas \cup {t}
      /\ UNCHANGED <<enlace, conSesion, cortes, varsAvisos, leidos, campana, respuestas, llegando,
                   tachados, cubierta, adelantadas>>
      /\ guardados' = guardados /\ porEmitir' = porEmitir /\ deUnEnUno' = deUnEnUno
  BY DEF ListaFallida, varsAvisos
<1>3. TipoTiempoReal'
  BY <1>1, <1>2, EnlaceTipo
<1>4. TipoResto' /\ TipoListas' /\ Largos'
  BY <1>1, <1>2 DEF TipoResto, TipoListas, Largos
<1>5. ASSUME NEW u \in Pestanas
      PROVE  (CampanaBien(u) /\ RespuestasBien(u) /\ SalaBien(u) /\ LoTachadoVa(u))'
  <2>1. CASE u # t
    <3>1. listas'[u] = listas[u]
      BY <1>1, <1>2, <2>1 DEF TipoListas
    <3>. QED
      BY <1>2, <3>1, LosDemas
  <2>2. CASE u = t
    <3>0. CampanaBien(u) /\ RespuestasBien(u) /\ SalaBien(u)
      BY DEF CInv
    <3>. QED
      BY <1>2, <2>2, <3>0 DEF CampanaBien, RespuestasBien, SalaBien, LoTachadoVa, EnSala
  <2>. QED
    BY <2>1, <2>2
<1>. QED
  BY <1>3, <1>4, <1>5, TipoPartes DEF CInv

\* A list is shown.
LEMMA MostrarCampana ==
    ASSUME CInv, NEW t \in Pestanas, NEW r \in respuestas[t], MostrarLista(t, r) PROVE CInv'
<1>12. PICK R : R = FundeLista(campana[t], r.lista)
  OBVIOUS
<1>13. PICK g : g = Ultimo(r.lista)
  OBVIOUS
<1>1. TipoTiempoReal /\ TipoResto /\ TipoListas /\ Largos
  BY TipoPartes DEF CInv
<1>2. /\ respuestas' = [respuestas EXCEPT ![t] = @ \ {r}]
      /\ campana' = [campana EXCEPT ![t] = R]
      /\ fallo' = fallo \ {t}
      /\ cubierta' = (IF r.dentro THEN cubierta \cup {t} ELSE cubierta)
      /\ adelantadas' \in {adelantadas, adelantadas \cup {t}}
      /\ UNCHANGED <<varsTiempoReal, varsAvisos, leidos, fallidas, listas, llegando, tachados>>
      /\ enlace' = enlace /\ guardados' = guardados /\ porEmitir' = porEmitir /\ deUnEnUno' = deUnEnUno
  BY <1>1, <1>12 DEF MostrarLista, varsTiempoReal, varsAvisos, TipoListas
<1>3. CampanaBien(t) /\ RespuestasBien(t) /\ SalaBien(t) /\ LoTachadoVa(t)
  BY DEF CInv
<1>4. /\ r.lista \in Seq(Vistos) /\ r.dentro \in BOOLEAN /\ g \in 0 .. guardados /\ g \in Nat
      /\ EsVentana(r.lista, g)
      /\ \A i \in DOMAIN r.lista : r.lista[i].leido => r.lista[i].id \in leidos
      /\ r.dentro => t \in EnSala
      /\ guardados \in Nat
  BY <1>1, <1>3, <1>13, DeCadaUna DEF RespuestasBien, TipoResto
<1>5. campana[t] \in Seq(Vistos) /\ Len(campana[t]) <= Limite /\ SinRepetir(campana[t])
  BY <1>1, <1>3, DeCadaUna DEF Largos, CampanaBien, SinRepetir
<1>6. /\ R \in Seq(Vistos) /\ Len(R) <= Limite
      /\ \A k \in DOMAIN R : \/ \E i \in DOMAIN campana[t] : R[k] = campana[t][i] /\ g < campana[t][i].id
                             \/ \E i \in DOMAIN r.lista : R[k] = r.lista[i]
      /\ SinRepetir(R)
  <2>1. Fundida(R, campana[t], r.lista, g)
    BY <1>4, <1>5, <1>12, <1>13, FundeEs
  <2>. QED
    BY <2>1 DEF Fundida
<1>7. \A i \in DOMAIN r.lista : r.lista[i].id \in Nat /\ r.lista[i].id <= g
  <2>. QED
    BY <1>4, VentanaEs
<1>8. TipoTiempoReal'
  BY <1>1, <1>2, EnlaceTipo
<1>9. TipoResto'
  BY <1>1, <1>2 DEF TipoResto
<1>10. TipoListas' /\ Largos'
  <2>1. TipoListas'
    BY <1>1, <1>2, <1>6 DEF TipoListas
  <2>2. Largos'
    BY <1>1, <1>2, <1>6 DEF TipoListas, Largos
  <2>. QED
    BY <2>1, <2>2
<1>11. ASSUME NEW u \in Pestanas
       PROVE  (CampanaBien(u) /\ RespuestasBien(u) /\ SalaBien(u) /\ LoTachadoVa(u))'
  <2>1. CASE u # t
    <3>1. campana'[u] = campana[u] /\ respuestas'[u] = respuestas[u] /\ (u \in cubierta' => u \in cubierta)
      BY <1>1, <1>2, <2>1 DEF TipoListas
    <3>. QED
      BY <1>2, <3>1, LosDemas
  <2>2. CASE u = t
    <3>1. campana'[t] = R /\ respuestas'[t] = respuestas[t] \ {r}
      BY <1>1, <1>2 DEF TipoListas
    <3>2. CampanaBien(t)'
      <4>1. \A i \in DOMAIN campana[t] : campana[t][i].id \in Nat /\ campana[t][i].id <= guardados
        BY <1>1, <1>3, DeCadaUna DEF CampanaBien
      <4>2. \A k \in DOMAIN R : R[k].id <= guardados
        BY <1>4, <1>6, <1>7, <4>1
      <4>. QED
        BY <1>2, <1>3, <1>6, <3>1, <4>2 DEF CampanaBien, SinRepetir
    <3>3. RespuestasBien(t)'
      BY <1>2, <1>3, <3>1 DEF RespuestasBien, EnSala
    <3>4. SalaBien(t)'
      BY <1>2, <1>3, <1>4 DEF SalaBien, EnSala
    <3>5. LoTachadoVa(t)'
      <4>1. SUFFICES ASSUME t \notin fallidas, NEW k \in DOMAIN R, R[k].leido
                     PROVE  PorArreglar(t, R[k].id)'
        BY <1>2, <3>1 DEF LoTachadoVa
      <4>2. CASE \E i \in DOMAIN r.lista : R[k] = r.lista[i]
        BY <1>2, <1>4, <4>1, <4>2 DEF PorArreglar
      <4>3. ASSUME NEW i \in DOMAIN campana[t], R[k] = campana[t][i], g < campana[t][i].id
            PROVE  PorArreglar(t, R[k].id)'
        <5>1. PorArreglar(t, R[k].id)
          BY <1>3, <4>1, <4>3 DEF LoTachadoVa
        <5>2. R[k].id \in Nat /\ ~(R[k].id <= g)
          BY <1>1, <1>4, <4>3, DeCadaUna
        <5>3. (\E o \in respuestas[t] : R[k].id <= Ultimo(o.lista)) =>
                  \E o \in respuestas'[t] : R[k].id <= Ultimo(o.lista)
          BY <1>13, <3>1, <5>2
        <5>. QED
          BY <1>2, <5>1, <5>3 DEF PorArreglar
      <4>. QED
        BY <1>6, <4>2, <4>3
    <3>. QED
      BY <2>2, <3>2, <3>3, <3>4, <3>5
  <2>. QED
    BY <2>1, <2>2
<1>. QED
  BY <1>8, <1>9, <1>10, <1>11, TipoPartes DEF CInv

\* A notice comes to a bell that did not have it.
LEMMA LlegaAvisoEs ==
    ASSUME CInv, NEW t \in Pestanas, LlegaAviso(t), NEW n, n = Head(llegando[t])
    PROVE  /\ n \in Avisos /\ n \in Nat /\ n >= 1 /\ n <= guardados /\ n = llegando[t][1]
           /\ llegando[t] # <<>> /\ Len(llegando[t]) \in Nat /\ Len(llegando[t]) >= 1
           /\ llegando'[t] \in Seq(Avisos) /\ Len(llegando'[t]) + 1 = Len(llegando[t])
           /\ \A i \in DOMAIN llegando'[t] : i + 1 \in DOMAIN llegando[t]
                                             /\ llegando'[t][i] = llegando[t][i + 1]
           /\ \A i \in DOMAIN llegando[t] : \/ llegando[t][i] = n
                                            \/ \E j \in DOMAIN llegando'[t] : llegando'[t][j] = llegando[t][i]
           /\ campana'[t] = IF n \in EnCampana(t) THEN campana[t]
                            ELSE Recorta(<<Visto(n, FALSE)>> \o campana[t])
           /\ \A u \in Pestanas : u # t => llegando'[u] = llegando[u] /\ campana'[u] = campana[u]
           /\ llegando' = [llegando EXCEPT ![t] = llegando'[t]]
           /\ campana' = [campana EXCEPT ![t] = campana'[t]]
<1>1. TipoTiempoReal /\ TipoResto /\ TipoListas /\ Largos /\ CampanaBien(t)
  BY TipoPartes DEF CInv
<1>2. llegando[t] \in Seq(Avisos) /\ llegando[t] # <<>>
  BY <1>1 DEF LlegaAviso, TipoListas
<1>3. /\ Len(llegando[t]) \in Nat /\ Len(llegando[t]) >= 1 /\ 1 \in DOMAIN llegando[t]
      /\ DOMAIN llegando[t] = 1 .. Len(llegando[t])
      /\ Tail(llegando[t]) \in Seq(Avisos) /\ Len(Tail(llegando[t])) + 1 = Len(llegando[t])
      /\ DOMAIN Tail(llegando[t]) = 1 .. Len(llegando[t]) - 1
      /\ \A i \in DOMAIN Tail(llegando[t]) : Tail(llegando[t])[i] = llegando[t][i + 1]
      /\ Head(llegando[t]) = llegando[t][1]
  BY <1>2
<1>4. llegando' = [llegando EXCEPT ![t] = Tail(@)]
  BY DEF LlegaAviso
<1>5. llegando'[t] = Tail(llegando[t])
  BY <1>1, <1>4 DEF TipoListas
<1>6. campana' = [campana EXCEPT ![t] = IF n \in EnCampana(t) THEN @
                                         ELSE Recorta(<<Visto(n, FALSE)>> \o @)]
  BY DEF LlegaAviso
<1>7. campana'[t] = IF n \in EnCampana(t) THEN campana[t] ELSE Recorta(<<Visto(n, FALSE)>> \o campana[t])
  BY <1>1, <1>6 DEF TipoListas
<1>8. n = llegando[t][1] /\ n \in Avisos /\ n \in Nat /\ n >= 1 /\ n <= guardados
  BY <1>1, <1>3, DeCadaUna DEF CampanaBien
<1>9. \A i \in DOMAIN llegando'[t] : i + 1 \in DOMAIN llegando[t] /\ llegando'[t][i] = llegando[t][i + 1]
  BY <1>3, <1>5
<1>10. ASSUME NEW i \in DOMAIN llegando[t]
       PROVE  llegando[t][i] = n \/ \E j \in DOMAIN llegando'[t] : llegando'[t][j] = llegando[t][i]
  <2>1. CASE i = 1
    BY <1>8, <2>1
  <2>2. CASE i # 1
    <3>1. i - 1 \in DOMAIN llegando'[t] /\ llegando'[t][i - 1] = llegando[t][(i - 1) + 1] /\ (i - 1) + 1 = i
      BY <1>3, <1>5, <2>2
    <3>. QED
      BY <3>1
  <2>. QED
    BY <2>1, <2>2
<1>11. \A u \in Pestanas : u # t => llegando'[u] = llegando[u] /\ campana'[u] = campana[u]
  BY <1>1, <1>4, <1>6 DEF TipoListas
<1>12. llegando' = [llegando EXCEPT ![t] = llegando'[t]] /\ campana' = [campana EXCEPT ![t] = campana'[t]]
  BY <1>1, <1>4, <1>5, <1>6, <1>7 DEF TipoListas
<1>. QED
  BY <1>2, <1>3, <1>5, <1>7, <1>8, <1>9, <1>10, <1>11, <1>12

LEMMA LlegaCampana == ASSUME CInv, NEW t \in Pestanas, LlegaAviso(t) PROVE CInv'
<1>1. TipoTiempoReal /\ TipoResto /\ TipoListas /\ Largos
  BY TipoPartes DEF CInv
<1>2. PICK n : n = Head(llegando[t])
  OBVIOUS
<1>3. PICK v : v = Visto(n, FALSE)
  OBVIOUS
<1>4. /\ n \in Avisos /\ n \in Nat /\ n <= guardados /\ llegando[t] # <<>>
      /\ llegando'[t] \in Seq(Avisos)
      /\ \A i \in DOMAIN llegando'[t] : i + 1 \in DOMAIN llegando[t] /\ llegando'[t][i] = llegando[t][i + 1]
      /\ campana'[t] = IF n \in EnCampana(t) THEN campana[t] ELSE Recorta(<<v>> \o campana[t])
      /\ \A u \in Pestanas : u # t => llegando'[u] = llegando[u] /\ campana'[u] = campana[u]
      /\ llegando' = [llegando EXCEPT ![t] = llegando'[t]]
      /\ campana' = [campana EXCEPT ![t] = campana'[t]]
  BY <1>2, <1>3, LlegaAvisoEs
<1>5. v \in Vistos /\ v.id = n /\ v.leido = FALSE
  BY <1>3, <1>4 DEF Visto, Vistos
<1>6. /\ UNCHANGED <<varsTiempoReal, varsAvisos, leidos, fallo, fallidas, adelantadas, listas, respuestas, tachados, cubierta>>
      /\ enlace' = enlace /\ guardados' = guardados /\ porEmitir' = porEmitir /\ deUnEnUno' = deUnEnUno
  BY DEF LlegaAviso, varsTiempoReal, varsAvisos
<1>7. CampanaBien(t) /\ RespuestasBien(t) /\ SalaBien(t) /\ LoTachadoVa(t)
  BY DEF CInv
<1>8. /\ campana[t] \in Seq(Vistos) /\ Len(campana[t]) <= Limite
      /\ \A i \in DOMAIN campana[t] : campana[t][i].id <= guardados
      /\ SinRepetir(campana[t])
  BY <1>1, <1>7, DeCadaUna DEF Largos, CampanaBien, SinRepetir
<1>9. PICK R : R = campana'[t]
  OBVIOUS
<1>10. ASSUME n \notin EnCampana(t)
      PROVE  /\ R \in Seq(Vistos) /\ Len(R) <= Limite /\ \A k \in DOMAIN R : R[k].id <= guardados
             /\ SinRepetir(R)
             /\ \A k \in DOMAIN R : R[k].leido => \E i \in DOMAIN campana[t] : R[k] = campana[t][i]
  <2>1. R = Recorta(<<v>> \o campana[t])
    BY <1>4, <1>9, <1>10
  <2>2. /\ R \in Seq(Vistos)
        /\ Len(R) = IF Len(campana[t]) < Limite THEN Len(campana[t]) + 1 ELSE Limite
        /\ R[1] = v
        /\ \A k \in DOMAIN R : k # 1 => k - 1 \in DOMAIN campana[t] /\ R[k] = campana[t][k - 1]
    BY <1>5, <1>8, <2>1, LlegaEs
  <2>3. Len(R) <= Limite
    BY <1>8, <2>2, CampanaOK
  <2>4. \A k \in DOMAIN R : R[k].id <= guardados
    BY <1>4, <1>5, <1>8, <2>2
  <2>5. \A i \in DOMAIN campana[t] : campana[t][i].id # n
    BY <1>10 DEF EnCampana
  <2>6. SinRepetir(R)
    <3>1. SUFFICES ASSUME NEW j \in DOMAIN R, NEW k \in DOMAIN R, R[j].id = R[k].id PROVE j = k
      BY DEF SinRepetir
    <3>2. CASE j # 1 /\ k # 1
      <4>1. /\ j - 1 \in DOMAIN campana[t] /\ R[j] = campana[t][j - 1]
            /\ k - 1 \in DOMAIN campana[t] /\ R[k] = campana[t][k - 1]
        BY <2>2, <3>2
      <4>2. j - 1 = k - 1
        BY <1>8, <3>1, <4>1 DEF SinRepetir
      <4>3. j \in Nat /\ k \in Nat
        BY <2>2
      <4>. QED
        BY <4>2, <4>3
    <3>3. CASE j = 1 /\ k # 1
      <4>1. k - 1 \in DOMAIN campana[t] /\ R[k] = campana[t][k - 1] /\ R[j].id = n
        BY <1>5, <2>2, <3>3
      <4>. QED
        BY <2>5, <3>1, <4>1
    <3>4. CASE k = 1 /\ j # 1
      <4>1. j - 1 \in DOMAIN campana[t] /\ R[j] = campana[t][j - 1] /\ R[k].id = n
        BY <1>5, <2>2, <3>4
      <4>. QED
        BY <2>5, <3>1, <4>1
    <3>. QED
      BY <3>2, <3>3, <3>4
  <2>7. \A k \in DOMAIN R : R[k].leido => \E i \in DOMAIN campana[t] : R[k] = campana[t][i]
    BY <1>5, <2>2
  <2>. QED
    BY <2>2, <2>3, <2>4, <2>6, <2>7
<1>12. /\ R \in Seq(Vistos) /\ Len(R) <= Limite /\ \A k \in DOMAIN R : R[k].id <= guardados
       /\ SinRepetir(R)
       /\ \A k \in DOMAIN R : R[k].leido => \E i \in DOMAIN campana[t] : R[k] = campana[t][i]
  <2>1. CASE n \notin EnCampana(t)
    BY <1>10, <2>1
  <2>2. CASE n \in EnCampana(t)
    BY <1>4, <1>8, <1>9, <2>2
  <2>. QED
    BY <2>1, <2>2
<1>13. TipoTiempoReal'
  BY <1>1, <1>6, EnlaceTipo
<1>14. TipoResto'
  BY <1>1, <1>6 DEF TipoResto
<1>15. TipoListas'
  BY <1>1, <1>4, <1>6, <1>9, <1>12 DEF TipoListas
<1>16. Largos'
  BY <1>1, <1>4, <1>6, <1>9, <1>12 DEF Largos
<1>17. ASSUME NEW u \in Pestanas
       PROVE  (CampanaBien(u) /\ RespuestasBien(u) /\ SalaBien(u) /\ LoTachadoVa(u))'
  <2>1. CASE u # t
    BY <1>4, <1>6, <2>1, LosDemas
  <2>2. CASE u = t
    <3>1. CampanaBien(t)'
      <4>1. \A i \in DOMAIN llegando'[t] : llegando'[t][i] <= guardados
        BY <1>4, <1>7 DEF CampanaBien
      <4>. QED
        BY <1>6, <1>7, <1>9, <1>12, <4>1 DEF CampanaBien, SinRepetir
    <3>2. RespuestasBien(t)'
      BY <1>6, <1>7 DEF RespuestasBien, EnSala
    <3>3. SalaBien(t)'
      BY <1>4, <1>6, <1>7 DEF SalaBien, EnSala
    <3>4. LoTachadoVa(t)'
      <4>1. SUFFICES ASSUME t \notin fallidas, NEW k \in DOMAIN R, R[k].leido
                     PROVE  PorArreglar(t, R[k].id)'
        BY <1>6, <1>9 DEF LoTachadoVa
      <4>2. PorArreglar(t, R[k].id)
        BY <1>7, <1>12, <4>1 DEF LoTachadoVa
      <4>. QED
        BY <1>6, <4>2 DEF PorArreglar
    <3>. QED
      BY <2>2, <3>1, <3>2, <3>3, <3>4
  <2>. QED
    BY <2>1, <2>2
<1>. QED
  BY <1>13, <1>14, <1>15, <1>16, <1>17, TipoPartes DEF CInv

\* Marking as read changes no notice but in that.
LEMMA TachaEs ==
    ASSUME TipoListas, NEW t \in Pestanas, NEW cuales, NEW que, Tacha(t, cuales, que)
    PROVE  /\ campana'[t] \in Seq(Vistos) /\ Len(campana'[t]) = Len(campana[t])
           /\ DOMAIN campana'[t] = DOMAIN campana[t]
           /\ \A i \in DOMAIN campana[t] :
                  /\ campana'[t][i].id = campana[t][i].id
                  /\ campana'[t][i].leido => campana[t][i].leido \/ campana[t][i].id \in cuales
           /\ campana' = [campana EXCEPT ![t] = campana'[t]]
           /\ \A u \in Pestanas : u # t => campana'[u] = campana[u] /\ tachados'[u] = tachados[u]
           /\ tachados'[t] = tachados[t] \cup {que}
           /\ tachados' = [tachados EXCEPT ![t] = tachados'[t]]
<1> DEFINE c == campana[t]
           f(i) == Visto(c[i].id, c[i].leido \/ c[i].id \in cuales)
<1>1. /\ c \in Seq(Vistos) /\ Len(c) \in Nat /\ DOMAIN c = 1 .. Len(c)
      /\ \A i \in DOMAIN c : c[i].id \in Avisos /\ c[i].leido \in BOOLEAN
  BY DeCadaUna
<1>2. campana' = [campana EXCEPT ![t] = [i \in DOMAIN c |-> f(i)]]
  BY DEF Tacha
<1>3. campana'[t] = [i \in DOMAIN c |-> f(i)]
  BY <1>2 DEF TipoListas
<1>4. ASSUME NEW i \in DOMAIN c
      PROVE  f(i) \in Vistos /\ f(i).id = c[i].id /\ (f(i).leido => c[i].leido \/ c[i].id \in cuales)
  <2>1. (c[i].leido \/ c[i].id \in cuales) \in BOOLEAN
    BY <1>1
  <2>. QED
    BY <1>1, <2>1 DEF Visto, Vistos
<1> HIDE DEF f, c
<1>5. [i \in DOMAIN c |-> f(i)] \in Seq(Vistos) /\ Len([i \in DOMAIN c |-> f(i)]) = Len(c)
  BY <1>1, <1>4
<1>6. campana' = [campana EXCEPT ![t] = campana'[t]] /\ \A u \in Pestanas : u # t => campana'[u] = campana[u]
  BY <1>2, <1>3 DEF TipoListas
<1>7. /\ tachados' = [tachados EXCEPT ![t] = @ \cup {que}]
      /\ tachados'[t] = tachados[t] \cup {que}
      /\ \A u \in Pestanas : u # t => tachados'[u] = tachados[u]
  BY DEF Tacha, TipoListas
<1>. QED
  BY <1>3, <1>4, <1>5, <1>6, <1>7 DEF c

LEMMA TachaCampana ==
    ASSUME CInv, NEW t \in Pestanas, NEW que \in Avisos \cup {Todos}, NEW cuales,
           Tacha(t, cuales, que), que <= guardados,
           \A n \in cuales : n = que \/ que = Todos
    PROVE  CInv'
<1>1. TipoTiempoReal /\ TipoResto /\ TipoListas /\ Largos
  BY TipoPartes DEF CInv
<1>2. /\ campana'[t] \in Seq(Vistos) /\ Len(campana'[t]) = Len(campana[t])
      /\ DOMAIN campana'[t] = DOMAIN campana[t]
      /\ \A i \in DOMAIN campana[t] :
             /\ campana'[t][i].id = campana[t][i].id
             /\ campana'[t][i].leido => campana[t][i].leido \/ campana[t][i].id \in cuales
      /\ campana' = [campana EXCEPT ![t] = campana'[t]]
      /\ \A u \in Pestanas : u # t => campana'[u] = campana[u] /\ tachados'[u] = tachados[u]
      /\ tachados'[t] = tachados[t] \cup {que}
      /\ tachados' = [tachados EXCEPT ![t] = tachados'[t]]
  BY <1>1, TachaEs
<1>3. /\ UNCHANGED <<varsTiempoReal, varsAvisos, leidos, fallo, fallidas, adelantadas, listas, respuestas, llegando, cubierta>>
      /\ enlace' = enlace /\ guardados' = guardados /\ porEmitir' = porEmitir /\ deUnEnUno' = deUnEnUno
  BY DEF Tacha, varsTiempoReal, varsAvisos
<1>4. PICK R : R = campana'[t]
  OBVIOUS
<1>5. PICK q : q = tachados'[t]
  OBVIOUS
<1>6. TipoTiempoReal' /\ TipoResto'
  BY <1>1, <1>3, EnlaceTipo DEF TipoResto
<1>7. TipoListas'
  <2>1. q \in SUBSET (Avisos \cup {Todos})
    BY <1>1, <1>2, <1>5 DEF TipoListas
  <2>. QED
    BY <1>1, <1>2, <1>3, <1>4, <1>5, <2>1 DEF TipoListas
<1>8. Largos'
  BY <1>1, <1>2, <1>3, <1>4 DEF Largos
<1>9. ASSUME NEW u \in Pestanas
      PROVE  (CampanaBien(u) /\ RespuestasBien(u) /\ SalaBien(u) /\ LoTachadoVa(u))'
  <2>1. CASE u # t
    BY <1>2, <1>3, <2>1, LosDemas
  <2>2. CASE u = t
    <3>0. CampanaBien(t) /\ RespuestasBien(t) /\ SalaBien(t) /\ LoTachadoVa(t)
      BY DEF CInv
    <3>1. CampanaBien(t)'
      BY <1>2, <1>3, <3>0 DEF CampanaBien
    <3>2. RespuestasBien(t)' /\ SalaBien(t)'
      BY <1>3, <3>0 DEF RespuestasBien, SalaBien, EnSala
    <3>3. LoTachadoVa(t)'
      <4>1. SUFFICES ASSUME t \notin fallidas, NEW i \in DOMAIN campana[t], campana'[t][i].leido, NEW n, n = campana[t][i].id
                     PROVE  PorArreglar(t, n)'
        BY <1>2, <1>3 DEF LoTachadoVa
      <4>2. CASE campana[t][i].leido
        <5>1. PorArreglar(t, n)
          BY <3>0, <4>1, <4>2 DEF LoTachadoVa
        <5>. QED
          BY <1>2, <1>3, <5>1 DEF PorArreglar
      <4>3. CASE n \in cuales
        BY <1>2, <4>3 DEF PorArreglar
      <4>. QED
        BY <1>2, <4>1, <4>2, <4>3
    <3>. QED
      BY <2>2, <3>1, <3>2, <3>3
  <2>. QED
    BY <2>1, <2>2
<1>. QED
  BY <1>6, <1>7, <1>8, <1>9, TipoPartes DEF CInv

LEMMA LeerTodosCampana == ASSUME CInv, NEW t \in Pestanas, MarcarTodos(t) PROVE CInv'
<1>1. Todos \in Avisos \cup {Todos} /\ Todos <= guardados
  BY TipoPartes DEF CInv, Todos, TipoResto
<1>2. Tacha(t, EnCampana(t), Todos)
  BY DEF MarcarTodos
<1>3. PICK cuales : cuales = EnCampana(t)
  OBVIOUS
<1>. QED
  BY <1>1, <1>2, <1>3, TachaCampana

LEMMA AbrirCampana == ASSUME CInv, NEW t \in Pestanas, NEW n \in Avisos, AbrirAviso(t, n) PROVE CInv'
<1>1. n <= guardados
  <2>1. n \in SinLeer(t) /\ CampanaBien(t)
    BY DEF AbrirAviso, CInv
  <2>. QED
    BY <2>1 DEF SinLeer, CampanaBien
<1>2. Tacha(t, {n}, n) /\ \A m \in {n} : m = n \/ n = Todos
  BY DEF AbrirAviso
<1>. QED
  BY <1>1, <1>2, TachaCampana

\* A mark reaches the server.
LEMMA ServirCampana ==
    ASSUME CInv, NEW t \in Pestanas, NEW que \in tachados[t], ServirTachado(t, que) PROVE CInv'
<1>1. TipoTiempoReal /\ TipoResto /\ TipoListas /\ Largos /\ CampanaBien(t)
  BY TipoPartes DEF CInv
<1>2. /\ tachados' = [tachados EXCEPT ![t] = @ \ {que}]
      /\ leidos' = leidos \cup (IF que = Todos THEN 1 .. guardados ELSE {que})
      /\ UNCHANGED <<varsTiempoReal, varsAvisos, campana, fallo, fallidas, adelantadas, listas, respuestas, llegando, cubierta>>
      /\ enlace' = enlace /\ guardados' = guardados /\ porEmitir' = porEmitir /\ deUnEnUno' = deUnEnUno
  BY DEF ServirTachado, varsTiempoReal, varsAvisos
<1>3. TipoTiempoReal'
  BY <1>1, <1>2, EnlaceTipo
<1>4. TipoResto'
  <2>1. que \in Avisos \cup {Todos} /\ que <= guardados
    BY <1>1 DEF TipoListas, CampanaBien
  <2>2. leidos' \subseteq 1 .. guardados
    BY <1>1, <1>2, <2>1, CampanaOK DEF TipoResto, Avisos, Todos
  <2>. QED
    BY <1>1, <1>2, <2>2 DEF TipoResto
<1>5. TipoListas' /\ Largos'
  BY <1>1, <1>2 DEF TipoListas, Largos
<1>6. leidos \subseteq leidos'
  BY <1>2
<1>7. ASSUME NEW u \in Pestanas
      PROVE  (CampanaBien(u) /\ RespuestasBien(u) /\ SalaBien(u) /\ LoTachadoVa(u))'
  <2>1. CASE u # t
    <3>1. tachados'[u] = tachados[u]
      BY <1>1, <1>2, <2>1 DEF TipoListas
    <3>. QED
      BY <1>2, <1>6, <3>1, LosDemas
  <2>2. CASE u = t
    <3>0. CampanaBien(t) /\ RespuestasBien(t) /\ SalaBien(t) /\ LoTachadoVa(t)
      BY DEF CInv
    <3>1. tachados'[t] = tachados[t] \ {que}
      BY <1>1, <1>2 DEF TipoListas
    <3>2. CampanaBien(t)'
      BY <1>2, <3>0, <3>1 DEF CampanaBien
    <3>3. RespuestasBien(t)' /\ SalaBien(t)'
      BY <1>2, <1>6, <3>0 DEF RespuestasBien, SalaBien, EnSala
    <3>4. LoTachadoVa(t)'
      <4>1. SUFFICES ASSUME t \notin fallidas, NEW i \in DOMAIN campana[t], campana[t][i].leido, NEW n, n = campana[t][i].id
                     PROVE  PorArreglar(t, n)'
        BY <1>2 DEF LoTachadoVa
      <4>2. PorArreglar(t, n) /\ n \in 1 .. guardados
        <5>1. PorArreglar(t, n)
          BY <3>0, <4>1 DEF LoTachadoVa
        <5>2. n \in Nat /\ n >= 1 /\ n <= guardados /\ guardados \in Nat
          BY <1>1, <4>1, DeCadaUna DEF CampanaBien, TipoResto
        <5>. QED
          BY <5>1, <5>2
      <4>3. CASE n \in tachados[t]
        <5>1. n = que => n \in leidos'
          BY <1>2, <4>2
        <5>. QED
          BY <1>2, <3>1, <4>3, <5>1 DEF PorArreglar
      <4>4. CASE Todos \in tachados[t]
        <5>1. que = Todos => n \in leidos'
          BY <1>2, <4>2
        <5>. QED
          BY <1>2, <3>1, <4>4, <5>1 DEF PorArreglar
      <4>5. CASE ~(n \in tachados[t] \/ Todos \in tachados[t])
        BY <1>2, <1>6, <4>2, <4>5 DEF PorArreglar
      <4>. QED
        BY <4>3, <4>4, <4>5
    <3>. QED
      BY <2>2, <3>2, <3>3, <3>4
  <2>. QED
    BY <2>1, <2>2
<1>. QED
  BY <1>3, <1>4, <1>5, <1>7, TipoPartes DEF CInv

\* A list is owed to t; what else changes is what it asked to mark, and the life of
\* the connection of who had nothing to read.
LEMMA PideCampana ==
    ASSUME CInv, TipoTiempoReal', NEW t \in Pestanas, NEW q \in SUBSET tachados[t],
           listas' = [listas EXCEPT ![t] = @ + 1],
           tachados' = [tachados EXCEPT ![t] = q],
           UNCHANGED <<varsAvisos, leidos, campana, fallo, fallidas, adelantadas, respuestas, llegando, cubierta>>,
           \A u \in Pestanas : u # t => enlace'[u] = enlace[u],
           \/ enlace'[t] = enlace[t]
           \/ enlace[t] # "sala" /\ llegando[t] = <<>>
    PROVE  CInv'
<1>1. TipoTiempoReal /\ TipoResto /\ TipoListas /\ Largos
  BY TipoPartes DEF CInv
<1>2. /\ guardados' = guardados /\ porEmitir' = porEmitir /\ deUnEnUno' = deUnEnUno
      /\ leidos' = leidos /\ campana' = campana /\ fallo' = fallo /\ fallidas' = fallidas
      /\ adelantadas' = adelantadas /\ respuestas' = respuestas /\ llegando' = llegando /\ cubierta' = cubierta
  BY DEF varsAvisos
<1>3. TipoResto' /\ TipoListas' /\ Largos'
  BY <1>1, <1>2 DEF TipoResto, TipoListas, Largos
<1>4. ASSUME NEW u \in Pestanas
      PROVE  (CampanaBien(u) /\ RespuestasBien(u) /\ SalaBien(u) /\ LoTachadoVa(u))'
  <2>1. CASE u # t
    <3>1. tachados'[u] = tachados[u] /\ listas'[u] = listas[u]
      BY <1>1, <2>1 DEF TipoListas
    <3>. QED
      BY <1>2, <2>1, <3>1, LosDemas
  <2>2. CASE u = t
    <3>0. CampanaBien(t) /\ RespuestasBien(t) /\ SalaBien(t) /\ LoTachadoVa(t)
      BY DEF CInv
    <3>1. tachados'[t] \subseteq tachados[t] /\ listas'[t] > 0
      BY <1>1 DEF TipoListas
    <3>2. CampanaBien(t)' /\ LoTachadoVa(t)'
      BY <1>2, <3>0, <3>1 DEF CampanaBien, LoTachadoVa, PorArreglar
    <3>3. RespuestasBien(t)' /\ SalaBien(t)'
      BY <1>2, <3>0 DEF RespuestasBien, SalaBien, EnSala
    <3>. QED
      BY <2>2, <3>2, <3>3
  <2>. QED
    BY <2>1, <2>2
<1>. QED
  BY <1>3, <1>4, TipoPartes DEF CInv

LEMMA TachadoFallidoCampana ==
    ASSUME CInv, NEW t \in Pestanas, NEW que \in tachados[t], TachadoFallido(t, que) PROVE CInv'
<1>1. TipoTiempoReal /\ TipoResto /\ TipoListas /\ Largos
  BY TipoPartes DEF CInv
<1>2. TipoTiempoReal' /\ enlace' = enlace
  BY <1>1, EnlaceTipo DEF TachadoFallido
<1>3. PICK q : q = tachados[t] \ {que}
  OBVIOUS
<1>4. q \in SUBSET tachados[t] /\ tachados' = [tachados EXCEPT ![t] = q]
  BY <1>3 DEF TachadoFallido
<1>. QED
  BY <1>2, <1>4, PideCampana DEF TachadoFallido

LEMMA ReintentarCampana == ASSUME CInv, NEW t \in Pestanas, ReintentarLista(t) PROVE CInv'
<1>1. TipoTiempoReal /\ TipoResto /\ TipoListas /\ Largos
  BY TipoPartes DEF CInv
<1>2. TipoTiempoReal' /\ enlace' = enlace
  BY <1>1, EnlaceTipo DEF ReintentarLista, varsTiempoReal
<1>3. PICK q : q = tachados[t]
  OBVIOUS
<1>4. q \in SUBSET tachados[t] /\ tachados' = [tachados EXCEPT ![t] = q]
  BY <1>1, <1>3 DEF ReintentarLista, TipoListas
<1>. QED
  BY <1>2, <1>4, PideCampana DEF ReintentarLista

LEMMA ConectaEnlace ==
    ASSUME TipoTiempoReal, NEW t \in Pestanas, Conecta(t) \/ ConectaSinPase(t)
    PROVE  /\ enlace[t] = "cortado" /\ enlace'[t] \in {"aceptado", "mudo"}
           /\ \A u \in Pestanas : u # t => enlace'[u] = enlace[u]
BY DEF TipoTiempoReal, Conecta, ConectaSinPase, Enlaza

LEMMA ConectarCampanaSigue == ASSUME CInv, NEW t \in Pestanas, ConectarCampana(t) PROVE CInv'
<1>1. TipoTiempoReal /\ TipoResto /\ TipoListas /\ Largos
  BY TipoPartes DEF CInv
<1>2. TipoTiempoReal'
  BY <1>1, EnlaceTipo DEF ConectarCampana
<1>3. enlace[t] = "cortado" /\ \A u \in Pestanas : u # t => enlace'[u] = enlace[u]
  BY <1>1, ConectaEnlace DEF ConectarCampana
<1>4. PICK q : q = tachados[t]
  OBVIOUS
<1>5. q \in SUBSET tachados[t] /\ tachados' = [tachados EXCEPT ![t] = q]
  BY <1>1, <1>4 DEF ConectarCampana, TipoListas
<1>. QED
  BY <1>2, <1>3, <1>5, PideCampana DEF ConectarCampana

\* Who is identified is in the room, and nothing is on its way to it.
LEMMA EnlaceEs ==
    ASSUME CInv, NEW t \in Pestanas, EnlaceDeCampana(t)
    PROVE  /\ enlace[t] \in {"aceptado", "mudo"} /\ enlace'[t] \in {"sala", "rechazado"}
           /\ llegando[t] = <<>> /\ t \notin EnSala
           /\ \A u \in Pestanas : u # t => enlace'[u] = enlace[u]
           /\ TipoTiempoReal'
<1>1. TipoTiempoReal /\ SalaBien(t)
  BY TipoPartes DEF CInv
<1>2. EntraEnSala(t) \/ Rechaza(t)
  BY DEF EnlaceDeCampana
<1>3. /\ enlace[t] \in {"aceptado", "mudo"} /\ enlace'[t] \in {"sala", "rechazado"}
      /\ \A u \in Pestanas : u # t => enlace'[u] = enlace[u]
  BY <1>1, <1>2 DEF EntraEnSala, Rechaza, Enlaza, TipoTiempoReal
<1>4. TipoTiempoReal'
  BY <1>1, <1>2, EnlaceTipo
<1>. QED
  BY <1>1, <1>3, <1>4 DEF SalaBien, EnSala

LEMMA EnlaceCampana == ASSUME CInv, NEW t \in Pestanas, EnlaceDeCampana(t) PROVE CInv'
<1>1. TipoTiempoReal /\ TipoResto /\ TipoListas /\ Largos
  BY TipoPartes DEF CInv
<1>2. /\ enlace[t] \in {"aceptado", "mudo"} /\ enlace'[t] \in {"sala", "rechazado"} /\ t \notin EnSala
      /\ \A u \in Pestanas : u # t => enlace'[u] = enlace[u]
      /\ TipoTiempoReal'
  BY EnlaceEs
<1>3. /\ guardados' = guardados /\ porEmitir' = porEmitir /\ deUnEnUno' = deUnEnUno
      /\ leidos' = leidos /\ campana' = campana /\ fallo' = fallo /\ fallidas' = fallidas
      /\ adelantadas' = adelantadas /\ listas' = listas /\ respuestas' = respuestas
      /\ llegando' = llegando /\ tachados' = tachados /\ cubierta' = cubierta
  BY DEF EnlaceDeCampana, varsAvisos
<1>4. TipoResto' /\ TipoListas' /\ Largos'
  BY <1>1, <1>3 DEF TipoResto, TipoListas, Largos
<1>5. ASSUME NEW u \in Pestanas
      PROVE  (CampanaBien(u) /\ RespuestasBien(u) /\ SalaBien(u) /\ LoTachadoVa(u))'
  <2>1. CASE u # t
    BY <1>2, <1>3, <2>1, LosDemas
  <2>2. CASE u = t
    <3>0. CampanaBien(t) /\ RespuestasBien(t) /\ SalaBien(t) /\ LoTachadoVa(t)
      BY DEF CInv
    <3>1. CampanaBien(t)' /\ LoTachadoVa(t)'
      BY <1>3, <3>0 DEF CampanaBien, LoTachadoVa, PorArreglar
    <3>2. RespuestasBien(t)'
      BY <1>2, <1>3, <3>0 DEF RespuestasBien
    <3>3. SalaBien(t)'
      BY <1>2, <1>3, <3>0 DEF SalaBien
    <3>. QED
      BY <2>2, <3>1, <3>2, <3>3
  <2>. QED
    BY <2>1, <2>2
<1>. QED
  BY <1>2, <1>4, <1>5, TipoPartes DEF CInv

\* A cut leaves some out of the room, and the lists of those count as read from
\* outside.
LEMMA CorteEs ==
    ASSUME CInv, CorteDeCampana
    PROVE  /\ TipoTiempoReal'
           /\ llegando' \in [Pestanas -> Seq(Avisos)]
           /\ respuestas' \in [Pestanas -> SUBSET Respuestas]
           /\ cubierta' \subseteq cubierta
           /\ \A u \in Pestanas :
                  /\ enlace'[u] = enlace[u] \/ enlace'[u] = "cortado"
                  /\ llegando'[u] = llegando[u] \/ llegando'[u] = <<>>
                  /\ enlace'[u] = "sala" => llegando'[u] = llegando[u]
                  /\ u \in cubierta' => u \in cubierta /\ enlace'[u] = "sala"
                  /\ enlace'[u] = "sala" => respuestas'[u] = respuestas[u]
                  /\ \A r \in respuestas'[u] : \E o \in respuestas[u] :
                         r.lista = o.lista /\ (r.dentro => enlace'[u] = "sala" /\ r = o)
                  /\ \A o \in respuestas[u] : \E r \in respuestas'[u] : r.lista = o.lista
<1>1. TipoTiempoReal /\ TipoResto /\ TipoListas /\ Largos
  BY TipoPartes DEF CInv
<1>2. /\ cubierta' = {t \in cubierta : enlace'[t] = "sala"}
      /\ respuestas' = [t \in Pestanas |->
                           IF enlace'[t] = "sala" THEN respuestas[t]
                           ELSE {[lista |-> r.lista, dentro |-> FALSE] : r \in respuestas[t]}]
  BY DEF CorteDeCampana
<1>3. /\ TipoTiempoReal' /\ llegando' \in [Pestanas -> Seq(Avisos)]
      /\ \A u \in Pestanas : /\ enlace'[u] = enlace[u] \/ enlace'[u] = "cortado"
                             /\ llegando'[u] = llegando[u] \/ llegando'[u] = <<>>
                             /\ enlace'[u] = "sala" => llegando'[u] = llegando[u]
  <2>1. ASSUME NEW t \in Pestanas, Corta(t), llegando' = [llegando EXCEPT ![t] = <<>>]
        PROVE  /\ TipoTiempoReal' /\ llegando' \in [Pestanas -> Seq(Avisos)]
               /\ \A u \in Pestanas : /\ enlace'[u] = enlace[u] \/ enlace'[u] = "cortado"
                                      /\ llegando'[u] = llegando[u] \/ llegando'[u] = <<>>
                                      /\ enlace'[u] = "sala" => llegando'[u] = llegando[u]
    <3>1. enlace' = [enlace EXCEPT ![t] = "cortado"]
      BY <2>1 DEF Corta
    <3>2. TipoTiempoReal'
      BY <1>1, <2>1, EnlaceTipo
    <3>. QED
      BY <1>1, <2>1, <3>1, <3>2 DEF TipoTiempoReal, TipoListas
  <2>2. ASSUME NEW r \in SUBSET conSesion, Desconecta(r), llegando' = llegando
        PROVE  /\ TipoTiempoReal' /\ llegando' \in [Pestanas -> Seq(Avisos)]
               /\ \A u \in Pestanas : /\ enlace'[u] = enlace[u] \/ enlace'[u] = "cortado"
                                      /\ llegando'[u] = llegando[u] \/ llegando'[u] = <<>>
                                      /\ enlace'[u] = "sala" => llegando'[u] = llegando[u]
    <3>1. TipoTiempoReal'
      <4>. USE TiempoRealOK DEF TipoTiempoReal
      <4>. QED
        BY <1>1, <2>2 DEF Desconecta, Enlaces
    <3>2. \A u \in Pestanas : enlace'[u] = enlace[u] \/ enlace'[u] = "cortado"
      BY <2>2 DEF Desconecta
    <3>. QED
      BY <1>1, <2>2, <3>1, <3>2 DEF TipoListas
  <2>. QED
    BY <2>1, <2>2 DEF CorteDeCampana
<1>4. ASSUME NEW u \in Pestanas
      PROVE  /\ respuestas'[u] \in SUBSET Respuestas
             /\ enlace'[u] = "sala" => respuestas'[u] = respuestas[u]
             /\ \A r \in respuestas'[u] : \E o \in respuestas[u] :
                    r.lista = o.lista /\ (r.dentro => enlace'[u] = "sala" /\ r = o)
             /\ \A o \in respuestas[u] : \E r \in respuestas'[u] : r.lista = o.lista
  <2>1. \A r \in respuestas[u] : r \in Respuestas /\ r.lista \in Seq(Vistos)
    BY <1>1, DeCadaUna
  <2>2. CASE enlace'[u] = "sala"
    <3>1. respuestas'[u] = respuestas[u]
      BY <1>2, <2>2
    <3>. QED
      BY <2>1, <2>2, <3>1
  <2>3. CASE enlace'[u] # "sala"
    <3>1. respuestas'[u] = {[lista |-> r.lista, dentro |-> FALSE] : r \in respuestas[u]}
      BY <1>2, <2>3
    <3>2. \A r \in respuestas[u] : [lista |-> r.lista, dentro |-> FALSE] \in Respuestas
      BY <2>1 DEF Respuestas
    <3>3. \A r \in respuestas'[u] : \E o \in respuestas[u] : r = [lista |-> o.lista, dentro |-> FALSE]
      BY <3>1
    <3>4. \A r \in respuestas'[u] : \E o \in respuestas[u] : r.lista = o.lista /\ ~r.dentro
      BY <3>3
    <3>5. \A o \in respuestas[u] : [lista |-> o.lista, dentro |-> FALSE] \in respuestas'[u]
      BY <3>1
    <3>. QED
      BY <2>3, <3>2, <3>3, <3>4, <3>5
  <2>. QED
    BY <2>2, <2>3
<1>5. respuestas' \in [Pestanas -> SUBSET Respuestas]
  BY <1>2, <1>4
<1>6. cubierta' \subseteq cubierta /\ \A u \in cubierta' : enlace'[u] = "sala"
  BY <1>2
<1>. QED
  BY <1>3, <1>4, <1>5, <1>6

LEMMA CorteCampana == ASSUME CInv, CorteDeCampana PROVE CInv'
<1>1. TipoTiempoReal /\ TipoResto /\ TipoListas /\ Largos
  BY TipoPartes DEF CInv
<1>2. /\ TipoTiempoReal'
      /\ llegando' \in [Pestanas -> Seq(Avisos)]
      /\ respuestas' \in [Pestanas -> SUBSET Respuestas]
      /\ cubierta' \subseteq cubierta
  BY CorteEs
<1>3. /\ guardados' = guardados /\ porEmitir' = porEmitir /\ deUnEnUno' = deUnEnUno
      /\ leidos' = leidos /\ campana' = campana /\ fallo' = fallo /\ fallidas' = fallidas
      /\ adelantadas' = adelantadas /\ listas' = listas /\ tachados' = tachados
  BY DEF CorteDeCampana, varsAvisos
<1>4. ASSUME NEW u \in Pestanas
      PROVE  /\ (CampanaBien(u) /\ RespuestasBien(u) /\ SalaBien(u) /\ LoTachadoVa(u))'
             /\ \A r \in respuestas'[u] : Len(r.lista) <= Limite
  <2>0. CampanaBien(u) /\ RespuestasBien(u) /\ SalaBien(u) /\ LoTachadoVa(u)
    BY DEF CInv
  <2>1. /\ enlace'[u] = enlace[u] \/ enlace'[u] = "cortado"
        /\ llegando'[u] = llegando[u] \/ llegando'[u] = <<>>
        /\ u \in cubierta' => u \in cubierta /\ enlace'[u] = "sala"
        /\ \A r \in respuestas'[u] : \E o \in respuestas[u] :
               r.lista = o.lista /\ (r.dentro => enlace'[u] = "sala" /\ r = o)
        /\ \A o \in respuestas[u] : \E r \in respuestas'[u] : r.lista = o.lista
    BY CorteEs
  <2>2. CampanaBien(u)'
    BY <1>3, <2>0, <2>1 DEF CampanaBien
  <2>3. RespuestasBien(u)' /\ \A r \in respuestas'[u] : Len(r.lista) <= Limite
    <3>1. ASSUME NEW r \in respuestas'[u]
          PROVE  /\ Ultimo(r.lista) \in 0 .. guardados
                 /\ EsVentana(r.lista, Ultimo(r.lista))
                 /\ \A i \in DOMAIN r.lista : r.lista[i].leido => r.lista[i].id \in leidos
                 /\ r.dentro => enlace'[u] = "sala"
                 /\ Len(r.lista) <= Limite
      <4>1. PICK o \in respuestas[u] : r.lista = o.lista /\ (r.dentro => enlace'[u] = "sala" /\ r = o)
        BY <2>1
      <4>. QED
        BY <1>1, <2>0, <4>1 DEF RespuestasBien, Largos
    <3>. QED
      BY <1>3, <3>1 DEF RespuestasBien, EnSala
  <2>4. SalaBien(u)'
    BY <2>0, <2>1 DEF SalaBien, EnSala
  <2>5. LoTachadoVa(u)'
    <3>1. \A n : PorArreglar(u, n) => PorArreglar(u, n)'
      <4>1. SUFFICES ASSUME NEW n, PorArreglar(u, n) PROVE PorArreglar(u, n)'
        OBVIOUS
      <4>2. (\E o \in respuestas[u] : n <= Ultimo(o.lista)) => \E r \in respuestas'[u] : n <= Ultimo(r.lista)
        BY <2>1
      <4>. QED
        BY <1>3, <4>1, <4>2 DEF PorArreglar
    <3>2. ASSUME u \notin fallidas, NEW i \in DOMAIN campana[u], campana[u][i].leido, NEW n, n = campana[u][i].id
          PROVE  PorArreglar(u, n)'
      BY <2>0, <3>1, <3>2 DEF LoTachadoVa
    <3>. QED
      BY <1>3, <3>2 DEF LoTachadoVa
  <2>. QED
    BY <2>2, <2>3, <2>4, <2>5
<1>5. TipoResto'
  BY <1>1, <1>2, <1>3 DEF TipoResto
<1>6. TipoListas'
  BY <1>1, <1>2, <1>3 DEF TipoListas
<1>7. Largos'
  BY <1>1, <1>3, <1>4 DEF Largos
<1>. QED
  BY <1>2, <1>4, <1>5, <1>6, <1>7, TipoPartes DEF CInv

LEMMA CampanaSigue == CInv /\ [NextCampana]_varsCampana => CInv'
<1> SUFFICES ASSUME CInv, [NextCampana]_varsCampana PROVE CInv'
  OBVIOUS
<1>1. CASE UNCHANGED varsCampana
  <2>1. TipoTiempoReal /\ TipoResto /\ TipoListas /\ Largos
    BY TipoPartes DEF CInv
  <2>2. /\ guardados' = guardados /\ porEmitir' = porEmitir /\ deUnEnUno' = deUnEnUno
        /\ leidos' = leidos /\ campana' = campana /\ fallo' = fallo /\ fallidas' = fallidas
        /\ adelantadas' = adelantadas /\ listas' = listas /\ respuestas' = respuestas
        /\ llegando' = llegando /\ tachados' = tachados /\ cubierta' = cubierta
        /\ enlace' = enlace /\ conSesion' = conSesion /\ cortes' = cortes /\ mudas' = mudas
    BY <1>1 DEF varsCampana, varsTiempoReal
  <2>3. TipoTiempoReal' /\ TipoResto' /\ TipoListas' /\ Largos'
    BY <2>1, <2>2 DEF TipoTiempoReal, TipoResto, TipoListas, Largos
  <2>4. \A u \in Pestanas : (CampanaBien(u) /\ RespuestasBien(u) /\ SalaBien(u) /\ LoTachadoVa(u))'
    BY <2>2, LosDemas
  <2>. QED
    BY <2>3, <2>4, TipoPartes DEF CInv
<1>2. CASE NextCampana
  BY <1>2, GuardarCampana, EmitirCampana, CorteCampana, LeerCampana, FallaCampana, ReintentarCampana,
     LlegaCampana, MostrarCampana, ConectarCampanaSigue, EnlaceCampana, LeerTodosCampana, AbrirCampana,
     ServirCampana, TachadoFallidoCampana DEF NextCampana
<1>. QED
  BY <1>1, <1>2

\* Every bell has notices that were saved, each once and no more than the twenty of a
\* list; every list on its way is of the last ones when it was read; and what is
\* shown as read is read, or being told, or a list is to come that puts it right.
THEOREM CampanaInvariante == SpecCampana => []CInv
BY CampanaEmpieza, CampanaSigue, PTL DEF SpecCampana

\* TipoCampana: neither the list nor the bell ever has more notices than LIMITE, and
\* nothing on its way is of a notice that was not created.
THEOREM CampanaTipos == SpecCampana => []TipoCampana
<1>1. CInv => TipoCampana
  BY DEF CInv
<1>. QED
  BY <1>1, CampanaInvariante, PTL

LEMMA LoTachadoCuadra == CInv => LoTachadoEstaLeido
<1> SUFFICES ASSUME CInv, NEW t \in Pestanas, EnCalma(t), t \notin fallidas,
                    NEW i \in DOMAIN campana[t], campana[t][i].leido
             PROVE  campana[t][i].id \in leidos
  BY DEF LoTachadoEstaLeido
<1>1. PorArreglar(t, campana[t][i].id)
  BY DEF CInv, LoTachadoVa
<1>. QED
  BY <1>1 DEF PorArreglar, EnCalma

-----------------------------------------------------------------------------
(* The bell: what it shows, in order.                                      *)

LEMMA ListaEs ==
    ASSUME NEW c \in Seq(Vistos)
    PROVE  /\ Len(c) \in Nat /\ DOMAIN c = 1 .. Len(c)
           /\ \A i \in DOMAIN c : i \in Nat /\ i >= 1 /\ c[i].id \in Nat /\ c[i].id >= 1
<1>1. Len(c) \in Nat /\ DOMAIN c = 1 .. Len(c)
  OBVIOUS
<1>2. \A i \in DOMAIN c : i \in Nat /\ i >= 1 /\ c[i] \in Vistos
  BY <1>1
<1>. QED
  BY <1>1, <1>2, VistosBien

\* The next notice of a bell that has not shown the list yet.
LEMMA SobreLlega ==
    ASSUME NEW c \in Seq(Vistos), NEW e \in Nat, NEW g \in Nat, Sobre(c, e, g), Len(c) <= Limite,
           NEW v \in Vistos, v.id = e + 1, NEW R,
           R = IF e + 1 \in {c[i].id : i \in DOMAIN c} THEN c ELSE Recorta(<<v>> \o c)
    PROVE  Sobre(R, e + 1, g)
<1>1. /\ Len(c) \in Nat /\ DOMAIN c = 1 .. Len(c)
      /\ \A i \in DOMAIN c : i \in Nat /\ i >= 1 /\ c[i].id \in Nat
  BY ListaEs
<1>2. Limite \in Nat /\ Limite >= 1
  BY CampanaOK
<1>3. CASE e + 1 \in {c[i].id : i \in DOMAIN c}
  <2>1. PICK j \in DOMAIN c : c[j].id = e + 1
    BY <1>3
  <2>2. e + 1 <= g
    BY <1>1, <2>1 DEF Sobre
  <2>3. \A i \in DOMAIN c : c[i].id <= g
    BY <2>2 DEF Sobre
  <2>4. R = c
    BY <1>3
  <2>. QED
    BY <2>2, <2>3, <2>4 DEF Sobre
<1>4. CASE e + 1 \notin {c[i].id : i \in DOMAIN c}
  <2>0. R = Recorta(<<v>> \o c)
    BY <1>4
  <2>1. /\ R \in Seq(Vistos)
        /\ Len(R) = IF Len(c) < Limite THEN Len(c) + 1 ELSE Limite
        /\ R[1] = v
        /\ \A k \in DOMAIN R : k # 1 => k - 1 \in DOMAIN c /\ R[k] = c[k - 1]
    BY <2>0, LlegaEs
  <2>2. Len(R) \in Nat /\ DOMAIN R = 1 .. Len(R) /\ Len(R) >= 1
    BY <1>1, <1>2, <2>1
  <2>3. CASE e + 1 <= g
    <3>1. \A i \in DOMAIN c : c[i].id <= g
      BY <2>3 DEF Sobre
    <3>2. \A k \in DOMAIN R : R[k].id <= g
      BY <2>1, <2>3, <3>1
    <3>. QED
      BY <2>3, <3>2 DEF Sobre
  <2>4. CASE e = g
    <3>1. \A i \in DOMAIN c : c[i].id <= g
      BY <2>4 DEF Sobre
    <3>2. \A k \in DOMAIN R : IF k + g <= e + 1 THEN R[k].id + k = (e + 1) + 1 ELSE R[k].id <= g
      <4> TAKE k \in DOMAIN R
      <4>1. CASE k = 1
        BY <2>1, <2>4, <4>1
      <4>2. CASE k # 1
        BY <2>1, <2>2, <2>4, <3>1, <4>2
      <4>. QED
        BY <4>1, <4>2
    <3>3. e + 1 <= Len(R) + g
      BY <2>2, <2>4
    <3>4. ~(e + 1 <= g)
      BY <2>4
    <3>. QED
      BY <3>2, <3>3, <3>4 DEF Sobre
  <2>5. CASE e > g
    <3>1. /\ Limite <= Len(c) \/ e <= Len(c) + g
          /\ \A i \in DOMAIN c : IF i + g <= e THEN c[i].id + i = e + 1 ELSE c[i].id <= g
      BY <2>5 DEF Sobre
    <3>2. \A k \in DOMAIN R : IF k + g <= e + 1 THEN R[k].id + k = (e + 1) + 1 ELSE R[k].id <= g
      <4> TAKE k \in DOMAIN R
      <4>1. CASE k = 1
        BY <2>1, <2>5, <4>1
      <4>2. CASE k # 1
        <5>5. k - 1 \in DOMAIN c /\ R[k] = c[k - 1]
          BY <2>1, <4>2
        <5>6. PICK x \in Nat : x = c[k - 1].id
          BY <1>1, <5>5
        <5>1. k - 1 \in DOMAIN c /\ R[k] = c[k - 1] /\ k \in Nat /\ c[k - 1].id \in Nat
          BY <2>2, <5>5, <5>6
        <5>2. IF (k - 1) + g <= e THEN c[k - 1].id + (k - 1) = e + 1 ELSE c[k - 1].id <= g
          BY <3>1, <5>1
        <5>3. (k - 1) + g <= e <=> k + g <= e + 1
          BY <5>1
        <5>7. x + (k - 1) = e + 1 => x + k = (e + 1) + 1
          BY ONLY <5>1, x \in Nat, e \in Nat
        <5>4. c[k - 1].id + (k - 1) = e + 1 => c[k - 1].id + k = (e + 1) + 1
          BY <5>6, <5>7
        <5>. QED
          BY <5>1, <5>2, <5>3, <5>4
      <4>. QED
        BY <4>1, <4>2
    <3>3. Limite <= Len(R) \/ e + 1 <= Len(R) + g
      BY <1>1, <1>2, <2>1, <3>1
    <3>4. ~(e + 1 <= g)
      BY <2>5
    <3>. QED
      BY <3>2, <3>3, <3>4 DEF Sobre
  <2>. QED
    BY <2>3, <2>4, <2>5
<1>. QED
  BY <1>3, <1>4

\* And a list of before, shown to it.
LEMMA SobreMuestra ==
    ASSUME NEW c \in Seq(Vistos), NEW e \in Nat, NEW g \in Nat, Sobre(c, e, g), Len(c) <= Limite,
           SinRepetir(c), NEW l \in Seq(Vistos), NEW h \in Nat, h = Ultimo(l), EsVentana(l, h), h <= g,
           NEW R, R = FundeLista(c, l)
    PROVE  Sobre(R, e, g)
<1>1. /\ Len(c) \in Nat /\ DOMAIN c = 1 .. Len(c)
      /\ \A i \in DOMAIN c : i \in Nat /\ i >= 1 /\ c[i].id \in Nat
  BY ListaEs
<1>2. Limite \in Nat /\ Limite >= 1
  BY CampanaOK
<1>3. \A i \in DOMAIN l : l[i].id \in Nat /\ l[i].id <= h
  BY VentanaEs
<1>4. Fundida(R, c, l, h)
  BY FundeEs
<1>5. /\ R \in Seq(Vistos) /\ Len(R) <= Limite /\ Len(R) >= Len(l)
      /\ \A k \in DOMAIN R : \/ \E i \in DOMAIN c : R[k] = c[i] /\ h < c[i].id
                             \/ \E i \in DOMAIN l : R[k] = l[i]
      /\ SinRepetir(R)
  BY <1>4 DEF Fundida
<1>6. /\ Len(R) \in Nat /\ DOMAIN R = 1 .. Len(R)
      /\ \A k \in DOMAIN R : k \in Nat /\ k >= 1 /\ R[k].id \in Nat
  BY <1>5, ListaEs
<1>7. CASE e <= g
  <2>1. \A i \in DOMAIN c : c[i].id <= g
    BY <1>7 DEF Sobre
  <2>2. \A i \in DOMAIN l : l[i].id <= g
    BY <1>3
  <2>3. \A k \in DOMAIN R : R[k].id <= g
    BY <1>5, <2>1, <2>2
  <2>. QED
    BY <1>7, <2>3 DEF Sobre
<1>8. CASE ~(e <= g)
  <2>1. /\ Limite <= Len(c) \/ e <= Len(c) + g
        /\ \A i \in DOMAIN c : IF i + g <= e THEN c[i].id + i = e + 1 ELSE c[i].id <= g
    BY <1>8 DEF Sobre
  <2>2. PICK m : m = IF Len(c) + g < e THEN Len(c) ELSE e - g
    OBVIOUS
  <2>3. /\ m \in 0 .. Len(c) /\ m \in Nat /\ m <= Len(c) /\ m + g <= e
        /\ m = Len(c) \/ m + g = e
    BY <1>1, <1>8, <2>2
  <2>4. ASSUME NEW i \in 1 .. m
        PROVE  i \in DOMAIN c /\ i + g <= e /\ c[i].id + i = e + 1 /\ h < c[i].id
    <3>0. i \in Nat /\ i >= 1 /\ i <= m
      BY <2>3
    <3>5. Len(c) \in Nat /\ DOMAIN c = 1 .. Len(c)
      BY <1>1
    <3>7. PICK n \in Nat : n = Len(c)
      BY <3>5
    <3>8. i \in Nat /\ i <= m /\ m <= n /\ m \in Nat
      BY <2>3, <3>0, <3>7
    <3>9. i <= n
      BY ONLY <3>8, n \in Nat
    <3>6. i <= Len(c)
      BY <3>7, <3>9
    <3>3. i \in DOMAIN c
      BY <3>0, <3>5, <3>6
    <3>4. i + g <= m + g
      BY <2>3, <3>0
    <3>1. i \in DOMAIN c /\ i \in Nat /\ i + g <= e
      BY <2>3, <3>0, <3>3, <3>4
    <3>2. c[i].id + i = e + 1 /\ c[i].id \in Nat
      BY <1>1, <2>1, <3>1
    <3>. QED
      BY <3>1, <3>2
  <2>5. m <= Len(R) /\ \A k \in 1 .. m : R[k] = c[k]
    BY <1>4, <2>3, <2>4 DEF Fundida
  <2>6. Limite <= Len(R) \/ e <= Len(R) + g
    BY <1>1, <1>2, <1>6, <1>8, <2>1, <2>2, <2>5
  <2>7. ASSUME NEW k \in DOMAIN R
        PROVE  IF k + g <= e THEN R[k].id + k = e + 1 ELSE R[k].id <= g
    <3>1. CASE k + g <= e
      <4>0. k \in Nat /\ k >= 1 /\ k <= Limite /\ k <= Len(R)
        BY <1>2, <1>5, <1>6
      <4>1. k \in 1 .. m
        <5>1. CASE m + g = e
          <6>1. k + g <= m + g
            BY <3>1, <5>1
          <6>2. k <= m
            BY <2>3, <4>0, <6>1
          <6>. QED
            BY <2>3, <4>0, <6>2
        <5>2. CASE m + g # e
          <6>1. m = Len(c) /\ ~(e <= Len(c) + g)
            BY <2>3, <5>2
          <6>2. Limite <= m
            BY <2>1, <6>1
          <6>. QED
            BY <1>2, <2>3, <4>0, <6>2
        <5>. QED
          BY <5>1, <5>2
      <4>. QED
        BY <2>4, <2>5, <3>1, <4>1
    <3>2. CASE ~(k + g <= e)
      <4>1. CASE \E i \in DOMAIN l : R[k] = l[i]
        BY <1>3, <1>6, <3>2, <4>1
      <4>2. ASSUME NEW j \in DOMAIN c, R[k] = c[j], h < c[j].id PROVE R[k].id <= g
        <5>1. CASE j \in 1 .. m
          <6>1. j \in DOMAIN R /\ R[j] = R[k]
            BY <1>6, <2>3, <2>5, <4>2, <5>1
          <6>2. j = k
            BY <1>5, <6>1 DEF SinRepetir
          <6>. QED
            BY <2>4, <3>2, <5>1, <6>2
        <5>2. CASE j \notin 1 .. m
          <6>3. j \in 1 .. Len(c) /\ Len(c) \in Nat /\ m \in Nat
            BY <1>1, <2>3
          <6>4. PICK n \in Nat : n = Len(c) /\ j \in 1 .. n
            BY <6>3
          <6>5. j \in Nat /\ j >= 1 /\ j <= n /\ ~(j <= m)
            BY ONLY <5>2, <6>3, <6>4
          <6>0. j \in Nat /\ j >= 1 /\ j <= Len(c) /\ ~(j <= m)
            BY <6>4, <6>5
          <6>2. m # Len(c) /\ m + g = e
            BY <2>3, <6>0
          <6>1. ~(j + g <= e)
            BY <2>3, <6>0, <6>2
          <6>. QED
            BY <2>1, <4>2, <6>1
        <5>. QED
          BY <5>1, <5>2
      <4>3. R[k].id <= g
        BY <1>5, <4>1, <4>2, <3>2, <1>3
      <4>. QED
        BY <3>2, <4>3
    <3>. QED
      BY <3>1, <3>2
  <2>. QED
    BY <1>8, <2>6, <2>7 DEF Sobre
<1>. QED
  BY <1>7, <1>8

\* The list itself, shown to it: the bell has then the last ones of those come, or
\* those of the list if it has some that had still to come.
LEMMA SobreMuestraSuya ==
    ASSUME NEW c \in Seq(Vistos), NEW e \in Nat, NEW g \in Nat, Sobre(c, e, g), Len(c) <= Limite,
           SinRepetir(c), NEW l \in Seq(Vistos), g = Ultimo(l), EsVentana(l, g),
           NEW R, R = FundeLista(c, l)
    PROVE  EsVentana(R, IF e <= g THEN g ELSE e)
<1>1. /\ Len(c) \in Nat /\ DOMAIN c = 1 .. Len(c)
      /\ \A i \in DOMAIN c : i \in Nat /\ i >= 1 /\ c[i].id \in Nat
  BY ListaEs
<1>2. Limite \in Nat /\ Limite >= 1
  BY CampanaOK
<1>3. /\ Len(l) \in Nat /\ DOMAIN l = 1 .. Len(l)
      /\ Len(l) = IF g < Limite THEN g ELSE Limite
      /\ \A i \in DOMAIN l : l[i].id \in Nat /\ l[i].id + i = g + 1
  BY VentanaEs DEF EsVentana
<1>4. Fundida(R, c, l, g)
  BY FundeEs
<1>5. /\ R \in Seq(Vistos) /\ Len(R) <= Limite /\ Len(R) \in Nat /\ DOMAIN R = 1 .. Len(R)
      /\ \A k \in DOMAIN R : R[k].id \in Nat /\ k \in Nat /\ k >= 1
      /\ \A k \in DOMAIN R : \/ \E i \in DOMAIN c : R[k] = c[i] /\ g < c[i].id
                             \/ \E i \in DOMAIN l : R[k] = l[i]
  BY <1>4, ListaEs DEF Fundida
<1>6. ASSUME NEW m \in Nat, m <= Len(c), \A i \in DOMAIN c : g < c[i].id <=> i <= m
      PROVE  /\ Len(R) = IF m + Len(l) < Limite THEN m + Len(l) ELSE Limite
             /\ \A k \in DOMAIN R : R[k] = IF k <= m THEN c[k] ELSE l[k - m]
  <2>1. m \in 0 .. Len(c)
    BY <1>1, <1>6
  <2>. QED
    BY <1>4, <1>6, <2>1 DEF Fundida
<1>7. CASE e <= g
  <2>1. \A i \in DOMAIN c : g < c[i].id <=> i <= 0
    BY <1>1, <1>7 DEF Sobre
  <2>2. /\ Len(R) = IF 0 + Len(l) < Limite THEN 0 + Len(l) ELSE Limite
        /\ \A k \in DOMAIN R : R[k] = IF k <= 0 THEN c[k] ELSE l[k - 0]
    BY <1>1, <1>6, <2>1
  <2>3. Len(R) = Len(l) /\ DOMAIN R = DOMAIN l
    BY <1>2, <1>3, <1>5, <2>2
  <2>4. \A k \in DOMAIN R : R[k] = l[k]
    BY <1>5, <2>2
  <2>5. EsVentana(R, g)
    BY <1>3, <2>3, <2>4 DEF EsVentana
  <2>. QED
    BY <1>7, <2>5
<1>8. CASE ~(e <= g)
  <2>1. /\ Limite <= Len(c) \/ e <= Len(c) + g
        /\ \A i \in DOMAIN c : IF i + g <= e THEN c[i].id + i = e + 1 ELSE c[i].id <= g
    BY <1>8 DEF Sobre
  <2>2. PICK n \in Nat : n = Len(c)
    BY <1>1
  <2>3. PICK p \in Nat : p = Len(l) /\ p = IF g < Limite THEN g ELSE Limite
    BY <1>3
  <2>4. PICK m \in Nat : m <= n /\ m + g <= e /\ (m = n \/ m + g = e)
    <3>1. CASE n + g < e
      <4>1. n <= n /\ n + g <= e
        BY <3>1
      <4>. QED
        BY <4>1
    <3>2. CASE ~(n + g < e)
      <4>1. e - g \in Nat /\ e - g <= n /\ (e - g) + g = e
        BY <1>8, <3>2
      <4>. QED
        BY <4>1
    <3>. QED
      BY <3>1, <3>2
  <2>5. m + g = e \/ (m = n /\ Limite <= m)
    BY <2>1, <2>2, <2>4
  <2>6. ASSUME NEW i \in DOMAIN c PROVE (g < c[i].id <=> i <= m) /\ (i <= m => c[i].id + i = e + 1)
    <3>1. i \in Nat /\ i >= 1 /\ i <= n /\ c[i].id \in Nat
      BY <1>1, <2>2
    <3>2. IF i + g <= e THEN c[i].id + i = e + 1 ELSE c[i].id <= g
      BY <2>1
    <3>3. CASE i <= m
      <4>1. i + g <= e
        BY <2>4, <3>1, <3>3
      <4>2. c[i].id + i = e + 1
        BY <3>2, <4>1
      <4>3. g < c[i].id
        BY <3>1, <4>1, <4>2
      <4>. QED
        BY <3>3, <4>2, <4>3
    <3>4. CASE ~(i <= m)
      <4>1. ~(i + g <= e)
        BY <2>4, <3>1, <3>4
      <4>2. c[i].id <= g
        BY <3>2, <4>1
      <4>. QED
        BY <3>1, <3>4, <4>2
    <3>. QED
      BY <3>3, <3>4
  <2>7. /\ Len(R) = IF m + p < Limite THEN m + p ELSE Limite
        /\ \A k \in DOMAIN R : R[k] = IF k <= m THEN c[k] ELSE l[k - m]
    BY <1>6, <2>2, <2>3, <2>4, <2>6
  <2>8. Len(R) = IF e < Limite THEN e ELSE Limite
    BY <1>2, <1>8, <2>3, <2>4, <2>5, <2>7
  <2>9. ASSUME NEW k \in DOMAIN R PROVE R[k].id + k = e + 1
    <3>1. k \in Nat /\ k >= 1 /\ k <= Limite /\ k <= Len(R)
      BY <1>2, <1>5
    <3>2. CASE k <= m
      <4>2. DOMAIN c = 1 .. n
        BY <1>1, <2>2
      <4>3. k <= n
        BY <2>4, <3>1, <3>2
      <4>1. k \in DOMAIN c
        BY <3>1, <4>2, <4>3
      <4>. QED
        BY <2>6, <2>7, <3>2, <4>1
    <3>3. CASE ~(k <= m)
      <4>1. m + g = e
        BY <1>2, <2>4, <2>5, <3>1, <3>3
      <4>2. k <= m + p
        BY <2>3, <2>4, <2>7, <3>1, <1>2
      <4>3. k - m \in 1 .. p
        BY <2>3, <2>4, <3>1, <3>3, <4>2
      <4>4. k - m \in DOMAIN l /\ R[k] = l[k - m]
        BY <1>3, <2>3, <2>7, <3>3, <4>3
      <4>5. R[k].id \in Nat /\ R[k].id + (k - m) = g + 1
        BY <1>3, <4>4
      <4>6. PICK x \in Nat : x = R[k].id /\ x + (k - m) = g + 1
        BY <4>5
      <4>8. /\ x \in Nat /\ k \in Nat /\ m \in Nat /\ g \in Nat /\ e \in Nat
            /\ x + (k - m) = g + 1 /\ m + g = e
        BY <3>1, <4>1, <4>6
      <4>9. x + k = (x + (k - m)) + m /\ (g + 1) + m = (m + g) + 1
        BY ONLY <4>8
      <4>7. x + k = e + 1
        BY ONLY <4>8, <4>9
      <4>. QED
        BY <4>6, <4>7
    <3>. QED
      BY <3>2, <3>3
  <2>. QED
    BY <1>8, <2>8, <2>9 DEF EsVentana
<1>. QED
  BY <1>7, <1>8

\* A bell that has the last ones of those come is as any list needs.
LEMMA VentanaSobre ==
    ASSUME NEW c \in Seq(Vistos), NEW e \in Nat, NEW g \in Nat, EsVentana(c, e)
    PROVE  Sobre(c, e, g)
<1>1. /\ Len(c) \in Nat /\ DOMAIN c = 1 .. Len(c)
      /\ \A i \in DOMAIN c : i \in Nat /\ c[i].id \in Nat /\ c[i].id + i = e + 1 /\ c[i].id <= e
      /\ Len(c) = IF e < Limite THEN e ELSE Limite
  BY VentanaEs DEF EsVentana
<1>2. Limite \in Nat
  BY CampanaOK
<1>. QED
  BY <1>1, <1>2 DEF Sobre

\* So is one with some that had still to come, for a list no older than those.
LEMMA MezclaSobre ==
    ASSUME NEW c \in Seq(Vistos), NEW e \in Nat, NEW g \in Nat, NEW p \in Nat, NEW h \in Nat,
           Mezclada(c, e, g, p), g <= h
    PROVE  Sobre(c, e, h)
<1>1. /\ \A i \in DOMAIN c : i \in Nat /\ i >= 1 /\ c[i].id \in Nat
      /\ e < g /\ \A i \in DOMAIN c : c[i].id + i = IF i <= p THEN e + 1 ELSE g + p + 1
  BY ListaEs DEF Mezclada
<1>2. \A i \in DOMAIN c : c[i].id <= g
  <2> TAKE i \in DOMAIN c
  <2>1. CASE i <= p
    BY <1>1, <2>1
  <2>2. CASE ~(i <= p)
    BY <1>1, <2>2
  <2>. QED
    BY <2>1, <2>2
<1>3. \A i \in DOMAIN c : c[i].id <= h
  BY <1>1, <1>2
<1>. QED
  BY <1>1, <1>3 DEF Sobre

\* The next notice, on one that has the last.
LEMMA VentanaLlega ==
    ASSUME NEW c \in Seq(Vistos), NEW e \in Nat, EsVentana(c, e), NEW v \in Vistos, v.id = e + 1, NEW R,
           R = IF e + 1 \in {c[i].id : i \in DOMAIN c} THEN c ELSE Recorta(<<v>> \o c)
    PROVE  EsVentana(R, e + 1)
<1>1. /\ Len(c) \in Nat /\ DOMAIN c = 1 .. Len(c) /\ Len(c) <= Limite
      /\ \A i \in DOMAIN c : i \in Nat /\ c[i].id \in Nat /\ c[i].id + i = e + 1 /\ c[i].id <= e
      /\ Len(c) = IF e < Limite THEN e ELSE Limite
  BY VentanaEs DEF EsVentana
<1>2. Limite \in Nat /\ Limite >= 1
  BY CampanaOK
<1>3. R = Recorta(<<v>> \o c)
  BY <1>1
<1>4. /\ R \in Seq(Vistos)
      /\ Len(R) = IF Len(c) < Limite THEN Len(c) + 1 ELSE Limite
      /\ R[1] = v
      /\ \A k \in DOMAIN R : k # 1 => k - 1 \in DOMAIN c /\ R[k] = c[k - 1]
  BY <1>1, <1>3, LlegaEs
<1>5. Len(R) = IF e + 1 < Limite THEN e + 1 ELSE Limite
  BY <1>1, <1>2, <1>4
<1>6. ASSUME NEW k \in DOMAIN R PROVE R[k].id + k = (e + 1) + 1
  <2>1. k \in Nat
    BY <1>4
  <2>2. CASE k = 1
    BY <1>4, <2>2
  <2>3. CASE k # 1
    <3>1. k - 1 \in DOMAIN c /\ R[k] = c[k - 1]
      BY <1>4, <2>3
    <3>2. PICK x \in Nat : x = c[k - 1].id /\ x + (k - 1) = e + 1
      BY <1>1, <3>1
    <3>3. x + k = (e + 1) + 1
      BY ONLY <2>1, <3>2, e \in Nat
    <3>. QED
      BY <3>1, <3>2, <3>3
  <2>. QED
    BY <2>2, <2>3
<1>. QED
  BY <1>5, <1>6 DEF EsVentana

\* And on one with some that had still to come.
LEMMA MezclaLlega ==
    ASSUME NEW c \in Seq(Vistos), NEW e \in Nat, NEW g \in Nat, NEW p \in 0 .. Limite,
           Mezclada(c, e, g, p), NEW v \in Vistos, v.id = e + 1, NEW R,
           R = IF e + 1 \in {c[i].id : i \in DOMAIN c} THEN c ELSE Recorta(<<v>> \o c)
    PROVE  EsVentana(R, e + 1) \/ \E q \in 0 .. Limite : Mezclada(R, e + 1, g, q)
<1>1. Limite \in Nat /\ Limite >= 1 /\ p \in Nat /\ p <= Limite
  BY CampanaOK
<1>2. PICK n \in Nat : n = Len(c) /\ DOMAIN c = 1 .. n
  BY ListaEs
<1>3. \A i \in DOMAIN c : i \in Nat /\ i >= 1 /\ i <= n /\ c[i].id \in Nat
  BY <1>2, ListaEs
<1>4. /\ e < g
      /\ p = 0 \/ (p <= e /\ e + 1 + Limite <= g + p)
      /\ n = IF g + p < Limite THEN g + p ELSE Limite
      /\ \A i \in DOMAIN c : c[i].id + i = IF i <= p THEN e + 1 ELSE g + p + 1
  BY <1>2 DEF Mezclada
<1>5. n <= Limite
  BY <1>1, <1>4
<1>6. ASSUME R = Recorta(<<v>> \o c)
      PROVE  /\ R \in Seq(Vistos)
             /\ Len(R) = IF n < Limite THEN n + 1 ELSE Limite
             /\ R[1].id = e + 1
             /\ \A k \in DOMAIN R : k \in Nat /\ (k # 1 => k - 1 \in DOMAIN c /\ R[k] = c[k - 1])
  <2>1. /\ R \in Seq(Vistos)
        /\ Len(R) = IF Len(c) < Limite THEN Len(c) + 1 ELSE Limite
        /\ R[1] = v
        /\ \A k \in DOMAIN R : k # 1 => k - 1 \in DOMAIN c /\ R[k] = c[k - 1]
    <3>1. Len(c) <= Limite
      BY <1>2, <1>5
    <3>. QED
      BY <1>6, <3>1, LlegaEs
  <2>2. \A k \in DOMAIN R : k \in Nat
    BY <2>1, ListaEs
  <2>. QED
    BY <1>2, <2>1, <2>2
<1>7. CASE p = 0
  <2>1. \A i \in DOMAIN c : c[i].id + i = g + 1
    BY <1>3, <1>4, <1>7
  <2>2. EsVentana(c, g)
    BY <1>2, <1>4, <1>7, <2>1 DEF EsVentana
  <2>3. CASE e + 1 \in {c[i].id : i \in DOMAIN c}
    <3>1. R = c
      BY <2>3
    <3>2. CASE e + 1 = g
      BY <2>2, <3>1, <3>2
    <3>3. CASE e + 1 # g
      <4>1. Mezclada(c, e + 1, g, 0)
        <5>1. e + 1 < g
          BY <1>4, <3>3
        <5>2. \A i \in DOMAIN c : c[i].id + i = IF i <= 0 THEN (e + 1) + 1 ELSE g + 0 + 1
          BY <1>3, <2>1
        <5>3. Len(c) = IF g + 0 < Limite THEN g + 0 ELSE Limite
          BY <1>2, <1>4, <1>7
        <5>. QED
          BY <5>1, <5>2, <5>3 DEF Mezclada
      <4>2. 0 \in 0 .. Limite
        BY <1>1
      <4>. QED
        BY <3>1, <4>1, <4>2
    <3>. QED
      BY <3>2, <3>3
  <2>4. CASE e + 1 \notin {c[i].id : i \in DOMAIN c}
    <3>1. R = Recorta(<<v>> \o c)
      BY <2>4
    <3>2. ~(g < (e + 1) + Limite)
      <4>1. SUFFICES ASSUME g < (e + 1) + Limite PROVE FALSE
        OBVIOUS
      <4>2. e + 1 \in Nat /\ e + 1 >= 1 /\ e + 1 <= g
        BY <1>4
      <4>3. g + 1 - (e + 1) \in DOMAIN c /\ c[g + 1 - (e + 1)].id = e + 1
        BY <2>2, <4>1, <4>2, VentanaEs
      <4>. QED
        BY <2>4, <4>3
    <3>3. n = Limite
      BY <1>1, <1>4, <1>7, <3>2
    <3>4. Mezclada(R, e + 1, g, 1)
      <4>1. e + 1 < g
        BY <1>1, <3>2
      <4>2. 1 <= e + 1 /\ (e + 1) + 1 + Limite <= g + 1
        BY <1>1, <3>2
      <4>3. Len(R) = IF g + 1 < Limite THEN g + 1 ELSE Limite
        BY <1>1, <1>6, <3>1, <3>2, <3>3
      <4>4. ASSUME NEW k \in DOMAIN R PROVE R[k].id + k = IF k <= 1 THEN (e + 1) + 1 ELSE g + 1 + 1
        <5>0. k \in Nat /\ R \in Seq(Vistos)
          BY <1>6, <3>1
        <5>3. k >= 1
          BY <5>0
        <5>1. CASE k = 1
          BY <1>6, <3>1, <5>1
        <5>2. CASE k # 1
          <6>1. k - 1 \in DOMAIN c /\ R[k] = c[k - 1]
            BY <1>6, <3>1, <5>2
          <6>2. c[k - 1].id \in Nat /\ c[k - 1].id + (k - 1) = g + 1
            BY <1>3, <2>1, <6>1
          <6>3. PICK x \in Nat : x = R[k].id /\ x + (k - 1) = g + 1
            BY <6>1, <6>2
          <6>5. k \in Nat /\ k >= 1 /\ k # 1 /\ x \in Nat /\ x + (k - 1) = g + 1
            BY <5>0, <5>2, <5>3, <6>3
          <6>4. x + k = g + 1 + 1 /\ ~(k <= 1)
            BY ONLY <6>5, g \in Nat
          <6>. QED
            BY <6>3, <6>4
        <5>. QED
          BY <5>1, <5>2
      <4>. QED
        BY <4>1, <4>2, <4>3, <4>4 DEF Mezclada
    <3>5. 1 \in 0 .. Limite
      BY <1>1
    <3>. QED
      BY <3>4, <3>5
  <2>. QED
    BY <2>3, <2>4
<1>8. CASE p # 0
  <2>1. p <= e /\ e + 1 + Limite <= g + p /\ p >= 1
    BY <1>1, <1>4, <1>8
  <2>2. n = Limite
    BY <1>1, <1>4, <2>1
  <2>3. ASSUME NEW i \in DOMAIN c PROVE c[i].id # e + 1
    <3>0. i \in Nat /\ i >= 1 /\ i <= Limite /\ c[i].id \in Nat
      BY <1>3, <2>2
    <3>1. CASE i <= p
      BY <1>4, <3>0, <3>1
    <3>2. CASE ~(i <= p)
      BY <1>1, <1>4, <2>1, <3>0, <3>2
    <3>. QED
      BY <3>1, <3>2
  <2>4. R = Recorta(<<v>> \o c)
    BY <2>3
  <2>5. Len(R) = Limite
    BY <1>6, <2>2, <2>4
  <2>6. ASSUME NEW k \in DOMAIN R PROVE R[k].id + k = IF k <= p + 1 THEN (e + 1) + 1 ELSE g + (p + 1) + 1
    <3>0. k \in Nat /\ R \in Seq(Vistos)
      BY <1>6, <2>4
    <3>1. k >= 1
      BY <3>0
    <3>2. CASE k = 1
      BY <1>1, <1>6, <2>4, <3>2
    <3>3. CASE k # 1
      <4>1. k - 1 \in DOMAIN c /\ R[k] = c[k - 1]
        BY <1>6, <2>4, <3>3
      <4>2. c[k - 1].id \in Nat /\ c[k - 1].id + (k - 1) = IF k - 1 <= p THEN e + 1 ELSE g + p + 1
        BY <1>3, <1>4, <4>1
      <4>3. CASE k - 1 <= p
        <5>1. c[k - 1].id + (k - 1) = e + 1
          BY <4>2, <4>3
        <5>2. k <= p + 1
          BY <1>1, <3>0, <4>3
        <5>3. PICK x \in Nat : x = R[k].id /\ x + (k - 1) = e + 1
          BY <4>1, <4>2, <5>1
        <5>5. x \in Nat /\ k \in Nat /\ e \in Nat /\ x + (k - 1) = e + 1
          BY <3>0, <5>3
        <5>4. x + k = (e + 1) + 1
          BY ONLY <5>5
        <5>. QED
          BY <5>2, <5>3, <5>4
      <4>4. CASE ~(k - 1 <= p)
        <5>1. c[k - 1].id + (k - 1) = g + p + 1
          BY <4>2, <4>4
        <5>2. ~(k <= p + 1)
          BY <1>1, <3>0, <4>4
        <5>3. PICK x \in Nat : x = R[k].id /\ x + (k - 1) = g + p + 1
          BY <4>1, <4>2, <5>1
        <5>5. x \in Nat /\ k \in Nat /\ g \in Nat /\ p \in Nat /\ x + (k - 1) = g + p + 1
          BY <1>1, <3>0, <5>3
        <5>4. x + k = g + (p + 1) + 1
          BY ONLY <5>5
        <5>. QED
          BY <5>2, <5>3, <5>4
      <4>. QED
        BY <4>3, <4>4
    <3>. QED
      BY <3>2, <3>3
  <2>7. CASE p < Limite
    <3>1. Mezclada(R, e + 1, g, p + 1)
      <4>1. e + 1 < g
        BY <1>1, <2>1, <2>7
      <4>2. p + 1 <= e + 1 /\ (e + 1) + 1 + Limite <= g + (p + 1)
        BY <1>1, <2>1
      <4>3. Len(R) = IF g + (p + 1) < Limite THEN g + (p + 1) ELSE Limite
        BY <1>1, <2>1, <2>5
      <4>. QED
        BY <2>6, <4>1, <4>2, <4>3 DEF Mezclada
    <3>2. p + 1 \in 0 .. Limite
      BY <1>1, <2>7
    <3>. QED
      BY <3>1, <3>2
  <2>8. CASE p = Limite
    <3>1. \A k \in DOMAIN R : R[k].id + k = (e + 1) + 1
      <4> TAKE k \in DOMAIN R
      <4>1. k \in Nat /\ k <= Limite
        BY <1>1, <1>6, <2>4, <2>5
      <4>. QED
        BY <1>1, <2>6, <2>8, <4>1
    <3>2. Len(R) = IF e + 1 < Limite THEN e + 1 ELSE Limite
      BY <1>1, <2>1, <2>5, <2>8
    <3>. QED
      BY <3>1, <3>2 DEF EsVentana
  <2>. QED
    BY <1>1, <2>7, <2>8
<1>. QED
  BY <1>7, <1>8

\* Sequences with the same notices serve the same.
LEMMA MismosNumeros ==
    ASSUME NEW c, NEW d, Len(d) = Len(c), DOMAIN d = DOMAIN c, \A i \in DOMAIN c : d[i].id = c[i].id
    PROVE  /\ \A e, g : Sobre(c, e, g) => Sobre(d, e, g)
           /\ \A e : EsVentana(c, e) => EsVentana(d, e)
           /\ \A e, g, p : Mezclada(c, e, g, p) => Mezclada(d, e, g, p)
<1>1. ASSUME NEW e, NEW g, Sobre(c, e, g) PROVE Sobre(d, e, g)
  BY <1>1 DEF Sobre
<1>2. ASSUME NEW e, EsVentana(c, e) PROVE EsVentana(d, e)
  BY <1>2 DEF EsVentana
<1>3. ASSUME NEW e, NEW g, NEW p, Mezclada(c, e, g, p) PROVE Mezclada(d, e, g, p)
  BY <1>3 DEF Mezclada
<1>. QED
  BY <1>1, <1>2, <1>3

\* What counts as in the room is of who is in it.
LEMMA EnSalaEs ==
    ASSUME CInv, NEW t \in Pestanas
    PROVE  /\ \A r \in respuestas[t] : r.dentro => enlace[t] = "sala"
           /\ t \in cubierta => enlace[t] = "sala"
           /\ t \in EnSala <=> enlace[t] = "sala"
BY DEF CInv, RespuestasBien, SalaBien, EnSala

\* What disturbs neither what is on its way to who is in the room nor what the bells
\* show.
LEMMA OrdenMarco ==
    ASSUME CInv, CInv', AInv,
           guardados' = guardados, porEmitir' = porEmitir, deUnEnUno' = deUnEnUno,
           \A u \in Pestanas : enlace'[u] = "sala" =>
               enlace[u] = "sala" /\ llegando'[u] = llegando[u] /\ respuestas'[u] = respuestas[u],
           \A u \in Pestanas : /\ Len(campana'[u]) = Len(campana[u]) /\ DOMAIN campana'[u] = DOMAIN campana[u]
                               /\ \A i \in DOMAIN campana[u] : campana'[u][i].id = campana[u][i].id,
           adelantadas' = adelantadas,
           \A u \in Pestanas : u \in cubierta' => u \in cubierta
    PROVE  AInv'
<1>1. ASSUME NEW u \in Pestanas
      PROVE  /\ enlace'[u] = "sala" => \A n \in 1 .. guardados : EnCamino(u, n) => EnCamino(u, n)'
             /\ \A r \in respuestas'[u] : r.dentro => enlace'[u] = "sala"
             /\ u \in cubierta' => enlace'[u] = "sala"
             /\ (u \in EnSala <=> enlace[u] = "sala") /\ (u \in EnSala' <=> enlace'[u] = "sala")
  <2>1. EnCampana(u)' = EnCampana(u)
    BY DEF EnCampana
  <2>2. /\ \A r \in respuestas'[u] : r.dentro => enlace'[u] = "sala"
        /\ u \in cubierta' => enlace'[u] = "sala"
    BY DEF CInv, RespuestasBien, SalaBien, EnSala
  <2>. QED
    BY <2>1, <2>2 DEF EnCamino, EnSala
<1>2. ASSUME NEW u \in Pestanas PROVE NadaFalta(u)'
  <2>1. NadaFalta(u)
    BY DEF AInv
  <2>. QED
    BY <1>1, <2>1 DEF NadaFalta
<1>3. ASSUME deUnEnUno PROVE DeUnoEnUno'
  <2>1. DeUnoEnUno
    BY <1>3 DEF AInv
  <2>2. Emitidos' = Emitidos
    BY DEF Emitidos
  <2>. QED
    BY <1>1, <2>1, <2>2 DEF DeUnoEnUno, EnSala
<1>4. ASSUME deUnEnUno, NEW u \in Pestanas PROVE LoMostrado(u)'
  <2>1. SUFFICES ASSUME enlace'[u] = "sala", u \notin adelantadas
                 PROVE  /\ \A r \in respuestas'[u] : r.dentro => Sobre(campana'[u], Llegado(u)', Ultimo(r.lista))
                        /\ u \in cubierta' => BienPuesta(u)' \/ PorDelante(u)'
    BY <1>1 DEF LoMostrado
  <2>2. Llegado(u)' = Llegado(u)
    BY <2>1 DEF Llegado, Emitidos
  <2>3. /\ \A r \in respuestas[u] : r.dentro => Sobre(campana[u], Llegado(u), Ultimo(r.lista))
        /\ u \in cubierta => BienPuesta(u) \/ PorDelante(u)
    BY <1>1, <1>4, <2>1 DEF AInv, LoMostrado
  <2>4. respuestas'[u] = respuestas[u]
    BY <2>1
  <2>5. PICK e : e = Llegado(u) /\ e = Llegado(u)'
    BY <2>2
  <2>6. PICK c, d : c = campana[u] /\ d = campana'[u]
    OBVIOUS
  <2>7. /\ \A x, g : Sobre(c, x, g) => Sobre(d, x, g)
        /\ \A x : EsVentana(c, x) => EsVentana(d, x)
        /\ \A x, g, p : Mezclada(c, x, g, p) => Mezclada(d, x, g, p)
    <3>1. Len(d) = Len(c) /\ DOMAIN d = DOMAIN c /\ \A i \in DOMAIN c : d[i].id = c[i].id
      BY <2>6
    <3>. QED
      BY <3>1, MismosNumeros
  <2>8. \A r \in respuestas'[u] : r.dentro => Sobre(campana'[u], Llegado(u)', Ultimo(r.lista))
    BY <2>3, <2>4, <2>5, <2>6, <2>7
  <2>9. BienPuesta(u) => BienPuesta(u)'
    BY <2>5, <2>6, <2>7 DEF BienPuesta
  <2>10. PorDelante(u) => PorDelante(u)'
    BY <2>4, <2>5, <2>6, <2>7 DEF PorDelante
  <2>. QED
    BY <2>3, <2>8, <2>9, <2>10
<1>. QED
  BY <1>2, <1>3, <1>4 DEF AInv

\* What a bell has is the same when nothing but marks changes in it.
LEMMA TachaMarco ==
    ASSUME CInv, CInv', AInv, NEW t \in Pestanas, NEW cuales, NEW que, Tacha(t, cuales, que) PROVE AInv'
<1>1. TipoListas
  BY TipoPartes DEF CInv
<1>2. \A u \in Pestanas : /\ Len(campana'[u]) = Len(campana[u]) /\ DOMAIN campana'[u] = DOMAIN campana[u]
                          /\ \A i \in DOMAIN campana[u] : campana'[u][i].id = campana[u][i].id
  <2> TAKE u \in Pestanas
  <2>1. CASE u = t
    BY <1>1, <2>1, TachaEs
  <2>2. CASE u # t
    <3>1. campana'[u] = campana[u]
      BY <1>1, <2>2, TachaEs
    <3>. QED
      BY <3>1
  <2>. QED
    BY <2>1, <2>2
<1>3. /\ enlace' = enlace /\ guardados' = guardados /\ porEmitir' = porEmitir /\ deUnEnUno' = deUnEnUno
      /\ llegando' = llegando /\ respuestas' = respuestas /\ adelantadas' = adelantadas /\ cubierta' = cubierta
  BY DEF Tacha, varsTiempoReal, varsAvisos
<1>. QED
  BY <1>2, <1>3, OrdenMarco

\* Nor does a request change what the bells show.
LEMMA PeticionMarco ==
    ASSUME CInv, CInv', AInv, campana' = campana, adelantadas' = adelantadas,
           UNCHANGED varsAvisos, llegando' = llegando, respuestas' = respuestas, cubierta' = cubierta,
           \A u \in Pestanas : enlace'[u] = "sala" => enlace[u] = "sala"
    PROVE  AInv'
BY OrdenMarco DEF varsAvisos

LEMMA CorteMarco == ASSUME CInv, CInv', AInv, CorteDeCampana PROVE AInv'
<1>1. \A u \in Pestanas :
          /\ enlace'[u] = "sala" => enlace[u] = "sala" /\ llegando'[u] = llegando[u] /\ respuestas'[u] = respuestas[u]
          /\ u \in cubierta' => u \in cubierta
  BY CorteEs
<1>2. /\ guardados' = guardados /\ porEmitir' = porEmitir /\ deUnEnUno' = deUnEnUno
      /\ campana' = campana /\ adelantadas' = adelantadas
  BY DEF CorteDeCampana, varsAvisos
<1>. QED
  BY <1>1, <1>2, OrdenMarco

LEMMA ConectarMarco == ASSUME CInv, CInv', AInv, NEW t \in Pestanas, ConectarCampana(t) PROVE AInv'
<1>1. TipoTiempoReal
  BY TipoPartes DEF CInv
<1>2. enlace[t] = "cortado" /\ enlace'[t] \in {"aceptado", "mudo"} /\ \A u \in Pestanas : u # t => enlace'[u] = enlace[u]
  BY <1>1, ConectaEnlace DEF ConectarCampana
<1>. QED
  BY <1>2, PeticionMarco DEF ConectarCampana

\* At the beginning.
LEMMA OrdenEmpieza == InitCampana => AInv
<1> SUFFICES ASSUME InitCampana PROVE AInv
  OBVIOUS
<1>1. ASSUME NEW t \in Pestanas PROVE NadaFalta(t) /\ LoMostrado(t) /\ t \notin EnSala
  BY DEF InitCampana, InitTiempoReal, NadaFalta, LoMostrado, EnSala
<1>2. DeUnoEnUno
  <2>1. porEmitir = {} /\ \A t \in EnSala : t \in Pestanas
    BY DEF InitCampana, EnSala
  <2>. QED
    BY <1>1, <2>1 DEF DeUnoEnUno
<1>. QED
  BY <1>1, <1>2 DEF AInv

\* Who is out of the room has nothing to miss; who is in it, nothing more than before if
\* all that was on its way to the bell still is.
LEMMA FaltaIgual ==
    ASSUME NEW u \in Pestanas, NadaFalta(u), CInv, CInv',
           guardados <= guardados',
           u \in EnSala' => /\ respuestas'[u] \subseteq respuestas[u]
                            /\ u \in cubierta' => u \in cubierta
                            /\ guardados' <= Limite =>
                                   /\ \A n \in 1 .. guardados : EnCamino(u, n) => EnCamino(u, n)'
                                   /\ \A n \in 1 .. guardados' : n \in 1 .. guardados \/ EnCamino(u, n)'
    PROVE  NadaFalta(u)'
<1>1. (\A r \in respuestas'[u] : r.dentro => u \in EnSala') /\ (u \in cubierta' => u \in EnSala')
  BY DEF CInv, RespuestasBien, SalaBien
<1>2. guardados \in Nat /\ guardados' \in Nat /\ Limite \in Nat
  BY CampanaOK DEF CInv, TipoCampana
<1>3. SUFFICES ASSUME guardados' <= Limite, u \in EnSala' PROVE NadaFalta(u)'
  BY <1>1 DEF NadaFalta
<1>4. guardados <= Limite
  BY <1>2, <1>3
<1>5. /\ \A r \in respuestas[u] : r.dentro => \A n \in 1 .. guardados : n <= Ultimo(r.lista) \/ EnCamino(u, n)
      /\ u \in cubierta => \A n \in 1 .. guardados : EnCamino(u, n)
  BY <1>4 DEF NadaFalta
<1>6. /\ respuestas'[u] \subseteq respuestas[u] /\ (u \in cubierta' => u \in cubierta)
      /\ \A n \in 1 .. guardados : EnCamino(u, n) => EnCamino(u, n)'
      /\ \A n \in 1 .. guardados' : n \in 1 .. guardados \/ EnCamino(u, n)'
  BY <1>3
<1>. QED
  BY <1>5, <1>6 DEF NadaFalta

\* A bell none of whose lists nor notices comes shows what it showed.
LEMMA OrdenIgual ==
    ASSUME NEW u \in Pestanas, LoMostrado(u), CInv, CInv', guardados <= guardados',
           u \in EnSala' => /\ u \in EnSala /\ Llegado(u)' = Llegado(u)
                            /\ respuestas'[u] = respuestas[u] /\ campana'[u] = campana[u]
                            /\ u \in cubierta' => u \in cubierta
                            /\ u \in adelantadas => u \in adelantadas'
    PROVE  LoMostrado(u)'
<1>1. guardados \in Nat /\ guardados' \in Nat
  BY DEF CInv, TipoCampana
<1>2. SUFFICES ASSUME u \in EnSala' \ adelantadas'
      PROVE  /\ \A r \in respuestas'[u] : r.dentro => Sobre(campana'[u], Llegado(u)', Ultimo(r.lista))
             /\ u \in cubierta' => BienPuesta(u)' \/ PorDelante(u)'
  BY DEF LoMostrado
<1>3. /\ Llegado(u)' = Llegado(u) /\ respuestas'[u] = respuestas[u] /\ campana'[u] = campana[u]
      /\ u \in cubierta' => u \in cubierta
  BY <1>2
<1>4. /\ \A r \in respuestas[u] : r.dentro => Sobre(campana[u], Llegado(u), Ultimo(r.lista))
      /\ u \in cubierta => BienPuesta(u) \/ PorDelante(u)
  BY <1>2 DEF LoMostrado
<1>5. PICK e : e = Llegado(u) /\ e = Llegado(u)'
  BY <1>3
<1>6. \A r \in respuestas'[u] : r.dentro => Sobre(campana'[u], Llegado(u)', Ultimo(r.lista))
  BY <1>3, <1>4, <1>5
<1>7. BienPuesta(u) => BienPuesta(u)'
  BY <1>3, <1>5 DEF BienPuesta
<1>8. PorDelante(u) => PorDelante(u)'
  <2>1. SUFFICES ASSUME PorDelante(u) PROVE PorDelante(u)'
    OBVIOUS
  <2>2. PICK g \in 0 .. guardados, p \in 0 .. Limite :
            Mezclada(campana[u], Llegado(u), g, p) /\ \A r \in respuestas[u] : g <= Ultimo(r.lista)
    BY <2>1 DEF PorDelante
  <2>3. g \in 0 .. guardados'
    BY <1>1
  <2>4. Mezclada(campana'[u], Llegado(u)', g, p)
    BY <1>3, <1>5, <2>2
  <2>5. \A r \in respuestas'[u] : g <= Ultimo(r.lista)
    BY <1>3, <2>2
  <2>. QED
    BY <2>3, <2>4, <2>5 DEF PorDelante
<1>. QED
  BY <1>3, <1>4, <1>6, <1>7, <1>8

LEMMA GuardarOrden == ASSUME CInv, CInv', AInv, GuardarAviso PROVE AInv'
<1>1. /\ guardados \in Nat /\ guardados' = guardados + 1 /\ porEmitir \subseteq 1 .. guardados
      /\ porEmitir' = porEmitir \cup {guardados + 1}
      /\ deUnEnUno \in BOOLEAN /\ deUnEnUno' = (deUnEnUno /\ porEmitir = {})
  BY DEF CInv, TipoCampana, GuardarAviso
<1>2. /\ enlace' = enlace /\ EnSala' = EnSala /\ campana' = campana /\ llegando' = llegando
      /\ respuestas' = respuestas /\ cubierta' = cubierta /\ adelantadas' = adelantadas
  BY DEF GuardarAviso, varsTiempoReal, EnSala
<1>3. ASSUME NEW u \in Pestanas PROVE NadaFalta(u)'
  <2>1. \A n \in 1 .. guardados : EnCamino(u, n) => EnCamino(u, n)'
    BY <1>1, <1>2 DEF EnCamino, EnCampana
  <2>2. \A n \in 1 .. guardados' : n \in 1 .. guardados \/ EnCamino(u, n)'
    BY <1>1 DEF EnCamino
  <2>3. NadaFalta(u) /\ guardados <= guardados'
    BY <1>1 DEF AInv
  <2>. QED
    BY <1>2, <2>1, <2>2, <2>3, FaltaIgual
<1>4. ASSUME deUnEnUno' = TRUE PROVE DeUnoEnUno' /\ \A u \in Pestanas : LoMostrado(u)'
  <2>1. deUnEnUno /\ porEmitir = {}
    BY <1>1, <1>4
  <2>2. Emitidos = guardados /\ Emitidos' = guardados
    BY <1>1, <2>1 DEF Emitidos
  <2>3. porEmitir' = {guardados'} /\ guardados' > 0
    BY <1>1, <2>1
  <2>4. DeUnoEnUno
    BY <2>1 DEF AInv
  <2>5. DeUnoEnUno'
    <3>1. PICK e : e = Emitidos /\ e = Emitidos'
      BY <2>2
    <3>2. \A t \in EnSala' : /\ Len(llegando'[t]) <= e
                             /\ \A i \in DOMAIN llegando'[t] : llegando'[t][i] + Len(llegando'[t]) = e + i
      BY <1>2, <2>4, <3>1 DEF DeUnoEnUno
    <3>. QED
      BY <2>3, <3>1, <3>2 DEF DeUnoEnUno
  <2>6. ASSUME NEW u \in Pestanas PROVE LoMostrado(u)'
    <3>1. Llegado(u)' = Llegado(u)
      BY <1>2, <2>2 DEF Llegado
    <3>2. LoMostrado(u) /\ guardados <= guardados'
      BY <1>1, <2>1 DEF AInv
    <3>. QED
      BY <1>2, <3>1, <3>2, OrdenIgual
  <2>. QED
    BY <2>5, <2>6
<1>5. deUnEnUno' \in BOOLEAN
  BY <1>1
<1>. QED
  BY <1>3, <1>4, <1>5 DEF AInv

LEMMA EmitirOrden == ASSUME CInv, CInv', AInv, NEW n \in Avisos, EmitirAviso(n) PROVE AInv'
<1>1. /\ guardados \in Nat /\ guardados' = guardados /\ porEmitir \subseteq 1 .. guardados
      /\ n \in porEmitir /\ porEmitir' = porEmitir \ {n} /\ n \in Nat
      /\ deUnEnUno \in BOOLEAN /\ deUnEnUno' = deUnEnUno
  BY DEF CInv, TipoCampana, EmitirAviso, Avisos
<1>2. /\ enlace' = enlace /\ EnSala' = EnSala /\ campana' = campana
      /\ respuestas' = respuestas /\ cubierta' = cubierta /\ adelantadas' = adelantadas
      /\ llegando' = [t \in Pestanas |-> IF t \in EnSala THEN Append(llegando[t], n) ELSE llegando[t]]
  BY DEF EmitirAviso, varsTiempoReal, EnSala
<1>3. ASSUME NEW u \in EnSala
      PROVE  /\ u \in Pestanas /\ llegando[u] \in Seq(Avisos) /\ Len(llegando[u]) \in Nat
             /\ Len(llegando'[u]) = Len(llegando[u]) + 1 /\ DOMAIN llegando'[u] = 1 .. Len(llegando[u]) + 1
             /\ DOMAIN llegando[u] = 1 .. Len(llegando[u])
             /\ \A i \in DOMAIN llegando[u] : llegando'[u][i] = llegando[u][i] /\ i \in DOMAIN llegando'[u]
             /\ llegando'[u][Len(llegando[u]) + 1] = n /\ Len(llegando[u]) + 1 \in DOMAIN llegando'[u]
  <2>1. u \in Pestanas
    BY DEF EnSala
  <2>2. llegando[u] \in Seq(Avisos)
    BY <2>1 DEF CInv, TipoCampana
  <2>3. PICK s \in Seq(Avisos) : s = llegando[u]
    BY <2>2
  <2>4. llegando'[u] = Append(s, n)
    BY <1>2, <2>1, <2>3
  <2>. QED
    BY <2>1, <2>3, <2>4
<1>4. ASSUME NEW u \in Pestanas PROVE NadaFalta(u)'
  <2>1. ASSUME u \in EnSala', NEW m \in 1 .. guardados, EnCamino(u, m) PROVE EnCamino(u, m)'
    <3>1. u \in EnSala
      BY <1>2, <2>1
    <3>2. CASE m \in EnCampana(u)
      BY <1>2, <3>2 DEF EnCamino, EnCampana
    <3>3. CASE \E i \in DOMAIN llegando[u] : llegando[u][i] = m
      BY <1>3, <3>1, <3>3 DEF EnCamino
    <3>4. CASE m \in porEmitir
      <4>1. CASE m = n
        BY <1>3, <3>1, <4>1 DEF EnCamino
      <4>2. CASE m # n
        BY <1>1, <3>4, <4>2 DEF EnCamino
      <4>. QED
        BY <4>1, <4>2
    <3>. QED
      BY <2>1, <3>2, <3>3, <3>4 DEF EnCamino
  <2>2. NadaFalta(u) /\ guardados <= guardados'
    BY <1>1 DEF AInv
  <2>3. \A m \in 1 .. guardados' : m \in 1 .. guardados
    BY <1>1
  <2>. QED
    BY <1>2, <2>1, <2>2, <2>3, FaltaIgual
<1>5. ASSUME deUnEnUno = TRUE PROVE DeUnoEnUno' /\ \A u \in Pestanas : LoMostrado(u)'
  <2>1. DeUnoEnUno
    BY <1>5 DEF AInv
  <2>2. porEmitir = {guardados} /\ n = guardados /\ guardados > 0
    BY <1>1, <2>1 DEF DeUnoEnUno
  <2>3. porEmitir' = {}
    BY <1>1, <2>2
  <2>4. Emitidos = guardados - 1 /\ Emitidos' = guardados
    BY <1>1, <2>2, <2>3 DEF Emitidos
  <2>5. ASSUME NEW t \in EnSala
        PROVE  /\ Len(llegando'[t]) <= guardados
               /\ \A i \in DOMAIN llegando'[t] : llegando'[t][i] + Len(llegando'[t]) = guardados + i
               /\ Llegado(t)' = Llegado(t)
    <3>1. PICK k \in Nat : k = Len(llegando[t])
      BY <1>3
    <3>2. k <= guardados - 1 /\ \A i \in DOMAIN llegando[t] : llegando[t][i] + k = guardados - 1 + i
      BY <2>1, <2>4, <3>1 DEF DeUnoEnUno
    <3>3. Len(llegando'[t]) = k + 1 /\ DOMAIN llegando'[t] = 1 .. k + 1 /\ DOMAIN llegando[t] = 1 .. k
      BY <1>3, <3>1
    <3>4. k + 1 <= guardados
      BY <1>1, <3>2
    <3>5. ASSUME NEW i \in 1 .. k + 1 PROVE llegando'[t][i] + (k + 1) = guardados + i
      <4>1. CASE i = k + 1
        <5>1. llegando'[t][i] = n
          BY <1>3, <3>1, <4>1
        <5>. QED
          BY <1>1, <2>2, <4>1, <5>1
      <4>2. CASE i # k + 1
        <5>1. i \in DOMAIN llegando[t]
          BY <3>3, <4>2
        <5>2. llegando'[t][i] = llegando[t][i] /\ llegando[t][i] + k = guardados - 1 + i /\ t \in Pestanas
          BY <1>3, <3>2, <5>1
        <5>3. llegando[t][i] \in Nat
          BY <5>1, <5>2, DeCadaUna, TipoPartes DEF CInv
        <5>. QED
          BY <1>1, <5>2, <5>3
      <4>. QED
        BY <4>1, <4>2
    <3>6. Llegado(t)' = guardados - (k + 1) /\ Llegado(t) = (guardados - 1) - k
      BY <2>4, <3>1, <3>3 DEF Llegado
    <3>. QED
      BY <1>1, <3>3, <3>4, <3>5, <3>6
  <2>6. DeUnoEnUno'
    <3>1. PICK e : e = guardados /\ e = Emitidos'
      BY <2>4
    <3>2. \A t \in EnSala' : /\ Len(llegando'[t]) <= e
                             /\ \A i \in DOMAIN llegando'[t] : llegando'[t][i] + Len(llegando'[t]) = e + i
      <4> TAKE t \in EnSala'
      <4>1. t \in EnSala
        BY <1>2
      <4>2. /\ Len(llegando'[t]) <= guardados
            /\ \A i \in DOMAIN llegando'[t] : llegando'[t][i] + Len(llegando'[t]) = guardados + i
        BY <2>5, <4>1
      <4>. QED
        BY <3>1, <4>2
    <3>. QED
      BY <2>3, <3>1, <3>2 DEF DeUnoEnUno
  <2>7. ASSUME NEW u \in Pestanas PROVE LoMostrado(u)'
    <3>1. u \in EnSala' => u \in EnSala /\ Llegado(u)' = Llegado(u)
      BY <1>2, <2>5
    <3>2. LoMostrado(u) /\ guardados <= guardados'
      BY <1>1, <1>5 DEF AInv
    <3>. QED
      BY <1>2, <3>1, <3>2, OrdenIgual
  <2>. QED
    BY <2>6, <2>7
<1>. QED
  BY <1>1, <1>4, <1>5 DEF AInv

LEMMA LeerOrden == ASSUME CInv, CInv', AInv, NEW t \in Pestanas, LeerLista(t) PROVE AInv'
<1>1. /\ guardados \in Nat /\ guardados' = guardados /\ porEmitir' = porEmitir /\ porEmitir \subseteq 1 .. guardados
      /\ deUnEnUno' = deUnEnUno /\ deUnEnUno \in BOOLEAN /\ TipoListas /\ TipoResto
  BY TipoPartes DEF CInv, TipoResto, LeerLista, varsAvisos
<1>2. /\ enlace' = enlace /\ EnSala' = EnSala /\ campana' = campana /\ llegando' = llegando
      /\ cubierta' = cubierta /\ adelantadas' = adelantadas
  BY DEF LeerLista, varsTiempoReal, EnSala
<1>3. PICK r0 : r0 = [lista |-> Listado, dentro |-> t \in EnSala]
  OBVIOUS
<1>4. /\ respuestas'[t] = respuestas[t] \cup {r0}
      /\ \A u \in Pestanas : u # t => respuestas'[u] = respuestas[u]
  BY <1>1, <1>3 DEF LeerLista, TipoListas
<1>5. Ultimo(r0.lista) = guardados
  BY <1>1, <1>3, ListadoEs
<1>6. Emitidos' = Emitidos /\ Emitidos \in Nat /\ Emitidos <= guardados
  BY <1>1 DEF Emitidos
<1>7. ASSUME NEW u \in Pestanas PROVE NadaFalta(u)' /\ Llegado(u)' = Llegado(u)
  <2>1. \A n \in 1 .. guardados : EnCamino(u, n) <=> EnCamino(u, n)'
    BY <1>1, <1>2 DEF EnCamino, EnCampana
  <2>2. NadaFalta(u)
    BY DEF AInv
  <2>3. Llegado(u)' = Llegado(u)
    BY <1>2, <1>6 DEF Llegado
  <2>4. \A r \in respuestas'[u] : r \in respuestas[u] \/ \A n \in 1 .. guardados : n <= Ultimo(r.lista)
    BY <1>1, <1>4, <1>5
  <2>5. NadaFalta(u)'
    BY <1>1, <1>2, <2>1, <2>2, <2>4 DEF NadaFalta
  <2>. QED
    BY <2>3, <2>5
<1>8. ASSUME deUnEnUno = TRUE PROVE DeUnoEnUno'
  <2>1. DeUnoEnUno
    BY <1>8 DEF AInv
  <2>2. PICK e : e = Emitidos /\ e = Emitidos'
    BY <1>6
  <2>. QED
    BY <1>1, <1>2, <2>1, <2>2 DEF DeUnoEnUno
<1>9. ASSUME deUnEnUno = TRUE, NEW u \in Pestanas PROVE LoMostrado(u)'
  <2>1. LoMostrado(u)
    BY <1>9 DEF AInv
  <2>2. CASE u # t
    <3>1. guardados <= guardados'
      BY <1>1
    <3>. QED
      BY <1>2, <1>4, <1>7, <2>1, <2>2, <3>1, OrdenIgual
  <2>3. CASE u = t
    <3>1. SUFFICES ASSUME t \in EnSala, t \notin adelantadas
          PROVE  /\ \A r \in respuestas'[t] : r.dentro => Sobre(campana'[t], Llegado(t)', Ultimo(r.lista))
                 /\ t \in cubierta' => BienPuesta(t)' \/ PorDelante(t)'
      BY <1>2, <2>3 DEF LoMostrado
    <3>2. /\ \A r \in respuestas[t] : r.dentro => Sobre(campana[t], Llegado(t), Ultimo(r.lista))
          /\ t \in cubierta => BienPuesta(t) \/ PorDelante(t)
      BY <2>1, <2>3, <3>1 DEF LoMostrado
    <3>3. PICK e : e = Llegado(t) /\ e = Llegado(t)'
      BY <1>7
    <3>4. Sobre(campana[t], e, guardados)
      <4>1. e <= guardados
        BY <1>1, <1>6, <3>3, DeCadaUna DEF Llegado
      <4>2. \A i \in DOMAIN campana[t] : campana[t][i].id <= guardados
        BY DEF CInv, CampanaBien
      <4>. QED
        BY <4>1, <4>2 DEF Sobre
    <3>5. \A r \in respuestas'[t] : r.dentro => Sobre(campana'[t], Llegado(t)', Ultimo(r.lista))
      BY <1>2, <1>4, <1>5, <3>2, <3>3, <3>4
    <3>6. BienPuesta(t) => BienPuesta(t)'
      BY <1>2, <3>3 DEF BienPuesta
    <3>7. PorDelante(t) => PorDelante(t)'
      <4>1. SUFFICES ASSUME PorDelante(t) PROVE PorDelante(t)'
        OBVIOUS
      <4>2. PICK g \in 0 .. guardados, p \in 0 .. Limite :
                Mezclada(campana[t], Llegado(t), g, p) /\ \A r \in respuestas[t] : g <= Ultimo(r.lista)
        BY <4>1 DEF PorDelante
      <4>3. Mezclada(campana'[t], Llegado(t)', g, p)
        BY <1>2, <3>3, <4>2
      <4>4. \A r \in respuestas'[t] : g <= Ultimo(r.lista)
        BY <1>1, <1>4, <1>5, <4>2
      <4>. QED
        BY <1>1, <4>3, <4>4 DEF PorDelante
    <3>. QED
      BY <1>2, <3>2, <3>5, <3>6, <3>7
  <2>. QED
    BY <2>2, <2>3
<1>. QED
  BY <1>1, <1>7, <1>8, <1>9 DEF AInv

\* One more in the room, that has been told nothing yet.
LEMMA EnlaceOrden == ASSUME CInv, CInv', AInv, NEW t \in Pestanas, EnlaceDeCampana(t) PROVE AInv'
<1>1. /\ enlace[t] \in {"aceptado", "mudo"} /\ llegando[t] = <<>> /\ t \notin EnSala
      /\ \A u \in Pestanas : u # t => enlace'[u] = enlace[u]
  BY EnlaceEs
<1>2. /\ guardados' = guardados /\ porEmitir' = porEmitir /\ deUnEnUno' = deUnEnUno /\ campana' = campana
      /\ llegando' = llegando /\ respuestas' = respuestas /\ cubierta' = cubierta /\ adelantadas' = adelantadas
  BY DEF EnlaceDeCampana, varsAvisos
<1>3. /\ guardados \in Nat /\ porEmitir \subseteq 1 .. guardados /\ deUnEnUno \in BOOLEAN
  BY DEF CInv, TipoCampana
<1>4. Emitidos' = Emitidos /\ Emitidos \in Nat
  BY <1>2, <1>3 DEF Emitidos
<1>5. (\A r \in respuestas[t] : r.dentro => t \in EnSala) /\ t \notin cubierta
  BY <1>1 DEF CInv, RespuestasBien, SalaBien
<1>6. ASSUME NEW u \in Pestanas
      PROVE  NadaFalta(u)' /\ Llegado(u)' = Llegado(u) /\ (u # t /\ u \in EnSala' => u \in EnSala)
  <2>1. \A n \in 1 .. guardados : EnCamino(u, n) <=> EnCamino(u, n)'
    BY <1>2 DEF EnCamino, EnCampana
  <2>2. NadaFalta(u)
    BY DEF AInv
  <2>3. NadaFalta(u)'
    BY <1>2, <2>1, <2>2 DEF NadaFalta
  <2>. QED
    BY <1>1, <1>2, <1>4, <2>3 DEF Llegado, EnSala
<1>7. ASSUME deUnEnUno = TRUE PROVE DeUnoEnUno'
  <2>1. DeUnoEnUno
    BY <1>7 DEF AInv
  <2>2. PICK e \in Nat : e = Emitidos /\ e = Emitidos'
    BY <1>4
  <2>3. \A u \in EnSala' : u \in EnSala \/ (u = t /\ llegando'[u] = <<>>)
    BY <1>1, <1>2, <1>6 DEF EnSala
  <2>4. \A u \in EnSala' : /\ Len(llegando'[u]) <= e
                           /\ \A i \in DOMAIN llegando'[u] : llegando'[u][i] + Len(llegando'[u]) = e + i
    BY <1>2, <2>1, <2>2, <2>3 DEF DeUnoEnUno
  <2>. QED
    BY <1>2, <2>1, <2>2, <2>4 DEF DeUnoEnUno
<1>8. ASSUME deUnEnUno = TRUE, NEW u \in Pestanas PROVE LoMostrado(u)'
  <2>1. LoMostrado(u) /\ guardados <= guardados'
    BY <1>2, <1>3, <1>8 DEF AInv
  <2>2. CASE u # t
    BY <1>2, <1>6, <2>1, <2>2, OrdenIgual
  <2>3. CASE u = t
    <3>1. (\A r \in respuestas'[t] : r.dentro = FALSE) /\ t \notin cubierta'
      <4>1. \A r \in respuestas[t] : r.dentro \in BOOLEAN
        BY DeCadaUna, TipoPartes DEF CInv
      <4>. QED
        BY <1>1, <1>2, <1>5, <4>1
    <3>. QED
      BY <2>3, <3>1 DEF LoMostrado
  <2>. QED
    BY <2>2, <2>3
<1>. QED
  BY <1>2, <1>3, <1>6, <1>7, <1>8 DEF AInv

\* As long as a list has room for all, a notice that comes takes none off.
LEMMA LlegaSinQuitar ==
    ASSUME CInv, NEW t \in Pestanas, LlegaAviso(t), guardados <= Limite,
           NEW m \in 1 .. guardados, EnCamino(t, m)
    PROVE  EnCamino(t, m)'
<1>1. PICK n : n = Head(llegando[t])
  OBVIOUS
<1>2. /\ n \in Avisos /\ n \in Nat /\ n <= guardados
      /\ \A i \in DOMAIN llegando[t] : \/ llegando[t][i] = n
                                       \/ \E j \in DOMAIN llegando'[t] : llegando'[t][j] = llegando[t][i]
      /\ campana'[t] = IF n \in EnCampana(t) THEN campana[t]
                       ELSE Recorta(<<Visto(n, FALSE)>> \o campana[t])
  <2>1. n \in Avisos /\ n \in Nat /\ n <= guardados
    BY <1>1, LlegaAvisoEs
  <2>2. \A i \in DOMAIN llegando[t] : \/ llegando[t][i] = n
                                     \/ \E j \in DOMAIN llegando'[t] : llegando'[t][j] = llegando[t][i]
    <3>1. /\ n = llegando[t][1] /\ Len(llegando'[t]) + 1 = Len(llegando[t]) /\ llegando'[t] \in Seq(Avisos)
          /\ \A i \in DOMAIN llegando'[t] : llegando'[t][i] = llegando[t][i + 1]
      BY <1>1, LlegaAvisoEs
    <3>2. llegando[t] \in Seq(Avisos)
      BY DEF CInv, TipoCampana
    <3>3. ASSUME NEW i \in DOMAIN llegando[t], i # 1
          PROVE  i - 1 \in DOMAIN llegando'[t] /\ llegando'[t][i - 1] = llegando[t][i]
      <4>1. i - 1 \in DOMAIN llegando'[t] /\ (i - 1) + 1 = i
        BY <3>1, <3>2, <3>3
      <4>. QED
        BY <3>1, <4>1
    <3>. QED
      BY <3>1, <3>3
  <2>3. campana'[t] = IF n \in EnCampana(t) THEN campana[t]
                      ELSE Recorta(<<Visto(n, FALSE)>> \o campana[t])
    BY <1>1, LlegaAvisoEs
  <2>. QED
    BY <2>1, <2>2, <2>3
<1>3. PICK c \in Seq(Vistos) : c = campana[t]
  BY DEF CInv, TipoCampana
<1>4. /\ Len(c) \in Nat /\ DOMAIN c = 1 .. Len(c) /\ guardados \in Nat
      /\ \A i \in DOMAIN c : c[i].id <= guardados /\ i \in Nat /\ i >= 1
      /\ \A i, j \in DOMAIN c : c[i].id = c[j].id => i = j
  BY <1>3, ListaEs DEF CInv, CampanaBien, TipoCampana
<1>5. ASSUME n \notin EnCampana(t)
      PROVE  /\ n \in EnCampana(t)'
             /\ \A i \in DOMAIN c : \E k \in DOMAIN campana'[t] : campana'[t][k] = c[i]
  <2>1. PICK v \in Vistos : v = Visto(n, FALSE)
    BY <1>2 DEF Vistos, Visto
  <2>2. v.id = n
    BY <2>1 DEF Visto
  <2>3. PICK T : T = <<v>> \o c
    OBVIOUS
  <2>4. /\ T \in Seq(Vistos) /\ Len(T) = Len(c) + 1 /\ DOMAIN T = 1 .. Len(c) + 1
        /\ T[1] = v
        /\ \A k \in 1 .. Len(c) : T[k + 1] = c[k]
    BY <2>3, Antepone
  <2>5. \A i \in DOMAIN T : i = 1 \/ (i - 1 \in DOMAIN c /\ T[i] = c[i - 1])
    <3> TAKE i \in DOMAIN T
    <3>1. CASE i = 1
      BY <3>1
    <3>2. CASE i # 1
      <4>1. i - 1 \in 1 .. Len(c)
        BY <1>4, <2>4, <3>2
      <4>2. T[(i - 1) + 1] = c[i - 1] /\ (i - 1) + 1 = i
        BY <2>4, <4>1
      <4>. QED
        BY <1>4, <4>1, <4>2
    <3>. QED
      BY <3>1, <3>2
  <2>6. \A i \in DOMAIN c : c[i].id # n
    BY <1>3, <1>5 DEF EnCampana
  <2>7. \A i \in DOMAIN T : T[i].id <= guardados
    BY <1>2, <1>4, <2>2, <2>4, <2>5
  <2>8. ASSUME NEW i \in DOMAIN T, NEW j \in DOMAIN T, T[i].id = T[j].id PROVE i = j
    <3>1. CASE i = 1 /\ j = 1
      BY <3>1
    <3>2. CASE i = 1 /\ j # 1
      BY <2>2, <2>4, <2>5, <2>6, <2>8, <3>2
    <3>3. CASE i # 1 /\ j = 1
      BY <2>2, <2>4, <2>5, <2>6, <2>8, <3>3
    <3>4. CASE i # 1 /\ j # 1
      <4>1. i - 1 \in DOMAIN c /\ j - 1 \in DOMAIN c /\ c[i - 1].id = c[j - 1].id
        BY <2>5, <2>8, <3>4
      <4>2. i - 1 = j - 1
        BY <1>4, <4>1
      <4>3. i \in Nat /\ j \in Nat
        BY <2>4
      <4>. QED
        BY <4>2, <4>3
    <3>. QED
      BY <3>1, <3>2, <3>3, <3>4
  <2>9. Len(T) <= guardados
    BY <1>4, <2>4, <2>7, <2>8, Caben
  <2>10. campana'[t] = Recorta(T)
    BY <1>2, <1>3, <1>5, <2>1, <2>3
  <2>11. Len(T) <= Limite /\ Limite \in Nat /\ Len(T) \in Nat
    BY <1>4, <2>4, <2>9, CampanaOK
  <2>12. /\ Recorta(T) \in Seq(Vistos) /\ Len(Recorta(T)) = Len(T)
         /\ \A k \in DOMAIN Recorta(T) : Recorta(T)[k] = T[k]
    BY <2>4, <2>11, RecortaEs
  <2>13. DOMAIN campana'[t] = DOMAIN T /\ \A k \in DOMAIN T : campana'[t][k] = T[k]
    BY <2>4, <2>10, <2>12
  <2>14. 1 \in DOMAIN T /\ \A i \in DOMAIN c : i + 1 \in DOMAIN T /\ T[i + 1] = c[i]
    BY <1>4, <2>4
  <2>. QED
    BY <2>2, <2>4, <2>13, <2>14 DEF EnCampana
<1>6. n \in EnCampana(t)' /\ (m \in EnCampana(t) => m \in EnCampana(t)')
  <2>1. CASE n \in EnCampana(t)
    BY <1>2, <2>1 DEF EnCampana
  <2>2. CASE n \notin EnCampana(t)
    BY <1>3, <1>5, <2>2 DEF EnCampana
  <2>. QED
    BY <2>1, <2>2
<1>7. porEmitir' = porEmitir
  BY DEF LlegaAviso, varsAvisos
<1>. QED
  BY <1>2, <1>6, <1>7 DEF EnCamino

LEMMA LlegaOrden == ASSUME CInv, CInv', AInv, NEW t \in Pestanas, LlegaAviso(t) PROVE AInv'
<1>1. /\ guardados \in Nat /\ guardados' = guardados /\ porEmitir' = porEmitir /\ porEmitir \subseteq 1 .. guardados
      /\ deUnEnUno' = deUnEnUno /\ deUnEnUno \in BOOLEAN
      /\ enlace' = enlace /\ EnSala' = EnSala /\ respuestas' = respuestas
      /\ cubierta' = cubierta /\ adelantadas' = adelantadas
  BY DEF CInv, TipoCampana, LlegaAviso, varsAvisos, varsTiempoReal, EnSala
<1>2. PICK n : n = Head(llegando[t])
  OBVIOUS
<1>3. /\ n \in Avisos /\ n \in Nat /\ n >= 1 /\ n <= guardados /\ n = llegando[t][1]
      /\ Len(llegando[t]) \in Nat /\ Len(llegando[t]) >= 1
      /\ llegando'[t] \in Seq(Avisos) /\ Len(llegando'[t]) + 1 = Len(llegando[t])
      /\ \A i \in DOMAIN llegando'[t] : i + 1 \in DOMAIN llegando[t] /\ llegando'[t][i] = llegando[t][i + 1]
      /\ campana'[t] = IF n \in EnCampana(t) THEN campana[t]
                       ELSE Recorta(<<Visto(n, FALSE)>> \o campana[t])
      /\ \A u \in Pestanas : u # t => llegando'[u] = llegando[u] /\ campana'[u] = campana[u]
  BY <1>2, LlegaAvisoEs
<1>4. Emitidos' = Emitidos /\ Emitidos \in Nat
  BY <1>1 DEF Emitidos
<1>5. ASSUME NEW u \in Pestanas PROVE NadaFalta(u)'
  <2>1. NadaFalta(u) /\ guardados <= guardados'
    BY <1>1 DEF AInv
  <2>2. ASSUME guardados' <= Limite, NEW m \in 1 .. guardados, EnCamino(u, m) PROVE EnCamino(u, m)'
    <3>1. CASE u = t
      BY <1>1, <2>2, <3>1, LlegaSinQuitar
    <3>2. CASE u # t
      BY <1>1, <1>3, <2>2, <3>2 DEF EnCamino, EnCampana
    <3>. QED
      BY <3>1, <3>2
  <2>3. \A m \in 1 .. guardados' : m \in 1 .. guardados
    BY <1>1
  <2>. QED
    BY <1>1, <2>1, <2>2, <2>3, FaltaIgual
<1>6. ASSUME deUnEnUno = TRUE PROVE DeUnoEnUno'
  <2>1. DeUnoEnUno
    BY <1>6 DEF AInv
  <2>2. PICK e \in Nat : e = Emitidos /\ e = Emitidos'
    BY <1>4
  <2>3. \A u \in EnSala : /\ Len(llegando[u]) <= e
                          /\ \A i \in DOMAIN llegando[u] : llegando[u][i] + Len(llegando[u]) = e + i
    BY <2>1, <2>2 DEF DeUnoEnUno
  <2>4. ASSUME NEW u \in EnSala
        PROVE  /\ Len(llegando'[u]) <= e
               /\ \A i \in DOMAIN llegando'[u] : llegando'[u][i] + Len(llegando'[u]) = e + i
    <3>1. u \in Pestanas
      BY DEF EnSala
    <3>2. CASE u # t
      BY <1>3, <2>3, <3>1, <3>2
    <3>3. CASE u = t
      <4>1. PICK k \in Nat : k = Len(llegando'[t]) /\ DOMAIN llegando'[t] = 1 .. k
        BY <1>3
      <4>2. Len(llegando[t]) = k + 1
        BY <1>3, <4>1
      <4>3. k + 1 <= e /\ \A i \in DOMAIN llegando[t] : llegando[t][i] + (k + 1) = e + i
        BY <2>3, <3>3, <4>2
      <4>4. ASSUME NEW i \in DOMAIN llegando'[t] PROVE llegando'[t][i] + k = e + i
        <5>1. llegando'[t][i] \in Nat
          <6>1. PICK s \in Seq(Avisos) : s = llegando'[t]
            BY <1>3
          <6>2. s[i] \in Avisos
            BY <4>4, <6>1
          <6>. QED
            BY <6>1, <6>2 DEF Avisos
        <5>2. llegando'[t][i] + (k + 1) = e + (i + 1) /\ i \in Nat
          BY <1>3, <4>1, <4>3
        <5>. QED
          BY <5>1, <5>2
      <4>5. k <= e
        BY <4>3
      <4>. QED
        BY <3>3, <4>1, <4>4, <4>5
    <3>. QED
      BY <3>2, <3>3
  <2>5. porEmitir' = {} \/ (guardados' > 0 /\ porEmitir' = {guardados'})
    BY <1>1, <2>1 DEF DeUnoEnUno
  <2>6. \A u \in EnSala' : /\ Len(llegando'[u]) <= e
                           /\ \A i \in DOMAIN llegando'[u] : llegando'[u][i] + Len(llegando'[u]) = e + i
    BY <1>1, <2>4
  <2>. QED
    BY <2>2, <2>5, <2>6 DEF DeUnoEnUno
<1>7. ASSUME deUnEnUno = TRUE, NEW u \in Pestanas PROVE LoMostrado(u)'
  <2>1. LoMostrado(u) /\ guardados <= guardados' /\ DeUnoEnUno
    BY <1>1, <1>7 DEF AInv
  <2>2. CASE u # t
    <3>1. Llegado(u)' = Llegado(u)
      BY <1>3, <1>4, <2>2 DEF Llegado
    <3>. QED
      BY <1>1, <1>3, <2>1, <2>2, <3>1, OrdenIgual
  <2>3. CASE u = t
    <3>1. SUFFICES ASSUME t \in EnSala, t \notin adelantadas
          PROVE  /\ \A r \in respuestas[t] : r.dentro => Sobre(campana'[t], Llegado(t)', Ultimo(r.lista))
                 /\ t \in cubierta => BienPuesta(t)' \/ PorDelante(t)'
      BY <1>1, <2>3 DEF LoMostrado
    <3>2. /\ \A r \in respuestas[t] : r.dentro => Sobre(campana[t], Llegado(t), Ultimo(r.lista))
          /\ t \in cubierta => BienPuesta(t) \/ PorDelante(t)
      BY <2>1, <2>3, <3>1 DEF LoMostrado
    <3>3. PICK e \in Nat : e = Llegado(t) /\ Llegado(t)' = e + 1 /\ n = e + 1
      <4>1. PICK k \in Nat : k = Len(llegando'[t]) /\ Len(llegando[t]) = k + 1
        BY <1>3
      <4>2. k + 1 <= Emitidos /\ n + (k + 1) = Emitidos + 1
        <5>1. 1 \in DOMAIN llegando[t]
          <6>1. llegando[t] \in Seq(Avisos)
            BY DEF CInv, TipoCampana
          <6>. QED
            BY <1>3, <6>1
        <5>. QED
          BY <1>3, <2>1, <3>1, <4>1, <5>1 DEF DeUnoEnUno
      <4>3. Llegado(t) = Emitidos - (k + 1) /\ Llegado(t)' = Emitidos - k
        BY <1>4, <4>1 DEF Llegado
      <4>4. Emitidos - (k + 1) \in Nat /\ Emitidos - k = (Emitidos - (k + 1)) + 1 /\ n = (Emitidos - (k + 1)) + 1
        BY <1>3, <1>4, <4>2
      <4>. QED
        BY <4>3, <4>4
    <3>4. PICK c \in Seq(Vistos) : c = campana[t] /\ Len(c) <= Limite
      BY DEF CInv, TipoCampana
    <3>5. PICK v \in Vistos : v = Visto(n, FALSE) /\ v.id = e + 1
      <4>1. Visto(n, FALSE) \in Vistos /\ Visto(n, FALSE).id = n
        BY <1>3 DEF Vistos, Visto
      <4>. QED
        BY <3>3, <4>1
    <3>6. PICK R : R = campana'[t]
      OBVIOUS
    <3>7. R = IF e + 1 \in {c[i].id : i \in DOMAIN c} THEN c ELSE Recorta(<<v>> \o c)
      <4>1. EnCampana(t) = {c[i].id : i \in DOMAIN c}
        BY <3>4 DEF EnCampana
      <4>2. R = IF n \in EnCampana(t) THEN c ELSE Recorta(<<v>> \o c)
        BY <1>3, <3>4, <3>5, <3>6
      <4>. QED
        BY <3>3, <4>1, <4>2
    <3>8. ASSUME NEW r \in respuestas[t], r.dentro PROVE Sobre(R, e + 1, Ultimo(r.lista))
      <4>1. Sobre(c, e, Ultimo(r.lista)) /\ Ultimo(r.lista) \in 0 .. guardados
        BY <3>2, <3>3, <3>4, <3>8 DEF CInv, RespuestasBien
      <4>2. PICK g \in Nat : g = Ultimo(r.lista)
        BY <1>1, <4>1
      <4>3. Sobre(R, e + 1, g)
        BY <3>4, <3>5, <3>7, <4>1, <4>2, SobreLlega
      <4>. QED
        BY <4>2, <4>3
    <3>9. ASSUME BienPuesta(t) PROVE BienPuesta(t)'
      <4>1. EsVentana(c, e)
        BY <3>3, <3>4, <3>9 DEF BienPuesta
      <4>2. EsVentana(R, e + 1)
        BY <3>5, <3>7, <4>1, VentanaLlega
      <4>. QED
        BY <3>3, <3>6, <4>2 DEF BienPuesta
    <3>10. ASSUME PorDelante(t) PROVE BienPuesta(t)' \/ PorDelante(t)'
      <4>1. PICK g \in 0 .. guardados, p \in 0 .. Limite :
                Mezclada(c, e, g, p) /\ \A r \in respuestas[t] : g <= Ultimo(r.lista)
        BY <3>3, <3>4, <3>10 DEF PorDelante
      <4>2. g \in Nat
        BY <1>1
      <4>3. EsVentana(R, e + 1) \/ \E q \in 0 .. Limite : Mezclada(R, e + 1, g, q)
        BY <3>5, <3>7, <4>1, <4>2, MezclaLlega
      <4>4. CASE EsVentana(R, e + 1)
        BY <3>3, <3>6, <4>4 DEF BienPuesta
      <4>5. CASE \E q \in 0 .. Limite : Mezclada(R, e + 1, g, q)
        <5>1. PICK q \in 0 .. Limite : Mezclada(R, e + 1, g, q)
          BY <4>5
        <5>2. Mezclada(campana'[t], Llegado(t)', g, q)
          BY <3>3, <3>6, <5>1
        <5>. QED
          BY <1>1, <4>1, <5>2 DEF PorDelante
      <4>. QED
        BY <4>3, <4>4, <4>5
    <3>11. \A r \in respuestas[t] : r.dentro => Sobre(campana'[t], Llegado(t)', Ultimo(r.lista))
      BY <3>3, <3>6, <3>8
    <3>. QED
      BY <3>2, <3>9, <3>10, <3>11
  <2>. QED
    BY <2>2, <2>3
<1>. QED
  BY <1>1, <1>5, <1>6, <1>7 DEF AInv

\* As long as a list has room for all, one that is shown takes none off.
LEMMA MuestraSinQuitar ==
    ASSUME CInv, NEW t \in Pestanas, NEW r \in respuestas[t], MostrarLista(t, r), guardados <= Limite,
           NEW m \in 1 .. guardados
    PROVE  /\ EnCamino(t, m) => EnCamino(t, m)'
           /\ m <= Ultimo(r.lista) => EnCamino(t, m)'
<1>1. PICK c \in Seq(Vistos) : c = campana[t] /\ Len(c) <= Limite
  BY DEF CInv, TipoCampana
<1>2. PICK l \in Seq(Vistos) : l = r.lista
  BY DeCadaUna, TipoPartes DEF CInv
<1>3. guardados \in Nat /\ Limite \in Nat
  BY CampanaOK DEF CInv, TipoCampana
<1>4. PICK g \in Nat : g = Ultimo(l) /\ EsVentana(l, g) /\ g <= guardados
  BY <1>2, <1>3 DEF CInv, RespuestasBien
<1>5. SinRepetir(c) /\ \A i \in DOMAIN c : c[i].id \in Nat /\ c[i].id <= Limite
  <2>1. \A i \in DOMAIN c : c[i].id <= guardados /\ c[i].id \in Nat
    BY <1>1, ListaEs DEF CInv, CampanaBien
  <2>. QED
    BY <1>1, <1>3, <2>1 DEF CInv, CampanaBien, SinRepetir
<1>6. PICK R : R = campana'[t] /\ R = FundeLista(c, l)
  BY <1>1, <1>2 DEF MostrarLista, CInv, TipoCampana
<1>7. Fundida(R, c, l, g)
  BY <1>1, <1>4, <1>5, <1>6, FundeEs
<1>8. /\ \A i \in DOMAIN c : g < c[i].id => \E k \in DOMAIN R : R[k] = c[i]
      /\ \A i \in DOMAIN l : \E k \in DOMAIN R : R[k] = l[i]
  BY <1>3, <1>4, <1>5, <1>7 DEF Fundida
<1>9. m <= g => m \in EnCampana(t)'
  <2>1. SUFFICES ASSUME m <= g PROVE m \in EnCampana(t)'
    OBVIOUS
  <2>2. g < m + Limite /\ m \in Nat /\ m >= 1
    BY <1>3, <1>4
  <2>3. g + 1 - m \in DOMAIN l /\ l[g + 1 - m].id = m
    <3>1. \A n \in Nat : n >= 1 /\ n <= g /\ g < n + Limite =>
              g + 1 - n \in DOMAIN l /\ l[g + 1 - n].id = n
      BY <1>4, VentanaEs
    <3>. QED
      BY <2>1, <2>2, <3>1
  <2>. QED
    BY <1>6, <1>8, <2>3 DEF EnCampana
<1>10. m \in EnCampana(t) => m \in EnCampana(t)'
  <2>1. SUFFICES ASSUME m \in EnCampana(t), ~(m <= g) PROVE m \in EnCampana(t)'
    BY <1>9
  <2>2. PICK i \in DOMAIN c : c[i].id = m
    BY <1>1, <2>1 DEF EnCampana
  <2>3. g < c[i].id
    BY <1>4, <2>1, <2>2
  <2>. QED
    BY <1>6, <1>8, <2>2, <2>3 DEF EnCampana
<1>11. llegando' = llegando /\ porEmitir' = porEmitir
  BY DEF MostrarLista, varsAvisos
<1>. QED
  BY <1>2, <1>4, <1>9, <1>10, <1>11 DEF EnCamino

LEMMA MostrarOrden ==
    ASSUME CInv, CInv', AInv, NEW t \in Pestanas, NEW r \in respuestas[t], MostrarLista(t, r) PROVE AInv'
<1>1. /\ guardados \in Nat /\ guardados' = guardados /\ porEmitir' = porEmitir /\ porEmitir \subseteq 1 .. guardados
      /\ deUnEnUno' = deUnEnUno /\ deUnEnUno \in BOOLEAN
      /\ enlace' = enlace /\ EnSala' = EnSala /\ llegando' = llegando
  BY DEF CInv, TipoCampana, MostrarLista, varsAvisos, varsTiempoReal, EnSala
<1>2. /\ respuestas'[t] = respuestas[t] \ {r}
      /\ \A u \in Pestanas : u # t => respuestas'[u] = respuestas[u] /\ campana'[u] = campana[u]
      /\ campana'[t] = FundeLista(campana[t], r.lista)
      /\ cubierta' = IF r.dentro THEN cubierta \cup {t} ELSE cubierta
      /\ adelantadas' = IF \E o \in respuestas[t] : Ultimo(o.lista) < Ultimo(r.lista)
                        THEN adelantadas \cup {t} ELSE adelantadas
  BY DEF CInv, TipoCampana, MostrarLista
<1>3. Emitidos' = Emitidos /\ Emitidos \in Nat
  BY <1>1 DEF Emitidos
<1>4. \A u \in Pestanas : Llegado(u)' = Llegado(u)
  BY <1>1, <1>3 DEF Llegado
<1>5. ASSUME NEW u \in Pestanas PROVE NadaFalta(u)'
  <2>1. NadaFalta(u) /\ guardados <= guardados'
    BY <1>1 DEF AInv
  <2>2. CASE u # t
    <3>1. \A m \in 1 .. guardados : EnCamino(u, m) => EnCamino(u, m)'
      BY <1>1, <1>2, <2>2 DEF EnCamino, EnCampana
    <3>2. (u \in cubierta' => u \in cubierta) /\ \A m \in 1 .. guardados' : m \in 1 .. guardados
      BY <1>1, <1>2, <2>2
    <3>. QED
      BY <1>1, <1>2, <2>1, <2>2, <3>1, <3>2, FaltaIgual
  <2>3. CASE u = t
    <3>1. SUFFICES ASSUME guardados <= Limite PROVE NadaFalta(t)'
      BY <1>1, <2>3 DEF NadaFalta
    <3>2. \A m \in 1 .. guardados : /\ EnCamino(t, m) => EnCamino(t, m)'
                                    /\ m <= Ultimo(r.lista) => EnCamino(t, m)'
      BY <3>1, MuestraSinQuitar
    <3>3. /\ \A o \in respuestas[t] : o.dentro => \A m \in 1 .. guardados : m <= Ultimo(o.lista) \/ EnCamino(t, m)
          /\ t \in cubierta => \A m \in 1 .. guardados : EnCamino(t, m)
      BY <2>1, <2>3, <3>1 DEF NadaFalta
    <3>4. \A o \in respuestas'[t] : o.dentro => \A m \in 1 .. guardados : m <= Ultimo(o.lista) \/ EnCamino(t, m)'
      BY <1>2, <3>2, <3>3
    <3>5. t \in cubierta' => \A m \in 1 .. guardados : EnCamino(t, m)'
      BY <1>2, <3>2, <3>3
    <3>. QED
      BY <1>1, <3>4, <3>5 DEF NadaFalta
  <2>. QED
    BY <2>2, <2>3
<1>6. ASSUME deUnEnUno = TRUE PROVE DeUnoEnUno'
  <2>1. DeUnoEnUno
    BY <1>6 DEF AInv
  <2>2. PICK e : e = Emitidos /\ e = Emitidos'
    BY <1>3
  <2>. QED
    BY <1>1, <2>1, <2>2 DEF DeUnoEnUno
<1>7. ASSUME deUnEnUno = TRUE, NEW u \in Pestanas PROVE LoMostrado(u)'
  <2>1. LoMostrado(u) /\ guardados <= guardados' /\ DeUnoEnUno
    BY <1>1, <1>7 DEF AInv
  <2>2. CASE u # t
    <3>1. (u \in cubierta' => u \in cubierta) /\ (u \in adelantadas => u \in adelantadas')
      BY <1>2, <2>2
    <3>. QED
      BY <1>1, <1>2, <1>4, <2>1, <2>2, <3>1, OrdenIgual
  <2>3. CASE u = t
    <3>1. SUFFICES ASSUME t \in EnSala, t \notin adelantadas'
          PROVE  /\ \A o \in respuestas'[t] : o.dentro => Sobre(campana'[t], Llegado(t)', Ultimo(o.lista))
                 /\ t \in cubierta' => BienPuesta(t)' \/ PorDelante(t)'
      BY <1>1, <2>3 DEF LoMostrado
    <3>2. t \notin adelantadas /\ \A o \in respuestas[t] : ~(Ultimo(o.lista) < Ultimo(r.lista))
      BY <1>2, <3>1
    <3>3. /\ \A o \in respuestas[t] : o.dentro => Sobre(campana[t], Llegado(t), Ultimo(o.lista))
          /\ t \in cubierta => BienPuesta(t) \/ PorDelante(t)
      BY <2>1, <2>3, <3>1, <3>2 DEF LoMostrado
    <3>4. PICK c \in Seq(Vistos) : c = campana[t] /\ Len(c) <= Limite
      BY DEF CInv, TipoCampana
    <3>5. PICK l \in Seq(Vistos) : l = r.lista
      BY DeCadaUna, TipoPartes DEF CInv
    <3>6. PICK g \in Nat : g = Ultimo(l) /\ EsVentana(l, g) /\ g <= guardados
      BY <1>1, <3>5 DEF CInv, RespuestasBien
    <3>7. SinRepetir(c)
      BY <3>4 DEF CInv, CampanaBien, SinRepetir
    <3>8. PICK R : R = campana'[t] /\ R = FundeLista(c, l)
      BY <1>2, <3>4, <3>5
    <3>9. PICK e \in Nat : e = Llegado(t) /\ e = Llegado(t)'
      <4>1. Len(llegando[t]) \in Nat /\ Len(llegando[t]) <= Emitidos
        BY <2>1, <3>1, DeCadaUna, TipoPartes DEF CInv, DeUnoEnUno
      <4>2. Llegado(t) \in Nat
        BY <1>3, <4>1 DEF Llegado
      <4>. QED
        BY <1>4, <4>2
    <3>10. \A o \in respuestas[t] : Ultimo(o.lista) \in Nat /\ g <= Ultimo(o.lista)
      <4>1. \A o \in respuestas[t] : Ultimo(o.lista) \in Nat
        BY <1>1 DEF CInv, RespuestasBien
      <4>. QED
        BY <3>2, <3>5, <3>6, <4>1
    <3>11. ASSUME NEW o \in respuestas'[t], o.dentro PROVE Sobre(R, e, Ultimo(o.lista))
      <4>1. o \in respuestas[t]
        BY <1>2
      <4>2. Sobre(c, e, Ultimo(o.lista)) /\ Ultimo(o.lista) \in Nat /\ g <= Ultimo(o.lista)
        BY <3>3, <3>4, <3>9, <3>10, <3>11, <4>1
      <4>3. PICK h \in Nat : h = Ultimo(o.lista)
        BY <4>2
      <4>4. Sobre(R, e, h)
        BY <3>4, <3>6, <3>7, <3>8, <4>2, <4>3, SobreMuestra
      <4>. QED
        BY <4>3, <4>4
    <3>12. ASSUME t \in cubierta' PROVE BienPuesta(t)' \/ PorDelante(t)'
      <4>1. Sobre(c, e, g)
        <5>1. CASE r.dentro
          BY <3>3, <3>4, <3>5, <3>6, <3>9, <5>1
        <5>2. CASE BienPuesta(t)
          <6>1. EsVentana(c, e)
            BY <3>4, <3>9, <5>2 DEF BienPuesta
          <6>. QED
            BY <6>1, VentanaSobre
        <5>3. CASE PorDelante(t)
          <6>1. PICK g0 \in 0 .. guardados, p \in 0 .. Limite :
                    Mezclada(c, e, g0, p) /\ \A o \in respuestas[t] : g0 <= Ultimo(o.lista)
            BY <3>4, <3>9, <5>3 DEF PorDelante
          <6>2. g0 \in Nat /\ p \in Nat /\ g0 <= g
            BY <1>1, <3>5, <3>6, <6>1, CampanaOK
          <6>. QED
            BY <6>1, <6>2, MezclaSobre
        <5>. QED
          BY <1>2, <3>3, <3>12, <5>1, <5>2, <5>3
      <4>2. EsVentana(R, IF e <= g THEN g ELSE e)
        BY <3>4, <3>6, <3>7, <3>8, <4>1, SobreMuestraSuya
      <4>3. CASE e < g
        <5>1. EsVentana(R, g)
          BY <4>2, <4>3
        <5>2. R \in Seq(Vistos)
          <6>1. Fundida(R, c, l, g)
            BY <3>4, <3>6, <3>7, <3>8, FundeEs
          <6>. QED
            BY <6>1 DEF Fundida
        <5>3. Mezclada(R, e, g, 0)
          <6>1. \A i \in DOMAIN R : i \in Nat /\ i >= 1 /\ R[i].id + i = g + 1
            BY <5>1, <5>2, VentanaEs, ListaEs
          <6>2. \A i \in DOMAIN R : R[i].id + i = IF i <= 0 THEN e + 1 ELSE g + 0 + 1
            BY <6>1
          <6>3. Len(R) = IF g + 0 < Limite THEN g + 0 ELSE Limite
            BY <5>1 DEF EsVentana
          <6>. QED
            BY <4>3, <6>2, <6>3 DEF Mezclada
        <5>4. Mezclada(campana'[t], Llegado(t)', g, 0)
          BY <3>8, <3>9, <5>3
        <5>5. g \in 0 .. guardados' /\ 0 \in 0 .. Limite
          BY <1>1, <3>6, CampanaOK
        <5>6. \A o \in respuestas'[t] : g <= Ultimo(o.lista)
          BY <1>2, <3>10
        <5>. QED
          BY <5>4, <5>5, <5>6 DEF PorDelante
      <4>4. CASE ~(e < g)
        <5>1. (IF e <= g THEN g ELSE e) = e
          BY <4>4
        <5>2. EsVentana(R, e)
          BY <4>2, <5>1
        <5>. QED
          BY <3>8, <3>9, <5>2 DEF BienPuesta
      <4>. QED
        BY <4>3, <4>4
    <3>13. \A o \in respuestas'[t] : o.dentro => Sobre(campana'[t], Llegado(t)', Ultimo(o.lista))
      BY <3>8, <3>9, <3>11
    <3>. QED
      BY <3>12, <3>13
  <2>. QED
    BY <2>2, <2>3
<1>. QED
  BY <1>1, <1>5, <1>6, <1>7 DEF AInv

LEMMA OrdenSigue == CInv /\ CInv' /\ AInv /\ [NextCampana]_varsCampana => AInv'
<1> SUFFICES ASSUME CInv, CInv', AInv, [NextCampana]_varsCampana PROVE AInv'
  OBVIOUS
<1>1. CASE GuardarAviso
  BY <1>1, GuardarOrden
<1>2. CASE \E n \in Avisos : EmitirAviso(n)
  BY <1>2, EmitirOrden
<1>3. CASE CorteDeCampana
  BY <1>3, CorteMarco
<1>4. ASSUME NEW t \in Pestanas, LeerLista(t) PROVE AInv'
  BY <1>4, LeerOrden
<1>5. ASSUME NEW t \in Pestanas, ListaFallida(t) \/ ReintentarLista(t) PROVE AInv'
  <2>1. /\ campana' = campana /\ adelantadas' = adelantadas /\ UNCHANGED varsAvisos
        /\ llegando' = llegando /\ respuestas' = respuestas /\ cubierta' = cubierta
        /\ \A u \in Pestanas : enlace'[u] = "sala" => enlace[u] = "sala"
    BY <1>5 DEF ListaFallida, ReintentarLista, varsTiempoReal
  <2>. QED
    BY <2>1, PeticionMarco
<1>6. ASSUME NEW t \in Pestanas, LlegaAviso(t) PROVE AInv'
  BY <1>6, LlegaOrden
<1>7. ASSUME NEW t \in Pestanas, NEW r \in respuestas[t], MostrarLista(t, r) PROVE AInv'
  BY <1>7, MostrarOrden
<1>8. ASSUME NEW t \in Pestanas, ConectarCampana(t) PROVE AInv'
  BY <1>8, ConectarMarco
<1>9. ASSUME NEW t \in Pestanas, EnlaceDeCampana(t) PROVE AInv'
  BY <1>9, EnlaceOrden
<1>10. ASSUME NEW t \in Pestanas, MarcarTodos(t) PROVE AInv'
  BY <1>10, TachaMarco DEF MarcarTodos
<1>11. ASSUME NEW t \in Pestanas, NEW n \in Avisos, AbrirAviso(t, n) PROVE AInv'
  BY <1>11, TachaMarco DEF AbrirAviso
<1>12. ASSUME NEW t \in Pestanas, NEW que \in tachados[t], ServirTachado(t, que) \/ TachadoFallido(t, que)
       PROVE  AInv'
  <2>1. /\ campana' = campana /\ adelantadas' = adelantadas /\ UNCHANGED varsAvisos
        /\ llegando' = llegando /\ respuestas' = respuestas /\ cubierta' = cubierta
        /\ \A u \in Pestanas : enlace'[u] = "sala" => enlace[u] = "sala"
    BY <1>12 DEF ServirTachado, TachadoFallido, varsTiempoReal
  <2>. QED
    BY <2>1, PeticionMarco
<1>13. CASE UNCHANGED varsCampana
  <2>1. /\ campana' = campana /\ adelantadas' = adelantadas /\ UNCHANGED varsAvisos
        /\ llegando' = llegando /\ respuestas' = respuestas /\ cubierta' = cubierta
        /\ \A u \in Pestanas : enlace'[u] = "sala" => enlace[u] = "sala"
    BY <1>13 DEF varsCampana, varsTiempoReal, varsAvisos
  <2>. QED
    BY <2>1, PeticionMarco
<1>. QED
  BY <1>1, <1>2, <1>3, <1>4, <1>5, <1>6, <1>7, <1>8, <1>9, <1>10, <1>11, <1>12, <1>13 DEF NextCampana

\* As long as a list has room for all the notices, none is missing of a bell and what is
\* on its way to it; created one at a time they come in order, and what a bell shows is
\* what cargar and the socket make of that order.
THEOREM CampanaEnOrden == SpecCampana => []AInv
<1>1. InitCampana => AInv
  BY OrdenEmpieza
<1>2. CInv /\ CInv' /\ AInv /\ [NextCampana]_varsCampana => AInv'
  BY OrdenSigue
<1>. QED
  BY <1>1, <1>2, CampanaInvariante, PTL DEF SpecCampana

\* The calm bell of a tab in its room has the last ones.
LEMMA AlDiaCuadra == CInv /\ AInv => LaCampanaAlDia
<1> SUFFICES ASSUME CInv, AInv, NEW t \in cubierta, deUnEnUno, EnCalma(t), porEmitir = {},
                    t \notin adelantadas \/ guardados <= Limite
             PROVE  {Listado[i].id : i \in DOMAIN Listado} = EnCampana(t)
  BY DEF LaCampanaAlDia
<1>1. /\ t \in Pestanas /\ guardados \in Nat /\ Limite \in Nat /\ TipoResto
  BY CampanaOK, TipoPartes DEF CInv, TipoCampana, TipoResto
<1>2. t \in EnSala /\ llegando[t] = <<>> /\ respuestas[t] = {}
  BY <1>1 DEF CInv, SalaBien, EnCalma
<1>3. PICK c \in Seq(Vistos) : c = campana[t]
  BY <1>1 DEF CInv, TipoCampana
<1>4. PICK l \in Seq(Vistos) : l = Listado
  BY <1>1, ListadoEs
<1>5. EsVentana(l, guardados) /\ Len(l) = IF guardados < Limite THEN guardados ELSE Limite
  BY <1>1, <1>4, ListadoEs DEF EsVentana
<1>6. CASE guardados <= Limite
  <2>1. \A n \in 1 .. guardados : n \in EnCampana(t)
    BY <1>1, <1>2, <1>6 DEF AInv, NadaFalta, EnCamino
  <2>2. \A n \in EnCampana(t) : n \in 1 .. guardados
    <3>1. \A i \in DOMAIN c : c[i].id \in Nat /\ c[i].id >= 1 /\ c[i].id <= guardados
      BY <1>1, <1>3, ListaEs DEF CInv, CampanaBien
    <3>. QED
      BY <1>1, <1>3, <3>1 DEF EnCampana
  <2>3. \A n \in 1 .. guardados : n \in {l[i].id : i \in DOMAIN l}
    <3> TAKE n \in 1 .. guardados
    <3>1. n \in Nat /\ n >= 1 /\ n <= guardados /\ guardados < n + Limite
      BY <1>1, <1>6
    <3>3. \A k \in Nat : k >= 1 /\ k <= guardados /\ guardados < k + Limite =>
              guardados + 1 - k \in DOMAIN l /\ l[guardados + 1 - k].id = k
      BY <1>1, <1>5, VentanaEs
    <3>2. guardados + 1 - n \in DOMAIN l /\ l[guardados + 1 - n].id = n
      BY <3>1, <3>3
    <3>. QED
      BY <3>2
  <2>4. \A i \in DOMAIN l : l[i].id \in 1 .. guardados
    <3>1. \A i \in DOMAIN l : l[i].id \in Nat /\ l[i].id >= 1 /\ l[i].id <= guardados
      BY <1>1, <1>5, ListaEs, VentanaEs
    <3>. QED
      BY <1>1, <3>1
  <2>. QED
    BY <1>4, <2>1, <2>2, <2>3, <2>4
<1>7. CASE t \notin adelantadas
  <2>1. BienPuesta(t) \/ PorDelante(t)
    BY <1>1, <1>2, <1>7 DEF AInv, LoMostrado
  <2>2. Llegado(t) = guardados
    BY <1>1, <1>2 DEF Llegado, Emitidos
  <2>3. ~PorDelante(t)
    BY <1>1, <2>2 DEF PorDelante, Mezclada
  <2>4. EsVentana(c, guardados)
    BY <1>3, <2>1, <2>2, <2>3 DEF BienPuesta
  <2>5. DOMAIN c = DOMAIN l
    <3>1. Len(c) = Len(l)
      BY <1>5, <2>4 DEF EsVentana
    <3>. QED
      BY <3>1, ListaEs
  <2>6. \A i \in DOMAIN c : c[i].id = l[i].id
    <3> TAKE i \in DOMAIN c
    <3>1. i \in Nat /\ c[i].id \in Nat /\ l[i].id \in Nat
      BY <2>5, ListaEs
    <3>2. c[i].id + i = guardados + 1 /\ l[i].id + i = guardados + 1
      BY <1>5, <2>4, <2>5 DEF EsVentana
    <3>. QED
      BY <1>1, <3>1, <3>2
  <2>. QED
    BY <1>3, <1>4, <2>5, <2>6 DEF EnCampana
<1>. QED
  BY <1>6, <1>7

\* LaCampanaCuadra: a bell that has shown a list read from its room ends up with the last
\* notices of the table, as far as LaCampanaAlDia says, and what it shows as read is read
\* for the server: for any number of tabs, notices, lists, cuts and calls that fail.
THEOREM SiempreCuadraLaCampana == SpecCampana => []LaCampanaCuadra
<1>1. CInv /\ AInv => LaCampanaCuadra
  BY AlDiaCuadra, LoTachadoCuadra DEF LaCampanaCuadra
<1>. QED
  BY <1>1, CampanaInvariante, CampanaEnOrden, PTL
=============================================================================
