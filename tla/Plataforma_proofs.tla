-------------------------- MODULE Plataforma_proofs --------------------------
(***************************************************************************)
(* The four parts of the backend that share no state: the brake on wrong   *)
(* passwords, the copy of the tree of categories, the budget of the        *)
(* language model and the life of a service; and all of them together, as  *)
(* they are run.                                                           *)
(*                                                                         *)
(* The brake and the budget are about sums over instances and over         *)
(* questions.  A sum is defined by recursion, and what a recursion         *)
(* computes cannot be proved here for every set; so the invariants do not  *)
(* compute the sums, they say that there are some: a function from the     *)
(* subsets to the naturals that grows by the count of each member.  Init   *)
(* gives the one that is zero, and each step the one that follows.         *)
(***************************************************************************)
EXTENDS MCPlataforma, FiniteSetTheorems, TLAPS

-----------------------------------------------------------------------------
(* The brake on wrong passwords.                                           *)

Comparan == {a \in Intentos : EnFreno(a, "compara")}
Anotan == {a \in Intentos : EnFreno(a, "anota")}

\* The attempts of some instances, and those that were let pass.
De(S) == {a \in Intentos : Instancia(a) \in S}
Pasados(S) == {a \in De(S) : intento[a].etapa \in {"compara", "anota"}}

\* A count that is not zero has time left; without Redis there is no key.
CuentasVivas ==
    /\ clave.fallos > 0 => clave.queda > 0
    /\ \A i \in Instancias : enMemoria[i].fallos > 0 => enMemoria[i].queda > 0
    /\ ~conRedis => clave.fallos = 0 /\ SinCaducar = {}

\* A key without expiry has a failure for each attempt that has yet to give it one
\* and for each that Redis did not answer.
LlaveSinCaducidad ==
    (clave.fallos > 0 /\ clave.queda = SinCaducidad) =>
        clave.fallos <= caidasRedis + Cardinality(SinCaducar)

\* With Redis, what was found wrong is in the key, or about to be, or went
\* unanswered; and who is comparing was let pass for one of the same reasons.
ContadoEnRedis ==
    conRedis =>
        /\ falladas <= clave.fallos + caidasRedis + Cardinality(Anotan)
        /\ falladas + Cardinality(Comparan) <= Maximo - 1 + caidasRedis + Cardinality(Intentos)

\* suma is the sum of the counts in memory of any instances: it is not computed, it
\* is known to exist, and with it the sums grow and shrink with each count.
EsSuma(suma) ==
    /\ suma \in [SUBSET Instancias -> Nat]
    /\ \A S \in SUBSET Instancias : \A i \in S : suma[S] = suma[S \ {i}] + enMemoria[i].fallos
    /\ \A S \in SUBSET Instancias : \A T \in SUBSET S : suma[T] <= suma[S]

\* Without it, no instances have let pass more than the brake of each and one more
\* for each attempt, and what was found wrong is in some memory, or about to be.
Contado(suma) ==
    /\ \A S \in SUBSET Instancias :
         suma[S] + Cardinality(Pasados(S)) <= Cardinality(S) * (Maximo - 1) + Cardinality(De(S))
    /\ falladas <= suma[Instancias] + Cardinality(Anotan)

ContadoEnMemoria == ~conRedis => \E suma : EsSuma(suma) /\ Contado(suma)

IInvFreno ==
    /\ TipoFreno
    /\ CuentasVivas
    /\ LlaveSinCaducidad
    /\ ContadoEnRedis
    /\ ContadoEnMemoria

\* Of some of the attempts there are a number, no greater than that of all.
LEMMA DeIntentos ==
    ASSUME NEW S \in SUBSET Intentos
    PROVE  /\ IsFiniteSet(S) /\ Cardinality(S) \in Nat
           /\ Cardinality(Intentos) \in Nat /\ Cardinality(S) <= Cardinality(Intentos)
BY FrenoOK, FS_Subset, FS_CardinalityType

\* One of them makes one.
LEMMA SinUno ==
    ASSUME NEW S \in SUBSET Intentos, NEW a \in Intentos
    PROVE  /\ Cardinality(S \ {a}) \in Nat /\ Cardinality(S) \in Nat
           /\ a \in S => Cardinality(S) = Cardinality(S \ {a}) + 1
           /\ a \notin S => Cardinality(S) = Cardinality(S \ {a})
<1>1. IsFiniteSet(S) /\ Cardinality(S) \in Nat /\ Cardinality(S \ {a}) \in Nat
  BY DeIntentos
<1>2. Cardinality(S \ {a}) = IF a \in S THEN Cardinality(S) - 1 ELSE Cardinality(S)
  BY <1>1, FS_RemoveElement
<1>3. QED
  BY <1>1, <1>2

\* Two sets that only differ in one.
LEMMA DosSinUno ==
    ASSUME NEW S \in SUBSET Intentos, NEW T \in SUBSET Intentos, NEW a \in Intentos,
           S \ {a} = T \ {a}
    PROVE  \E n \in Nat :
             /\ a \in S => Cardinality(S) = n + 1
             /\ a \notin S => Cardinality(S) = n
             /\ a \in T => Cardinality(T) = n + 1
             /\ a \notin T => Cardinality(T) = n
<1>1. /\ Cardinality(S \ {a}) \in Nat
      /\ a \in S => Cardinality(S) = Cardinality(S \ {a}) + 1
      /\ a \notin S => Cardinality(S) = Cardinality(S \ {a})
  BY SinUno
<1>2. /\ a \in T => Cardinality(T) = Cardinality(S \ {a}) + 1
      /\ a \notin T => Cardinality(T) = Cardinality(S \ {a})
  <2>1. /\ a \in T => Cardinality(T) = Cardinality(T \ {a}) + 1
        /\ a \notin T => Cardinality(T) = Cardinality(T \ {a})
    BY SinUno
  <2>2. QED
    BY <2>1
<1>3. QED
  BY <1>1, <1>2

\* The step of one attempt: what it leaves of the others.
LEMMA SigueHace ==
    ASSUME TipoFreno, NEW a \in Intentos, NEW etapa \in Etapas, Sigue(a, etapa)
    PROVE  /\ intento' \in [Intentos -> [etapa : Etapas, en : Instancias]]
           /\ intento'[a].etapa = etapa /\ intento'[a].en = intento[a].en
           /\ \A b \in Intentos \ {a} : intento'[b] = intento[b]
<1>1. [intento[a] EXCEPT !.etapa = etapa] \in [etapa : Etapas, en : Instancias]
      /\ [intento[a] EXCEPT !.etapa = etapa].etapa = etapa
      /\ [intento[a] EXCEPT !.etapa = etapa].en = intento[a].en
  BY DEF TipoFreno
<1>2. intento' = [intento EXCEPT ![a] = [intento[a] EXCEPT !.etapa = etapa]]
  BY DEF Sigue
<1>3. QED
  BY <1>1, <1>2 DEF TipoFreno

\* The rest are in the sets they were in.
LEMMA LosOtros ==
    ASSUME NEW a \in Intentos, intento'[a].en = intento[a].en,
           \A b \in Intentos \ {a} : intento'[b] = intento[b]
    PROVE  /\ SinCaducar' \ {a} = SinCaducar \ {a}
           /\ Comparan' \ {a} = Comparan \ {a}
           /\ Anotan' \ {a} = Anotan \ {a}
           /\ \A S : De(S)' = De(S)
           /\ \A S : Pasados(S)' \ {a} = Pasados(S) \ {a}
BY DEF SinCaducar, Comparan, Anotan, De, Pasados, EnFreno, Instancia

\* The numbers of those sets.
LEMMA Cuantos ==
    /\ SinCaducar \in SUBSET Intentos /\ Comparan \in SUBSET Intentos
    /\ Anotan \in SUBSET Intentos
    /\ \A S : De(S) \in SUBSET Intentos /\ Pasados(S) \in SUBSET De(S)
    /\ Cardinality(SinCaducar) \in Nat /\ Cardinality(Comparan) \in Nat
    /\ Cardinality(Anotan) \in Nat
    /\ \A S : Cardinality(De(S)) \in Nat /\ Cardinality(Pasados(S)) \in Nat
<1>1. /\ SinCaducar \in SUBSET Intentos /\ Comparan \in SUBSET Intentos
      /\ Anotan \in SUBSET Intentos
      /\ \A S : De(S) \in SUBSET Intentos /\ Pasados(S) \in SUBSET De(S)
  BY DEF SinCaducar, Comparan, Anotan, De, Pasados
<1>2. \A S : Pasados(S) \in SUBSET Intentos
  BY <1>1
<1>3. QED
  BY <1>1, <1>2, DeIntentos

\* Who compares and who notes are not the same.
LEMMA ComparanYAnotan ==
    ASSUME NEW a \in Intentos, ~EnFreno(a, "compara"), ~EnFreno(a, "anota")
    PROVE  Cardinality(Comparan) + Cardinality(Anotan) + 1 <= Cardinality(Intentos)
<1> DEFINE P == Comparan \cup Anotan
<1>1. P \in SUBSET (Intentos \ {a}) /\ Comparan \cap Anotan = {}
  BY DEF Comparan, Anotan, EnFreno
<1>2. Cardinality(P) = Cardinality(Comparan) + Cardinality(Anotan)
  <2>1. IsFiniteSet(Comparan) /\ IsFiniteSet(Anotan) /\ Cardinality(Comparan \cap Anotan) = 0
    BY <1>1, Cuantos, DeIntentos, FS_EmptySet
  <2>2. Cardinality(P) = Cardinality(Comparan) + Cardinality(Anotan)
                         - Cardinality(Comparan \cap Anotan)
    BY <2>1, FS_Union
  <2>3. QED
    BY <2>1, <2>2, Cuantos
<1>3. Cardinality(P) <= Cardinality(Intentos \ {a})
  BY <1>1, DeIntentos, FS_Subset
<1>4. Cardinality(Intentos) = Cardinality(Intentos \ {a}) + 1
  BY SinUno
<1>5. QED
  BY <1>2, <1>3, <1>4, Cuantos, DeIntentos

\* What the step of an attempt does to the numbers of those who are about each thing.
LEMMA Mueve ==
    ASSUME TipoFreno, NEW a \in Intentos, NEW etapa \in Etapas, Sigue(a, etapa)
    PROVE  /\ intento' \in [Intentos -> [etapa : Etapas, en : Instancias]]
           /\ \E n \in Nat :
                /\ EnFreno(a, "compara") => Cardinality(Comparan) = n + 1
                /\ ~EnFreno(a, "compara") => Cardinality(Comparan) = n
                /\ etapa = "compara" => Cardinality(Comparan') = n + 1
                /\ etapa # "compara" => Cardinality(Comparan') = n
           /\ \E n \in Nat :
                /\ EnFreno(a, "anota") => Cardinality(Anotan) = n + 1
                /\ ~EnFreno(a, "anota") => Cardinality(Anotan) = n
                /\ etapa = "anota" => Cardinality(Anotan') = n + 1
                /\ etapa # "anota" => Cardinality(Anotan') = n
           /\ \E n \in Nat :
                /\ intento[a].etapa \in {"mira", "caduca"} => Cardinality(SinCaducar) = n + 1
                /\ intento[a].etapa \notin {"mira", "caduca"} => Cardinality(SinCaducar) = n
                /\ etapa \in {"mira", "caduca"} => Cardinality(SinCaducar') = n + 1
                /\ etapa \notin {"mira", "caduca"} => Cardinality(SinCaducar') = n
           /\ \A S : De(S)' = De(S)
           /\ \A S : \E n \in Nat :
                /\ a \in Pasados(S) => Cardinality(Pasados(S)) = n + 1
                /\ a \notin Pasados(S) => Cardinality(Pasados(S)) = n
                /\ (a \in De(S) /\ etapa \in {"compara", "anota"}) => Cardinality(Pasados(S)') = n + 1
                /\ ~(a \in De(S) /\ etapa \in {"compara", "anota"}) => Cardinality(Pasados(S)') = n
<1>1. /\ intento' \in [Intentos -> [etapa : Etapas, en : Instancias]]
      /\ intento'[a].etapa = etapa /\ intento'[a].en = intento[a].en
      /\ \A b \in Intentos \ {a} : intento'[b] = intento[b]
  BY SigueHace
<1>2. /\ SinCaducar' \ {a} = SinCaducar \ {a}
      /\ Comparan' \ {a} = Comparan \ {a}
      /\ Anotan' \ {a} = Anotan \ {a}
      /\ \A S : De(S)' = De(S)
      /\ \A S : Pasados(S)' \ {a} = Pasados(S) \ {a}
  BY <1>1, LosOtros
<1>3. /\ a \in Comparan <=> EnFreno(a, "compara")
      /\ a \in Comparan' <=> etapa = "compara"
      /\ Comparan \in SUBSET Intentos /\ Comparan' \in SUBSET Intentos
  BY <1>1 DEF Comparan, EnFreno
<1>4. /\ a \in Anotan <=> EnFreno(a, "anota")
      /\ a \in Anotan' <=> etapa = "anota"
      /\ Anotan \in SUBSET Intentos /\ Anotan' \in SUBSET Intentos
  BY <1>1 DEF Anotan, EnFreno
<1>5. /\ a \in SinCaducar <=> intento[a].etapa \in {"mira", "caduca"}
      /\ a \in SinCaducar' <=> etapa \in {"mira", "caduca"}
      /\ SinCaducar \in SUBSET Intentos /\ SinCaducar' \in SUBSET Intentos
  BY <1>1 DEF SinCaducar
<1>6. \A S : /\ a \in Pasados(S)' <=> (a \in De(S) /\ etapa \in {"compara", "anota"})
             /\ Pasados(S) \in SUBSET Intentos /\ Pasados(S)' \in SUBSET Intentos
  BY <1>1 DEF Pasados, De, Instancia
<1>7. \E n \in Nat :
        /\ EnFreno(a, "compara") => Cardinality(Comparan) = n + 1
        /\ ~EnFreno(a, "compara") => Cardinality(Comparan) = n
        /\ etapa = "compara" => Cardinality(Comparan') = n + 1
        /\ etapa # "compara" => Cardinality(Comparan') = n
  <2>1. \E n \in Nat :
          /\ a \in Comparan => Cardinality(Comparan) = n + 1
          /\ a \notin Comparan => Cardinality(Comparan) = n
          /\ a \in Comparan' => Cardinality(Comparan') = n + 1
          /\ a \notin Comparan' => Cardinality(Comparan') = n
    BY <1>2, <1>3, DosSinUno
  <2>2. QED
    BY <1>3, <2>1
<1>8. \E n \in Nat :
        /\ EnFreno(a, "anota") => Cardinality(Anotan) = n + 1
        /\ ~EnFreno(a, "anota") => Cardinality(Anotan) = n
        /\ etapa = "anota" => Cardinality(Anotan') = n + 1
        /\ etapa # "anota" => Cardinality(Anotan') = n
  <2>1. \E n \in Nat :
          /\ a \in Anotan => Cardinality(Anotan) = n + 1
          /\ a \notin Anotan => Cardinality(Anotan) = n
          /\ a \in Anotan' => Cardinality(Anotan') = n + 1
          /\ a \notin Anotan' => Cardinality(Anotan') = n
    BY <1>2, <1>4, DosSinUno
  <2>2. QED
    BY <1>4, <2>1
<1>9. \E n \in Nat :
        /\ intento[a].etapa \in {"mira", "caduca"} => Cardinality(SinCaducar) = n + 1
        /\ intento[a].etapa \notin {"mira", "caduca"} => Cardinality(SinCaducar) = n
        /\ etapa \in {"mira", "caduca"} => Cardinality(SinCaducar') = n + 1
        /\ etapa \notin {"mira", "caduca"} => Cardinality(SinCaducar') = n
  <2>1. \E n \in Nat :
          /\ a \in SinCaducar => Cardinality(SinCaducar) = n + 1
          /\ a \notin SinCaducar => Cardinality(SinCaducar) = n
          /\ a \in SinCaducar' => Cardinality(SinCaducar') = n + 1
          /\ a \notin SinCaducar' => Cardinality(SinCaducar') = n
    BY <1>2, <1>5, DosSinUno
  <2>2. QED
    BY <1>5, <2>1
<1>10. ASSUME NEW S
       PROVE  \E n \in Nat :
                /\ a \in Pasados(S) => Cardinality(Pasados(S)) = n + 1
                /\ a \notin Pasados(S) => Cardinality(Pasados(S)) = n
                /\ (a \in De(S) /\ etapa \in {"compara", "anota"}) => Cardinality(Pasados(S)') = n + 1
                /\ ~(a \in De(S) /\ etapa \in {"compara", "anota"}) => Cardinality(Pasados(S)') = n
  <2>1. \E n \in Nat :
          /\ a \in Pasados(S) => Cardinality(Pasados(S)) = n + 1
          /\ a \notin Pasados(S) => Cardinality(Pasados(S)) = n
          /\ a \in Pasados(S)' => Cardinality(Pasados(S)') = n + 1
          /\ a \notin Pasados(S)' => Cardinality(Pasados(S)') = n
    <3>1. Pasados(S)' \ {a} = Pasados(S) \ {a}
      BY <1>2
    <3>2. Pasados(S) \in SUBSET Intentos /\ Pasados(S)' \in SUBSET Intentos
      BY <1>6
    <3>3. QED
      BY <3>1, <3>2, DosSinUno
  <2>2. QED
    BY <1>6, <2>1
<1>11. QED
  BY <1>1, <1>2, <1>7, <1>8, <1>9, <1>10

\* The attempts of some instances are those of one of them and those of the rest.
LEMMA Juntas ==
    ASSUME NEW S, NEW i \in S
    PROVE  /\ Cardinality(De(S)) = Cardinality(De(S \ {i})) + Cardinality(De({i}))
           /\ Cardinality(Pasados(S)) = Cardinality(Pasados(S \ {i})) + Cardinality(Pasados({i}))
<1>1. ASSUME NEW A \in SUBSET Intentos, NEW B \in SUBSET Intentos, A \cap B = {}
      PROVE  Cardinality(A \cup B) = Cardinality(A) + Cardinality(B)
  <2>1. IsFiniteSet(A) /\ IsFiniteSet(B) /\ Cardinality(A \cap B) = 0
    BY <1>1, DeIntentos, FS_EmptySet
  <2>2. Cardinality(A \cup B) = Cardinality(A) + Cardinality(B) - Cardinality(A \cap B)
    BY <2>1, FS_Union
  <2>3. QED
    BY <2>1, <2>2, DeIntentos
<1>2. /\ De(S) = De(S \ {i}) \cup De({i}) /\ De(S \ {i}) \cap De({i}) = {}
      /\ Pasados(S) = Pasados(S \ {i}) \cup Pasados({i})
      /\ Pasados(S \ {i}) \cap Pasados({i}) = {}
  BY DEF De, Pasados
<1>3. /\ De(S \ {i}) \in SUBSET Intentos /\ De({i}) \in SUBSET Intentos
      /\ Pasados(S \ {i}) \in SUBSET Intentos /\ Pasados({i}) \in SUBSET Intentos
  BY DEF De, Pasados
<1>4. QED
  BY <1>1, <1>2, <1>3

\* What the calls to Redis leave of their count.
LEMMA Caidas ==
    ASSUME TipoFreno, Responde \/ NoContesta
    PROVE  /\ caidasRedis' \in 0 .. MaxCaidas /\ caidasRedis \in Nat /\ caidasRedis' \in Nat
           /\ caidasRedis <= caidasRedis'
           /\ (NoContesta /\ conRedis) => caidasRedis' = caidasRedis + 1
           /\ Responde => conRedis
BY FrenoOK DEF TipoFreno, Responde, NoContesta

\* One more let pass, of a brake that is not on: the memories of some instances
\* with the one that lets it pass are those of the rest and its own.
LEMMA PasaUnoMas ==
    ASSUME TipoFreno, NEW suma, EsSuma(suma), Contado(suma),
           NEW a \in Intentos, EnFreno(a, "fuera"), enMemoria[Instancia(a)].fallos < Maximo,
           NEW S \in SUBSET Instancias, Instancia(a) \in S
    PROVE  suma[S] + Cardinality(Pasados(S)) + 1 <= Cardinality(S) * (Maximo - 1) + Cardinality(De(S))
<1> DEFINE i == Instancia(a)
           R == S \ {i}
           f == enMemoria[i].fallos
<1>1. i \in Instancias /\ f \in Nat /\ f <= Maximo - 1 /\ Maximo - 1 \in Nat
  BY FrenoOK DEF TipoFreno, Instancia, Cuentas
<1>2. suma[S] = suma[R] + f /\ suma[R] \in Nat /\ R \in SUBSET Instancias
  BY <1>1 DEF EsSuma
<1>3. /\ suma[R] + Cardinality(Pasados(R)) <= Cardinality(R) * (Maximo - 1) + Cardinality(De(R))
  BY <1>2 DEF Contado
<1>4. /\ Cardinality(R) \in Nat /\ Cardinality(S) = Cardinality(R) + 1
      /\ Cardinality(S) * (Maximo - 1) = Cardinality(R) * (Maximo - 1) + (Maximo - 1)
  <2>1. IsFiniteSet(S) /\ Cardinality(S) \in Nat
    BY FrenoOK, FS_Subset, FS_CardinalityType
  <2>2. IsFiniteSet(R) /\ Cardinality(R) = Cardinality(S) - 1 /\ Cardinality(R) \in Nat
    BY <2>1, FS_RemoveElement, FS_CardinalityType
  <2>3. Cardinality(S) = Cardinality(R) + 1
    BY <2>1, <2>2
  <2>4. \A n, m \in Nat : (n + 1) * m = n * m + m
    OBVIOUS
  <2>5. QED
    BY <1>1, <2>2, <2>3, <2>4
<1>5. Cardinality(De(S)) = Cardinality(De(R)) + Cardinality(De({i}))
  BY Juntas
<1>6. Cardinality(Pasados(S)) = Cardinality(Pasados(R)) + Cardinality(Pasados({i}))
  BY Juntas
<1>7. Cardinality(Pasados({i})) + 1 <= Cardinality(De({i}))
  <2>1. Pasados({i}) \in SUBSET (De({i}) \ {a}) /\ a \in De({i}) /\ De({i}) \in SUBSET Intentos
    BY DEF Pasados, De, EnFreno
  <2>2. Cardinality(Pasados({i})) <= Cardinality(De({i}) \ {a})
    BY <2>1, DeIntentos, FS_Subset
  <2>3. /\ Cardinality(De({i})) = Cardinality(De({i}) \ {a}) + 1
        /\ Cardinality(De({i}) \ {a}) \in Nat
    BY <2>1, SinUno
  <2>4. Cardinality(Pasados({i})) \in Nat
    BY Cuantos
  <2>5. QED
    BY <2>2, <2>3, <2>4
<1>8. QED
  <2> HIDE DEF R, i, f
  <2>1. /\ Cardinality(De(R)) \in Nat /\ Cardinality(De({i})) \in Nat
        /\ Cardinality(Pasados(R)) \in Nat /\ Cardinality(Pasados({i})) \in Nat
        /\ Cardinality(R) * (Maximo - 1) \in Nat
    BY <1>1, <1>4, Cuantos
  <2>2. QED
    BY <1>1, <1>2, <1>3, <1>4, <1>5, <1>6, <1>7, <2>1

\* An attempt is let pass.
LEMMA ComprobarInv ==
    ASSUME IInvFreno, NEW a \in Intentos, ComprobarFreno(a) PROVE IInvFreno'
<1>1. /\ TipoFreno /\ EnFreno(a, "fuera") /\ "compara" \in Etapas /\ Sigue(a, "compara")
      /\ Responde \/ NoContesta
      /\ UNCHANGED <<conRedis, clave, enMemoria, tics, falladas>>
  BY DEF ComprobarFreno, IInvFreno, Etapas
<1>2. /\ caidasRedis' \in 0 .. MaxCaidas /\ caidasRedis \in Nat /\ caidasRedis' \in Nat
      /\ caidasRedis <= caidasRedis'
  BY <1>1, Caidas
<1>3. TipoFreno'
  BY <1>1, <1>2, Mueve DEF TipoFreno
<1>4. /\ Cardinality(SinCaducar') = Cardinality(SinCaducar)
      /\ Cardinality(Anotan') = Cardinality(Anotan)
      /\ Cardinality(Comparan') = Cardinality(Comparan) + 1
  BY <1>1, Mueve DEF EnFreno
<1>5. SinCaducar' = SinCaducar
  BY <1>1, SigueHace, LosOtros DEF EnFreno, SinCaducar
<1>6. CuentasVivas'
  BY <1>1, <1>5 DEF IInvFreno, CuentasVivas
<1>7. LlaveSinCaducidad'
  BY <1>1, <1>2, <1>4, Cuantos DEF IInvFreno, LlaveSinCaducidad, TipoFreno, Cuentas
<1>8. ContadoEnRedis'
  <2>1. CASE conRedis /\ Responde /\ clave.fallos < Maximo
    <3>1. Cardinality(Comparan) + Cardinality(Anotan) + 1 <= Cardinality(Intentos)
      BY <1>1, ComparanYAnotan DEF EnFreno
    <3>2. falladas <= clave.fallos + caidasRedis + Cardinality(Anotan)
      BY <2>1 DEF IInvFreno, ContadoEnRedis
    <3>3. falladas + (Cardinality(Comparan) + 1)
            <= Maximo - 1 + caidasRedis' + Cardinality(Intentos)
      <4>1. /\ Cardinality(Comparan) \in Nat /\ Cardinality(Anotan) \in Nat
            /\ Cardinality(Intentos) \in Nat /\ falladas \in Nat /\ clave.fallos \in Nat
            /\ Maximo \in Nat /\ caidasRedis' = caidasRedis
        BY <1>1, <2>1, FrenoOK, Cuantos, DeIntentos DEF TipoFreno, Cuentas, Responde
      <4>2. QED
        BY <1>2, <2>1, <3>1, <3>2, <4>1
    <3>4. QED
      BY <1>1, <1>2, <1>4, <3>2, <3>3, <2>1 DEF ContadoEnRedis, Responde
  <2>2. CASE conRedis /\ NoContesta
    BY <1>1, <1>2, <1>4, <2>2, FrenoOK, Cuantos, DeIntentos, Caidas
    DEF IInvFreno, ContadoEnRedis, TipoFreno, Cuentas
  <2>3. QED
    BY <1>1, <2>1, <2>2 DEF ComprobarFreno, ContadoEnRedis
<1>9. ContadoEnMemoria'
  <2>1. SUFFICES ASSUME ~conRedis PROVE \E suma : EsSuma(suma)' /\ Contado(suma)'
    BY <1>1 DEF ContadoEnMemoria
  <2>2. PICK suma : EsSuma(suma) /\ Contado(suma)
    BY <2>1 DEF IInvFreno, ContadoEnMemoria
  <2>3. EsSuma(suma)'
    BY <1>1, <2>2 DEF EsSuma
  <2>4. enMemoria[Instancia(a)].fallos < Maximo
    BY <2>1 DEF ComprobarFreno, Responde
  <2>5. ASSUME NEW S \in SUBSET Instancias
        PROVE  suma[S] + Cardinality(Pasados(S)')
                 <= Cardinality(S) * (Maximo - 1) + Cardinality(De(S)')
    <3>1. /\ De(S)' = De(S) /\ a \notin Pasados(S)
          /\ a \in De(S) <=> Instancia(a) \in S
      BY <1>1, Mueve DEF Pasados, De, EnFreno
    <3>2. CASE Instancia(a) \in S
      <4>1. Cardinality(Pasados(S)') = Cardinality(Pasados(S)) + 1
        BY <1>1, <3>1, <3>2, Mueve
      <4>2. suma[S] + Cardinality(Pasados(S)) + 1 <= Cardinality(S) * (Maximo - 1) + Cardinality(De(S))
        BY <1>1, <2>2, <2>4, <3>2, PasaUnoMas
      <4>3. suma[S] \in Nat /\ Cardinality(Pasados(S)) \in Nat
        BY <2>2, Cuantos DEF EsSuma
      <4>4. QED
        BY <3>1, <4>1, <4>2, <4>3
    <3>3. CASE Instancia(a) \notin S
      BY <1>1, <2>2, <3>1, <3>3, Mueve DEF Contado
    <3>4. QED
      BY <3>2, <3>3
  <2>6. Contado(suma)'
    BY <1>1, <1>4, <2>2, <2>5 DEF Contado
  <2>7. QED
    BY <2>3, <2>6
<1>10. QED
  BY <1>3, <1>6, <1>7, <1>8, <1>9 DEF IInvFreno

\* The password is compared: right or wrong, the attempt is no longer let pass twice.
LEMMA CompararInv ==
    ASSUME IInvFreno, NEW a \in Intentos, Equivocada(a) \/ Acertada(a) PROVE IInvFreno'
<1>1. PICK etapa \in {"anota", "olvida"} :
        /\ TipoFreno /\ EnFreno(a, "compara") /\ etapa \in Etapas /\ Sigue(a, etapa)
        /\ etapa = "anota" => falladas' = falladas + 1
        /\ etapa = "olvida" => falladas' = falladas
        /\ UNCHANGED <<conRedis, clave, enMemoria, caidasRedis, tics>>
  BY DEF Equivocada, Acertada, IInvFreno, Etapas
<1>2. falladas \in Nat /\ falladas' \in Nat /\ caidasRedis \in Nat
  BY <1>1, FrenoOK DEF TipoFreno
<1>3. TipoFreno'
  BY <1>1, <1>2, Mueve DEF TipoFreno
<1>4. /\ Cardinality(SinCaducar') = Cardinality(SinCaducar)
      /\ etapa = "anota" => Cardinality(Anotan') = Cardinality(Anotan) + 1
      /\ etapa = "olvida" => Cardinality(Anotan') = Cardinality(Anotan)
      /\ Cardinality(Comparan) = Cardinality(Comparan') + 1 /\ Cardinality(Comparan') \in Nat
  BY <1>1, Mueve DEF EnFreno
<1>5. SinCaducar' = SinCaducar
  BY <1>1, SigueHace, LosOtros DEF EnFreno, SinCaducar
<1>6. CuentasVivas' /\ LlaveSinCaducidad'
  BY <1>1, <1>5 DEF IInvFreno, CuentasVivas, LlaveSinCaducidad
<1>7. ContadoEnRedis'
  <2>1. /\ Cardinality(Comparan) \in Nat /\ Cardinality(Anotan) \in Nat
        /\ Cardinality(Intentos) \in Nat /\ clave.fallos \in Nat /\ Maximo \in Nat
    BY <1>1, FrenoOK, Cuantos, DeIntentos DEF TipoFreno, Cuentas
  <2>2. QED
    BY <1>1, <1>2, <1>4, <2>1 DEF IInvFreno, ContadoEnRedis
<1>8. ContadoEnMemoria'
  <2>1. SUFFICES ASSUME ~conRedis PROVE \E suma : EsSuma(suma)' /\ Contado(suma)'
    BY <1>1 DEF ContadoEnMemoria
  <2>2. PICK suma : EsSuma(suma) /\ Contado(suma)
    BY <2>1 DEF IInvFreno, ContadoEnMemoria
  <2>3. EsSuma(suma)'
    BY <1>1, <2>2 DEF EsSuma
  <2>4. ASSUME NEW S \in SUBSET Instancias
        PROVE  suma[S] + Cardinality(Pasados(S)')
                 <= Cardinality(S) * (Maximo - 1) + Cardinality(De(S)')
    <3>1. De(S)' = De(S) /\ (a \in De(S) <=> a \in Pasados(S))
      BY <1>1, Mueve DEF Pasados, EnFreno
    <3>2. Cardinality(Pasados(S)') <= Cardinality(Pasados(S))
      BY <1>1, <3>1, Mueve
    <3>3. Cardinality(Pasados(S)') \in Nat /\ Cardinality(Pasados(S)) \in Nat /\ suma[S] \in Nat
          /\ Cardinality(S) * (Maximo - 1) + Cardinality(De(S)) \in Int
      <4>1. Cardinality(S) \in Nat
        BY FrenoOK, FS_Subset, FS_CardinalityType
      <4>2. Cardinality(Pasados(S)') \in Nat
        BY <1>1, Mueve
      <4>3. QED
        BY <2>2, <4>1, <4>2, Cuantos, FrenoOK DEF EsSuma
    <3>4. suma[S] + Cardinality(Pasados(S)) <= Cardinality(S) * (Maximo - 1) + Cardinality(De(S))
      BY <2>2 DEF Contado
    <3>5. QED
      BY <3>1, <3>2, <3>3, <3>4
  <2>5. falladas' <= suma[Instancias] + Cardinality(Anotan')
    BY <1>1, <1>2, <1>4, <2>2, Cuantos DEF Contado, EsSuma
  <2>6. QED
    BY <2>3, <2>4, <2>5 DEF Contado
<1>9. QED
  BY <1>3, <1>6, <1>7, <1>8 DEF IInvFreno

\* The key is incremented.
LEMMA IncrementarInv ==
    ASSUME IInvFreno, NEW a \in Intentos, Incrementar(a) PROVE IInvFreno'
<1>1. PICK etapa \in {"caduca", "mira"} :
        /\ TipoFreno /\ EnFreno(a, "anota") /\ etapa \in Etapas /\ Sigue(a, etapa)
        /\ conRedis /\ clave'.fallos = clave.fallos + 1
        /\ clave.fallos = 0 => clave'.queda = SinCaducidad
        /\ clave.fallos # 0 => clave'.queda = clave.queda
        /\ clave' \in Cuentas
        /\ UNCHANGED <<conRedis, enMemoria, caidasRedis, tics, falladas>>
  <2>1. clave.fallos \in Nat /\ clave.queda \in 0 .. SinCaducidad /\ SinCaducidad \in 0 .. SinCaducidad
    BY FrenoOK DEF IInvFreno, TipoFreno, Cuentas, SinCaducidad
  <2>2. CASE clave.fallos = 0
    <3>1. clave' = [fallos |-> clave.fallos + 1, queda |-> SinCaducidad] /\ Sigue(a, "caduca")
      BY <2>2 DEF Incrementar
    <3>2. QED
      BY <2>1, <2>2, <3>1 DEF Incrementar, Responde, IInvFreno, Etapas, Cuentas
  <2>3. CASE clave.fallos # 0
    <3>1. clave' = [fallos |-> clave.fallos + 1, queda |-> clave.queda] /\ Sigue(a, "mira")
      BY <2>3 DEF Incrementar
    <3>2. QED
      BY <2>1, <2>3, <3>1 DEF Incrementar, Responde, IInvFreno, Etapas, Cuentas
  <2>4. QED
    BY <2>2, <2>3
<1>2. falladas \in Nat /\ caidasRedis \in Nat /\ clave.fallos \in Nat /\ SinCaducidad > 0
  BY <1>1, FrenoOK DEF TipoFreno, Cuentas, SinCaducidad
<1>3. TipoFreno'
  BY <1>1, Mueve DEF TipoFreno
<1>4. /\ Cardinality(SinCaducar') = Cardinality(SinCaducar) + 1
      /\ Cardinality(Anotan) = Cardinality(Anotan') + 1 /\ Cardinality(Anotan') \in Nat
      /\ Cardinality(Comparan) = Cardinality(Comparan')
  BY <1>1, Mueve DEF EnFreno
<1>5. CuentasVivas'
  BY <1>1, <1>2 DEF IInvFreno, CuentasVivas
<1>6. LlaveSinCaducidad'
  BY <1>1, <1>2, <1>4, Cuantos DEF IInvFreno, LlaveSinCaducidad
<1>7. ContadoEnRedis'
  BY <1>1, <1>2, <1>4, Cuantos DEF IInvFreno, ContadoEnRedis
<1>8. QED
  BY <1>1, <1>3, <1>5, <1>6, <1>7 DEF IInvFreno, ContadoEnMemoria

\* The key is looked at, and is given its expiry.
LEMMA CaducarInv ==
    ASSUME IInvFreno, NEW a \in Intentos, MirarCaducidad(a) \/ Caducar(a) PROVE IInvFreno'
<1>1. PICK etapa \in {"caduca", "fuera"} :
        /\ TipoFreno /\ intento[a].etapa \in {"mira", "caduca"} /\ etapa \in Etapas /\ Sigue(a, etapa)
        /\ conRedis /\ clave'.fallos = clave.fallos /\ clave' \in Cuentas
        /\ clave'.fallos > 0 => clave'.queda > 0
        /\ \/ etapa = "caduca" /\ clave' = clave
           \/ clave.fallos = 0 \/ clave'.queda # SinCaducidad
        /\ UNCHANGED <<conRedis, enMemoria, caidasRedis, tics, falladas>>
  <2>1. clave \in Cuentas /\ clave.fallos \in Nat /\ (clave.fallos > 0 => clave.queda > 0)
    BY DEF IInvFreno, TipoFreno, CuentasVivas, Cuentas
  <2>2. CASE MirarCaducidad(a)
    BY <2>1, <2>2 DEF MirarCaducidad, Responde, IInvFreno, Etapas, EnFreno
  <2>3. CASE Caducar(a)
    <3>1. CASE clave.fallos = 0
      BY <2>1, <2>3, <3>1 DEF Caducar, Responde, IInvFreno, Etapas, EnFreno
    <3>2. CASE clave.fallos # 0
      <4>1. clave' = [clave EXCEPT !.queda = Ventana]
        BY <2>3, <3>2 DEF Caducar
      <4>2. /\ clave' \in Cuentas /\ clave'.fallos = clave.fallos
            /\ clave'.queda > 0 /\ clave'.queda # SinCaducidad
        BY <2>1, <4>1, FrenoOK DEF Cuentas, SinCaducidad
      <4>3. QED
        BY <2>3, <4>2 DEF Caducar, Responde, IInvFreno, Etapas, EnFreno
    <3>3. QED
      BY <3>1, <3>2
  <2>4. QED
    BY <2>2, <2>3
<1>2. falladas \in Nat /\ caidasRedis \in Nat /\ clave.fallos \in Nat
  BY <1>1, FrenoOK DEF TipoFreno, Cuentas
<1>3. TipoFreno'
  BY <1>1, Mueve DEF TipoFreno
<1>4. /\ etapa = "caduca" => Cardinality(SinCaducar') = Cardinality(SinCaducar)
      /\ Cardinality(Anotan) = Cardinality(Anotan')
      /\ Cardinality(Comparan) = Cardinality(Comparan')
  BY <1>1, Mueve DEF EnFreno
<1>5. CuentasVivas'
  BY <1>1, <1>2 DEF IInvFreno, CuentasVivas
<1>6. LlaveSinCaducidad'
  BY <1>1, <1>2, <1>4 DEF IInvFreno, LlaveSinCaducidad
<1>7. ContadoEnRedis'
  BY <1>1, <1>2, <1>4 DEF IInvFreno, ContadoEnRedis
<1>8. QED
  BY <1>1, <1>3, <1>5, <1>6, <1>7 DEF IInvFreno, ContadoEnMemoria

\* Redis does not answer, and the failure goes to memory.
LEMMA AnotarInv ==
    ASSUME IInvFreno, NEW a \in Intentos, AnotarSinRedis(a) PROVE IInvFreno'
<1> DEFINE i == Instancia(a)
<1>1. /\ TipoFreno /\ intento[a].etapa \in {"anota", "mira", "caduca"}
      /\ "fuera" \in Etapas /\ Sigue(a, "fuera") /\ NoContesta /\ i \in Instancias
      /\ UNCHANGED <<conRedis, clave, tics, falladas>>
  BY DEF AnotarSinRedis, IInvFreno, Etapas, TipoFreno, Instancia
<1>2. /\ enMemoria' \in [Instancias -> Cuentas]
      /\ enMemoria'[i].fallos = enMemoria[i].fallos + 1
      /\ enMemoria'[i].queda > 0
      /\ \A j \in Instancias \ {i} : enMemoria'[j] = enMemoria[j]
  <2>1. /\ enMemoria[i].fallos \in Nat /\ enMemoria[i].queda \in 0 .. SinCaducidad
        /\ enMemoria[i].fallos > 0 => enMemoria[i].queda > 0
    BY <1>1 DEF TipoFreno, Cuentas, IInvFreno, CuentasVivas
  <2>2. \E c \in Cuentas :
          /\ enMemoria' = [enMemoria EXCEPT ![i] = c]
          /\ c.fallos = enMemoria[i].fallos + 1 /\ c.queda > 0
    <3>1. CASE enMemoria[i].fallos > 0
      <4> DEFINE c == [fallos |-> enMemoria[i].fallos + 1, queda |-> enMemoria[i].queda]
      <4>1. c \in Cuentas /\ c.fallos = enMemoria[i].fallos + 1 /\ c.queda > 0
        BY <2>1, <3>1 DEF Cuentas
      <4>2. enMemoria' = [enMemoria EXCEPT ![i] = c]
        BY <3>1 DEF AnotarSinRedis, SumarEnMemoria
      <4>3. QED
        BY <4>1, <4>2
    <3>2. CASE ~(enMemoria[i].fallos > 0)
      <4> DEFINE c == [fallos |-> 1, queda |-> Ventana]
      <4>1. c \in Cuentas /\ c.fallos = enMemoria[i].fallos + 1 /\ c.queda > 0
        BY <2>1, <3>2, FrenoOK DEF Cuentas, SinCaducidad
      <4>2. enMemoria' = [enMemoria EXCEPT ![i] = c]
        BY <3>2 DEF AnotarSinRedis, SumarEnMemoria
      <4>3. QED
        BY <4>1, <4>2
    <3>3. QED
      BY <3>1, <3>2
  <2>3. QED
    BY <1>1, <2>2 DEF TipoFreno
<1> HIDE DEF i
<1>3. /\ falladas \in Nat /\ caidasRedis' \in 0 .. MaxCaidas /\ caidasRedis \in Nat
      /\ caidasRedis' \in Nat /\ (conRedis => caidasRedis' = caidasRedis + 1)
      /\ clave.fallos \in Nat /\ Maximo \in Nat
  BY <1>1, Caidas, FrenoOK DEF TipoFreno, Cuentas
<1>4. TipoFreno'
  BY <1>1, <1>2, <1>3, Mueve DEF TipoFreno
<1>5. /\ Cardinality(SinCaducar) <= Cardinality(SinCaducar') + 1 /\ Cardinality(SinCaducar') \in Nat
      /\ Cardinality(Anotan) <= Cardinality(Anotan') + 1 /\ Cardinality(Anotan') \in Nat
      /\ EnFreno(a, "anota") => Cardinality(Anotan) = Cardinality(Anotan') + 1
      /\ Cardinality(Comparan) = Cardinality(Comparan')
  BY <1>1, Mueve DEF EnFreno
<1>6. ~conRedis => /\ EnFreno(a, "anota") /\ SinCaducar = {} /\ SinCaducar' = {}
  BY <1>1, SigueHace, LosOtros DEF IInvFreno, CuentasVivas, SinCaducar, EnFreno
<1>7. CuentasVivas'
  BY <1>1, <1>2, <1>6 DEF IInvFreno, CuentasVivas
<1>8. LlaveSinCaducidad'
  <2>1. ~conRedis => clave.fallos = 0
    BY DEF IInvFreno, CuentasVivas
  <2>2. QED
    BY <1>1, <1>3, <1>5, <2>1, Cuantos DEF IInvFreno, LlaveSinCaducidad
<1>9. ContadoEnRedis'
  BY <1>1, <1>3, <1>5, Cuantos, DeIntentos DEF IInvFreno, ContadoEnRedis
<1>10. ContadoEnMemoria'
  <2>1. SUFFICES ASSUME ~conRedis PROVE \E suma : EsSuma(suma)' /\ Contado(suma)'
    BY <1>1 DEF ContadoEnMemoria
  <2>2. PICK s : EsSuma(s) /\ Contado(s)
    BY <2>1 DEF IInvFreno, ContadoEnMemoria
  <2>3. PICK t \in [SUBSET Instancias -> Nat] :
          \A S \in SUBSET Instancias : (i \in S => t[S] = s[S] + 1) /\ (i \notin S => t[S] = s[S])
    <3> DEFINE f == [S \in SUBSET Instancias |-> IF i \in S THEN s[S] + 1 ELSE s[S]]
    <3>1. /\ f \in [SUBSET Instancias -> Nat]
          /\ \A S \in SUBSET Instancias : (i \in S => f[S] = s[S] + 1) /\ (i \notin S => f[S] = s[S])
      BY <2>2 DEF EsSuma
    <3> HIDE DEF f
    <3>2. QED
      BY <3>1
  <2>4. ASSUME NEW S \in SUBSET Instancias, NEW j \in S
        PROVE  t[S] = t[S \ {j}] + enMemoria'[j].fallos
    <3>1. s[S] = s[S \ {j}] + enMemoria[j].fallos /\ s[S] \in Nat /\ s[S \ {j}] \in Nat
          /\ enMemoria[j].fallos \in Nat
      BY <1>1, <2>2 DEF EsSuma, TipoFreno, Cuentas
    <3>2. CASE j = i
      BY <1>2, <2>3, <3>1, <3>2
    <3>3. CASE j # i
      BY <1>2, <2>3, <3>1, <3>3
    <3>4. QED
      BY <3>2, <3>3
  <2>5. ASSUME NEW S \in SUBSET Instancias, NEW T \in SUBSET S PROVE t[T] <= t[S]
    <3>1. s[T] <= s[S] /\ s[T] \in Nat /\ s[S] \in Nat
      BY <2>2 DEF EsSuma
    <3>2. QED
      BY <2>3, <3>1
  <2>6. EsSuma(t)'
    BY <2>3, <2>4, <2>5 DEF EsSuma
  <2>7. ASSUME NEW S \in SUBSET Instancias
        PROVE  t[S] + Cardinality(Pasados(S)') <= Cardinality(S) * (Maximo - 1) + Cardinality(De(S)')
    <3>1. /\ De(S)' = De(S) /\ Cardinality(Pasados(S)') \in Nat
          /\ i \in S => Cardinality(Pasados(S)) = Cardinality(Pasados(S)') + 1
          /\ i \notin S => Cardinality(Pasados(S)) = Cardinality(Pasados(S)')
      <4>1. a \in Pasados(S) <=> i \in S
        BY <1>6, <2>1 DEF Pasados, De, EnFreno, i
      <4>2. QED
        BY <1>1, <4>1, Mueve
    <3>2. s[S] + Cardinality(Pasados(S)) <= Cardinality(S) * (Maximo - 1) + Cardinality(De(S))
      BY <2>2 DEF Contado
    <3>3. s[S] \in Nat
      BY <2>2 DEF EsSuma
    <3>4. t[S] + Cardinality(Pasados(S)') = s[S] + Cardinality(Pasados(S))
      BY <2>3, <3>1, <3>3
    <3>5. QED
      BY <3>1, <3>2, <3>4
  <2>8. falladas' <= t[Instancias] + Cardinality(Anotan')
    <3>1. t[Instancias] = s[Instancias] + 1 /\ s[Instancias] \in Nat
      BY <1>1, <2>2, <2>3 DEF EsSuma
    <3>2. falladas <= s[Instancias] + Cardinality(Anotan)
      BY <2>2 DEF Contado
    <3>3. QED
      BY <1>1, <1>3, <1>5, <1>6, <2>1, <3>1, <3>2
  <2>9. Contado(t)'
    BY <2>7, <2>8 DEF Contado
  <2>10. QED
    BY <2>6, <2>9
<1>11. QED
  BY <1>4, <1>7, <1>8, <1>9, <1>10 DEF IInvFreno

\* Counts that are forgotten: what is left of a sum without them is a sum.
LEMMA OlvidarSuma ==
    ASSUME TipoFreno, NEW s, EsSuma(s), NEW Z \in SUBSET Instancias,
           enMemoria' \in [Instancias -> Cuentas],
           \A j \in Z : enMemoria'[j].fallos = 0,
           \A j \in Instancias \ Z : enMemoria'[j].fallos = enMemoria[j].fallos
    PROVE  \E t : EsSuma(t)' /\ \A S \in SUBSET Instancias : t[S] <= s[S] /\ t[S] \in Nat
<1>1. PICK t \in [SUBSET Instancias -> Nat] : \A S \in SUBSET Instancias : t[S] = s[S \ Z]
  <2> DEFINE f == [S \in SUBSET Instancias |-> s[S \ Z]]
  <2>1. /\ f \in [SUBSET Instancias -> Nat]
        /\ \A S \in SUBSET Instancias : f[S] = s[S \ Z]
    BY DEF EsSuma
  <2> HIDE DEF f
  <2>2. QED
    BY <2>1
<1>2. ASSUME NEW S \in SUBSET Instancias, NEW j \in S
      PROVE  t[S] = t[S \ {j}] + enMemoria'[j].fallos
  <2>1. t[S] = s[S \ Z] /\ t[S \ {j}] = s[(S \ {j}) \ Z] /\ s[S \ Z] \in Nat
    BY <1>1 DEF EsSuma
  <2>2. CASE j \in Z
    <3>1. (S \ {j}) \ Z = S \ Z /\ enMemoria'[j].fallos = 0
      BY <2>2
    <3>2. t[S \ {j}] = s[S \ Z]
      BY <2>1, <3>1
    <3>3. s[S \ Z] + 0 = s[S \ Z]
      BY <2>1
    <3>4. QED
      BY <2>1, <3>1, <3>2, <3>3
  <2>3. CASE j \notin Z
    <3>1. (S \ {j}) \ Z = (S \ Z) \ {j} /\ j \in S \ Z /\ S \ Z \in SUBSET Instancias
      BY <2>3
    <3>2. s[S \ Z] = s[(S \ Z) \ {j}] + enMemoria[j].fallos
      BY <3>1 DEF EsSuma
    <3>3. QED
      BY <2>1, <2>3, <3>1, <3>2
  <2>4. QED
    BY <2>2, <2>3
<1>3. ASSUME NEW S \in SUBSET Instancias, NEW T \in SUBSET S PROVE t[T] <= t[S]
  <2>1. T \ Z \in SUBSET (S \ Z) /\ S \ Z \in SUBSET Instancias
    OBVIOUS
  <2>2. QED
    BY <1>1, <2>1 DEF EsSuma
<1>4. EsSuma(t)'
  BY <1>1, <1>2, <1>3 DEF EsSuma
<1>5. ASSUME NEW S \in SUBSET Instancias PROVE t[S] <= s[S] /\ t[S] \in Nat
  <2>1. S \ Z \in SUBSET S
    OBVIOUS
  <2>2. QED
    BY <1>1, <2>1 DEF EsSuma
<1>6. QED
  BY <1>4, <1>5

\* A count is forgotten, and there are no fewer to be found wrong than there were.
LEMMA OlvidoCuenta ==
    ASSUME TipoFreno, ContadoEnMemoria, ~conRedis, conRedis' = conRedis, NEW Z \in SUBSET Instancias,
           enMemoria' \in [Instancias -> Cuentas],
           \A j \in Z : enMemoria'[j].fallos = 0,
           \A j \in Instancias \ Z : enMemoria'[j].fallos = enMemoria[j].fallos,
           \A S \in SUBSET Instancias :
             /\ De(S)' = De(S) /\ Cardinality(Pasados(S)') \in Nat
             /\ Cardinality(Pasados(S)') <= Cardinality(Pasados(S)),
           Cardinality(Anotan') \in Nat,
           falladas' = 0
    PROVE  ContadoEnMemoria'
<1>1. PICK s : EsSuma(s) /\ Contado(s)
  BY DEF ContadoEnMemoria
<1>2. PICK t : EsSuma(t)' /\ \A S \in SUBSET Instancias : t[S] <= s[S] /\ t[S] \in Nat
  BY <1>1, OlvidarSuma
<1>3. ASSUME NEW S \in SUBSET Instancias
      PROVE  t[S] + Cardinality(Pasados(S)') <= Cardinality(S) * (Maximo - 1) + Cardinality(De(S)')
  <2>1. s[S] + Cardinality(Pasados(S)) <= Cardinality(S) * (Maximo - 1) + Cardinality(De(S))
    BY <1>1 DEF Contado
  <2>2. Cardinality(S) * (Maximo - 1) + Cardinality(De(S)) \in Int
    <3>1. Cardinality(S) \in Nat
      BY FrenoOK, FS_Subset, FS_CardinalityType
    <3>2. QED
      BY <3>1, Cuantos, FrenoOK
  <2>3. s[S] \in Nat /\ Cardinality(Pasados(S)) \in Nat
    BY <1>1, Cuantos DEF EsSuma
  <2>4. QED
    BY <1>2, <2>1, <2>2, <2>3
<1>4. falladas' <= t[Instancias] + Cardinality(Anotan')
  BY <1>2
<1>5. QED
  BY <1>2, <1>3, <1>4 DEF ContadoEnMemoria, Contado

\* The password was right.
LEMMA OlvidarInv == ASSUME IInvFreno, NEW a \in Intentos, Olvidar(a) PROVE IInvFreno'
<1> DEFINE i == Instancia(a)
<1>1. /\ TipoFreno /\ EnFreno(a, "olvida") /\ "fuera" \in Etapas /\ Sigue(a, "fuera")
      /\ Responde \/ NoContesta
      /\ i \in Instancias /\ falladas' = 0 /\ UNCHANGED <<conRedis, tics>>
  BY DEF Olvidar, IInvFreno, Etapas, TipoFreno, Instancia
<1>2. /\ SinFallos \in Cuentas /\ SinFallos.fallos = 0
  BY FrenoOK DEF SinFallos, Cuentas, SinCaducidad
<1>3. /\ enMemoria' \in [Instancias -> Cuentas] /\ enMemoria'[i].fallos = 0
      /\ \A j \in Instancias \ {i} : enMemoria'[j] = enMemoria[j]
      /\ clave' \in Cuentas /\ clave' \in {clave, SinFallos}
  BY <1>1, <1>2 DEF Olvidar, TipoFreno
<1> HIDE DEF i
<1>4. /\ caidasRedis' \in 0 .. MaxCaidas /\ caidasRedis \in Nat /\ caidasRedis' \in Nat
      /\ caidasRedis <= caidasRedis'
  BY <1>1, Caidas
<1>5. TipoFreno'
  BY <1>1, <1>3, <1>4, Mueve DEF TipoFreno
<1>6. /\ Cardinality(SinCaducar') = Cardinality(SinCaducar)
      /\ Cardinality(Anotan') = Cardinality(Anotan)
      /\ Cardinality(Comparan') = Cardinality(Comparan)
      /\ SinCaducar' = SinCaducar
  BY <1>1, Mueve, SigueHace, LosOtros DEF EnFreno, SinCaducar
<1>7. CuentasVivas'
  BY <1>1, <1>2, <1>3, <1>6 DEF IInvFreno, CuentasVivas
<1>8. LlaveSinCaducidad'
  BY <1>1, <1>2, <1>3, <1>4, <1>6, Cuantos DEF IInvFreno, LlaveSinCaducidad, TipoFreno, Cuentas
<1>9. ContadoEnRedis'
  <2>1. /\ Cardinality(Comparan) \in Nat /\ Cardinality(Anotan) \in Nat
        /\ Cardinality(Intentos) \in Nat /\ Maximo - 1 \in Nat /\ clave'.fallos \in Nat
        /\ Cardinality(Comparan) <= Cardinality(Intentos)
    BY <1>3, FrenoOK, Cuantos, DeIntentos DEF Cuentas
  <2>2. QED
    BY <1>1, <1>4, <1>6, <2>1 DEF ContadoEnRedis
<1>10. ContadoEnMemoria'
  <2>1. CASE ~conRedis
    <3>1. ASSUME NEW S \in SUBSET Instancias
          PROVE  /\ De(S)' = De(S) /\ Cardinality(Pasados(S)') \in Nat
                 /\ Cardinality(Pasados(S)') <= Cardinality(Pasados(S))
      <4>1. a \notin Pasados(S)
        BY <1>1 DEF Pasados, EnFreno
      <4>2. QED
        BY <1>1, <4>1, Mueve
    <3>2. \A j \in {i} : enMemoria'[j].fallos = 0
      BY <1>3
    <3>3. {i} \in SUBSET Instancias /\ Cardinality(Anotan') \in Nat
      BY <1>1, <1>6, Cuantos
    <3>4. QED
      BY <1>1, <1>3, <2>1, <3>1, <3>2, <3>3, OlvidoCuenta DEF IInvFreno
  <2>2. CASE conRedis
    BY <1>1, <2>2 DEF ContadoEnMemoria
  <2>3. QED
    BY <2>1, <2>2
<1>11. QED
  BY <1>5, <1>7, <1>8, <1>9, <1>10 DEF IInvFreno

\* A count is pushed out of a memory.
LEMMA DesalojarInv ==
    ASSUME IInvFreno, NEW i \in Instancias, Desalojar(i) PROVE IInvFreno'
<1>1. /\ TipoFreno /\ falladas' = 0
      /\ UNCHANGED <<conRedis, clave, intento, caidasRedis, tics>>
  BY DEF Desalojar, IInvFreno
<1>2. SinFallos \in Cuentas /\ SinFallos.fallos = 0
  BY FrenoOK DEF SinFallos, Cuentas, SinCaducidad
<1>3. /\ enMemoria' \in [Instancias -> Cuentas] /\ enMemoria'[i].fallos = 0
      /\ \A j \in Instancias \ {i} : enMemoria'[j] = enMemoria[j]
  BY <1>1, <1>2 DEF Desalojar, TipoFreno
<1>4. TipoFreno'
  BY <1>1, <1>3 DEF TipoFreno
<1>5. /\ SinCaducar' = SinCaducar /\ Anotan' = Anotan /\ Comparan' = Comparan
      /\ \A S : De(S)' = De(S) /\ Pasados(S)' = Pasados(S)
  BY <1>1 DEF SinCaducar, Anotan, Comparan, De, Pasados, EnFreno, Instancia
<1>6. CuentasVivas'
  BY <1>1, <1>3, <1>5 DEF IInvFreno, CuentasVivas
<1>7. LlaveSinCaducidad'
  BY <1>1, <1>5 DEF IInvFreno, LlaveSinCaducidad
<1>8. ContadoEnRedis'
  <2>1. /\ Cardinality(Comparan) \in Nat /\ Cardinality(Anotan) \in Nat
        /\ Cardinality(Intentos) \in Nat /\ Maximo - 1 \in Nat /\ clave.fallos \in Nat
        /\ Cardinality(Comparan) <= Cardinality(Intentos) /\ caidasRedis \in Nat
    BY <1>1, FrenoOK, Cuantos, DeIntentos DEF Cuentas, TipoFreno
  <2>2. QED
    BY <1>1, <1>5, <2>1 DEF ContadoEnRedis
<1>9. ContadoEnMemoria'
  <2>1. CASE ~conRedis
    <3>1. \A S \in SUBSET Instancias :
            /\ De(S)' = De(S) /\ Cardinality(Pasados(S)') \in Nat
            /\ Cardinality(Pasados(S)') <= Cardinality(Pasados(S))
      BY <1>5, Cuantos
    <3>2. \A j \in {i} : enMemoria'[j].fallos = 0
      BY <1>3
    <3>3. {i} \in SUBSET Instancias /\ Cardinality(Anotan') \in Nat
      BY <1>5, Cuantos
    <3>4. QED
      BY <1>1, <1>3, <2>1, <3>1, <3>2, <3>3, OlvidoCuenta DEF IInvFreno
  <2>2. CASE conRedis
    BY <1>1, <2>2 DEF ContadoEnMemoria
  <2>3. QED
    BY <2>1, <2>2
<1>10. QED
  BY <1>4, <1>6, <1>7, <1>8, <1>9 DEF IInvFreno

\* A process dies with a key it had yet to give its expiry: one that did not answer
\* for each of its attempts that were at it.
LEMMA MorirAnotandoInv ==
    ASSUME IInvFreno, NEW i \in Instancias, MorirAnotando(i) PROVE IInvFreno'
<1> DEFINE cortados == {a \in SinCaducar : Instancia(a) = i}
<1>1. /\ TipoFreno /\ falladas' = 0 /\ cortados # {}
      /\ caidasRedis + Cardinality(cortados) <= MaxCaidas
      /\ caidasRedis' = caidasRedis + Cardinality(cortados)
      /\ UNCHANGED <<conRedis, clave, tics>>
  BY DEF MorirAnotando, IInvFreno
<1>2. conRedis /\ conRedis'
  BY <1>1 DEF IInvFreno, CuentasVivas
<1>3. SinFallos \in Cuentas /\ SinFallos.fallos = 0
  BY FrenoOK DEF SinFallos, Cuentas, SinCaducidad
<1>4. enMemoria' = [enMemoria EXCEPT ![i] = SinFallos]
  BY DEF MorirAnotando
<1>5. /\ enMemoria' \in [Instancias -> Cuentas] /\ enMemoria'[i].fallos = 0
      /\ \A j \in Instancias \ {i} : enMemoria'[j] = enMemoria[j]
  BY <1>1, <1>3, <1>4 DEF TipoFreno
<1>6. \A a \in Intentos : /\ Instancia(a) = i => intento'[a] = Fuera(i)
                          /\ Instancia(a) # i => intento'[a] = intento[a]
  BY DEF MorirAnotando
<1>7. intento' \in [Intentos -> [etapa : Etapas, en : Instancias]]
  <2>1. Fuera(i) \in [etapa : Etapas, en : Instancias]
    BY DEF Fuera, Etapas
  <2>2. intento' = [a \in Intentos |-> IF Instancia(a) = i THEN Fuera(i) ELSE intento[a]]
    BY DEF MorirAnotando
  <2>3. QED
    BY <1>1, <2>1, <2>2 DEF TipoFreno
<1>8. /\ cortados \in SUBSET SinCaducar /\ cortados \in SUBSET Intentos
      /\ cortados = SinCaducar \cap cortados
  BY DEF SinCaducar
<1>9. SinCaducar' = SinCaducar \ cortados
  BY <1>6 DEF SinCaducar, Fuera, Instancia
<1>10. Comparan' \in SUBSET Intentos /\ Anotan' \in SUBSET Intentos
  BY DEF Comparan, Anotan
<1> HIDE DEF cortados
<1>11. /\ Cardinality(SinCaducar) = Cardinality(SinCaducar') + Cardinality(cortados)
       /\ Cardinality(SinCaducar') \in Nat /\ Cardinality(cortados) \in Nat
  <2>1. IsFiniteSet(SinCaducar) /\ IsFiniteSet(cortados)
    BY <1>8, Cuantos, DeIntentos
  <2>2. Cardinality(SinCaducar \ cortados)
          = Cardinality(SinCaducar) - Cardinality(SinCaducar \cap cortados)
    BY <2>1, FS_Difference
  <2>3. Cardinality(cortados) \in Nat /\ Cardinality(SinCaducar \ cortados) \in Nat
    BY <1>8, <2>1, FS_Difference, FS_CardinalityType
  <2>4. Cardinality(SinCaducar') = Cardinality(SinCaducar) - Cardinality(cortados)
    BY <1>8, <1>9, <2>2
  <2>5. Cardinality(SinCaducar') \in Nat /\ Cardinality(SinCaducar) \in Nat
    BY <1>9, <2>3, Cuantos
  <2>6. QED
    BY <2>3, <2>4, <2>5
<1>12. caidasRedis \in Nat /\ caidasRedis' \in 0 .. MaxCaidas
  BY <1>1, <1>11, FrenoOK DEF TipoFreno
<1>13. TipoFreno'
  BY <1>1, <1>5, <1>7, <1>12 DEF TipoFreno
<1>14. CuentasVivas'
  BY <1>1, <1>2, <1>3, <1>5 DEF IInvFreno, CuentasVivas
<1>15. LlaveSinCaducidad'
  <2>1. clave.fallos \in Nat
    BY <1>1 DEF TipoFreno, Cuentas
  <2>2. QED
    BY <1>1, <1>11, <1>12, <2>1 DEF IInvFreno, LlaveSinCaducidad
<1>16. ContadoEnRedis'
  <2>1. /\ Cardinality(Comparan') \in Nat /\ Cardinality(Anotan') \in Nat
        /\ Cardinality(Comparan') <= Cardinality(Intentos) /\ Cardinality(Intentos) \in Nat
    BY <1>10, DeIntentos
  <2>2. Maximo - 1 \in Nat /\ clave'.fallos \in Nat /\ caidasRedis' \in Nat
    BY <1>12, <1>13, FrenoOK DEF TipoFreno, Cuentas
  <2>3. QED
    BY <1>1, <2>1, <2>2 DEF ContadoEnRedis
<1>17. ContadoEnMemoria'
  BY <1>2 DEF ContadoEnMemoria
<1>18. QED
  BY <1>13, <1>14, <1>15, <1>16, <1>17 DEF IInvFreno

\* A tick takes one from what a count has left, and forgets it at the last.
LEMMA EnvejeceHace ==
    ASSUME NEW c \in Cuentas, c.fallos > 0 => c.queda > 0
    PROVE  /\ Envejece(c) \in Cuentas
           /\ Envejece(c).fallos > 0 => Envejece(c).queda > 0
           /\ Envejece(c).fallos = c.fallos \/ (c.fallos > 0 /\ c # SinFallos /\ Envejece(c) = SinFallos)
           /\ (Envejece(c).fallos > 0 /\ Envejece(c).queda = SinCaducidad) => c.queda = SinCaducidad
<1>1. c.fallos \in Nat /\ c.queda \in 0 .. SinCaducidad /\ SinCaducidad \in Nat
  BY FrenoOK DEF Cuentas, SinCaducidad
<1>2. SinFallos \in Cuentas /\ SinFallos.fallos = 0
  BY FrenoOK DEF SinFallos, Cuentas, SinCaducidad
<1>3. CASE c.fallos = 0 \/ c.queda = SinCaducidad
  BY <1>1, <1>3 DEF Envejece
<1>4. CASE ~(c.fallos = 0 \/ c.queda = SinCaducidad) /\ c.queda = 1
  <2>1. Envejece(c) = SinFallos
    BY <1>4 DEF Envejece
  <2>2. QED
    BY <1>1, <1>2, <1>4, <2>1
<1>5. CASE ~(c.fallos = 0 \/ c.queda = SinCaducidad) /\ c.queda # 1
  <2>1. Envejece(c) = [c EXCEPT !.queda = c.queda - 1]
    BY <1>5 DEF Envejece
  <2>2. c.queda - 1 \in 0 .. SinCaducidad /\ c.queda - 1 > 0 /\ c.queda - 1 # SinCaducidad
    BY <1>1, <1>5
  <2>3. /\ Envejece(c) \in Cuentas /\ Envejece(c).fallos = c.fallos
        /\ Envejece(c).queda = c.queda - 1
    BY <2>1, <2>2 DEF Cuentas
  <2>4. QED
    BY <2>2, <2>3
<1>6. QED
  BY <1>3, <1>4, <1>5

\* A tick of the clock.
LEMMA PasaElTiempoInv == ASSUME IInvFreno, PasaElTiempo PROVE IInvFreno'
<1>1. /\ TipoFreno /\ tics' \in 0 .. MaxTics
      /\ clave' = Envejece(clave)
      /\ \A i \in Instancias : enMemoria'[i] = Envejece(enMemoria[i])
      /\ enMemoria' = [i \in Instancias |-> Envejece(enMemoria[i])]
      /\ UNCHANGED <<conRedis, intento, caidasRedis>>
  BY FrenoOK DEF PasaElTiempo, IInvFreno, TipoFreno
<1>2. /\ clave \in Cuentas /\ clave.fallos \in Nat /\ (clave.fallos > 0 => clave.queda > 0)
      /\ \A i \in Instancias :
           /\ enMemoria[i] \in Cuentas /\ enMemoria[i].fallos \in Nat
           /\ enMemoria[i].fallos > 0 => enMemoria[i].queda > 0
      /\ falladas \in Nat /\ caidasRedis \in Nat
  BY <1>1, FrenoOK DEF IInvFreno, TipoFreno, CuentasVivas, Cuentas
<1>3. /\ clave' \in Cuentas /\ (clave'.fallos > 0 => clave'.queda > 0)
      /\ clave'.fallos = clave.fallos \/ (clave # SinFallos /\ clave' = SinFallos)
      /\ (clave'.fallos > 0 /\ clave'.queda = SinCaducidad) => clave.queda = SinCaducidad
  BY <1>1, <1>2, EnvejeceHace
<1>4. ASSUME NEW i \in Instancias
      PROVE  /\ enMemoria'[i] \in Cuentas /\ (enMemoria'[i].fallos > 0 => enMemoria'[i].queda > 0)
             /\ \/ enMemoria'[i].fallos = enMemoria[i].fallos
                \/ enMemoria[i].fallos > 0 /\ enMemoria'[i] = SinFallos
  BY <1>1, <1>2, EnvejeceHace
<1>5. SinFallos.fallos = 0
  BY DEF SinFallos
<1>6. enMemoria' \in [Instancias -> Cuentas]
  BY <1>1, <1>4
<1>7. /\ falladas' \in {0, falladas}
      /\ (clave # SinFallos /\ clave' = SinFallos) => falladas' = 0
      /\ (\E i \in Instancias : enMemoria[i].fallos > 0 /\ enMemoria'[i] = SinFallos) => falladas' = 0
  BY DEF PasaElTiempo
<1>8. TipoFreno'
  BY <1>1, <1>2, <1>3, <1>6, <1>7 DEF TipoFreno
<1>9. /\ SinCaducar' = SinCaducar /\ Anotan' = Anotan /\ Comparan' = Comparan
      /\ \A S : De(S)' = De(S) /\ Pasados(S)' = Pasados(S)
  BY <1>1 DEF SinCaducar, Anotan, Comparan, De, Pasados, EnFreno, Instancia
<1>10. CuentasVivas'
  BY <1>1, <1>3, <1>4, <1>5, <1>9 DEF IInvFreno, CuentasVivas
<1>11. LlaveSinCaducidad'
  BY <1>1, <1>3, <1>5, <1>9 DEF IInvFreno, LlaveSinCaducidad
<1>12. ContadoEnRedis'
  <2>1. /\ Cardinality(Comparan) \in Nat /\ Cardinality(Anotan) \in Nat
        /\ Cardinality(Intentos) \in Nat /\ Maximo - 1 \in Nat /\ clave'.fallos \in Nat
        /\ Cardinality(Comparan) <= Cardinality(Intentos)
    BY <1>3, FrenoOK, Cuantos, DeIntentos DEF Cuentas
  <2>2. CASE falladas' = 0
    BY <1>1, <1>2, <1>9, <2>1, <2>2 DEF ContadoEnRedis
  <2>3. CASE falladas' = falladas /\ clave'.fallos = clave.fallos
    BY <1>1, <1>2, <1>9, <2>1, <2>3 DEF ContadoEnRedis, IInvFreno
  <2>4. QED
    BY <1>3, <1>7, <2>2, <2>3
<1>13. ContadoEnMemoria'
  <2>1. CASE \A i \in Instancias : enMemoria'[i].fallos = enMemoria[i].fallos
    <3>1. SUFFICES ASSUME ~conRedis PROVE \E suma : EsSuma(suma)' /\ Contado(suma)'
      BY <1>1 DEF ContadoEnMemoria
    <3>2. PICK s : EsSuma(s) /\ Contado(s)
      BY <3>1 DEF IInvFreno, ContadoEnMemoria
    <3>3. EsSuma(s)'
      BY <2>1, <3>2 DEF EsSuma
    <3>4. s[Instancias] \in Nat /\ Cardinality(Anotan) \in Nat
      BY <3>2, Cuantos DEF EsSuma
    <3>5. Contado(s)'
      BY <1>2, <1>7, <1>9, <3>2, <3>4 DEF Contado
    <3>6. QED
      BY <3>3, <3>5
  <2>2. CASE ~(\A i \in Instancias : enMemoria'[i].fallos = enMemoria[i].fallos) /\ ~conRedis
    <3>1. \A S \in SUBSET Instancias :
            /\ De(S)' = De(S) /\ Cardinality(Pasados(S)') \in Nat
            /\ Cardinality(Pasados(S)') <= Cardinality(Pasados(S))
      BY <1>9, Cuantos
    <3>2. PICK Y \in SUBSET Instancias :
            Y = {i \in Instancias : enMemoria'[i].fallos # enMemoria[i].fallos}
      OBVIOUS
    <3>3. /\ \A j \in Y : enMemoria'[j].fallos = 0
          /\ \A j \in Instancias \ Y : enMemoria'[j].fallos = enMemoria[j].fallos
      BY <1>4, <1>5, <3>2
    <3>4. Cardinality(Anotan') \in Nat /\ falladas' = 0
      BY <1>4, <1>7, <1>9, <2>2, Cuantos
    <3>5. QED
      BY <1>1, <1>6, <2>2, <3>1, <3>3, <3>4, OlvidoCuenta DEF IInvFreno
  <2>3. CASE conRedis
    BY <1>1, <2>3 DEF ContadoEnMemoria
  <2>4. QED
    BY <2>1, <2>2, <2>3
<1>14. QED
  BY <1>8, <1>10, <1>11, <1>12, <1>13 DEF IInvFreno

\* An attempt does not begin with anything counted.
LEMMA IniciaFreno == InitFreno => IInvFreno
<1> SUFFICES ASSUME InitFreno PROVE IInvFreno
  OBVIOUS
<1>1. SinFallos \in Cuentas /\ SinFallos.fallos = 0
  BY FrenoOK DEF SinFallos, Cuentas, SinCaducidad
<1>2. \A i \in Instancias : Fuera(i) \in [etapa : Etapas, en : Instancias] /\ Fuera(i).etapa = "fuera"
  BY DEF Fuera, Etapas
<1>3. intento \in [Intentos -> [etapa : Etapas, en : Instancias]]
      /\ \A a \in Intentos : intento[a].etapa = "fuera"
  BY <1>2 DEF InitFreno
<1>4. TipoFreno
  BY <1>1, <1>3, FrenoOK DEF InitFreno, TipoFreno
<1>5. /\ SinCaducar = {} /\ Comparan = {} /\ Anotan = {}
      /\ \A S : Pasados(S) = {}
  BY <1>3 DEF SinCaducar, Comparan, Anotan, Pasados, De, EnFreno
<1>6. CuentasVivas /\ LlaveSinCaducidad
  BY <1>1, <1>5 DEF InitFreno, CuentasVivas, LlaveSinCaducidad
<1>7. Cardinality({}) = 0
  BY FS_EmptySet
<1>8. ContadoEnRedis
  <2>1. Cardinality(Comparan) = 0 /\ Cardinality(Anotan) = 0
    BY <1>5, <1>7
  <2>2. Maximo - 1 \in Nat /\ Cardinality(Intentos) \in Nat
    BY FrenoOK, DeIntentos
  <2>3. QED
    BY <1>1, <2>1, <2>2 DEF InitFreno, ContadoEnRedis
<1>9. ContadoEnMemoria
  <2>1. PICK s \in [SUBSET Instancias -> Nat] : \A S \in SUBSET Instancias : s[S] = 0
    <3> DEFINE f == [S \in SUBSET Instancias |-> 0]
    <3>1. f \in [SUBSET Instancias -> Nat] /\ \A S \in SUBSET Instancias : f[S] = 0
      OBVIOUS
    <3> HIDE DEF f
    <3>2. QED
      BY <3>1
  <2>2. EsSuma(s)
    BY <1>1, <2>1 DEF EsSuma, InitFreno
  <2>3. ASSUME NEW S \in SUBSET Instancias
        PROVE  s[S] + Cardinality(Pasados(S)) <= Cardinality(S) * (Maximo - 1) + Cardinality(De(S))
    <3>1. Cardinality(Pasados(S)) = 0 /\ s[S] = 0
      BY <1>5, <1>7, <2>1
    <3>2. Cardinality(S) \in Nat /\ Maximo - 1 \in Nat
      BY FrenoOK, FS_Subset, FS_CardinalityType
    <3>3. Cardinality(S) * (Maximo - 1) \in Nat /\ Cardinality(De(S)) \in Nat
      BY <3>2, Cuantos
    <3>4. QED
      BY <3>1, <3>3
  <2>4. falladas <= s[Instancias] + Cardinality(Anotan)
    <3>1. falladas = 0 /\ s[Instancias] = 0 /\ Cardinality(Anotan) = 0
      BY <1>5, <1>7, <2>1 DEF InitFreno
    <3>2. QED
      BY <3>1
  <2>5. QED
    BY <2>2, <2>3, <2>4 DEF ContadoEnMemoria, Contado
<1>10. QED
  BY <1>4, <1>6, <1>8, <1>9 DEF IInvFreno

\* Every step keeps it.
LEMMA PasoFreno == IInvFreno /\ [NextFreno]_varsFreno => IInvFreno'
<1> SUFFICES ASSUME IInvFreno, [NextFreno]_varsFreno PROVE IInvFreno'
  OBVIOUS
<1>1. CASE UNCHANGED varsFreno
  BY <1>1, ZenonT(60) DEF varsFreno, IInvFreno, TipoFreno, CuentasVivas, LlaveSinCaducidad, ContadoEnRedis,
     ContadoEnMemoria, EsSuma, Contado, SinCaducar, Comparan, Anotan, De, Pasados, EnFreno, Instancia
<1>2. QED
  BY <1>1, ComprobarInv, CompararInv, IncrementarInv, CaducarInv, AnotarInv, OlvidarInv,
     DesalojarInv, MorirAnotandoInv, PasaElTiempoInv DEF NextFreno

\* The inductive invariant of the brake.
THEOREM FrenoInvariante == SpecFreno => []IInvFreno
BY IniciaFreno, PasoFreno, PTL DEF SpecFreno

\* freno-de-cuentas.ts: no account stays locked for ever, and no more passwords are
\* compared than those of the brake and of what goes at once or unanswered.
THEOREM FrenoSiempreCumple == SpecFreno => []ElFrenoCumple
<1>1. ASSUME IInvFreno PROVE ElFrenoCumple
  <2>1. /\ falladas \in Nat /\ caidasRedis \in Nat /\ clave.fallos \in Nat /\ Maximo \in Nat \ {0}
        /\ Cardinality(Intentos) \in Nat /\ Cardinality(Anotan) \in Nat
        /\ Cardinality(Comparan) \in Nat
    BY <1>1, FrenoOK, Cuantos, DeIntentos DEF IInvFreno, TipoFreno, Cuentas
  <2>2. ElFrenoCaduca
    <3>1. SUFFICES ASSUME clave.fallos >= Maximo, caidasRedis < Maximo, SinCaducar = {},
                          clave.queda = SinCaducidad
                   PROVE  FALSE
      BY DEF ElFrenoCaduca
    <3>2. Cardinality(SinCaducar) = 0
      BY <3>1, FS_EmptySet
    <3>3. clave.fallos <= caidasRedis + Cardinality(SinCaducar)
      BY <1>1, <2>1, <3>1 DEF IInvFreno, LlaveSinCaducidad
    <3>4. QED
      BY <2>1, <3>1, <3>2, <3>3
  <2>3. CASE conRedis
    <3>1. falladas <= Maximo - 1 + caidasRedis + Cardinality(Intentos)
      BY <1>1, <2>1, <2>3 DEF IInvFreno, ContadoEnRedis
    <3>2. QED
      BY <2>1, <2>2, <2>3, <3>1 DEF ElFrenoCumple, TopeDeIntentos
  <2>4. CASE ~conRedis
    <3>1. PICK s : EsSuma(s) /\ Contado(s)
      BY <1>1, <2>4 DEF IInvFreno, ContadoEnMemoria
    <3>2. /\ s[Instancias] + Cardinality(Pasados(Instancias))
               <= Cardinality(Instancias) * (Maximo - 1) + Cardinality(De(Instancias))
          /\ falladas <= s[Instancias] + Cardinality(Anotan)
          /\ s[Instancias] \in Nat
      BY <3>1 DEF Contado, EsSuma
    <3>3. De(Instancias) = Intentos /\ Anotan \in SUBSET Pasados(Instancias)
      BY <1>1 DEF IInvFreno, TipoFreno, De, Pasados, Anotan, EnFreno, Instancia
    <3>4. Cardinality(Anotan) <= Cardinality(Pasados(Instancias))
      BY <3>3, Cuantos, DeIntentos, FS_Subset
    <3>5. Cardinality(Instancias) * (Maximo - 1) \in Int /\ Cardinality(Pasados(Instancias)) \in Nat
      <4>1. Cardinality(Instancias) \in Nat /\ Maximo - 1 \in Nat
        BY FrenoOK, FS_CardinalityType
      <4>2. QED
        BY <4>1, Cuantos
    <3>6. falladas <= Cardinality(Intentos) + Cardinality(Instancias) * (Maximo - 1)
      BY <2>1, <3>2, <3>3, <3>4, <3>5
    <3>7. QED
      BY <2>2, <2>4, <3>6 DEF ElFrenoCumple, TopeDeIntentos
  <2>5. QED
    BY <2>3, <2>4
<1>2. QED
  BY <1>1, FrenoInvariante, PTL

-----------------------------------------------------------------------------
(* The copy of the tree of categories.                                     *)

\* While Redis answers and nothing crosses, whoever is about to store a tree has
\* today's: if the tree changed, somebody was not reading or is counted as crossed.
PorGuardar ==
    (~cruzadas /\ sinCache = 0) =>
        \A l \in Lecturas : lectura[l].etapa = "guarda" => lectura[l].version = arbol

IInvCopia == TipoCategorias /\ PorGuardar /\ LaCopiaCuadra

\* What each kind of step leaves of what is known.
LEMMA IniciaCopia == InitCategorias => IInvCopia
<1> SUFFICES ASSUME InitCategorias PROVE IInvCopia
  OBVIOUS
<1>1. copia = [version |-> 0, queda |-> 0] /\ SinLeer = [etapa |-> "nada", version |-> 0]
  BY DEF InitCategorias, Copia, SinCopia, Leyendo, SinLeer
<1>2. copia.queda = 0 /\ TipoCategorias
  <2>1. 0 \in Versiones /\ 0 \in 0 .. NoCaduca /\ 0 \in 0 .. MaxSinCache
    BY CategoriasOK DEF Versiones, NoCaduca
  <2>2. copia \in [version : Versiones, queda : 0 .. NoCaduca] /\ copia.queda = 0
    BY <1>1, <2>1
  <2>3. lectura \in [Lecturas -> [etapa : {"nada", "calcula", "guarda"}, version : Versiones]]
    BY <1>1, <2>1 DEF InitCategorias
  <2>4. QED
    BY <2>1, <2>2, <2>3 DEF InitCategorias, TipoCategorias
<1>3. PorGuardar
  BY DEF InitCategorias, PorGuardar, Leyendo, SinLeer
<1>4. QED
  BY <1>2, <1>3 DEF IInvCopia, LaCopiaCuadra, HayCopia

\* A step of a reading.
LEMMA LecturaCopia ==
    ASSUME IInvCopia, NEW l \in Lecturas, BuscarCopia(l) \/ CalcularArbol(l) \/ GuardarCopia(l)
    PROVE  IInvCopia'
<1>1. CASE BuscarCopia(l)
  <2>1. TipoCategorias' /\ PorGuardar'
    BY <1>1, CategoriasOK DEF BuscarCopia, IInvCopia, TipoCategorias, PorGuardar, Versiones, Leyendo
  <2>2. LaCopiaCuadra'
    BY <1>1 DEF BuscarCopia, IInvCopia, LaCopiaCuadra, HayCopia, PorOlvidar
  <2>3. QED
    BY <2>1, <2>2 DEF IInvCopia
<1>2. CASE CalcularArbol(l)
  BY <1>2 DEF CalcularArbol, IInvCopia, TipoCategorias, PorGuardar, LaCopiaCuadra, Versiones,
     Leyendo, HayCopia, PorOlvidar
<1>3. CASE GuardarCopia(l)
  <2>1. TipoCategorias'
    BY <1>3, CategoriasOK DEF GuardarCopia, CacheContesta, CacheNoContesta, IInvCopia,
       TipoCategorias, Versiones, NoCaduca, Copia, Leyendo, SinLeer
  <2>2. PorGuardar'
    BY <1>3 DEF GuardarCopia, CacheContesta, CacheNoContesta, IInvCopia, TipoCategorias,
       PorGuardar, Leyendo, SinLeer
  <2>3. LaCopiaCuadra'
    BY <1>3 DEF GuardarCopia, CacheContesta, CacheNoContesta, IInvCopia, TipoCategorias,
       PorGuardar, LaCopiaCuadra, Copia, HayCopia, PorOlvidar
  <2>4. QED
    BY <2>1, <2>2, <2>3 DEF IInvCopia
<1>4. QED
  BY <1>1, <1>2, <1>3

\* A step of a writing.
LEMMA EscrituraCopia ==
    ASSUME IInvCopia, NEW e \in Escrituras,
           CargarCategoria(e) \/ CambiarArbol(e) \/ RechazarCambio(e) \/ OlvidarCopia(e)
    PROVE  IInvCopia'
<1>1. CASE CargarCategoria(e) \/ RechazarCambio(e)
  BY <1>1 DEF CargarCategoria, RechazarCambio, IInvCopia, TipoCategorias, PorGuardar,
     LaCopiaCuadra, HayCopia, PorOlvidar
<1>2. CASE CambiarArbol(e)
  <2>1. TipoCategorias'
    BY <1>2, CategoriasOK DEF CambiarArbol, EscribirArbol, IInvCopia, TipoCategorias, Versiones
  <2>2. PorGuardar'
    <3>1. ~cruzadas' => \A l \in Lecturas : lectura'[l] = SinLeer
      BY <1>2 DEF CambiarArbol, EscribirArbol
    <3>2. SinLeer.etapa # "guarda"
      BY DEF SinLeer, Leyendo
    <3>3. QED
      BY <3>1, <3>2 DEF PorGuardar
  <2>3. e \in PorOlvidar'
    BY <1>2 DEF CambiarArbol, EscribirArbol, IInvCopia, TipoCategorias, PorOlvidar
  <2>4. QED
    BY <2>1, <2>2, <2>3 DEF IInvCopia, LaCopiaCuadra
<1>3. CASE OlvidarCopia(e)
  <2>1. TipoCategorias'
    BY <1>3, CategoriasOK DEF OlvidarCopia, CacheContesta, CacheNoContesta, IInvCopia,
       TipoCategorias, Versiones, NoCaduca, Copia, SinCopia
  <2>2. PorGuardar'
    BY <1>3 DEF OlvidarCopia, CacheContesta, CacheNoContesta, IInvCopia, TipoCategorias, PorGuardar
  <2>3. sinCache' = 0 => copia'.queda = 0
    BY <1>3 DEF OlvidarCopia, CacheContesta, CacheNoContesta, IInvCopia, TipoCategorias,
       Copia, SinCopia
  <2>4. QED
    BY <2>1, <2>2, <2>3 DEF IInvCopia, LaCopiaCuadra, HayCopia
<1>4. QED
  BY <1>1, <1>2, <1>3

\* Every step keeps it.
LEMMA PasoCopia == IInvCopia /\ [NextCategorias]_varsCategorias => IInvCopia'
<1> SUFFICES ASSUME IInvCopia, [NextCategorias]_varsCategorias PROVE IInvCopia'
  OBVIOUS
<1>1. CASE CaducaCopia
  <2>1. /\ copia' \in [version : Versiones, queda : 0 .. NoCaduca]
        /\ copia'.queda > 0 => (copia.queda > 0 /\ copia'.version = copia.version)
    BY <1>1, CategoriasOK DEF CaducaCopia, HayCopia, IInvCopia, TipoCategorias, Versiones,
       NoCaduca, Copia, SinCopia
  <2>2. UNCHANGED <<arbol, lectura, escritura, sinCache, cruzadas>>
    BY <1>1 DEF CaducaCopia
  <2>3. TipoCategorias' /\ PorGuardar'
    BY <2>1, <2>2 DEF IInvCopia, TipoCategorias, PorGuardar, Versiones
  <2>4. LaCopiaCuadra'
    BY <2>1, <2>2 DEF IInvCopia, LaCopiaCuadra, HayCopia, PorOlvidar
  <2>5. QED
    BY <2>3, <2>4 DEF IInvCopia
<1>2. CASE UNCHANGED varsCategorias
  BY <1>2 DEF varsCategorias, IInvCopia, TipoCategorias, PorGuardar, LaCopiaCuadra, HayCopia,
     PorOlvidar
<1>3. QED
  BY <1>1, <1>2, LecturaCopia, EscrituraCopia DEF NextCategorias

\* categories.service.ts: whoever changes the tree sees it changed.
THEOREM CopiaInvariante == SpecCategorias => []IInvCopia
BY IniciaCopia, PasoCopia, PTL DEF SpecCategorias

\* The copy is what the database has as long as Redis answers and nothing crosses.
THEOREM CopiaSiempreCuadra == SpecCategorias => []LaCopiaCuadra
<1>1. IInvCopia => LaCopiaCuadra
  BY DEF IInvCopia
<1>2. QED
  BY <1>1, CopiaInvariante, PTL

-----------------------------------------------------------------------------
(* How far the language model can go over its monthly budget.              *)

\* The margin is asked for with what is noted, and the calls under way are not noted
\* yet, so that the bound is not inductive by itself.  What is inductive charges each
\* call under way with the most it can cost, and remembers that a call is only made
\* when the budget is enough for one: that is what the month which inherits it starts
\* from.

\* The calls that will still be noted with a cost.
EnCurso == {c \in Consultas : consulta[c].etapa \in {"llama", "pagada"}}

\* What is not spent in the worst case, month by month.
Comprometido(m) == uso[m].coste + IF m = mes THEN Cardinality(EnCurso) * CosteMaximo ELSE 0

Techo == Tope + (Cuantas - 1) * CosteMaximo

Acotado == \A m \in Meses : Comprometido(m) <= Techo
AlcanzaParaUna == EnCurso # {} => CosteMaximo <= Tope
ElSiguienteEmpiezaACero == mes = 1 => uso[2].coste = 0

TiposGasto ==
    /\ mes \in Meses
    /\ uso \in [Meses -> Apuntes]
    /\ consulta \in [Consultas -> [etapa : EtapasConsulta, coste : 0 .. CosteMaximo]]

IInvGasto == TiposGasto /\ Acotado /\ AlcanzaParaUna /\ ElSiguienteEmpiezaACero

\* One call more.
LEMMA Veces ==
    ASSUME NEW k \in Nat
    PROVE  /\ k * CosteMaximo \in Nat
           /\ (k + 1) * CosteMaximo = k * CosteMaximo + CosteMaximo
BY PresupuestoOK

\* Of some of the questions there are a number, no greater than that of all.
LEMMA CuantasHay ==
    ASSUME NEW S \in SUBSET Consultas
    PROVE  /\ IsFiniteSet(S)
           /\ Cardinality(S) \in Nat
           /\ Cuantas \in Nat \ {0}
           /\ Cardinality(S) <= Cuantas
           /\ Cardinality(S) = 0 <=> S = {}
<1>1. IsFiniteSet(Consultas) /\ Consultas # {}
  BY PresupuestoOK
<1>2. IsFiniteSet(S) /\ Cardinality(S) <= Cardinality(Consultas)
  BY <1>1, FS_Subset
<1>3. Cardinality(S) \in Nat /\ Cardinality(Consultas) \in Nat
  BY <1>1, <1>2, FS_CardinalityType
<1>4. Cardinality(Consultas) # 0 /\ (Cardinality(S) = 0 <=> S = {})
  BY <1>1, <1>2, FS_EmptySet
<1>. QED
  BY <1>2, <1>3, <1>4 DEF Cuantas

\* The ceiling with one call more.
LEMMA TechoEntero ==
    /\ Techo \in Int
    /\ Techo + CosteMaximo = Tope + Cuantas * CosteMaximo
    /\ \A k \in Nat : k <= Cuantas => k * CosteMaximo <= Cuantas * CosteMaximo
<1>1. PICK n \in Nat : Cuantas = n + 1
  <2>1. Cuantas - 1 \in Nat /\ Cuantas = (Cuantas - 1) + 1
    BY CuantasHay
  <2>. QED
    BY <2>1
<1>2. n * CosteMaximo \in Nat /\ (n + 1) * CosteMaximo = n * CosteMaximo + CosteMaximo
  BY Veces
<1>3. Cuantas - 1 = n
  BY <1>1
<1>4. Techo \in Int /\ Techo + CosteMaximo = Tope + Cuantas * CosteMaximo
  BY <1>1, <1>2, <1>3, PresupuestoOK DEF Techo
<1>5. ASSUME NEW k \in Nat, k <= Cuantas
      PROVE  k * CosteMaximo <= Cuantas * CosteMaximo
  BY <1>1, <1>5, PresupuestoOK
<1>. QED
  BY <1>4, <1>5

\* Fewer calls under way are less cost to come.
LEMMA MenosEsMenos ==
    ASSUME NEW j \in Nat, NEW k \in Nat, j <= k
    PROVE  j * CosteMaximo <= k * CosteMaximo
BY PresupuestoOK

\* The types, which do not ask where the calls are.
LEMMA PasoTiposGasto ==
    ASSUME TiposGasto, NextPresupuesto
    PROVE  TiposGasto'
<1>. USE DEF TiposGasto
<1>1. CASE CambiaElMes
  BY <1>1 DEF CambiaElMes, Meses
<1>2. ASSUME NEW c \in Consultas,
             \/ Preguntar(c) \/ NoCompletar(c)
             \/ \E coste \in 1 .. CosteMaximo : Completar(c, coste)
             \/ RegistrarExito(c) \/ Entender(c) \/ RegistrarFallo(c) \/ BuscarSinModelo(c)
      PROVE  TiposGasto'
  <2>1. consulta[c].coste \in 0 .. CosteMaximo
    OBVIOUS
  <2>2. 0 \in 0 .. CosteMaximo /\ 1 .. CosteMaximo \subseteq 0 .. CosteMaximo
    BY PresupuestoOK
  <2>3. mes' = mes
    BY <1>2 DEF Preguntar, NoCompletar, Completar, RegistrarExito, Entender, RegistrarFallo,
                BuscarSinModelo
  <2>4. ASSUME NEW etapa \in EtapasConsulta, NEW coste \in 0 .. CosteMaximo,
               PasaConsulta(c, etapa, coste)
        PROVE  consulta' \in [Consultas -> [etapa : EtapasConsulta, coste : 0 .. CosteMaximo]]
    BY <2>4 DEF PasaConsulta, Consultando
  <2>5. consulta' \in [Consultas -> [etapa : EtapasConsulta, coste : 0 .. CosteMaximo]]
    BY <1>2, <2>2, <2>4 DEF Preguntar, NoCompletar, Completar, RegistrarExito, Entender,
                            RegistrarFallo, BuscarSinModelo, EtapasConsulta
  <2>6. ASSUME NEW apunte \in Apuntes, Acumular(apunte)
        PROVE  uso' \in [Meses -> Apuntes]
    <3>1. Mas(uso[mes], apunte) \in Apuntes
      BY DEF Mas, Apunte, Apuntes
    <3>. QED
      BY <2>6, <3>1 DEF Acumular
  <2>7. Apunte(1, 1, 0) \in Apuntes /\ Apunte(1, 0, consulta[c].coste) \in Apuntes
    BY <2>1, PresupuestoOK DEF Apunte, Apuntes
  <2>8. uso' \in [Meses -> Apuntes]
    BY <1>2, <2>6, <2>7 DEF Preguntar, NoCompletar, Completar, RegistrarExito, Entender,
                            RegistrarFallo, BuscarSinModelo
  <2>. QED
    BY <2>3, <2>5, <2>8
<1>. QED
  BY <1>1, <1>2 DEF NextPresupuesto

\* What the month has committed does not grow, and nothing else is touched.
LEMMA NoCrece ==
    ASSUME IInvGasto, TiposGasto', mes' = mes,
           \A m \in Meses : m # mes => uso'[m] = uso[m],
           Comprometido(mes)' <= Comprometido(mes),
           EnCurso' \subseteq EnCurso
    PROVE  IInvGasto'
<1>1. /\ EnCurso \in SUBSET Consultas /\ EnCurso' \in SUBSET Consultas
      /\ mes \in Meses
  BY DEF EnCurso, IInvGasto, TiposGasto
<1>2. \A m \in Meses : m # mes => Comprometido(m)' = Comprometido(m)
  BY DEF Comprometido, IInvGasto, TiposGasto
<1>3. Comprometido(mes) <= Techo /\ Comprometido(mes) \in Int /\ Comprometido(mes)' \in Int
  <2>1. uso[mes].coste \in Nat /\ uso'[mes].coste \in Nat
    BY <1>1 DEF IInvGasto, TiposGasto, Apuntes
  <2>2. Cardinality(EnCurso) \in Nat /\ Cardinality(EnCurso') \in Nat
    BY <1>1, CuantasHay
  <2>3. Cardinality(EnCurso) * CosteMaximo \in Nat /\ Cardinality(EnCurso') * CosteMaximo \in Nat
    BY <2>2, Veces
  <2>4. Comprometido(mes) \in Int /\ Comprometido(mes)' \in Int
    BY <2>1, <2>3 DEF Comprometido
  <2>. QED
    BY <1>1, <2>4 DEF IInvGasto, Acotado
<1>4. Comprometido(mes)' <= Techo
  BY <1>3, TechoEntero
<1>5. Techo' = Techo
  BY DEF Techo, Cuantas
<1>6. Acotado'
  BY <1>2, <1>4, <1>5 DEF IInvGasto, Acotado
<1>7. AlcanzaParaUna' /\ ElSiguienteEmpiezaACero'
  BY <1>1 DEF IInvGasto, AlcanzaParaUna, ElSiguienteEmpiezaACero, Meses
<1>. QED
  BY <1>6, <1>7 DEF IInvGasto

\* A call is charged with the most it can cost, for which there was margin.
LEMMA PreguntarInv ==
    ASSUME IInvGasto, TiposGasto', NEW c \in Consultas, Preguntar(c)
    PROVE  IInvGasto'
<1>. DEFINE n == Cardinality(EnCurso)
<1>1. /\ uso' = uso /\ mes' = mes /\ c \notin EnCurso
      /\ EnCurso \in SUBSET Consultas /\ mes \in Meses /\ uso[mes].coste \in Nat
  BY DEF Preguntar, EnConsulta, EnCurso, IInvGasto, TiposGasto, Apuntes
<1>2. CASE Disponible /\ HayMargen
  <2>1. EnCurso' = EnCurso \cup {c}
    BY <1>1, <1>2 DEF Preguntar, PasaConsulta, Consultando, EnCurso, IInvGasto, TiposGasto
  <2>2. uso[mes].coste + CosteMaximo <= Tope
    BY <1>2 DEF HayMargen
  <2>3. n \in Nat /\ Cardinality(EnCurso') = n + 1 /\ n + 1 <= Cuantas /\ Cuantas \in Nat
    <3>1. IsFiniteSet(EnCurso) /\ n \in Nat
      BY <1>1, CuantasHay
    <3>2. Cardinality(EnCurso \cup {c}) = n + 1
      BY <1>1, <3>1, FS_AddElement
    <3>3. EnCurso \cup {c} \in SUBSET Consultas
      BY <1>1
    <3>4. Cardinality(EnCurso \cup {c}) <= Cuantas /\ Cuantas \in Nat
      BY <3>3, CuantasHay
    <3>. QED
      BY <2>1, <3>1, <3>2, <3>4
  <2>4. (n + 1) * CosteMaximo \in Nat /\ (n + 1) * CosteMaximo <= Cuantas * CosteMaximo
    BY <2>3, Veces, TechoEntero
  <2>5. Cuantas * CosteMaximo \in Nat
    BY <2>3, Veces
  <2>6. uso[mes].coste + (n + 1) * CosteMaximo <= Techo
    <3>1. ASSUME NEW x \in Nat, NEW y \in Nat, NEW z \in Nat, NEW t \in Int,
                 x + CosteMaximo <= Tope, y <= z, t + CosteMaximo = Tope + z
          PROVE  x + y <= t
      BY <3>1, PresupuestoOK
    <3>. HIDE DEF n
    <3>. QED
      BY <1>1, <2>2, <2>4, <2>5, <3>1, TechoEntero
  <2>7. Comprometido(mes)' <= Techo
    BY <1>1, <2>3, <2>6 DEF Comprometido
  <2>8. \A m \in Meses : m # mes => Comprometido(m)' = Comprometido(m)
    BY <1>1 DEF Comprometido
  <2>9. Techo' = Techo
    BY DEF Techo, Cuantas
  <2>10. Acotado'
    BY <1>1, <2>7, <2>8, <2>9 DEF IInvGasto, Acotado
  <2>11. AlcanzaParaUna'
    BY <1>1, <2>2, PresupuestoOK DEF AlcanzaParaUna
  <2>12. ElSiguienteEmpiezaACero'
    BY <1>1 DEF IInvGasto, ElSiguienteEmpiezaACero
  <2>. QED
    BY <2>10, <2>11, <2>12 DEF IInvGasto
<1>3. CASE ~(Disponible /\ HayMargen)
  <2>1. EnCurso' = EnCurso
    BY <1>1, <1>3 DEF Preguntar, PasaConsulta, Consultando, EnCurso, EnConsulta, IInvGasto, TiposGasto
  <2>2. Comprometido(mes)' = Comprometido(mes)
    BY <1>1, <2>1 DEF Comprometido
  <2>3. Comprometido(mes) \in Int
    BY <1>1, CuantasHay, Veces DEF Comprometido
  <2>. QED
    BY <1>1, <2>1, <2>2, <2>3, NoCrece
<1>. QED
  BY <1>2, <1>3

\* A step that adds to the row at most what the call it takes away was charged.
LEMMA ApuntarInv ==
    ASSUME IInvGasto, TiposGasto', mes' = mes, NEW apunte \in Apuntes, Acumular(apunte),
           \/ apunte.coste = 0 /\ EnCurso' \subseteq EnCurso
           \/ /\ apunte.coste <= CosteMaximo
              /\ \E c \in EnCurso : EnCurso' = EnCurso \ {c}
    PROVE  IInvGasto'
<1>. DEFINE n == Cardinality(EnCurso)
            n1 == Cardinality(EnCurso')
<1>1. /\ EnCurso \in SUBSET Consultas /\ EnCurso' \in SUBSET Consultas
      /\ mes \in Meses /\ uso \in [Meses -> Apuntes]
      /\ uso[mes].coste \in Nat /\ apunte.coste \in Nat
  BY DEF EnCurso, IInvGasto, TiposGasto, Apuntes
<1>2. /\ n \in Nat /\ n1 \in Nat /\ IsFiniteSet(EnCurso)
      /\ n * CosteMaximo \in Nat /\ n1 * CosteMaximo \in Nat
  BY <1>1, CuantasHay, Veces
<1>3. apunte.coste + n1 * CosteMaximo <= n * CosteMaximo
  <2>1. CASE apunte.coste = 0 /\ EnCurso' \subseteq EnCurso
    <3>1. n1 <= n
      BY <1>2, <2>1, FS_Subset
    <3>2. n1 * CosteMaximo <= n * CosteMaximo
      BY <1>2, <3>1, MenosEsMenos
    <3>. QED
      BY <1>2, <2>1, <3>2
  <2>2. ASSUME apunte.coste <= CosteMaximo, NEW c \in EnCurso, EnCurso' = EnCurso \ {c}
        PROVE  apunte.coste + n1 * CosteMaximo <= n * CosteMaximo
    <3>1. n1 = n - 1
      BY <1>2, <2>2, FS_RemoveElement
    <3>2. n = n1 + 1
      BY <1>2, <3>1
    <3>3. n * CosteMaximo = n1 * CosteMaximo + CosteMaximo
      BY <1>2, <3>2, Veces
    <3>. QED
      BY <1>1, <1>2, <2>2, <3>3, PresupuestoOK
  <2>. QED
    BY <2>1, <2>2
<1>4. /\ \A m \in Meses : m # mes => uso'[m] = uso[m]
      /\ uso'[mes].coste \in Nat
      /\ uso'[mes].coste <= uso[mes].coste + apunte.coste
  BY <1>1 DEF Acumular, Mas, Apunte
<1>5. Comprometido(mes)' <= Comprometido(mes)
  <2>1. Comprometido(mes)' = uso'[mes].coste + n1 * CosteMaximo
    BY DEF Comprometido
  <2>2. Comprometido(mes) = uso[mes].coste + n * CosteMaximo
    BY DEF Comprometido
  <2>. HIDE DEF n, n1
  <2>. QED
    BY <1>1, <1>2, <1>3, <1>4, <2>1, <2>2
<1>6. EnCurso' \subseteq EnCurso
  OBVIOUS
<1>. QED
  BY <1>4, <1>5, <1>6, NoCrece

\* A step that notes nothing and starts no call.
LEMMA SinApuntarInv ==
    ASSUME IInvGasto, TiposGasto', mes' = mes, uso' = uso, EnCurso' \subseteq EnCurso
    PROVE  IInvGasto'
<1>1. EnCurso \in SUBSET Consultas /\ EnCurso' \in SUBSET Consultas
  BY DEF EnCurso, TiposGasto
<1>2. Cardinality(EnCurso') <= Cardinality(EnCurso)
  BY <1>1, CuantasHay, FS_Subset
<1>3. /\ Cardinality(EnCurso) * CosteMaximo \in Nat
      /\ Cardinality(EnCurso') * CosteMaximo \in Nat
      /\ Cardinality(EnCurso') * CosteMaximo <= Cardinality(EnCurso) * CosteMaximo
  BY <1>1, <1>2, CuantasHay, Veces, MenosEsMenos
<1>4. uso[mes].coste \in Nat
  BY DEF IInvGasto, TiposGasto, Apuntes
<1>5. Comprometido(mes)' <= Comprometido(mes)
  BY <1>3, <1>4 DEF Comprometido
<1>. QED
  BY <1>5, NoCrece

\* The month that comes inherits the calls under way, and no other cost.
LEMMA CambiaElMesInv ==
    ASSUME IInvGasto, TiposGasto', CambiaElMes
    PROVE  IInvGasto'
<1>1. /\ mes = 1 /\ mes' = 2 /\ uso' = uso /\ EnCurso' = EnCurso
      /\ uso[1].coste \in Nat /\ uso[2].coste = 0
      /\ EnCurso \in SUBSET Consultas
  BY DEF CambiaElMes, EnCurso, IInvGasto, TiposGasto, Apuntes, Meses, ElSiguienteEmpiezaACero
<1>2. /\ Cardinality(EnCurso) \in Nat /\ Cuantas \in Nat
      /\ Cardinality(EnCurso) <= Cuantas
      /\ Cardinality(EnCurso) = 0 <=> EnCurso = {}
  BY <1>1, CuantasHay
<1>3. /\ Cardinality(EnCurso) * CosteMaximo \in Nat
      /\ Cardinality(EnCurso) * CosteMaximo <= Cuantas * CosteMaximo
      /\ Cuantas * CosteMaximo \in Nat
  BY <1>2, Veces, TechoEntero
<1>4. uso[1].coste + Cardinality(EnCurso) * CosteMaximo <= Techo
  <2>1. 1 \in Meses
    BY DEF Meses
  <2>2. Comprometido(1) <= Techo
    BY <2>1 DEF IInvGasto, Acotado
  <2>. QED
    BY <1>1, <2>2 DEF Comprometido
<1>5. Comprometido(1)' <= Techo
  <2>1. Comprometido(1)' = uso[1].coste
    BY <1>1 DEF Comprometido
  <2>. QED
    BY <1>1, <1>3, <1>4, <2>1, TechoEntero
<1>6. Comprometido(2)' <= Techo
  <2>1. Comprometido(2)' = Cardinality(EnCurso) * CosteMaximo
    BY <1>1, <1>3 DEF Comprometido
  <2>. QED
    BY <1>1, <1>3, <1>4, <2>1, TechoEntero
<1>7. Techo' = Techo /\ Meses = {1, 2}
  BY DEF Techo, Cuantas, Meses
<1>8. Acotado'
  BY <1>5, <1>6, <1>7 DEF Acotado
<1>9. AlcanzaParaUna' /\ ElSiguienteEmpiezaACero'
  BY <1>1 DEF IInvGasto, AlcanzaParaUna, ElSiguienteEmpiezaACero
<1>. QED
  BY <1>8, <1>9 DEF IInvGasto

\* Every step keeps the invariant.
LEMMA PasoGasto ==
    ASSUME IInvGasto, NextPresupuesto
    PROVE  IInvGasto'
<1>1. TiposGasto'
  BY PasoTiposGasto DEF IInvGasto
<1>2. CASE CambiaElMes
  BY <1>1, <1>2, CambiaElMesInv
<1>3. ASSUME NEW c \in Consultas, Preguntar(c) PROVE IInvGasto'
  BY <1>1, <1>3, PreguntarInv
<1>4. ASSUME NEW c \in Consultas, RegistrarExito(c) PROVE IInvGasto'
  <2>1. /\ Apunte(1, 0, consulta[c].coste) \in Apuntes
        /\ Apunte(1, 0, consulta[c].coste).coste <= CosteMaximo
        /\ Acumular(Apunte(1, 0, consulta[c].coste))
        /\ mes' = mes
    BY <1>4, PresupuestoOK DEF RegistrarExito, Apunte, Apuntes, IInvGasto, TiposGasto
  <2>2. c \in EnCurso /\ EnCurso' = EnCurso \ {c}
    BY <1>4 DEF RegistrarExito, EnConsulta, PasaConsulta, Consultando, EnCurso, IInvGasto, TiposGasto
  <2>. QED
    BY <1>1, <2>1, <2>2, ApuntarInv
<1>5. ASSUME NEW c \in Consultas, RegistrarFallo(c) PROVE IInvGasto'
  <2>1. /\ Apunte(1, 1, 0) \in Apuntes /\ Apunte(1, 1, 0).coste = 0
        /\ Acumular(Apunte(1, 1, 0))
        /\ mes' = mes
    BY <1>5 DEF RegistrarFallo, Apunte, Apuntes
  <2>2. EnCurso' \subseteq EnCurso
    BY <1>5 DEF RegistrarFallo, EnConsulta, PasaConsulta, Consultando, EnCurso, IInvGasto, TiposGasto
  <2>. QED
    BY <1>1, <2>1, <2>2, ApuntarInv
<1>6. ASSUME NEW c \in Consultas,
             \/ NoCompletar(c) \/ Entender(c) \/ BuscarSinModelo(c)
             \/ \E coste \in 1 .. CosteMaximo : Completar(c, coste)
      PROVE  IInvGasto'
  <2>1. mes' = mes /\ uso' = uso
    BY <1>6 DEF NoCompletar, Entender, BuscarSinModelo, Completar
  <2>2. EnCurso' \subseteq EnCurso
    BY <1>6 DEF NoCompletar, Entender, BuscarSinModelo, Completar, EnConsulta, PasaConsulta,
                Consultando, EnCurso, IInvGasto, TiposGasto
  <2>. QED
    BY <1>1, <2>1, <2>2, SinApuntarInv
<1>. QED
  BY <1>2, <1>3, <1>4, <1>5, <1>6 DEF NextPresupuesto

\* Nothing is spent to begin with.
LEMMA IniciaGasto == InitPresupuesto => IInvGasto
<1>. SUFFICES ASSUME InitPresupuesto PROVE IInvGasto
  OBVIOUS
<1>1. mes = 1 /\ uso = [m \in Meses |-> Apunte(0, 0, 0)] /\ consulta = [c \in Consultas |-> Reposo]
  BY DEF InitPresupuesto
<1>2. TiposGasto
  BY <1>1, PresupuestoOK DEF TiposGasto, Meses, Apunte, Apuntes, Reposo, Consultando, EtapasConsulta
<1>3. EnCurso = {}
  BY <1>1 DEF EnCurso, Reposo, Consultando
<1>4. Cardinality(EnCurso) = 0
  BY <1>3, FS_EmptySet
<1>5. 0 <= Techo
  <2>1. Cuantas - 1 \in Nat
    BY CuantasHay
  <2>2. (Cuantas - 1) * CosteMaximo \in Nat
    BY <2>1, Veces
  <2>. QED
    BY <2>2, PresupuestoOK DEF Techo
<1>6. \A m \in Meses : Comprometido(m) = 0
  <2>1. \A m \in Meses : uso[m].coste = 0
    BY <1>1 DEF Apunte
  <2>2. 0 * CosteMaximo = 0
    BY PresupuestoOK
  <2>. QED
    BY <1>4, <2>1, <2>2 DEF Comprometido
<1>7. Acotado
  BY <1>5, <1>6 DEF Acotado
<1>8. AlcanzaParaUna /\ ElSiguienteEmpiezaACero
  BY <1>1, <1>3 DEF AlcanzaParaUna, ElSiguienteEmpiezaACero, Meses, Apunte
<1>. QED
  BY <1>2, <1>7, <1>8 DEF IInvGasto


\* What is noted and what is under way are within the ceiling, always.
THEOREM PresupuestoInvariante == SpecPresupuesto => []IInvGasto
<1>1. IInvGasto /\ UNCHANGED varsPresupuesto => IInvGasto'
  BY DEF IInvGasto, TiposGasto, Acotado, AlcanzaParaUna, ElSiguienteEmpiezaACero, Comprometido, EnCurso,
         Techo, Cuantas, varsPresupuesto
<1>. QED
  BY IniciaGasto, PasoGasto, <1>1, PTL DEF SpecPresupuesto

\* presupuesto.service.ts:60-63: a month goes over its budget by no more than
\* what the calls under way at once can cost, one of them apart, however many
\* questions arrive together and whatever each call costs.
THEOREM GastoSiempreAcotado == SpecPresupuesto => []GastoAcotado
<1>1. IInvGasto => GastoAcotado
  <2>1. SUFFICES ASSUME IInvGasto, NEW m \in Meses PROVE uso[m].coste <= Techo
    BY DEF GastoAcotado, Techo
  <2>2. EnCurso \in SUBSET Consultas /\ uso[m].coste \in Nat
    BY <2>1 DEF EnCurso, IInvGasto, TiposGasto, Apuntes
  <2>3. Cardinality(EnCurso) * CosteMaximo \in Nat
    BY <2>2, CuantasHay, Veces
  <2>4. Comprometido(m) <= Techo
    BY <2>1 DEF IInvGasto, Acotado
  <2>. QED
    BY <2>2, <2>3, <2>4, TechoEntero DEF Comprometido
<1>. QED
  BY PresupuestoInvariante, <1>1, PTL

-----------------------------------------------------------------------------
(* What is noted of the calls, and what was paid for them.                 *)

Preguntas == [etapa : EtapasConsulta, coste : 0 .. CosteMaximo]

Ocupadas == {c \in Consultas : consulta[c].etapa # "nada"}
PorAnotar == {c \in Consultas : consulta[c].etapa = "pagada"}

\* What is noted of both months, and the questions that were answered.
Llamadas == uso[1].llamadas + uso[2].llamadas
Fallidas == uso[1].fallos + uso[2].fallos
Costes == uso[1].coste + uso[2].coste
Respondidas == respuestas["ia"] + respuestas["basico"]

\* Only a call that is paid and not noted has a cost.
CosteDePagada == \A c \in Consultas : consulta[c].etapa # "pagada" => consulta[c].coste = 0

\* Every question is under way or answered.
NadieSinRespuesta == Respondidas + Cardinality(Ocupadas) = atendidas

\* A call the provider answered is noted as one that did not fail, or about to be.
LlamadasAnotadas ==
    sinApuntar = 0 =>
        Llamadas + Cardinality(PorAnotar) = Fallidas + pagadas.cuantas

\* gasto is the sum of the costs of any questions: it is not computed, it is known to
\* exist, and with it the sums grow and shrink with each cost.
EsGasto(gasto) ==
    /\ gasto \in [SUBSET Consultas -> Nat]
    /\ \A S \in SUBSET Consultas : \A c \in S : gasto[S] = gasto[S \ {c}] + consulta[c].coste
    /\ \A S \in SUBSET Consultas : (\A c \in S : consulta[c].coste = 0) => gasto[S] = 0

\* What was paid is noted, or about to be.
CosteAnotado ==
    \E gasto : /\ EsGasto(gasto)
               /\ sinApuntar = 0 => Costes + gasto[Consultas] = pagadas.coste

IInvCuenta ==
    /\ TipoPresupuesto
    /\ CosteDePagada
    /\ NadieSinRespuesta
    /\ LlamadasAnotadas
    /\ CosteAnotado

\* One question makes one.
LEMMA SinUnaPregunta ==
    ASSUME NEW S \in SUBSET Consultas, NEW T \in SUBSET Consultas, NEW c \in Consultas,
           S \ {c} = T \ {c}
    PROVE  \E n \in Nat :
             /\ c \in S => Cardinality(S) = n + 1
             /\ c \notin S => Cardinality(S) = n
             /\ c \in T => Cardinality(T) = n + 1
             /\ c \notin T => Cardinality(T) = n
<1>1. ASSUME NEW U \in SUBSET Consultas
      PROVE  /\ Cardinality(U \ {c}) \in Nat /\ Cardinality(U) \in Nat
             /\ c \in U => Cardinality(U) = Cardinality(U \ {c}) + 1
             /\ c \notin U => Cardinality(U) = Cardinality(U \ {c})
  <2>1. IsFiniteSet(U) /\ IsFiniteSet(U \ {c})
    BY PresupuestoOK, FS_Subset
  <2>2. Cardinality(U \ {c}) = IF c \in U THEN Cardinality(U) - 1 ELSE Cardinality(U)
    BY <2>1, FS_RemoveElement
  <2>3. Cardinality(U) \in Nat /\ Cardinality(U \ {c}) \in Nat
    BY <2>1, FS_CardinalityType
  <2>4. QED
    BY <2>2, <2>3
<1>2. /\ Cardinality(S \ {c}) \in Nat
      /\ c \in S => Cardinality(S) = Cardinality(S \ {c}) + 1
      /\ c \notin S => Cardinality(S) = Cardinality(S \ {c})
  BY <1>1
<1>3. /\ c \in T => Cardinality(T) = Cardinality(S \ {c}) + 1
      /\ c \notin T => Cardinality(T) = Cardinality(S \ {c})
  <2>1. /\ c \in T => Cardinality(T) = Cardinality(T \ {c}) + 1
        /\ c \notin T => Cardinality(T) = Cardinality(T \ {c})
    BY <1>1
  <2>2. QED
    BY <2>1
<1>4. QED
  BY <1>2, <1>3

\* The sums of the costs after one changes.
LEMMA CambiaElGasto ==
    ASSUME TipoPresupuesto, NEW s, EsGasto(s), NEW c \in Consultas, NEW k \in 0 .. CosteMaximo,
           consulta'[c].coste = k,
           \A d \in Consultas \ {c} : consulta'[d] = consulta[d]
    PROVE  \E t : /\ EsGasto(t)'
                  /\ \E h \in Nat : s[Consultas] = h + consulta[c].coste /\ t[Consultas] = h + k
<1>1. /\ k \in Nat /\ s \in [SUBSET Consultas -> Nat]
      /\ \A d \in Consultas : consulta[d].coste \in Nat
  BY PresupuestoOK DEF EsGasto, TipoPresupuesto
<1>2. PICK t \in [SUBSET Consultas -> Nat] :
        \A S \in SUBSET Consultas :
          /\ c \in S => t[S] = s[S \ {c}] + k
          /\ c \notin S => t[S] = s[S]
  <2> DEFINE f == [S \in SUBSET Consultas |-> IF c \in S THEN s[S \ {c}] + k ELSE s[S]]
  <2>1. /\ f \in [SUBSET Consultas -> Nat]
        /\ \A S \in SUBSET Consultas :
             /\ c \in S => f[S] = s[S \ {c}] + k
             /\ c \notin S => f[S] = s[S]
    BY <1>1
  <2> HIDE DEF f
  <2>2. QED
    BY <2>1
<1>3. ASSUME NEW S \in SUBSET Consultas, NEW d \in S
      PROVE  t[S] = t[S \ {d}] + consulta'[d].coste
  <2>1. CASE d = c
    <3>1. t[S] = s[S \ {c}] + k /\ t[S \ {c}] = s[S \ {c}]
      BY <1>2, <2>1
    <3>2. QED
      BY <2>1, <3>1
  <2>2. CASE d # c /\ c \notin S
    <3>1. t[S] = s[S] /\ t[S \ {d}] = s[S \ {d}]
      BY <1>2, <2>2
    <3>2. QED
      BY <2>2, <3>1 DEF EsGasto
  <2>3. CASE d # c /\ c \in S
    <3>1. (S \ {d}) \ {c} = (S \ {c}) \ {d} /\ d \in S \ {c} /\ S \ {c} \in SUBSET Consultas
      BY <2>3
    <3>2. t[S] = s[S \ {c}] + k /\ t[S \ {d}] = s[(S \ {c}) \ {d}] + k
      BY <1>2, <2>3, <3>1
    <3>3. s[S \ {c}] = s[(S \ {c}) \ {d}] + consulta[d].coste
      BY <3>1 DEF EsGasto
    <3>4. s[S \ {c}] \in Nat /\ s[(S \ {c}) \ {d}] \in Nat /\ consulta[d].coste \in Nat
      BY <1>1, <3>1
    <3>5. consulta'[d].coste = consulta[d].coste
      BY <2>3
    <3>6. QED
      BY <1>1, <3>2, <3>3, <3>4, <3>5
  <2>4. QED
    BY <2>1, <2>2, <2>3
<1>4. ASSUME NEW S \in SUBSET Consultas, \A d \in S : consulta'[d].coste = 0
      PROVE  t[S] = 0
  <2>1. CASE c \in S
    <3>1. s[S \ {c}] = 0
      BY <1>4 DEF EsGasto
    <3>2. k = 0 /\ t[S] = s[S \ {c}] + k
      BY <1>2, <1>4, <2>1
    <3>3. QED
      BY <3>1, <3>2
  <2>2. CASE c \notin S
    BY <1>2, <1>4, <2>2 DEF EsGasto
  <2>3. QED
    BY <2>1, <2>2
<1>5. EsGasto(t)'
  BY <1>2, <1>3, <1>4 DEF EsGasto
<1>6. /\ t[Consultas] = s[Consultas \ {c}] + k
      /\ s[Consultas] = s[Consultas \ {c}] + consulta[c].coste
      /\ s[Consultas \ {c}] \in Nat
  BY <1>1, <1>2 DEF EsGasto
<1>7. QED
  BY <1>5, <1>6

\* The step of a question: what it does to the numbers of those under way and of those
\* to be noted.
LEMMA PasaConsultaHace ==
    ASSUME TipoPresupuesto, NEW c \in Consultas, NEW etapa \in EtapasConsulta,
           NEW k \in 0 .. CosteMaximo, PasaConsulta(c, etapa, k)
    PROVE  /\ consulta' \in [Consultas -> Preguntas]
           /\ consulta'[c].etapa = etapa /\ consulta'[c].coste = k
           /\ \A d \in Consultas \ {c} : consulta'[d] = consulta[d]
           /\ \E n \in Nat :
                /\ consulta[c].etapa # "nada" => Cardinality(Ocupadas) = n + 1
                /\ consulta[c].etapa = "nada" => Cardinality(Ocupadas) = n
                /\ etapa # "nada" => Cardinality(Ocupadas') = n + 1
                /\ etapa = "nada" => Cardinality(Ocupadas') = n
           /\ \E n \in Nat :
                /\ consulta[c].etapa = "pagada" => Cardinality(PorAnotar) = n + 1
                /\ consulta[c].etapa # "pagada" => Cardinality(PorAnotar) = n
                /\ etapa = "pagada" => Cardinality(PorAnotar') = n + 1
                /\ etapa # "pagada" => Cardinality(PorAnotar') = n
<1>1. /\ consulta' \in [Consultas -> Preguntas]
      /\ consulta'[c] = [etapa |-> etapa, coste |-> k]
      /\ \A d \in Consultas \ {c} : consulta'[d] = consulta[d]
  BY DEF TipoPresupuesto, PasaConsulta, Consultando, Preguntas
<1>2. consulta'[c].etapa = etapa /\ consulta'[c].coste = k
  BY <1>1
<1>3. /\ Ocupadas \in SUBSET Consultas /\ Ocupadas' \in SUBSET Consultas
      /\ Ocupadas \ {c} = Ocupadas' \ {c}
      /\ c \in Ocupadas <=> consulta[c].etapa # "nada"
      /\ c \in Ocupadas' <=> etapa # "nada"
  BY <1>1 DEF Ocupadas
<1>4. /\ PorAnotar \in SUBSET Consultas /\ PorAnotar' \in SUBSET Consultas
      /\ PorAnotar \ {c} = PorAnotar' \ {c}
      /\ c \in PorAnotar <=> consulta[c].etapa = "pagada"
      /\ c \in PorAnotar' <=> etapa = "pagada"
  BY <1>1 DEF PorAnotar
<1>5. \E n \in Nat :
        /\ consulta[c].etapa # "nada" => Cardinality(Ocupadas) = n + 1
        /\ consulta[c].etapa = "nada" => Cardinality(Ocupadas) = n
        /\ etapa # "nada" => Cardinality(Ocupadas') = n + 1
        /\ etapa = "nada" => Cardinality(Ocupadas') = n
  <2>1. \E n \in Nat :
          /\ c \in Ocupadas => Cardinality(Ocupadas) = n + 1
          /\ c \notin Ocupadas => Cardinality(Ocupadas) = n
          /\ c \in Ocupadas' => Cardinality(Ocupadas') = n + 1
          /\ c \notin Ocupadas' => Cardinality(Ocupadas') = n
    BY <1>3, SinUnaPregunta
  <2>2. QED
    BY <1>3, <2>1
<1>6. \E n \in Nat :
        /\ consulta[c].etapa = "pagada" => Cardinality(PorAnotar) = n + 1
        /\ consulta[c].etapa # "pagada" => Cardinality(PorAnotar) = n
        /\ etapa = "pagada" => Cardinality(PorAnotar') = n + 1
        /\ etapa # "pagada" => Cardinality(PorAnotar') = n
  <2>1. \E n \in Nat :
          /\ c \in PorAnotar => Cardinality(PorAnotar) = n + 1
          /\ c \notin PorAnotar => Cardinality(PorAnotar) = n
          /\ c \in PorAnotar' => Cardinality(PorAnotar') = n + 1
          /\ c \notin PorAnotar' => Cardinality(PorAnotar') = n
    BY <1>4, SinUnaPregunta
  <2>2. QED
    BY <1>4, <2>1
<1>7. QED
  BY <1>1, <1>2, <1>5, <1>6

\* What the types say of each number.
LEMMA NumerosDelUso ==
    ASSUME TipoPresupuesto
    PROVE  /\ Llamadas \in Nat /\ Fallidas \in Nat /\ Costes \in Nat /\ Respondidas \in Nat
           /\ pagadas.cuantas \in Nat /\ pagadas.coste \in Nat
           /\ atendidas \in Nat /\ sinApuntar \in Nat
<1>1. /\ uso[1] \in Apuntes /\ uso[2] \in Apuntes
      /\ respuestas["ia"] \in Nat /\ respuestas["basico"] \in Nat
      /\ pagadas \in [cuantas : Nat, coste : Nat]
      /\ atendidas \in 0 .. MaxConsultas /\ sinApuntar \in 0 .. MaxSinApuntar
  BY DEF TipoPresupuesto, Meses, Modos
<1>2. QED
  BY <1>1, PresupuestoOK DEF Llamadas, Fallidas, Costes, Respondidas, Apuntes

\* What goes from one side of an equation to the other.
LEMMA Traslado ==
    ASSUME NEW a \in Nat, NEW m \in Nat, NEW b \in Nat, NEW n \in Nat, NEW d \in Nat,
           NEW e \in Nat, NEW h \in Nat,
           m + n + d = a + b + e, a + (h + b) = d
    PROVE  m + (h + n) = e
OBVIOUS

\* A question that moves, and the answers, the payments and the notes that move with it.
LEMMA PasoDeConsulta ==
    ASSUME IInvCuenta, TipoPresupuesto', NEW c \in Consultas, NEW etapa \in EtapasConsulta,
           NEW k \in 0 .. CosteMaximo, PasaConsulta(c, etapa, k), etapa # "pagada" => k = 0,
           NEW o \in Nat, consulta[c].etapa # "nada" => o = 1, consulta[c].etapa = "nada" => o = 0,
           NEW o1 \in Nat, etapa # "nada" => o1 = 1, etapa = "nada" => o1 = 0,
           NEW p \in Nat, consulta[c].etapa = "pagada" => p = 1, consulta[c].etapa # "pagada" => p = 0,
           NEW p1 \in Nat, etapa = "pagada" => p1 = 1, etapa # "pagada" => p1 = 0,
           Respondidas' + o1 + atendidas = Respondidas + o + atendidas',
           sinApuntar' = 0 =>
               /\ sinApuntar = 0
               /\ Llamadas' + p1 + (Fallidas + pagadas.cuantas)
                    = Llamadas + p + (Fallidas' + pagadas'.cuantas)
               /\ Costes' + k + pagadas.coste = Costes + consulta[c].coste + pagadas'.coste
    PROVE  IInvCuenta'
<1>1. /\ consulta' \in [Consultas -> Preguntas]
      /\ consulta'[c].etapa = etapa /\ consulta'[c].coste = k
      /\ \A d \in Consultas \ {c} : consulta'[d] = consulta[d]
  BY PasaConsultaHace DEF IInvCuenta
<1>2. \E n \in Nat : Cardinality(Ocupadas) = n + o /\ Cardinality(Ocupadas') = n + o1
  <2>1. PICK n \in Nat :
          /\ consulta[c].etapa # "nada" => Cardinality(Ocupadas) = n + 1
          /\ consulta[c].etapa = "nada" => Cardinality(Ocupadas) = n
          /\ etapa # "nada" => Cardinality(Ocupadas') = n + 1
          /\ etapa = "nada" => Cardinality(Ocupadas') = n
    BY PasaConsultaHace DEF IInvCuenta
  <2>2. n + 0 = n
    OBVIOUS
  <2>3. Cardinality(Ocupadas) = n + o /\ Cardinality(Ocupadas') = n + o1
    BY <2>1, <2>2
  <2>4. QED
    BY <2>3
<1>3. \E n \in Nat : Cardinality(PorAnotar) = n + p /\ Cardinality(PorAnotar') = n + p1
  <2>1. PICK n \in Nat :
          /\ consulta[c].etapa = "pagada" => Cardinality(PorAnotar) = n + 1
          /\ consulta[c].etapa # "pagada" => Cardinality(PorAnotar) = n
          /\ etapa = "pagada" => Cardinality(PorAnotar') = n + 1
          /\ etapa # "pagada" => Cardinality(PorAnotar') = n
    BY PasaConsultaHace DEF IInvCuenta
  <2>2. n + 0 = n
    OBVIOUS
  <2>3. Cardinality(PorAnotar) = n + p /\ Cardinality(PorAnotar') = n + p1
    BY <2>1, <2>2
  <2>4. QED
    BY <2>3
<1>4. CosteDePagada'
  BY <1>1 DEF IInvCuenta, CosteDePagada
<1>5. /\ Llamadas \in Nat /\ Fallidas \in Nat /\ Costes \in Nat /\ Respondidas \in Nat
      /\ pagadas.cuantas \in Nat /\ pagadas.coste \in Nat /\ atendidas \in Nat
      /\ Fallidas + pagadas.cuantas \in Nat
  BY NumerosDelUso DEF IInvCuenta
<1>6. /\ Llamadas' \in Nat /\ Fallidas' \in Nat /\ Costes' \in Nat /\ Respondidas' \in Nat
      /\ pagadas'.cuantas \in Nat /\ pagadas'.coste \in Nat /\ atendidas' \in Nat
      /\ Fallidas' + pagadas'.cuantas \in Nat
  <2>1. /\ uso'[1] \in Apuntes /\ uso'[2] \in Apuntes
        /\ respuestas'["ia"] \in Nat /\ respuestas'["basico"] \in Nat
        /\ pagadas' \in [cuantas : Nat, coste : Nat] /\ atendidas' \in 0 .. MaxConsultas
    BY DEF TipoPresupuesto, Meses, Modos
  <2>2. /\ Llamadas' \in Nat /\ Fallidas' \in Nat /\ Costes' \in Nat /\ Respondidas' \in Nat
        /\ pagadas'.cuantas \in Nat /\ pagadas'.coste \in Nat /\ atendidas' \in Nat
    BY <2>1, PresupuestoOK DEF Llamadas, Fallidas, Costes, Respondidas, Apuntes
  <2>3. QED
    BY <2>2
<1>7. NadieSinRespuesta'
  <2>1. PICK n \in Nat : Cardinality(Ocupadas) = n + o /\ Cardinality(Ocupadas') = n + o1
    BY <1>2
  <2>2. Respondidas + (n + o) = atendidas
    BY <2>1 DEF IInvCuenta, NadieSinRespuesta
  <2>3. Respondidas' + (n + o1) = atendidas'
    <3>1. /\ Respondidas \in Nat /\ Respondidas' \in Nat
          /\ atendidas \in Nat /\ atendidas' \in Nat
      BY <1>5, <1>6
    <3>2. Respondidas' + o1 + atendidas = Respondidas + o + atendidas'
      OBVIOUS
    <3>3. PICK r \in Nat : r = Respondidas
      BY <3>1
    <3>4. PICK r1 \in Nat : r1 = Respondidas'
      BY <3>1
    <3>5. PICK d \in Nat : d = atendidas
      BY <3>1
    <3>6. PICK d1 \in Nat : d1 = atendidas'
      BY <3>1
    <3>7. r1 + o1 + d = r + o + d1
      BY <3>2, <3>3, <3>4, <3>5, <3>6
    <3>8. r + (n + o) = d
      BY <2>2, <3>3, <3>4, <3>5, <3>6
    <3>9. r1 + (n + o1) = d1
      BY <3>7, <3>8
    <3>10. QED
      BY <3>4, <3>6, <3>9
  <2>4. QED
    BY <2>1, <2>3 DEF NadieSinRespuesta
<1>8. LlamadasAnotadas'
  <2>1. SUFFICES ASSUME sinApuntar' = 0
                 PROVE  Llamadas' + Cardinality(PorAnotar') = Fallidas' + pagadas'.cuantas
    BY DEF LlamadasAnotadas
  <2>2. PICK n \in Nat : Cardinality(PorAnotar) = n + p /\ Cardinality(PorAnotar') = n + p1
    BY <1>3
  <2>3. Llamadas + (n + p) = Fallidas + pagadas.cuantas
    BY <2>1, <2>2 DEF IInvCuenta, LlamadasAnotadas
  <2>4. Llamadas' + (n + p1) = Fallidas' + pagadas'.cuantas
    BY <1>5, <1>6, <2>1, <2>3, Traslado
  <2>5. QED
    BY <2>2, <2>4
<1>9. CosteAnotado'
  <2>1. PICK s : /\ EsGasto(s)
                 /\ sinApuntar = 0 => Costes + s[Consultas] = pagadas.coste
    BY DEF IInvCuenta, CosteAnotado
  <2>2. PICK t : /\ EsGasto(t)'
                 /\ \E h \in Nat : s[Consultas] = h + consulta[c].coste /\ t[Consultas] = h + k
    BY <1>1, <2>1, CambiaElGasto DEF IInvCuenta
  <2>3. PICK h \in Nat : s[Consultas] = h + consulta[c].coste /\ t[Consultas] = h + k
    BY <2>2
  <2>4. consulta[c].coste \in Nat /\ k \in Nat
    BY PresupuestoOK DEF IInvCuenta, TipoPresupuesto
  <2>5. ASSUME sinApuntar' = 0 PROVE Costes' + t[Consultas] = pagadas'.coste
    <3>1. Costes + (h + consulta[c].coste) = pagadas.coste
      BY <2>1, <2>3, <2>5
    <3>2. Costes' + (h + k) = pagadas'.coste
      BY <1>5, <1>6, <2>4, <2>5, <3>1, Traslado
    <3>3. QED
      BY <2>3, <3>2
  <2>6. QED
    BY <2>2, <2>5 DEF CosteAnotado
<1>10. QED
  BY <1>4, <1>7, <1>8, <1>9 DEF IInvCuenta


\* What the row of the day is added, if it is.
LEMMA AcumularHace ==
    ASSUME TipoPresupuesto, NEW apunte \in Apuntes, Acumular(apunte)
    PROVE  /\ uso' \in [Meses -> Apuntes] /\ sinApuntar' \in 0 .. MaxSinApuntar
           /\ sinApuntar' = 0 =>
                /\ sinApuntar = 0
                /\ Llamadas' = Llamadas + apunte.llamadas
                /\ Fallidas' = Fallidas + apunte.fallos
                /\ Costes' = Costes + apunte.coste
<1>1. /\ mes \in 1 .. 2 /\ uso \in [1 .. 2 -> Apuntes] /\ sinApuntar \in 0 .. MaxSinApuntar
      /\ uso[1] \in Apuntes /\ uso[2] \in Apuntes /\ uso[mes] \in Apuntes
  BY DEF TipoPresupuesto, Meses
<1>2. /\ apunte.llamadas \in Nat /\ apunte.fallos \in Nat /\ apunte.coste \in Nat
      /\ uso[1].llamadas \in Nat /\ uso[1].fallos \in Nat /\ uso[1].coste \in Nat
      /\ uso[2].llamadas \in Nat /\ uso[2].fallos \in Nat /\ uso[2].coste \in Nat
  BY <1>1 DEF Apuntes
<1>3. CASE sinApuntar < MaxSinApuntar /\ sinApuntar' = sinApuntar + 1 /\ uso' = uso
  <2>1. sinApuntar' # 0 /\ sinApuntar' \in 0 .. MaxSinApuntar
    BY <1>1, <1>3, PresupuestoOK
  <2>2. QED
    BY <1>1, <1>3, <2>1 DEF Meses
<1>4. CASE uso' = [uso EXCEPT ![mes] = Mas(@, apunte)] /\ sinApuntar' = sinApuntar
  <2>1. /\ Mas(uso[mes], apunte) \in Apuntes
        /\ Mas(uso[mes], apunte).llamadas = uso[mes].llamadas + apunte.llamadas
        /\ Mas(uso[mes], apunte).fallos = uso[mes].fallos + apunte.fallos
        /\ Mas(uso[mes], apunte).coste = uso[mes].coste + apunte.coste
    BY <1>1, <1>2 DEF Mas, Apunte, Apuntes
  <2>2. /\ uso' \in [1 .. 2 -> Apuntes] /\ uso'[mes] = Mas(uso[mes], apunte)
        /\ \A m \in 1 .. 2 : m # mes => uso'[m] = uso[m]
    BY <1>1, <1>4, <2>1
  <2>3. CASE mes = 1
    BY <1>1, <1>2, <1>4, <2>1, <2>2, <2>3 DEF Meses, Llamadas, Fallidas, Costes
  <2>4. CASE mes = 2
    BY <1>1, <1>2, <1>4, <2>1, <2>2, <2>4 DEF Meses, Llamadas, Fallidas, Costes
  <2>5. QED
    BY <1>1, <2>3, <2>4
<1>5. QED
  BY <1>3, <1>4 DEF Acumular


\* Each step of a question is one of those.
LEMMA PasosDeConsulta ==
    ASSUME IInvCuenta, NEW c \in Consultas,
           \/ Preguntar(c) \/ NoCompletar(c)
           \/ \E coste \in 1 .. CosteMaximo : Completar(c, coste)
           \/ RegistrarExito(c) \/ Entender(c) \/ RegistrarFallo(c) \/ BuscarSinModelo(c)
    PROVE  IInvCuenta'
<1>1. /\ TipoPresupuesto
      /\ Llamadas \in Nat /\ Fallidas \in Nat /\ Costes \in Nat /\ Respondidas \in Nat
      /\ pagadas.cuantas \in Nat /\ pagadas.coste \in Nat
      /\ atendidas \in Nat /\ sinApuntar \in Nat
      /\ consulta[c].coste \in 0 .. CosteMaximo /\ consulta[c].coste \in Nat
      /\ consulta[c].etapa # "pagada" => consulta[c].coste = 0
  BY NumerosDelUso, PresupuestoOK DEF IInvCuenta, TipoPresupuesto, CosteDePagada
<1>2. 0 \in 0 .. CosteMaximo
  BY PresupuestoOK
<1>3. ASSUME NEW etapa \in EtapasConsulta, NEW k \in 0 .. CosteMaximo, PasaConsulta(c, etapa, k)
      PROVE  consulta' \in [Consultas -> [etapa : EtapasConsulta, coste : 0 .. CosteMaximo]]
  BY <1>1, <1>3 DEF TipoPresupuesto, PasaConsulta, Consultando
<1>4. ASSUME UNCHANGED uso
      PROVE  Llamadas' = Llamadas /\ Fallidas' = Fallidas /\ Costes' = Costes
  BY <1>4 DEF Llamadas, Fallidas, Costes
<1>5. ASSUME UNCHANGED respuestas PROVE Respondidas' = Respondidas
  BY <1>5 DEF Respondidas
<1>6. CASE Preguntar(c)
  <2>1. PICK etapa \in {"llama", "busca"} : PasaConsulta(c, etapa, 0)
    BY <1>6 DEF Preguntar
  <2>2. etapa \in EtapasConsulta /\ etapa # "pagada" /\ etapa # "nada"
    BY DEF EtapasConsulta
  <2>3. /\ consulta[c].etapa = "nada" /\ atendidas' = atendidas + 1
        /\ atendidas' \in 0 .. MaxConsultas
        /\ UNCHANGED <<mes, uso, respuestas, pagadas, sinApuntar>>
    BY <1>1, <1>6, PresupuestoOK DEF Preguntar, EnConsulta
  <2>4. consulta[c].etapa # "pagada" /\ consulta[c].coste = 0
    BY <1>1, <2>3
  <2>5. TipoPresupuesto'
    BY <1>1, <1>2, <1>3, <2>1, <2>2, <2>3 DEF TipoPresupuesto
  <2>6. Respondidas' + 1 + atendidas = Respondidas + 0 + atendidas'
    BY <1>1, <1>5, <2>3
  <2>7. sinApuntar' = 0 =>
          /\ sinApuntar = 0
          /\ Llamadas' + 0 + (Fallidas + pagadas.cuantas)
               = Llamadas + 0 + (Fallidas' + pagadas'.cuantas)
          /\ Costes' + 0 + pagadas.coste = Costes + consulta[c].coste + pagadas'.coste
    BY <1>1, <1>4, <2>3, <2>4
  <2>8. QED
    BY <1>2, <2>1, <2>2, <2>3, <2>4, <2>5, <2>6, <2>7, PasoDeConsulta
<1>7. ASSUME NEW coste \in 1 .. CosteMaximo, Completar(c, coste) PROVE IInvCuenta'
  <2>1. coste \in 0 .. CosteMaximo /\ coste \in Nat
    BY PresupuestoOK
  <2>2. /\ PasaConsulta(c, "pagada", coste) /\ "pagada" \in EtapasConsulta
        /\ consulta[c].etapa = "llama"
        /\ UNCHANGED <<mes, uso, atendidas, respuestas, sinApuntar>>
        /\ pagadas' = [cuantas |-> pagadas.cuantas + 1, coste |-> pagadas.coste + coste]
    BY <1>7 DEF Completar, EtapasConsulta, EnConsulta
  <2>3. /\ pagadas' \in [cuantas : Nat, coste : Nat] /\ pagadas'.cuantas = pagadas.cuantas + 1
        /\ pagadas'.coste = pagadas.coste + coste
    BY <1>1, <2>1, <2>2
  <2>4. TipoPresupuesto'
    BY <1>1, <1>3, <2>1, <2>2, <2>3 DEF TipoPresupuesto
  <2>5. Respondidas' + 1 + atendidas = Respondidas + 1 + atendidas'
    BY <1>5, <2>2
  <2>6. sinApuntar' = 0 =>
          /\ sinApuntar = 0
          /\ Llamadas' + 1 + (Fallidas + pagadas.cuantas)
               = Llamadas + 0 + (Fallidas' + pagadas'.cuantas)
          /\ Costes' + coste + pagadas.coste = Costes + consulta[c].coste + pagadas'.coste
    BY <1>1, <1>4, <2>1, <2>2, <2>3
  <2>7. QED
    BY <2>1, <2>2, <2>4, <2>5, <2>6, PasoDeConsulta
<1>8. CASE NoCompletar(c)
  <2>1. /\ PasaConsulta(c, "falla", 0) /\ "falla" \in EtapasConsulta /\ consulta[c].etapa = "llama"
        /\ UNCHANGED <<mes, uso, atendidas, respuestas, pagadas, sinApuntar>>
    BY <1>8 DEF NoCompletar, EtapasConsulta, EnConsulta
  <2>2. TipoPresupuesto'
    BY <1>1, <1>2, <1>3, <2>1 DEF TipoPresupuesto
  <2>3. Respondidas' + 1 + atendidas = Respondidas + 1 + atendidas'
    BY <1>5, <2>1
  <2>4. sinApuntar' = 0 =>
          /\ sinApuntar = 0
          /\ Llamadas' + 0 + (Fallidas + pagadas.cuantas)
               = Llamadas + 0 + (Fallidas' + pagadas'.cuantas)
          /\ Costes' + 0 + pagadas.coste = Costes + consulta[c].coste + pagadas'.coste
    BY <1>1, <1>4, <2>1
  <2>5. QED
    BY <1>2, <2>1, <2>2, <2>3, <2>4, PasoDeConsulta
<1>9. CASE RegistrarExito(c)
  <2> DEFINE apunte == Apunte(1, 0, consulta[c].coste)
  <2>1. /\ PasaConsulta(c, "entiende", 0) /\ "entiende" \in EtapasConsulta
        /\ consulta[c].etapa = "pagada" /\ Acumular(apunte)
        /\ UNCHANGED <<mes, atendidas, respuestas, pagadas>>
    BY <1>9 DEF RegistrarExito, EtapasConsulta, EnConsulta
  <2>2. /\ apunte \in Apuntes /\ apunte.llamadas = 1 /\ apunte.fallos = 0
        /\ apunte.coste = consulta[c].coste
    BY <1>1 DEF Apunte, Apuntes
  <2> HIDE DEF apunte
  <2>3. /\ uso' \in [Meses -> Apuntes] /\ sinApuntar' \in 0 .. MaxSinApuntar
        /\ sinApuntar' = 0 => /\ sinApuntar = 0 /\ Llamadas' = Llamadas + 1
                             /\ Fallidas' = Fallidas + 0
                             /\ Costes' = Costes + consulta[c].coste
    BY <1>1, <2>1, <2>2, AcumularHace
  <2>4. TipoPresupuesto'
    BY <1>1, <1>2, <1>3, <2>1, <2>3 DEF TipoPresupuesto
  <2>5. Respondidas' + 1 + atendidas = Respondidas + 1 + atendidas'
    BY <1>5, <2>1
  <2>6. sinApuntar' = 0 =>
          /\ sinApuntar = 0
          /\ Llamadas' + 0 + (Fallidas + pagadas.cuantas)
               = Llamadas + 1 + (Fallidas' + pagadas'.cuantas)
          /\ Costes' + 0 + pagadas.coste = Costes + consulta[c].coste + pagadas'.coste
    BY <1>1, <2>1, <2>3
  <2>7. QED
    BY <1>2, <2>1, <2>4, <2>5, <2>6, PasoDeConsulta
<1>10. CASE RegistrarFallo(c)
  <2> DEFINE apunte == Apunte(1, 1, 0)
  <2>1. /\ PasaConsulta(c, "busca", 0) /\ "busca" \in EtapasConsulta
        /\ consulta[c].etapa = "falla" /\ Acumular(apunte)
        /\ UNCHANGED <<mes, atendidas, respuestas, pagadas>>
    BY <1>10 DEF RegistrarFallo, EtapasConsulta, EnConsulta
  <2>2. /\ apunte \in Apuntes /\ apunte.llamadas = 1 /\ apunte.fallos = 1 /\ apunte.coste = 0
    BY DEF Apunte, Apuntes
  <2> HIDE DEF apunte
  <2>3. /\ uso' \in [Meses -> Apuntes] /\ sinApuntar' \in 0 .. MaxSinApuntar
        /\ sinApuntar' = 0 => /\ sinApuntar = 0 /\ Llamadas' = Llamadas + 1
                             /\ Fallidas' = Fallidas + 1
                             /\ Costes' = Costes + 0
    BY <1>1, <2>1, <2>2, AcumularHace
  <2>4. TipoPresupuesto'
    BY <1>1, <1>2, <1>3, <2>1, <2>3 DEF TipoPresupuesto
  <2>5. Respondidas' + 1 + atendidas = Respondidas + 1 + atendidas'
    BY <1>5, <2>1
  <2>6. sinApuntar' = 0 =>
          /\ sinApuntar = 0
          /\ Llamadas' + 0 + (Fallidas + pagadas.cuantas)
               = Llamadas + 0 + (Fallidas' + pagadas'.cuantas)
          /\ Costes' + 0 + pagadas.coste = Costes + consulta[c].coste + pagadas'.coste
    BY <1>1, <2>1, <2>3
  <2>7. QED
    BY <1>2, <2>1, <2>4, <2>5, <2>6, PasoDeConsulta
<1>11. CASE Entender(c) \/ BuscarSinModelo(c)
  <2>1. /\ consulta[c].etapa \in {"entiende", "busca"} /\ consulta[c].coste = 0
        /\ UNCHANGED <<mes, uso, atendidas, pagadas, sinApuntar>>
        /\ "nada" \in EtapasConsulta /\ "falla" \in EtapasConsulta
    BY <1>1, <1>11 DEF Entender, BuscarSinModelo, EnConsulta, EtapasConsulta
  <2>2. sinApuntar' = 0 =>
          /\ sinApuntar = 0
          /\ Llamadas' + 0 + (Fallidas + pagadas.cuantas)
               = Llamadas + 0 + (Fallidas' + pagadas'.cuantas)
          /\ Costes' + 0 + pagadas.coste = Costes + consulta[c].coste + pagadas'.coste
    BY <1>1, <1>4, <2>1
  <2>3. CASE /\ PasaConsulta(c, "nada", 0)
             /\ \/ respuestas' = [respuestas EXCEPT !["ia"] = @ + 1]
                \/ respuestas' = [respuestas EXCEPT !["basico"] = @ + 1]
    <3>1. respuestas' \in [Modos -> Nat] /\ Respondidas' = Respondidas + 1
      BY <1>1, <2>3 DEF TipoPresupuesto, Modos, Respondidas
    <3>2. TipoPresupuesto'
      BY <1>1, <1>2, <1>3, <2>1, <2>3, <3>1 DEF TipoPresupuesto
    <3>3. Respondidas' + 0 + atendidas = Respondidas + 1 + atendidas'
      BY <1>1, <2>1, <3>1
    <3>4. QED
      BY <1>2, <2>1, <2>2, <2>3, <3>2, <3>3, PasoDeConsulta
  <2>4. CASE PasaConsulta(c, "falla", 0) /\ respuestas' = respuestas
    <3>1. TipoPresupuesto'
      BY <1>1, <1>2, <1>3, <2>1, <2>4 DEF TipoPresupuesto
    <3>2. Respondidas' + 1 + atendidas = Respondidas + 1 + atendidas'
      BY <1>5, <2>1, <2>4
    <3>3. QED
      BY <1>2, <2>1, <2>2, <2>4, <3>1, <3>2, PasoDeConsulta
  <2>5. QED
    BY <1>11, <2>3, <2>4 DEF Entender, BuscarSinModelo
<1>12. QED
  BY <1>6, <1>7, <1>8, <1>9, <1>10, <1>11

\* Nothing is asked, nor paid, to begin with.
LEMMA IniciaCuenta == InitPresupuesto => IInvCuenta
<1> SUFFICES ASSUME InitPresupuesto PROVE IInvCuenta
  OBVIOUS
<1>1. /\ Reposo \in [etapa : EtapasConsulta, coste : 0 .. CosteMaximo]
      /\ Reposo.etapa = "nada" /\ Reposo.coste = 0
  BY PresupuestoOK DEF Reposo, Consultando, EtapasConsulta
<1>2. Apunte(0, 0, 0) \in Apuntes
  BY DEF Apunte, Apuntes
<1>3. /\ uso[1].llamadas = 0 /\ uso[1].fallos = 0 /\ uso[1].coste = 0
      /\ uso[2].llamadas = 0 /\ uso[2].fallos = 0 /\ uso[2].coste = 0
  BY DEF InitPresupuesto, Meses, Apunte
<1>4. TipoPresupuesto
  BY <1>1, <1>2, PresupuestoOK DEF InitPresupuesto, TipoPresupuesto, Meses
<1>5. CosteDePagada /\ Ocupadas = {} /\ PorAnotar = {} /\ \A c \in Consultas : consulta[c].coste = 0
  BY <1>1 DEF InitPresupuesto, CosteDePagada, Ocupadas, PorAnotar
<1>6. Cardinality(Ocupadas) = 0 /\ Cardinality(PorAnotar) = 0
  BY <1>5, FS_EmptySet
<1>7. NadieSinRespuesta /\ LlamadasAnotadas
  BY <1>3, <1>6 DEF InitPresupuesto, NadieSinRespuesta, LlamadasAnotadas, Modos, Llamadas, Fallidas,
     Respondidas
<1>8. CosteAnotado
  <2>1. PICK s \in [SUBSET Consultas -> Nat] : \A S \in SUBSET Consultas : s[S] = 0
    <3> DEFINE f == [S \in SUBSET Consultas |-> 0]
    <3>1. f \in [SUBSET Consultas -> Nat] /\ \A S \in SUBSET Consultas : f[S] = 0
      OBVIOUS
    <3> HIDE DEF f
    <3>2. QED
      BY <3>1
  <2>2. EsGasto(s)
    BY <1>5, <2>1 DEF EsGasto
  <2>3. Costes + s[Consultas] = pagadas.coste
    BY <1>3, <2>1 DEF InitPresupuesto, Costes
  <2>4. QED
    BY <2>2, <2>3 DEF CosteAnotado
<1>9. QED
  BY <1>4, <1>5, <1>7, <1>8 DEF IInvCuenta

\* Every step keeps it.
LEMMA PasoCuenta == IInvCuenta /\ [NextPresupuesto]_varsPresupuesto => IInvCuenta'
<1> SUFFICES ASSUME IInvCuenta, [NextPresupuesto]_varsPresupuesto PROVE IInvCuenta'
  OBVIOUS
<1>1. CASE CambiaElMes \/ UNCHANGED varsPresupuesto
  <2>1. /\ mes' \in Meses /\ UNCHANGED <<uso, consulta, atendidas, respuestas, pagadas, sinApuntar>>
    BY <1>1 DEF CambiaElMes, varsPresupuesto, Meses, IInvCuenta, TipoPresupuesto
  <2>2. QED
    BY <2>1 DEF IInvCuenta, TipoPresupuesto, CosteDePagada, NadieSinRespuesta, LlamadasAnotadas,
       CosteAnotado, EsGasto, Ocupadas, PorAnotar,
       Llamadas, Fallidas, Costes, Respondidas
<1>2. QED
  BY <1>1, PasosDeConsulta DEF NextPresupuesto

\* The inductive invariant of what is noted.
THEOREM CuentaInvariante == SpecPresupuesto => []IInvCuenta
BY IniciaCuenta, PasoCuenta, PTL DEF SpecPresupuesto

\* presupuesto.service.ts: what is noted is what was paid for, and every question
\* gets its answer.
THEOREM CuentaSiempreCuadra == SpecPresupuesto => []LaCuentaCuadra
<1>1. ASSUME IInvCuenta PROVE LaCuentaCuadra
  <2>1. SUFFICES ASSUME \A c \in Consultas : EnConsulta(c, "nada")
                 PROVE  /\ sinApuntar = 0 =>
                             /\ Mas(uso[1], uso[2]).llamadas - Mas(uso[1], uso[2]).fallos
                                  = pagadas.cuantas
                             /\ Mas(uso[1], uso[2]).coste = pagadas.coste
                        /\ respuestas["ia"] + respuestas["basico"] = atendidas
    BY DEF LaCuentaCuadra
  <2>2. /\ Mas(uso[1], uso[2]).llamadas = Llamadas
        /\ Mas(uso[1], uso[2]).fallos = Fallidas
        /\ Mas(uso[1], uso[2]).coste = Costes
    BY DEF Mas, Apunte, Llamadas, Fallidas, Costes
  <2>3. Ocupadas = {} /\ PorAnotar = {} /\ \A c \in Consultas : consulta[c].coste = 0
    BY <1>1, <2>1 DEF Ocupadas, PorAnotar, EnConsulta, IInvCuenta, CosteDePagada
  <2>4. Cardinality(Ocupadas) = 0 /\ Cardinality(PorAnotar) = 0
    BY <2>3, FS_EmptySet
  <2>5. /\ Llamadas \in Nat /\ Fallidas \in Nat /\ Costes \in Nat /\ Respondidas \in Nat
        /\ pagadas.cuantas \in Nat /\ pagadas.coste \in Nat
    BY <1>1, NumerosDelUso DEF IInvCuenta
  <2>6. PICK s : /\ EsGasto(s)
                 /\ sinApuntar = 0 => Costes + s[Consultas] = pagadas.coste
    BY <1>1 DEF IInvCuenta, CosteAnotado
  <2>7. s[Consultas] = 0
    BY <2>3, <2>6 DEF EsGasto
  <2>8. respuestas["ia"] + respuestas["basico"] = atendidas
    <3>1. Respondidas + 0 = atendidas
      BY <1>1, <2>4 DEF IInvCuenta, NadieSinRespuesta
    <3>2. QED
      BY <2>5, <3>1 DEF Respondidas
  <2>9. ASSUME sinApuntar = 0
        PROVE  Llamadas - Fallidas = pagadas.cuantas /\ Costes = pagadas.coste
    <3>1. Llamadas + 0 = Fallidas + pagadas.cuantas
      BY <1>1, <2>4, <2>9 DEF IInvCuenta, LlamadasAnotadas
    <3>2. Costes + 0 = pagadas.coste
      BY <2>6, <2>7, <2>9
    <3>3. QED
      BY <2>5, <3>1, <3>2
  <2>10. QED
    BY <2>2, <2>8, <2>9
<1>2. QED
  BY <1>1, CuentaInvariante, PTL

\* presupuesto.service.ts: the ceiling holds, and what is noted under it is what was
\* paid, for any number of questions at once, any budget and any cost of a call.
THEOREM PresupuestoSiempreCuadra == SpecPresupuesto => []ElPresupuestoCuadra
BY GastoSiempreAcotado, CuentaSiempreCuadra, PTL DEF ElPresupuestoCuadra

-----------------------------------------------------------------------------
(* The life of a service.                                                  *)

\* A row that is gone has nothing in it, no edition began of one, and no more
\* bookings were saved than there can be.
FilasBien ==
    /\ reservas.abiertas + reservas.cerradas <= MaxReservas
    /\ ~servicio.hay => servicio = Borrado
    /\ \A g \in Edita : gestion[g].leida.hay /\ ~gestion[g].leida.retirado

\* Who deleted the account is out for good, and was not of the demonstration.
CuentasBien ==
    /\ dueno.eliminado => ~dueno.activo /\ demo = "no"
    /\ \A g \in Gestiones :
         gestion[g].etapa \in {"elimina", "conHistorial", "sinHistorial"} => demo = "no"

\* While nobody asks for a booking and withdraws at once: who withdraws has seen no
\* open booking and there is none, and who asks for one asks for what is seen.
NadieSeCruza ==
    ~cruzada =>
        /\ Pide = {} \/ Quita = {}
        /\ \A g \in Gestiones :
             /\ gestion[g].etapa \in {"vacio", "retira", "borra", "elimina", "conHistorial",
                                      "sinHistorial"} => reservas.abiertas = 0
             /\ EnGestion(g, "sinHistorial") => ~HayReservas
             /\ (g \in Pide /\ demo = "no") => SeVe
             /\ EnGestion(g, "cabe") => ~dueno.eliminado

\* And nobody was editing what was withdrawn with the account.
NadieLoEdita == (dueno.eliminado /\ ~cruzada /\ ~pisado) => Edita = {}

IInvServicios ==
    /\ TipoServicios
    /\ FilasBien
    /\ CuentasBien
    /\ NadieSeCruza
    /\ NadieLoEdita
    /\ LaRetiradaCuadra

Trabajos == [etapa : EtapasGestion, leida : Fichas, base : Fichas]

\* A request that begins, goes on or ends has done so, and the rest are as they were.
LEMMA Cambia ==
    ASSUME TipoServicios, NEW g \in Gestiones, NEW trabajo \in Trabajos,
           gestion' = [gestion EXCEPT ![g] = trabajo]
    PROVE  /\ gestion' \in [Gestiones -> Trabajos]
           /\ gestion'[g] = trabajo
           /\ \A h \in Gestiones \ {g} : gestion'[h] = gestion[h]
BY DEF TipoServicios, Trabajos

\* One that goes on keeps what it has read.
LEMMA Pasa ==
    ASSUME TipoServicios, NEW g \in Gestiones, NEW etapa \in EtapasGestion, PasaGestion(g, etapa)
    PROVE  /\ gestion' \in [Gestiones -> Trabajos]
           /\ gestion'[g].etapa = etapa /\ gestion'[g].leida = gestion[g].leida
           /\ \A h \in Gestiones \ {g} : gestion'[h] = gestion[h]
           /\ UNCHANGED <<demo, gestiones, cruzada>>
<1>1. Gestion(etapa, gestion[g].leida, gestion[g].base) \in Trabajos
  BY DEF TipoServicios, Gestion, Trabajos
<1>2. gestion' = [gestion EXCEPT ![g] = Gestion(etapa, gestion[g].leida, gestion[g].base)]
  BY DEF PasaGestion
<1>3. /\ gestion'[g] = Gestion(etapa, gestion[g].leida, gestion[g].base)
      /\ gestion' \in [Gestiones -> Trabajos]
      /\ \A h \in Gestiones \ {g} : gestion'[h] = gestion[h]
  BY <1>1, <1>2, Cambia
<1>4. QED
  BY <1>3 DEF PasaGestion, Gestion

\* The rows and the requests there are to begin with.
LEMMA FichasBien ==
    /\ Original \in Fichas /\ Borrado \in Fichas /\ Ociosa \in Trabajos
    /\ Ociosa.etapa = "nada" /\ Original.hay /\ ~Borrado.hay /\ ~Borrado.retirado
    /\ Borrado.titulo = "original"
    /\ \A f \in Fichas, etapa \in EtapasGestion :
         /\ Gestion(etapa, f, Borrado) \in Trabajos
         /\ Gestion(etapa, f, Borrado).etapa = etapa
         /\ Gestion(etapa, f, Borrado).leida = f
BY DEF Original, Borrado, Ficha, Fichas, Ociosa, Gestion, Trabajos, EtapasGestion

\* One that ends.
LEMMA Acaba ==
    ASSUME TipoServicios, NEW g \in Gestiones, AcabaGestion(g)
    PROVE  /\ gestion' \in [Gestiones -> Trabajos]
           /\ gestion'[g].etapa = "nada"
           /\ \A h \in Gestiones \ {g} : gestion'[h] = gestion[h]
           /\ UNCHANGED <<demo, gestiones, cruzada>>
BY FichasBien, Cambia DEF AcabaGestion

\* One that begins; with it, a booking and a withdrawal may cross.
LEMMA EmpiezaHace ==
    ASSUME TipoServicios, NEW g \in Gestiones, NEW etapa \in EtapasGestion, NEW f \in Fichas,
           EmpiezaGestion(g, Gestion(etapa, f, Borrado))
    PROVE  /\ gestion' \in [Gestiones -> Trabajos]
           /\ gestion[g].etapa = "nada"
           /\ gestion'[g].etapa = etapa /\ gestion'[g].leida = f
           /\ \A h \in Gestiones \ {g} : gestion'[h] = gestion[h]
           /\ gestiones' \in 0 .. MaxGestiones
           /\ cruzada' = (cruzada \/ (Pide' # {} /\ Quita' # {}))
           /\ UNCHANGED <<demo, servicio, dueno, reservas, recien, pisado>>
<1>1. Gestion(etapa, f, Borrado) \in Trabajos
  BY FichasBien
<1>2. gestiones' \in 0 .. MaxGestiones
  BY ServiciosOK DEF EmpiezaGestion, TipoServicios
<1>3. /\ gestion'[g] = Gestion(etapa, f, Borrado)
      /\ gestion' \in [Gestiones -> Trabajos]
      /\ \A h \in Gestiones \ {g} : gestion'[h] = gestion[h]
  BY <1>1, Cambia DEF EmpiezaGestion
<1>4. gestion'[g].etapa = etapa /\ gestion'[g].leida = f
  BY <1>3, FichasBien
<1>5. cruzada' = (cruzada \/ (Pide' # {} /\ Quita' # {}))
  BY DEF EmpiezaGestion
<1>6. gestion[g].etapa = "nada" /\ UNCHANGED <<demo, servicio, dueno, reservas, recien, pisado>>
  BY DEF EmpiezaGestion, EnGestion
<1>7. QED
  BY <1>2, <1>3, <1>4, <1>5, <1>6

\* A request for a booking begins.
LEMMA PedirBien ==
    ASSUME IInvServicios, NEW g \in Gestiones, PedirReserva(g) PROVE IInvServicios'
<1>1. SeVe /\ EmpiezaGestion(g, Gestion("leido", Borrado, Borrado)) /\ TipoServicios
  BY DEF PedirReserva, SeVe, IInvServicios
<1>2. /\ gestion' \in [Gestiones -> Trabajos]
      /\ gestion[g].etapa = "nada" /\ gestion'[g].etapa = "leido"
      /\ \A h \in Gestiones \ {g} : gestion'[h] = gestion[h]
      /\ gestiones' \in 0 .. MaxGestiones
      /\ cruzada' = (cruzada \/ (Pide' # {} /\ Quita' # {}))
      /\ UNCHANGED <<demo, servicio, dueno, reservas, recien, pisado>>
  BY <1>1, FichasBien, EmpiezaHace DEF EtapasGestion
<1>3. TipoServicios'
  BY <1>1, <1>2 DEF TipoServicios, Trabajos
<1>4. FilasBien' /\ CuentasBien' /\ NadieLoEdita'
  BY <1>2 DEF IInvServicios, FilasBien, CuentasBien, NadieLoEdita, Edita
<1>5. NadieSeCruza'
  BY <1>1, <1>2 DEF IInvServicios, NadieSeCruza, Pide, Quita, EnGestion, HayReservas, SeVe
<1>6. LaRetiradaCuadra'
  BY <1>2 DEF IInvServicios, LaRetiradaCuadra, CitaConServicio, LoDelEliminadoSeVa, SeVe
<1>7. QED
  BY <1>3, <1>4, <1>5, <1>6 DEF IInvServicios

\* A withdrawal or a deletion begins.
LEMMA QuitarBien ==
    ASSUME IInvServicios, NEW g \in Gestiones, QuitarServicio(g) \/ EliminarDueno(g)
    PROVE  IInvServicios'
<1>1. PICK etapa \in {"quita", "elimina"} :
        /\ EmpiezaGestion(g, Gestion(etapa, Borrado, Borrado))
        /\ etapa = "elimina" => demo = "no" /\ dueno.activo /\ reservas.abiertas = 0
  BY DEF QuitarServicio, EliminarDueno
<1>2. /\ gestion' \in [Gestiones -> Trabajos]
      /\ gestion[g].etapa = "nada" /\ gestion'[g].etapa = etapa
      /\ \A h \in Gestiones \ {g} : gestion'[h] = gestion[h]
      /\ gestiones' \in 0 .. MaxGestiones
      /\ cruzada' = (cruzada \/ (Pide' # {} /\ Quita' # {}))
      /\ UNCHANGED <<demo, servicio, dueno, reservas, recien, pisado>>
  BY <1>1, FichasBien, EmpiezaHace DEF EtapasGestion, IInvServicios
<1>3. TipoServicios'
  BY <1>1, <1>2 DEF TipoServicios, Trabajos, IInvServicios
<1>4. FilasBien' /\ CuentasBien' /\ NadieLoEdita'
  BY <1>1, <1>2 DEF IInvServicios, FilasBien, CuentasBien, NadieLoEdita, Edita
<1>5. NadieSeCruza'
  BY <1>1, <1>2 DEF IInvServicios, NadieSeCruza, Pide, Quita, EnGestion, HayReservas, SeVe
<1>6. LaRetiradaCuadra'
  BY <1>2 DEF IInvServicios, LaRetiradaCuadra, CitaConServicio, LoDelEliminadoSeVa, SeVe
<1>7. QED
  BY <1>3, <1>4, <1>5, <1>6 DEF IInvServicios

\* An edition begins: what it has read is seen.
LEMMA EditarBien ==
    ASSUME IInvServicios, NEW g \in Gestiones, EditarServicio(g) PROVE IInvServicios'
<1> DEFINE f == [servicio EXCEPT !.titulo = "otro"]
<1>1. f \in Fichas /\ f.hay = servicio.hay /\ f.retirado = servicio.retirado
  BY DEF IInvServicios, TipoServicios, Fichas
<1>2. SeVe /\ dueno.activo /\ EmpiezaGestion(g, Gestion("edita", f, Borrado)) /\ TipoServicios
  BY DEF EditarServicio, IInvServicios
<1> HIDE DEF f
<1>3. /\ gestion' \in [Gestiones -> Trabajos]
      /\ gestion[g].etapa = "nada" /\ gestion'[g].etapa = "edita" /\ gestion'[g].leida = f
      /\ \A h \in Gestiones \ {g} : gestion'[h] = gestion[h]
      /\ gestiones' \in 0 .. MaxGestiones
      /\ cruzada' = (cruzada \/ (Pide' # {} /\ Quita' # {}))
      /\ UNCHANGED <<demo, servicio, dueno, reservas, recien, pisado>>
  BY <1>1, <1>2, EmpiezaHace DEF EtapasGestion
<1>4. TipoServicios'
  BY <1>2, <1>3 DEF TipoServicios, Trabajos
<1>5. FilasBien' /\ CuentasBien' /\ NadieLoEdita'
  BY <1>1, <1>2, <1>3 DEF IInvServicios, FilasBien, CuentasBien, NadieLoEdita, Edita, SeVe
<1>6. NadieSeCruza'
  BY <1>3 DEF IInvServicios, NadieSeCruza, Pide, Quita, EnGestion, HayReservas, SeVe
<1>7. LaRetiradaCuadra'
  BY <1>3 DEF IInvServicios, LaRetiradaCuadra, CitaConServicio, LoDelEliminadoSeVa, SeVe
<1>8. QED
  BY <1>4, <1>5, <1>6, <1>7 DEF IInvServicios

\* A request that goes on by itself, with what it has seen.
LEMMA SigueBien ==
    ASSUME IInvServicios, NEW g \in Gestiones, NEW etapa \in EtapasGestion,
           PasaGestion(g, etapa) \/ (etapa = "nada" /\ AcabaGestion(g)),
           UNCHANGED <<servicio, dueno, reservas, recien, pisado>>,
           \/ etapa = "nada"
           \/ EnGestion(g, "leido") /\ etapa = "cabe" /\ dueno.activo
           \/ EnGestion(g, "quita") /\ etapa = "vacio" /\ reservas.abiertas = 0
           \/ EnGestion(g, "vacio") /\ etapa \in {"retira", "borra"}
           \/ EnGestion(g, "elimina") /\ etapa = "conHistorial"
           \/ EnGestion(g, "elimina") /\ etapa = "sinHistorial" /\ ~HayReservas
    PROVE  IInvServicios'
<1>1. /\ gestion' \in [Gestiones -> Trabajos]
      /\ gestion'[g].etapa = etapa
      /\ \A h \in Gestiones \ {g} : gestion'[h] = gestion[h]
      /\ UNCHANGED <<demo, gestiones, cruzada>>
  BY Pasa, Acaba DEF IInvServicios
<1>2. TipoServicios'
  BY <1>1 DEF TipoServicios, Trabajos, IInvServicios
<1>3. FilasBien' /\ CuentasBien' /\ NadieLoEdita'
  BY <1>1 DEF IInvServicios, FilasBien, CuentasBien, NadieLoEdita, Edita, EnGestion
<1>4. NadieSeCruza'
  BY <1>1 DEF IInvServicios, NadieSeCruza, CuentasBien, Pide, Quita, EnGestion, HayReservas, SeVe
<1>5. LaRetiradaCuadra'
  BY <1>1 DEF IInvServicios, LaRetiradaCuadra, CitaConServicio, LoDelEliminadoSeVa, SeVe
<1>6. QED
  BY <1>2, <1>3, <1>4, <1>5 DEF IInvServicios

\* A booking is saved: with its service there, and nobody withdrawing it.
LEMMA GuardarReservaBien ==
    ASSUME IInvServicios, NEW g \in Gestiones, GuardarReserva(g) PROVE IInvServicios'
<1>1. /\ EnGestion(g, "cabe")
      /\ gestion' \in [Gestiones -> Trabajos]
      /\ gestion'[g].etapa = "nada"
      /\ \A h \in Gestiones \ {g} : gestion'[h] = gestion[h]
      /\ UNCHANGED <<demo, gestiones, cruzada, servicio, dueno, recien, pisado>>
  BY Acaba DEF IInvServicios, GuardarReserva
<1>2. /\ reservas' \in [abiertas : 0 .. MaxReservas, cerradas : 0 .. MaxReservas]
      /\ reservas'.abiertas + reservas'.cerradas <= MaxReservas
  BY ServiciosOK DEF GuardarReserva, IInvServicios, TipoServicios, FilasBien
<1>3. TipoServicios'
  BY <1>1, <1>2 DEF TipoServicios, Trabajos, IInvServicios
<1>4. FilasBien' /\ CuentasBien' /\ NadieLoEdita'
  BY <1>1, <1>2 DEF IInvServicios, FilasBien, CuentasBien, NadieLoEdita, Edita, EnGestion
<1>5. ~cruzada => Quita = {} /\ ~dueno.eliminado /\ (demo = "no" => SeVe)
  BY <1>1 DEF IInvServicios, NadieSeCruza, Pide, EnGestion
<1>6. NadieSeCruza'
  BY <1>1, <1>5 DEF IInvServicios, NadieSeCruza, Pide, Quita, EnGestion, SeVe
<1>7. LaRetiradaCuadra'
  BY <1>1, <1>5 DEF IInvServicios, LaRetiradaCuadra, CitaConServicio, LoDelEliminadoSeVa, SeVe
<1>8. QED
  BY <1>3, <1>4, <1>6, <1>7 DEF IInvServicios

\* A booking is closed.
LEMMA CerrarReservaBien == ASSUME IInvServicios, CerrarReserva PROVE IInvServicios'
<1>1. /\ reservas.abiertas > 0 /\ reservas.abiertas \in Nat /\ reservas.cerradas \in Nat
      /\ reservas'.abiertas = reservas.abiertas - 1
      /\ reservas'.cerradas = reservas.cerradas + 1
      /\ UNCHANGED <<demo, servicio, dueno, gestion, gestiones, recien, cruzada, pisado>>
  BY DEF CerrarReserva, IInvServicios, TipoServicios
<1>2. TipoServicios'
  <2>1. reservas' \in [abiertas : 0 .. MaxReservas, cerradas : 0 .. MaxReservas]
    <3>1. reservas.abiertas + reservas.cerradas <= MaxReservas
      BY DEF IInvServicios, FilasBien
    <3>2. QED
      BY <1>1, <3>1, ServiciosOK DEF CerrarReserva
  <2>2. QED
    BY <1>1, <2>1 DEF TipoServicios, IInvServicios
<1>3. FilasBien' /\ CuentasBien' /\ NadieLoEdita'
  BY <1>1 DEF IInvServicios, FilasBien, CuentasBien, NadieLoEdita, Edita
<1>4. NadieSeCruza'
  BY <1>1 DEF IInvServicios, NadieSeCruza, Pide, Quita, EnGestion, SeVe, HayReservas
<1>5. LaRetiradaCuadra'
  BY <1>1 DEF IInvServicios, LaRetiradaCuadra, CitaConServicio, LoDelEliminadoSeVa, SeVe
<1>6. QED
  BY <1>2, <1>3, <1>4, <1>5 DEF IInvServicios

\* The service is withdrawn or deleted.
LEMMA RetirarBien == ASSUME IInvServicios, NEW g \in Gestiones, RetirarServicio(g) PROVE IInvServicios'
<1>1. /\ gestion[g].etapa \in {"retira", "borra"}
      /\ gestion' \in [Gestiones -> Trabajos]
      /\ gestion'[g].etapa = "nada"
      /\ \A h \in Gestiones \ {g} : gestion'[h] = gestion[h]
      /\ UNCHANGED <<demo, gestiones, cruzada, dueno, reservas>>
  BY Acaba DEF IInvServicios, RetirarServicio, EnGestion
<1>2. /\ servicio' \in Fichas
      /\ ~servicio'.hay => servicio' = Borrado
      /\ servicio'.titulo \in {servicio.titulo, "original"}
      /\ SeVe' => SeVe
  <2>1. CASE servicio' = [servicio EXCEPT !.retirado = servicio.hay]
    <3>1. /\ servicio' \in Fichas /\ servicio'.hay = servicio.hay
          /\ servicio'.titulo = servicio.titulo /\ servicio'.retirado = servicio.hay
      BY <2>1 DEF IInvServicios, TipoServicios, Fichas
    <3>2. ASSUME ~servicio.hay PROVE servicio' = servicio
      <4>1. servicio = Borrado /\ servicio.hay = FALSE
        BY <3>2 DEF IInvServicios, FilasBien, Borrado, Ficha
      <4>2. servicio' = [Borrado EXCEPT !.retirado = FALSE]
        BY <2>1, <4>1
      <4>3. servicio = [hay |-> FALSE, titulo |-> "original", retirado |-> FALSE]
        BY <4>1 DEF Borrado, Ficha
      <4>4. servicio' = [servicio EXCEPT !.retirado = FALSE]
        BY <2>1, <4>1
      <4>5. servicio' = [hay |-> FALSE, titulo |-> "original", retirado |-> FALSE]
        BY <4>3, <4>4, Zenon
      <4>6. QED
        BY <4>3, <4>5
    <3>3. QED
      BY <3>1, <3>2 DEF IInvServicios, FilasBien, SeVe
  <2>2. CASE servicio' \in {servicio, Borrado}
    BY <2>2, FichasBien DEF IInvServicios, TipoServicios, FilasBien, SeVe
  <2>3. QED
    BY <2>1, <2>2 DEF RetirarServicio
<1>3. /\ pisado' = (pisado \/ Edita # {}) /\ recien' = (recien \/ demo = "sembrado")
  BY DEF RetirarServicio
<1>4. TipoServicios'
  BY <1>1, <1>2, <1>3 DEF TipoServicios, Trabajos, IInvServicios
<1>5. FilasBien' /\ CuentasBien' /\ NadieLoEdita'
  BY <1>1, <1>2, <1>3 DEF IInvServicios, FilasBien, CuentasBien, NadieLoEdita, Edita
<1>6. ~cruzada => Pide = {} /\ reservas.abiertas = 0
  BY <1>1 DEF IInvServicios, NadieSeCruza, Quita
<1>7. NadieSeCruza'
  BY <1>1, <1>6 DEF IInvServicios, NadieSeCruza, Pide, Quita, EnGestion, HayReservas
<1>8. LaRetiradaCuadra'
  <2>1. CitaConServicio'
    BY <1>1, <1>6 DEF IInvServicios, TipoServicios, CitaConServicio
  <2>2. LoDelEliminadoSeVa'
    BY <1>1, <1>2, <1>3 DEF IInvServicios, LaRetiradaCuadra, LoDelEliminadoSeVa
  <2>3. QED
    BY <2>1, <2>2 DEF LaRetiradaCuadra
<1>9. QED
  BY <1>4, <1>5, <1>7, <1>8 DEF IInvServicios

\* The account is deleted with its services.
LEMMA AnonimizarBien ==
    ASSUME IInvServicios, NEW g \in Gestiones, AnonimizarDueno(g) PROVE IInvServicios'
<1>1. /\ gestion[g].etapa \in {"conHistorial", "sinHistorial"}
      /\ gestion' \in [Gestiones -> Trabajos]
      /\ gestion'[g].etapa = "nada"
      /\ \A h \in Gestiones \ {g} : gestion'[h] = gestion[h]
      /\ dueno' = [activo |-> FALSE, eliminado |-> TRUE]
      /\ demo = "no"
      /\ UNCHANGED <<demo, gestiones, cruzada, reservas, recien>>
  BY Acaba DEF IInvServicios, AnonimizarDueno, CuentasBien
<1>2. /\ servicio' \in Fichas
      /\ ~servicio'.hay => servicio' = Borrado
      /\ (~cruzada => ~SeVe' /\ servicio'.titulo # "otro")
  <2>1. CASE EnGestion(g, "conHistorial") /\ servicio.hay
    <3>1. servicio' = [hay |-> TRUE, titulo |-> "titulo solo", retirado |-> TRUE]
      BY <2>1 DEF AnonimizarDueno, Ficha
    <3>2. QED
      BY <3>1 DEF Fichas, SeVe
  <2>2. CASE ~(EnGestion(g, "conHistorial") /\ servicio.hay) /\ HayReservas
    <3>1. servicio' = servicio
      BY <2>2 DEF AnonimizarDueno
    <3>2. ~cruzada => ~servicio.hay
      BY <1>1, <2>2 DEF IInvServicios, NadieSeCruza, EnGestion
    <3>3. QED
      BY <3>1, <3>2, FichasBien DEF IInvServicios, TipoServicios, FilasBien, SeVe
  <2>3. CASE ~(EnGestion(g, "conHistorial") /\ servicio.hay) /\ ~HayReservas
    <3>1. servicio' = Borrado
      BY <2>3 DEF AnonimizarDueno
    <3>2. QED
      BY <3>1, FichasBien DEF SeVe
  <2>4. QED
    BY <2>1, <2>2, <2>3
<1>3. pisado' = (pisado \/ Edita # {})
  BY DEF AnonimizarDueno
<1>4. TipoServicios'
  BY <1>1, <1>2, <1>3 DEF TipoServicios, Trabajos, IInvServicios
<1>5. FilasBien' /\ CuentasBien' /\ NadieLoEdita'
  BY <1>1, <1>2, <1>3 DEF IInvServicios, FilasBien, CuentasBien, NadieLoEdita, Edita
<1>6. ~cruzada => Pide = {} /\ reservas.abiertas = 0
  BY <1>1 DEF IInvServicios, NadieSeCruza, Quita
<1>7. NadieSeCruza'
  BY <1>1, <1>6 DEF IInvServicios, NadieSeCruza, Pide, Quita, EnGestion, HayReservas
<1>8. LaRetiradaCuadra'
  <2>1. CitaConServicio'
    BY <1>1, <1>6 DEF IInvServicios, TipoServicios, CitaConServicio
  <2>2. LoDelEliminadoSeVa'
    BY <1>1, <1>2 DEF LoDelEliminadoSeVa
  <2>3. QED
    BY <2>1, <2>2 DEF LaRetiradaCuadra
<1>9. QED
  BY <1>4, <1>5, <1>7, <1>8 DEF IInvServicios

\* An edition compares, and then is saved: it never withdraws what is seen.
LEMMA CotejarBien == ASSUME IInvServicios, NEW g \in Gestiones, CotejarServicio(g) PROVE IInvServicios'
<1> DEFINE w == Gestion("compara", gestion[g].leida, servicio)
<1>1. w \in Trabajos /\ w.etapa = "compara" /\ w.leida = gestion[g].leida
  BY DEF IInvServicios, TipoServicios, Trabajos, Gestion, EtapasGestion
<1>2. gestion' = [gestion EXCEPT ![g] = w] /\ gestion[g].etapa = "edita"
      /\ UNCHANGED <<demo, servicio, dueno, reservas, gestiones, recien, cruzada, pisado>>
  BY DEF CotejarServicio, EnGestion
<1> HIDE DEF w
<1>3. /\ gestion' \in [Gestiones -> Trabajos]
      /\ gestion'[g] = w
      /\ \A h \in Gestiones \ {g} : gestion'[h] = gestion[h]
  BY <1>1, <1>2, Cambia DEF IInvServicios
<1>4. TipoServicios'
  BY <1>2, <1>3 DEF TipoServicios, Trabajos, IInvServicios
<1>5. FilasBien' /\ CuentasBien' /\ NadieLoEdita'
  BY <1>1, <1>2, <1>3 DEF IInvServicios, FilasBien, CuentasBien, NadieLoEdita, Edita
<1>6. NadieSeCruza'
  BY <1>1, <1>2, <1>3 DEF IInvServicios, NadieSeCruza, Pide, Quita, EnGestion, HayReservas, SeVe
<1>7. LaRetiradaCuadra'
  BY <1>2 DEF IInvServicios, LaRetiradaCuadra, CitaConServicio, LoDelEliminadoSeVa, SeVe
<1>8. QED
  BY <1>4, <1>5, <1>6, <1>7 DEF IInvServicios

\* The edition is saved over what there is.
LEMMA GuardarServicioBien ==
    ASSUME IInvServicios, NEW g \in Gestiones, GuardarServicio(g) PROVE IInvServicios'
<1>1. /\ gestion[g].etapa = "compara"
      /\ gestion' \in [Gestiones -> Trabajos]
      /\ gestion'[g].etapa = "nada"
      /\ \A h \in Gestiones \ {g} : gestion'[h] = gestion[h]
      /\ UNCHANGED <<demo, gestiones, cruzada, dueno, reservas, pisado>>
      /\ recien' = (recien \/ demo = "sembrado")
  BY Acaba DEF IInvServicios, GuardarServicio, EnGestion
<1>2. /\ gestion[g].leida \in Fichas /\ gestion[g].base \in Fichas
      /\ gestion[g].leida.hay /\ ~gestion[g].leida.retirado
  BY <1>1 DEF IInvServicios, TipoServicios, FilasBien, Edita
<1>3. /\ servicio' \in Fichas
      /\ ~servicio'.hay => servicio' = Borrado
      /\ SeVe => SeVe'
  <2>1. CASE servicio' \in {gestion[g].leida, servicio}
    BY <1>2, <2>1 DEF IInvServicios, TipoServicios, FilasBien, SeVe
  <2>2. ASSUME NEW r \in BOOLEAN, r \in {servicio.retirado, FALSE},
               servicio' = [hay |-> TRUE, titulo |-> gestion[g].leida.titulo, retirado |-> r]
        PROVE  /\ servicio' \in Fichas /\ servicio'.hay /\ (SeVe => SeVe')
    <3>1. gestion[g].leida.titulo \in {"original", "otro", "titulo solo"}
      BY <1>2 DEF Fichas
    <3>2. servicio' \in Fichas /\ servicio'.hay /\ servicio'.retirado = r
      BY <2>2, <3>1 DEF Fichas
    <3>3. QED
      BY <2>2, <3>2 DEF SeVe
  <2>3. CASE gestion[g].base.hay /\ servicio.hay
    <3>1. servicio.retirado \in BOOLEAN
      BY DEF IInvServicios, TipoServicios, Fichas
    <3>2. gestion[g].leida.retirado = FALSE
      BY <1>2 DEF Fichas
    <3>3. \/ servicio' = Ficha(TRUE, gestion[g].leida.titulo, servicio.retirado)
          \/ servicio' = Ficha(TRUE, gestion[g].leida.titulo, FALSE)
      BY <2>3, <3>2 DEF GuardarServicio
    <3>4. QED
      BY <2>2, <3>1, <3>3 DEF Ficha
  <2>4. CASE ~(gestion[g].base.hay /\ servicio.hay)
    BY <2>1, <2>4 DEF GuardarServicio
  <2>5. QED
    BY <2>3, <2>4
<1>4. TipoServicios'
  BY <1>1, <1>3 DEF TipoServicios, Trabajos, IInvServicios
<1>5. FilasBien' /\ CuentasBien' /\ NadieLoEdita'
  BY <1>1, <1>3 DEF IInvServicios, FilasBien, CuentasBien, NadieLoEdita, Edita
<1>6. NadieSeCruza'
  BY <1>1, <1>3 DEF IInvServicios, NadieSeCruza, Pide, Quita, EnGestion, HayReservas
<1>7. LaRetiradaCuadra'
  <2>1. CitaConServicio'
    BY <1>1, <1>3 DEF IInvServicios, LaRetiradaCuadra, CitaConServicio
  <2>2. LoDelEliminadoSeVa'
    BY <1>1 DEF IInvServicios, NadieLoEdita, Edita, LoDelEliminadoSeVa
  <2>3. QED
    BY <2>1, <2>2 DEF LaRetiradaCuadra
<1>8. QED
  BY <1>4, <1>5, <1>6, <1>7 DEF IInvServicios

\* The account is moderated; an hour goes by; the demonstration is restored.
LEMMA SolosBien ==
    ASSUME IInvServicios, Alternar \/ PasaUnaHora \/ Restaurar \/ UNCHANGED varsServicios
    PROVE  IInvServicios'
<1>1. CASE Alternar
  <2>1. /\ dueno' \in [activo : BOOLEAN, eliminado : BOOLEAN] /\ ~dueno'.eliminado
        /\ ~dueno.eliminado
        /\ UNCHANGED <<demo, servicio, reservas, gestion, gestiones, recien, cruzada, pisado>>
    BY <1>1 DEF Alternar, IInvServicios, TipoServicios
  <2>2. TipoServicios' /\ FilasBien' /\ CuentasBien' /\ NadieLoEdita'
    BY <2>1 DEF IInvServicios, TipoServicios, FilasBien, CuentasBien, NadieLoEdita, Edita
  <2>3. NadieSeCruza' /\ LaRetiradaCuadra'
    BY <2>1 DEF IInvServicios, NadieSeCruza, Pide, Quita, EnGestion, HayReservas, SeVe,
       LaRetiradaCuadra, CitaConServicio, LoDelEliminadoSeVa
  <2>4. QED
    BY <2>2, <2>3 DEF IInvServicios
<1>2. CASE PasaUnaHora \/ UNCHANGED varsServicios
  <2>1. /\ recien' \in BOOLEAN
        /\ UNCHANGED <<demo, servicio, dueno, reservas, gestion, gestiones, cruzada, pisado>>
    BY <1>2 DEF PasaUnaHora, varsServicios, IInvServicios, TipoServicios
  <2>2. TipoServicios' /\ FilasBien' /\ CuentasBien' /\ NadieLoEdita'
    BY <2>1 DEF IInvServicios, TipoServicios, FilasBien, CuentasBien, NadieLoEdita, Edita
  <2>3. NadieSeCruza' /\ LaRetiradaCuadra'
    BY <2>1 DEF IInvServicios, NadieSeCruza, Pide, Quita, EnGestion, HayReservas, SeVe,
       LaRetiradaCuadra, CitaConServicio, LoDelEliminadoSeVa
  <2>4. QED
    BY <2>2, <2>3 DEF IInvServicios
<1>3. CASE Restaurar
  <2>1. /\ demo # "no" /\ recien' \in BOOLEAN
        /\ UNCHANGED <<demo, dueno, reservas, gestion, gestiones, cruzada, pisado>>
    BY <1>3 DEF Restaurar
  <2>2. servicio' \in Fichas /\ (~servicio'.hay => servicio' = Borrado)
    <3>1. CASE servicio' \in {Original, Borrado}
      BY <3>1, FichasBien
    <3>2. CASE servicio.hay /\ servicio' = [servicio EXCEPT !.retirado = TRUE]
      BY <3>2 DEF IInvServicios, TipoServicios, Fichas
    <3>3. QED
      BY <1>3, <3>1, <3>2 DEF Restaurar, SeVe
  <2>3. ~dueno.eliminado
    BY <2>1 DEF IInvServicios, CuentasBien
  <2>4. TipoServicios' /\ FilasBien' /\ CuentasBien' /\ NadieLoEdita'
    BY <2>1, <2>2 DEF IInvServicios, TipoServicios, FilasBien, CuentasBien, NadieLoEdita, Edita
  <2>5. NadieSeCruza' /\ LaRetiradaCuadra'
    BY <2>1, <2>3 DEF IInvServicios, NadieSeCruza, Pide, Quita, EnGestion, HayReservas,
       LaRetiradaCuadra, CitaConServicio, LoDelEliminadoSeVa
  <2>6. QED
    BY <2>4, <2>5 DEF IInvServicios
<1>4. QED
  BY <1>1, <1>2, <1>3

\* Every step keeps it.
LEMMA PasoServicios == IInvServicios /\ [NextServicios]_varsServicios => IInvServicios'
<1> SUFFICES ASSUME IInvServicios, [NextServicios]_varsServicios PROVE IInvServicios'
  OBVIOUS
<1>1. ASSUME NEW g \in Gestiones,
             MirarPartes(g) \/ ContarAbiertas(g) \/ ElegirRetirada(g) \/ VaciarServicios(g)
      PROVE  IInvServicios'
  <2>1. \E etapa \in EtapasGestion :
          /\ PasaGestion(g, etapa) \/ (etapa = "nada" /\ AcabaGestion(g))
          /\ UNCHANGED <<servicio, dueno, reservas, recien, pisado>>
          /\ \/ etapa = "nada"
             \/ EnGestion(g, "leido") /\ etapa = "cabe" /\ dueno.activo
             \/ EnGestion(g, "quita") /\ etapa = "vacio" /\ reservas.abiertas = 0
             \/ EnGestion(g, "vacio") /\ etapa \in {"retira", "borra"}
             \/ EnGestion(g, "elimina") /\ etapa = "conHistorial"
             \/ EnGestion(g, "elimina") /\ etapa = "sinHistorial" /\ ~HayReservas
    BY <1>1 DEF MirarPartes, ContarAbiertas, ElegirRetirada, VaciarServicios, EtapasGestion
  <2>2. QED
    BY <2>1, SigueBien
<1>2. QED
  BY <1>1, PedirBien, QuitarBien, EditarBien, GuardarReservaBien, CerrarReservaBien, RetirarBien,
     AnonimizarBien, CotejarBien, GuardarServicioBien, SolosBien DEF NextServicios

\* There are no requests to begin with.
LEMMA IniciaServicios == InitServicios => IInvServicios
<1> SUFFICES ASSUME InitServicios PROVE IInvServicios
  OBVIOUS
<1>1. \A g \in Gestiones : gestion[g].etapa = "nada"
  BY FichasBien DEF InitServicios
<1>2. Pide = {} /\ Quita = {} /\ Edita = {}
  BY <1>1 DEF Pide, Quita, Edita
<1>3. TipoServicios
  <2>1. reservas \in [abiertas : 0 .. MaxReservas, cerradas : 0 .. MaxReservas]
    BY ServiciosOK DEF InitServicios
  <2>2. gestion \in [Gestiones -> Trabajos] /\ servicio \in Fichas
    BY FichasBien DEF InitServicios
  <2>3. dueno \in [activo : BOOLEAN, eliminado : BOOLEAN] /\ gestiones \in 0 .. MaxGestiones
    BY ServiciosOK DEF InitServicios
  <2>4. QED
    BY <2>1, <2>2, <2>3 DEF InitServicios, TipoServicios, Trabajos
<1>4. FilasBien /\ CuentasBien /\ NadieLoEdita
  BY <1>1, <1>2, ServiciosOK DEF InitServicios, FilasBien, CuentasBien, NadieLoEdita, Original, Ficha
<1>5. NadieSeCruza /\ LaRetiradaCuadra
  BY <1>1, <1>2 DEF InitServicios, NadieSeCruza, EnGestion, LaRetiradaCuadra, CitaConServicio,
     LoDelEliminadoSeVa
<1>6. QED
  BY <1>3, <1>4, <1>5 DEF IInvServicios

\* The inductive invariant of the life of a service.
THEOREM ServiciosInvariante == SpecServicios => []IInvServicios
BY IniciaServicios, PasoServicios, PTL DEF SpecServicios

\* services.service.ts: whoever leaves, or withdraws a service, leaves neither
\* bookings nor data.
THEOREM RetiradaSiempreCuadra == SpecServicios => []LaRetiradaCuadra
<1>1. IInvServicios => LaRetiradaCuadra
  BY DEF IInvServicios
<1>2. QED
  BY <1>1, ServiciosInvariante, PTL

-----------------------------------------------------------------------------
(* The four of them together, as they are run.                             *)

\* A behaviour of them all is one of each, and meets what each promises, for any
\* instances, attempts, questions and requests.
THEOREM LaPlataformaCumple ==
    Spec => [](TypeOK /\ ElFrenoCumple /\ LaCopiaCuadra /\ ElPresupuestoCuadra
               /\ LaRetiradaCuadra)
<1>1. Init => InitFreno /\ InitCategorias /\ InitPresupuesto /\ InitServicios
  BY DEF Init
<1>2. [Next]_vars => /\ [NextFreno]_varsFreno /\ [NextCategorias]_varsCategorias
                     /\ [NextPresupuesto]_varsPresupuesto /\ [NextServicios]_varsServicios
  BY DEF Next, FrenoSolo, CategoriasSolas, PresupuestoSolo, ServiciosSolos, vars
<1>3. Spec => SpecFreno /\ SpecCategorias /\ SpecPresupuesto /\ SpecServicios
  BY <1>1, <1>2, PTL DEF Spec, SpecFreno, SpecCategorias, SpecPresupuesto, SpecServicios
<1>4. IInvFreno /\ IInvCopia /\ IInvCuenta /\ IInvServicios => TypeOK
  BY DEF TypeOK, IInvFreno, IInvCopia, IInvCuenta, IInvServicios
<1>. QED
  BY <1>3, <1>4, FrenoInvariante, CopiaInvariante, CuentaInvariante, ServiciosInvariante,
     FrenoSiempreCumple, CopiaSiempreCuadra, PresupuestoSiempreCuadra, RetiradaSiempreCuadra, PTL
=============================================================================
