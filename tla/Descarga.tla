------------------------------- MODULE Descarga -------------------------------
(***************************************************************************)
(* exportarDatos: everything the platform keeps of a person, read table by *)
(* table and out of any transaction, while others write.  Two of the       *)
(* queries start from what an earlier one found.                           *)
(***************************************************************************)
EXTENDS Naturals, FiniteSets

CONSTANTS
    Yo,             \* who downloads
    Datos,          \* the rows there may be
    MaxEscrituras   \* bound: rows written or deleted meanwhile

\* A row: its table, its identifier, the two people it is of, and the row it hangs
\* from, 0 if none.  A payment, and a review its author downloads, hang from a booking
\* of the same client; a review received, from its service.
ASSUME DescargaOK ==
    /\ MaxEscrituras \in Nat
    /\ \A d \in Datos : d.tabla \in {"servicios", "reservas", "pagos", "valoraciones",
                                      "conversaciones", "mensajes", "avisos"}
    /\ \A d \in Datos : d.id # 0
    /\ \A d, f \in Datos : d.id = f.id => d = f
    /\ \A d \in Datos : d.tabla \in {"pagos", "valoraciones"} /\ d.uno = Yo =>
           /\ d.de # 0
           /\ \A f \in Datos : f.id = d.de => f.tabla = "reservas" /\ f.uno = Yo

VARIABLES
    existentes,   \* the rows there are
    descarga,     \* what each query has found
    hechas,       \* the queries answered
    siempre,      \* history: the rows there have been since it began
    alguna,       \* history: those there have been at any time since
    escrituras    \* rows written or deleted

varsDescarga == <<existentes, descarga, hechas, siempre, alguna, escrituras>>

\* The five asked for at once, and the four that follow.
DeGolpe == {"servicios", "comoCliente", "comoProfesional", "pagos", "escritas"}
\* Bug: the messages are asked for before the conversations.
DespuesAlReves == <<"recibidas", "mensajes", "conversaciones", "avisos">>
Despues == <<"recibidas", "conversaciones", "mensajes", "avisos">>
Apartados == DeGolpe \cup {Despues[n] : n \in DOMAIN Despues}

Tabla(t) == {d \in existentes : d.tabla = t}
DeLasDe(t, filas) == {d \in Tabla(t) : \E f \in filas : f.id = d.de}

\* What each query answers, with what has been read so far.
Encuentra(c) ==
    CASE c = "servicios"       -> {d \in Tabla("servicios") : d.uno = Yo}
      [] c = "comoCliente"     -> {d \in Tabla("reservas") : d.uno = Yo}
      [] c = "comoProfesional" -> {d \in Tabla("reservas") : d.dos = Yo}
      [] c = "pagos"           -> {d \in Tabla("pagos") : d.uno = Yo}
      [] c = "escritas"        -> {d \in Tabla("valoraciones") : d.uno = Yo}
      [] c = "recibidas"       -> DeLasDe("valoraciones", descarga["servicios"])
      [] c = "conversaciones"  -> {d \in Tabla("conversaciones") : Yo \in {d.uno, d.dos}}
      [] c = "mensajes"        -> DeLasDe("mensajes", descarga["conversaciones"])
      [] c = "avisos"          -> {d \in Tabla("avisos") : d.uno = Yo}

\* Every row hangs from one there is.
Enteros(filas) == \A d \in filas : d.de = 0 \/ \E f \in filas : f.id = d.de

TipoDescarga ==
    /\ existentes \subseteq Datos /\ Enteros(existentes)
    /\ descarga \in [Apartados -> SUBSET Datos]
    /\ hechas \subseteq Apartados
    /\ siempre \subseteq existentes /\ existentes \subseteq alguna
    /\ escrituras \in 0 .. MaxEscrituras

InitDescarga ==
    /\ existentes \in {filas \in SUBSET Datos : Enteros(filas)}
    /\ descarga = [c \in Apartados |-> {}]
    /\ hechas = {}
    /\ siempre = existentes /\ alguna = existentes
    /\ escrituras = 0

LeerApartado(c) ==
    /\ c \notin hechas
    /\ \/ c \in DeGolpe
       \/ \E n \in DOMAIN Despues : /\ c = Despues[n]
                                    /\ DeGolpe \cup {Despues[m] : m \in 1 .. n - 1} \subseteq hechas
    /\ descarga' = [descarga EXCEPT ![c] = Encuentra(c)]
    /\ hechas' = hechas \cup {c}
    /\ UNCHANGED <<existentes, siempre, alguna, escrituras>>

\* Somebody writes a row, or deletes one nothing hangs from.
Escribe(d) ==
    /\ escrituras < MaxEscrituras /\ hechas # Apartados
    /\ existentes' = IF d \in existentes THEN existentes \ {d} ELSE existentes \cup {d}
    /\ Enteros(existentes')
    /\ siempre' = siempre \cap existentes'
    /\ alguna' = alguna \cup existentes'
    /\ escrituras' = escrituras + 1
    /\ UNCHANGED <<descarga, hechas>>

NextDescarga ==
    \/ \E c \in Apartados : LeerApartado(c)
    \/ \E d \in Datos : Escribe(d)

SpecDescarga == InitDescarga /\ [][NextDescarga]_varsDescarga

-----------------------------------------------------------------------------
(* Properties.                                                             *)

\* A row is of one person; a conversation, of two.
EsDelQueDescarga(d) == d.uno = Yo \/ (d.tabla = "conversaciones" /\ d.dos = Yo)

\* Whose it is, by the rows themselves.
EsSuyo(c, d) ==
    LET padre(t) == \E f \in Datos : f.id = d.de /\ f.tabla = t /\ EsDelQueDescarga(f)
    IN  CASE c = "recibidas" -> d.tabla = "valoraciones" /\ padre("servicios")
          [] c = "mensajes"  -> d.tabla = "mensajes" /\ padre("conversaciones")
          [] c = "escritas"  -> d.tabla = "valoraciones" /\ EsDelQueDescarga(d)
          [] c = "comoCliente" -> d.tabla = "reservas" /\ EsDelQueDescarga(d)
          [] c = "comoProfesional" -> d.tabla = "reservas" /\ d.dos = Yo
          [] OTHER -> d.tabla = c /\ EsDelQueDescarga(d)

CuelgaDe(d, filas) == \E f \in filas : f.id = d.de

\* users.service.ts:145-153.  The file has everything of that person that has been
\* there all the while, nothing that never was and nothing of others, although each
\* table is read at its own moment.  A message in it hangs from a conversation in it,
\* and a review received from a service in it.  A payment or a review written may be
\* there without its booking, read at another moment, but only if that booking was
\* written or deleted while the file was being made.
LaDescargaCuadra ==
    /\ \A c \in hechas :
           /\ {d \in siempre : EsSuyo(c, d)} \subseteq descarga[c]
           /\ descarga[c] \subseteq {d \in alguna : EsSuyo(c, d)}
    /\ \A d \in descarga["mensajes"] : CuelgaDe(d, descarga["conversaciones"])
    /\ \A d \in descarga["recibidas"] : CuelgaDe(d, descarga["servicios"])
    /\ "comoCliente" \in hechas =>
           \A d \in descarga["pagos"] \cup descarga["escritas"] :
               CuelgaDe(d, descarga["comoCliente"] \cup (alguna \ siempre))
=============================================================================
