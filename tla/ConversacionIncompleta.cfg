\* Nothing fails and nobody leaves.
CONSTANTS
    ana = ana
    beto = beto
    t1 = t1
    e1 = e1
    e2 = e2
    Personas <- PersonasDos
    Pestanas <- PestanaUna
    Duena <- DeAna
    Envios <- EnviosDos
    Tope = 1
    MaxMensajes = 2
    MaxRotas = 0
    MaxCortes = 0
    MaxMudas = 0
    MaxEnVuelo = 1
SPECIFICATION SpecConversaciones
INVARIANTS
    ElHiloSeCompleta
\* People may stop writing.
CHECK_DEADLOCK FALSE
