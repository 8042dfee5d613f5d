\* One tab; two sends at once, two messages.
CONSTANTS
    ana = ana
    beto = beto
    t1 = t1
    e1 = e1
    e2 = e2
    Personas <- PersonasDos
    Pestanas <- PestanaUna
    Duena <- DeAna
    Envios <- EnviosDos
    Tope = 1
    MaxMensajes = 2
    MaxRotas = 1
    MaxCortes = 1
    MaxMudas = 1
    MaxEnVuelo = 1
SPECIFICATION SpecJusta
INVARIANTS
    UnaPorPareja
    LaListaCuadra
PROPERTIES
    LaRedDeSeguridad
\* People may stop writing.
CHECK_DEADLOCK FALSE
