\* Reviews: two requests at once, one of them cut short, six in all.  Notices: two
\* changes at once of three.  The bell: one tab; four notices and lists of two; a cut, a call
\* without an answer, two requests at once.
CONSTANTS
    r1 = r1
    r2 = r2
    p1 = p1
    p2 = p2
    m1 = m1
    m2 = m2
    t1 = t1
    c1 = c1
    c2 = c2
    Tramites <- TramitesDos
    MaxTramites = 3
    MaxOlvidos = 2
    Ninguno = Ninguno
    Reservas <- ReservasDos
    Peticiones <- PeticionesDos
    Notas <- NotasExtremas
    Motivos <- MotivosDos
    MaxValoraciones = 3
    MaxPeticiones = 6
    MaxCaidas = 1
    Pestanas <- PestanaUna
    MaxCortes = 1
    MaxMudas = 1
    Limite = 2
    MaxAvisos = 4
    MaxPendientes = 2
SPECIFICATION SpecTodas
SYMMETRY Simetria
INVARIANTS
    TiposOK
    LaMediaCuadra
    LasNoticiasCuadran
    LaCampanaCuadra
PROPERTIES
    CadaIdUnaValoracion
\* Every request may have been served.
CHECK_DEADLOCK FALSE
