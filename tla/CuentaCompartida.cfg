\* The account: two requests at once; two seconds of two ticks and half of another,
\* with sessions of two seconds, so that one can be older than a change and not expired.
\* The form: one booking over rates between 1 and 2 and a day of two hours.  The figures
\* and the download: one or two changes while they are read.
CONSTANTS
    p1 = p1
    p2 = p2
    d1 = d1
    d2 = d2
    k1 = k1
    k2 = k2
    fontaneria = fontaneria
    pintura = pintura
    madrid = madrid
    toledo = toledo
    ana = ana
    beto = beto
    PrecioMinimo = 1
    PrecioMaximo = 2
    Antelacion = 1
    Horas = 2
    Ediciones <- EdicionesDos
    MaxHoras = 3
    MaxEdiciones = 2
    MaxSolicitudes = 1
    MaxPercances = 1
    Claves <- ClavesDos
    Posibles <- PosiblesPocas
    Oficios <- OficiosDos
    Comienzos <- ComienzosDos
    SEMANAS = 2
    LIMITE = 2
    NoHay = NoHay
    SinLeer = SinLeer
    MaxCambios = 1
    Yo = ana
    Datos <- DatosPocos
    MaxEscrituras = 2
    MaxAnotadas = 5
    Peticiones <- PeticionesDos
    Tics = 2
    DuracionSesion = 2
    DuracionEnlace = 2
    EnlacesPorHora = 1
    MaxReloj = 4
    MaxTokens = 2
    MaxClaves = 2
    MaxEnlaces = 3
    MaxServidas = 5
SPECIFICATION SpecTodas
SYMMETRY Simetria
INVARIANTS
    TiposOK
    SoloLaClaveDeHoy
    LosEnlacesCuadran
    ReservarCuadra
    ElPanelCuadra
    LaDescargaCuadra
\* The clock stops.
CHECK_DEADLOCK FALSE
