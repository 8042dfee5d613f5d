\* As CuentaCompartida: a save of the profile while the account is deleted.
CONSTANTS
    p1 = p1
    p2 = p2
    d1 = d1
    d2 = d2
    k1 = k1
    k2 = k2
    fontaneria = fontaneria
    pintura = pintura
    madrid = madrid
    toledo = toledo
    ana = ana
    beto = beto
    PrecioMinimo = 1
    PrecioMaximo = 2
    Antelacion = 1
    Horas = 2
    Ediciones <- EdicionesDos
    MaxHoras = 3
    MaxEdiciones = 2
    MaxSolicitudes = 1
    MaxPercances = 1
    Claves <- ClavesDos
    Posibles <- PosiblesPocas
    Oficios <- OficiosDos
    Comienzos <- ComienzosDos
    SEMANAS = 2
    LIMITE = 2
    NoHay = NoHay
    SinLeer = SinLeer
    MaxCambios = 1
    Yo = ana
    Datos <- DatosPocos
    MaxEscrituras = 2
    MaxAnotadas = 5
    Peticiones <- PeticionesDos
    Tics = 2
    DuracionSesion = 2
    DuracionEnlace = 2
    EnlacesPorHora = 1
    MaxReloj = 4
    MaxTokens = 2
    MaxClaves = 2
    MaxEnlaces = 3
    MaxServidas = 5
SPECIFICATION SpecTodas
PROPERTIES
    LoEliminadoNoVuelve
\* The clock stops.
CHECK_DEADLOCK FALSE
