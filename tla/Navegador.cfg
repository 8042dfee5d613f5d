\* Two accounts, two tabs, two sessions, one of each thing that may go wrong; three
\* services in pages of one, two addresses gone to, two requests at once.
CONSTANTS
    ana = ana
    beto = beto
    t1 = t1
    t2 = t2
    Nadie = Nadie
    Personas <- PersonasDos
    Pestanas <- PestanasDos
    Reservando <- PestanaUna
    MaxEntradas = 2
    MaxSalidas = 1
    MaxCargas = 1
    MaxCierres = 1
    MaxMudas = 1
    fuga = fuga
    grifo = grifo
    jardin = jardin
    fontaneria = fontaneria
    jardineria = jardineria
    pintura = pintura
    madrid = madrid
    toledo = toledo
    barcelona = barcelona
    Nada = Nada
    Catalogos <- CatalogosDos
    Amplia <- Diccionario
    Nombre <- Nombres
    Enlaces <- EnlacesTres
    Peticiones <- FiltrosDelPanel
    Textos <- TextosUno
    Limite = 1
    LimiteMapa = 2
    TopeConteo = 3
    RadioMaximo = 100
    MaxPasos = 2
    MaxCambios = 1
    MaxIntentos = 1
    MaxSinRespuesta = 1
    MaxEnVuelo = 2
    Oficios <- OficiosDos
    Mensajes <- MensajesDos
    Salidas <- SalidasTres
    LimiteAsistente = 2
    MaxConsultas = 2
    cosa = cosa
    Cosas <- CosaUna
    Visitadas <- TodasLasPantallas
    Ninguna = Ninguna
    MaxVisitas = 1
    MaxPulsaciones = 2
    MaxAjenos = 1
    MaxFallos = 1
SPECIFICATION Spec
INVARIANTS
    TypeOK
    ElBorradorEsSuyo
    LaBusquedaCuadra
    ElAsistenteCuadra
    LoHechoSeVe
PROPERTIES
    LoUltimoVale
    LasPestanasCoinciden
    LaBusquedaContesta
    NadieEsperaSiempre
\* Everybody may stop.
CHECK_DEADLOCK FALSE
