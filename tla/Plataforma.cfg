\* Two instances, two attempts; two readings, two writings; two questions, four
\* in all; two requests on a service, four in all, two bookings.
CONSTANTS
    i1 = i1
    i2 = i2
    a1 = a1
    a2 = a2
    l1 = l1
    l2 = l2
    e1 = e1
    e2 = e2
    c1 = c1
    c2 = c2
    g1 = g1
    g2 = g2
    Instancias <- InstanciasDos
    Intentos <- IntentosDos
    Maximo = 2
    Ventana = 2
    MaxCaidas = 2
    MaxTics = 4
    Lecturas <- LecturasDos
    Escrituras <- EscriturasDos
    Segundos = 2
    MaxVersiones = 2
    MaxSinCache = 1
    Consultas <- ConsultasDos
    Tope = 3
    CosteMaximo = 2
    Disponible = TRUE
    MaxConsultas = 4
    MaxSinApuntar = 1
    Gestiones <- GestionesDos
    MaxReservas = 2
    MaxGestiones = 4
SPECIFICATION Spec
INVARIANTS
    TypeOK
    ElFrenoCumple
    LaCopiaCuadra
    ElPresupuestoCuadra
    LaRetiradaCuadra
PROPERTIES
    LaCopiaAlcanza
    LaDemostracionVuelve
\* Every part may stop: nobody is obliged to ask for anything.
CHECK_DEADLOCK FALSE
