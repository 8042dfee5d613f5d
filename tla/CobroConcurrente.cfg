\* Safety: two requests and the hourly jobs, one renewal, failures and crashes.
CONSTANTS
    p1 = p1
    p2 = p2
    r1 = r1
    Nadie = Nadie
    Peticiones <- PeticionesDos
    Programadores <- ProgramadoresUno
    MaxIntenciones = 3
    MaxPeriodos = 1
    MaxErrores = 1
    MaxCaidas = 1
SPECIFICATION Spec
SYMMETRY Simetria
INVARIANTS
    TypeOK
    SoloRenovarDejaHuerfanas
    NuncaDosCobros
    LoAnotadoOcurrio
    SinEsperaCruzada
