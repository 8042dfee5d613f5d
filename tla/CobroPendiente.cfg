\* Liveness: the hourly jobs finish what failed, without any webhook.
CONSTANTS
    p1 = p1
    p2 = p2
    r1 = r1
    Nadie = Nadie
    Peticiones <- PeticionesUna
    Programadores <- ProgramadoresUno
    MaxIntenciones = 2
    MaxPeriodos = 1
    MaxErrores = 1
    MaxCaidas = 1
SPECIFICATION SpecJusta
PROPERTY
    LosTrabajosAcaban
