\* Refinement: Stripe may fail, but what it does is always answered.  The page: one tab,
\* without errors.
CONSTANTS
    p1 = p1
    p2 = p2
    r1 = r1
    Nadie = Nadie
    Peticiones <- PeticionesDos
    Programadores <- ProgramadoresUno
    Tiendas <- PeticionesUna
    MaxIntenciones = 3
    MaxPeriodos = 1
    MaxErrores = 2
    MaxCaidas = 0
SPECIFICATION SpecPartes
INVARIANT
    PagarCuadra
PROPERTY
    CumpleLaPromesa
