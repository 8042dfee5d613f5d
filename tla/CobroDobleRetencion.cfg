\* The payment page opened while the review renews: no failure at all.
CONSTANTS
    p1 = p1
    p2 = p2
    r1 = r1
    Nadie = Nadie
    Peticiones <- PeticionesUna
    Programadores <- ProgramadoresUno
    MaxIntenciones = 3
    MaxPeriodos = 1
    MaxErrores = 0
    MaxCaidas = 0
SPECIFICATION Spec
INVARIANT
    UnaSolaRetencion
