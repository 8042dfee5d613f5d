\* Safety and liveness with the constraint: three bookings of one or two instants.
CONSTANTS
    a = a
    b = b
    c = c
    Reservas <- ReservasTres
    Duraciones <- DuracionesDos
    Horizonte = 2
    ConRestriccion = TRUE
SPECIFICATION SpecViva
INVARIANTS
    SinSolapes
PROPERTIES
    TodaConfirmacionTermina
\* Everything may be closed and the clock at its last instant.
CHECK_DEADLOCK FALSE
