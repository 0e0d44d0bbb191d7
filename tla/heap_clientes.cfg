SPECIFICATION Spec
CONSTANTS
    a = a
    b = b
    Clientes = {a, b}
    Configuraciones <- ConfiguracionesDePrueba
    TamPagina = 8
    TamHeader = 2
    MaxPaginas = 4
INVARIANTS
    TypeOK
    CadenaDeBloques
    SinLibresContiguos
    BloquesDelCliente

    
CHECK_DEADLOCK FALSE
