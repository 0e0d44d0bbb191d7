SPECIFICATION Spec
CONSTANTS
    a = a
    b = b
    Procesos = {a, b}
    MaxPaginas = 3
    Configuraciones <- ConfiguracionesMemoria
    Nadie = Nadie
INVARIANTS
    TypeOK
    
    
    MarcoPropio
    
    TLBAcotada
    
PROPERTIES
    
    PedidoTermina
CHECK_DEADLOCK FALSE
