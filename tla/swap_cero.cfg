SPECIFICATION Spec
CONSTANTS
    Procesos = {p1}
    NumArchivos = 1
    MarcosPorArchivo = 2
    Configuraciones <- ConfiguracionEntregada
    Datos = {ceros}
    Ceros = ceros
    MaxPedido = 2
    MaxPagina = 3
    MaxCanal = 2
    Nadie = Nadie
INVARIANTS
    EspacioExacto
CHECK_DEADLOCK FALSE
