SPECIFICATION Spec
CONSTANTS
    Procesos = {p1, p2}
    NumArchivos = 2
    MarcosPorArchivo = 3
    Configuraciones <- DinamicaYFija
    Datos = {ceros, x}
    Ceros = ceros
    MaxPedido = 2
    MaxPagina = 3
    MaxCanal = 2
    Nadie = Nadie
INVARIANTS
    TypeOK
    EspacioExacto
    PaginasCoinciden
    CuotaFija
    
PROPERTIES
    EsAlmacen
SYMMETRY ProcesosIguales
CHECK_DEADLOCK FALSE
