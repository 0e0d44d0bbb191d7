SPECIFICATION Spec
CONSTANTS
    NumCarpinchos = 2
    NumProcesadores = 2
    Grado = 2
    Semaforos = {s1, s2}
    Dispositivos = {}
    Valores <- ValoresUno
    MaxValor = 1
    MaxUsos = 1
    Llamadas <- LlamadasSinIO
    ConDetector = TRUE
    RafagaLarga = FALSE
    Nadie = Nadie
INVARIANTS
    TypeOK
    FichasDeListas
    FichasDeProcesadores
    
CHECK_DEADLOCK FALSE
