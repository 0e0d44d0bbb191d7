SPECIFICATION Spec
CONSTANTS
    NumCarpinchos = 2
    NumProcesadores = 2
    Grado = 2
    Semaforos = {s1}
    Dispositivos = {d1}
    Valores <- ValoresUno
    MaxValor = 1
    MaxUsos = 1
    Llamadas <- LlamadasIO
    ConDetector = FALSE
    RafagaLarga = FALSE
    Nadie = Nadie
INVARIANTS
    FichasDeListas
    FichasDeProcesadores
CHECK_DEADLOCK FALSE
