SPECIFICATION FairSpec
CONSTANTS
    NumCarpinchos = 1
    NumProcesadores = 1
    Grado = 1
    Semaforos = {s1, s2}
    Dispositivos = {}
    Valores <- ValoresUno
    MaxValor = 1
    MaxUsos = 1
    Llamadas <- LlamadasSemaforos
    ConDetector = FALSE
    RafagaLarga = FALSE
    Nadie = Nadie
PROPERTIES
    CloseTermina
CHECK_DEADLOCK FALSE
