SPECIFICATION SpecA
CONSTANTS
    NumCarpinchos = 2
    NumProcesadores = 1
    Grado = 2
    Semaforos = {s1}
    Dispositivos = {}
    Valores = {1}
    MaxValor = 1
    MaxUsos = 1
    Llamadas <- LlamadasSemaforos
    ConDetector = FALSE
    RafagaLarga = FALSE
    Nadie = Nadie
PROPERTIES
    SoloSeLiberaLoAsignado
CHECK_DEADLOCK FALSE
