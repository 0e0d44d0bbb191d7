SPECIFICATION Spec
CONSTANTS
    NumCarpinchos = 2
    NumProcesadores = 1
    Grado = 2
    Semaforos = {s1}
    Dispositivos = {}
    Valores <- ValoresUno
    MaxValor = 1
    MaxUsos = 2
    Llamadas <- LlamadasSemaforos
    ConDetector = TRUE
    RafagaLarga = FALSE
    Nadie = Nadie
INVARIANTS
    MuertosFueraDeListas
CHECK_DEADLOCK FALSE
