SPECIFICATION FairSpec
CONSTANTS
    NumCarpinchos = 3
    NumProcesadores = 2
    Grado = 2
    Semaforos = {s1, s2}
    Dispositivos = {}
    Valores <- ValoresUno
    MaxValor = 1
    MaxUsos = 1
    Llamadas <- LlamadasEspera
    ConDetector = TRUE
    RafagaLarga = FALSE
    Nadie = Nadie
INVARIANTS
    FichasDeListas
    NadieDuermeConUnidades
PROPERTIES
    CirculoSeRompe
CHECK_DEADLOCK FALSE
