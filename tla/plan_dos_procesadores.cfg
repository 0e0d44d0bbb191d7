SPECIFICATION Spec
CONSTANTS
    NumCarpinchos = 3
    NumProcesadores = 2
    Grado = 2
    Semaforos = {s1}
    Dispositivos = {}
    Valores <- ValoresCeroUno
    MaxValor = 1
    MaxUsos = 1
    Llamadas <- LlamadasSinClose
    ConDetector = FALSE
    RafagaLarga = FALSE
    Nadie = Nadie
INVARIANTS
    CadaUnoEnUnLugar
    GradoConservado
    DetenidosEncolados
    SuspensionPendiente
CHECK_DEADLOCK FALSE
