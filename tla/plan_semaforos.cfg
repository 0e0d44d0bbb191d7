SPECIFICATION FairSpec
CONSTANTS
    NumCarpinchos = 3
    NumProcesadores = 1
    Grado = 2
    Semaforos = {s1}
    Dispositivos = {}
    Valores <- ValoresCeroUno
    MaxValor = 1
    MaxUsos = 1
    Llamadas <- LlamadasSemaforos
    ConDetector = FALSE
    RafagaLarga = FALSE
    Nadie = Nadie
INVARIANTS
    CadaUnoEnUnLugar
    GradoConservado
    DetenidosEncolados
    SuspensionPendiente
PROPERTIES
    NuevoDesplazaBloqueado
    NoHayOcioConListos
    CloseTermina
CHECK_DEADLOCK FALSE
