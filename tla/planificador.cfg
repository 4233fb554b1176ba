SPECIFICATION Spec

CONSTANTS
    MaxPid = 3
    MaxPc = 4
    Algoritmo = "RR"
    Recursos = {}
    Interfaces = {}
    Comandos = {"DETENER_PLANIFICACION", "INICIAR_PLANIFICACION"}
    Grados = {2}
    GradoInicial = 2
    Argumentos = {"NADA"}
    OperadorEspera = TRUE
    TopeSemaforo = 1
    DespachoOportuno = FALSE
    PuedeRechazar = FALSE
    Programa <- ProgramasNombres
    InstanciasIniciales <- SinInstancias
    TipoInterfaz <- SinTipos

INVARIANTS
    TypeOK
    ControlUnico
    InstruccionPropia
    SinDespertarPerdido
    AdmisionSinPerder
    SinCaidas

\* The system rests when every process has ended.
CHECK_DEADLOCK FALSE
