SPECIFICATION Spec

CONSTANTS
    MaxPid = 2
    MaxPc = 4
    Algoritmo = "RR"
    Recursos = {}
    Interfaces = {}
    Comandos = {"FINALIZAR_PROCESO"}
    Grados = {2}
    GradoInicial = 2
    Argumentos = {}
    OperadorEspera = TRUE
    TopeSemaforo = 1
    DespachoOportuno = FALSE
    PuedeRechazar = TRUE
    Programa <- ProgramasCpu
    InstanciasIniciales <- SinInstancias
    TipoInterfaz <- SinTipos

INVARIANTS
    ColasCoherentes
    ExecUnico
    MemoriaAlDia
    TemporizadorDelTurno

PROPERTIES
    ExitDefinitivo

\* The system rests when every process has ended.
CHECK_DEADLOCK FALSE
