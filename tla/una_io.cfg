SPECIFICATION Spec

CONSTANTS
    MaxPid = 3
    MaxPc = 4
    Algoritmo = "FIFO"
    Recursos = {}
    Interfaces = {"IO1"}
    Comandos = {}
    Grados = {3}
    GradoInicial = 3
    Argumentos = {"IO1"}
    OperadorEspera = TRUE
    TopeSemaforo = 1
    DespachoOportuno = FALSE
    PuedeRechazar = FALSE
    Programa <- ProgramasIo
    InstanciasIniciales <- SinInstancias
    TipoInterfaz <- Genericas

INVARIANTS
    UnaIoPorVez

\* The system rests when every process has ended.
CHECK_DEADLOCK FALSE
