SPECIFICATION Spec

CONSTANTS
    MaxPid = 3
    MaxPc = 6
    Algoritmo = "FIFO"
    Recursos = {"RA"}
    Interfaces = {}
    Comandos = {}
    Grados = {3}
    GradoInicial = 3
    Argumentos = {"RA"}
    OperadorEspera = TRUE
    TopeSemaforo = 1
    DespachoOportuno = FALSE
    PuedeRechazar = FALSE
    Programa <- ProgramasRecurso
    InstanciasIniciales <- UnaInstancia
    TipoInterfaz <- SinTipos

INVARIANTS
    TomadasDisponibles

\* The system rests when every process has ended.
CHECK_DEADLOCK FALSE
