SPECIFICATION SpecPerifericosJusta

CONSTANTS
    MaxPid = 2
    MaxPc = 4
    Algoritmo = "RR"
    Recursos = {}
    Interfaces = {"FS", "TECLADO"}
    Comandos = {}
    Grados = {2}
    GradoInicial = 2
    Argumentos = {"FS", "TECLADO"}
    OperadorEspera = TRUE
    TopeSemaforo = 1
    DespachoOportuno = FALSE
    PuedeRechazar = FALSE
    MaxImprevistos = 0
    Desconectables = {}
    Programa <- ProgramasTurnos
    InstanciasIniciales <- SinInstancias
    TipoInterfaz <- Tipos

INVARIANTS
    ControlUnicoPeriferico
    PedidosAtendidos
    PedidoPropio

PROPERTIES
    Termina
    ListoEjecuta

\* The system rests when every process has ended.
CHECK_DEADLOCK FALSE
