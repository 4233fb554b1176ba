SPECIFICATION SpecPerifericos

CONSTANTS
    MaxPid = 2
    MaxPc = 4
    Algoritmo = "FIFO"
    Recursos = {}
    Interfaces = {"FS", "TECLADO", "PANTALLA"}
    Comandos = {"FINALIZAR_PROCESO"}
    Grados = {2}
    GradoInicial = 2
    Argumentos = {"FS", "TECLADO", "PANTALLA"}
    OperadorEspera = TRUE
    TopeSemaforo = 1
    DespachoOportuno = FALSE
    PuedeRechazar = FALSE
    MaxImprevistos = 1
    Desconectables = {"TECLADO"}
    Programa <- ProgramasImprevistos
    InstanciasIniciales <- SinInstancias
    TipoInterfaz <- Tipos

INVARIANTS
    TipoPerifericos
    ColasCoherentes
    MemoriaAlDia
    EsperaSuPedido

\* The system rests when every process has ended.
CHECK_DEADLOCK FALSE
