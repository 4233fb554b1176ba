SPECIFICATION Spec

CONSTANTS
    MaxPid = 2
    MaxPc = 6
    Algoritmo = "VRR"
    Recursos = {"RA"}
    Interfaces = {"IO1"}
    Comandos = {}
    Grados = {2}
    GradoInicial = 2
    Argumentos = {"RA", "IO1"}
    OperadorEspera = TRUE
    TopeSemaforo = 1
    DespachoOportuno = TRUE
    PuedeRechazar = FALSE
    Programa <- ProgramasMixto
    InstanciasIniciales <- UnaInstancia
    TipoInterfaz <- Genericas

INVARIANTS
    BloqueadosCoherentes
    SinEsperaOciosa
    ConQuantum

\* The system rests when every process has ended.
CHECK_DEADLOCK FALSE
