SPECIFICATION Spec

CONSTANTS
    MaxPid = 2
    MaxPc = 5
    Algoritmo = "FIFO"
    Recursos = {"RA", "RB"}
    Interfaces = {"IO1"}
    Comandos = {"FINALIZAR_PROCESO", "MULTIPROGRAMACION"}
    Grados = {1, 2}
    GradoInicial = 2
    Argumentos = {"RA", "RB", "IO1"}
    OperadorEspera = TRUE
    TopeSemaforo = 1
    DespachoOportuno = FALSE
    PuedeRechazar = TRUE
    Programa <- ProgramasEsperas
    InstanciasIniciales <- UnaInstancia
    TipoInterfaz <- Genericas

INVARIANTS
    PeticionAtendida
    SinDespertarPerdido

PROPERTIES
    MatarSepara
    GradoRespetado

\* The system rests when every process has ended.
CHECK_DEADLOCK FALSE
