SPECIFICATION Spec
CONSTANTS
    MaxPid = 2
    CantidadMarcos = 3
    TamPagina = 4
    Configuraciones <- Todas
INVARIANTS
    TipoMemoria
    MarcoExclusivo
    PaginaMarcada
    SinFugas
    PaginasContiguas
    AccesoPropio
    TlbAlDia
    UnSoloPendiente
CHECK_DEADLOCK FALSE
