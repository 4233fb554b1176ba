SPECIFICATION Spec
CONSTANTS
    MaxPid = 2
    CantidadMarcos = 3
    TamPagina = 4
    Configuraciones <- SoloResize
INVARIANTS
    ResizeCumplido
CHECK_DEADLOCK FALSE
