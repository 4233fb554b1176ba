SPECIFICATION SpecHistoria

CONSTANTS
    A = A
    B = B
    C = C
    Nombres <- TresNombres
    BlockSize = 4
    BlockCount = 5
    Tamanios = {3, 12}
    MaxTamanio = 12
    Punteros = {1}
    LargoTexto = 4

SYMMETRY Simetria

INVARIANTS
    TipoDialFs
    SinSolapes
    BitmapExacto
    ReinicioFiel

PROPERTIES
    CumpleArchivos

\* A file system that is refused at the start stays so.
CHECK_DEADLOCK FALSE
