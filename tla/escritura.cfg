SPECIFICATION SpecHistoria

CONSTANTS
    A = A
    B = B
    C = C
    Nombres <- DosNombres
    BlockSize = 4
    BlockCount = 5
    Tamanios = {3, 12}
    MaxTamanio = 15
    Punteros = {1}
    LargoTexto = 4

PROPERTIES
    EscrituraDentro

CHECK_DEADLOCK FALSE
