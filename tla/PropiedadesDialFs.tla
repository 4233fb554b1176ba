------------------------- MODULE PropiedadesDialFs --------------------------
(***************************************************************************)
(* What the file system promises.  Some of it holds whatever is asked of   *)
(* it; the rest holds while it is used as its code foresees, and the       *)
(* variable previsto remembers whether that has been so.                   *)
(***************************************************************************)
EXTENDS DialFs

VARIABLE previsto    \* history: no step so far was an Imprevisto

varsHistoria == <<vars, previsto>>

---------------------------------------------------------------------------
(* The uses the code does not cope with, each by itself *)

BloquesDe(bytes) == Max({1, bytes \div BlockSize})

\* The process stops between the two writes of one request.
CortaUnPedido ==
    /\ fase \in {"GUARDAR_CREADO", "MARCAR_CREADO", "QUITAR_BORRADO", "GUARDAR_TRUNCADO"}
    /\ fase' = "DETENIDO"

\* A CREATE cannot open its file, or read it back.
NoAbre == fase = "ATENDER" /\ fase' = "MARCAR_SIN_ARCHIVO"

\* A file of several blocks grows: its last block is counted from its first one.
\* Or bytes that made no block add up to one.  Or there is nowhere to grow to.
CreceMal ==
    /\ fase = "ATENDER"
    /\ fase' \in {"COMPACTAR", "MARCAR_TRUNCADO"}
    /\ LET m     == metadata[pedido.nombre]
           antes == BloquesDe(m.TAMANIO_ARCHIVO)
           n     == truncado'.cantidad
       IN  \/ antes > 1
           \/ BloquesDe(truncado'.tamanio) # antes + n
           \/ n > 0 /\ InicioDeLibres(m.BLOQUE_INICIAL + antes, n) = {}

\* The compaction moves a file that fills its block.
MueveUnLleno ==
    /\ fase = "COMPACTAR"
    /\ \E n \in DOMAIN metadata :
          /\ metadata[n] # metadata'[n]
          /\ metadata[n].TAMANIO_ARCHIVO >= BlockSize

Imprevisto == CortaUnPedido \/ NoAbre \/ CreceMal \/ MueveUnLleno

InitHistoria == Init /\ previsto = TRUE

NextHistoria == Next /\ previsto' = (previsto /\ ~Imprevisto)

SpecHistoria == InitHistoria /\ [][NextHistoria]_varsHistoria

---------------------------------------------------------------------------
(* Whatever is asked *)

\* The state has the shape the code's structures allow.
TipoDialFs ==
    /\ DOMAIN archivos \subseteq Nombres /\ DOMAIN metadata \subseteq Nombres
    /\ \A n \in DOMAIN archivos : archivos[n] \in Fcb
    /\ \A n \in DOMAIN metadata : metadata[n] \in Metadata
    /\ vacias \subseteq Nombres
    /\ bitmap \subseteq Bloques
    /\ fase \in Fases
    /\ pedido \in Pedidos \cup {NoPedido}
    /\ respuesta \in {"NINGUNA", "OK", "ERROR"}
    /\ previsto \in BOOLEAN

EnMarcha == fase \notin {"DETENIDO", "RECHAZADO"}

\* Every change of a size or of a first block, those of the files a compaction
\* moves included, is on disk when it is in memory: a restart finds the files
\* where they are (the config_save of each handler).
MetadataAlDia ==
    EnMarcha =>
        /\ DOMAIN archivos = DOMAIN metadata
        /\ \A n \in DOMAIN archivos :
              /\ metadata[n].TAMANIO_ARCHIVO = archivos[n].total_size
              /\ metadata[n].BLOQUE_INICIAL = archivos[n].inicio

---------------------------------------------------------------------------
(* While it is used as foreseen *)

BloquesDelArchivo(n) == archivos[n].inicio .. archivos[n].fin_bloque

\* No two files share a block, not even half way through a compaction
\* (metadata_inicializar exits when they do).
SinSolapes ==
    previsto => \A n, m \in DOMAIN archivos :
                    n # m => BloquesDelArchivo(n) \cap BloquesDelArchivo(m) = {}

\* Between two requests the bitmap marks the blocks of the files and no others:
\* none leaks, none is given twice, all of them are blocks of bloques.dat.
BitmapExacto ==
    previsto /\ fase \in {"ESPERA", "ATENDER"} =>
        bitmap = UNION {BloquesDelArchivo(n) : n \in DOMAIN archivos}

\* A restart would rebuild what is in memory, and is never refused: it finds no file
\* without keys, and no block in two files.
ReinicioFiel ==
    previsto => /\ fase \in {"ESPERA", "ATENDER"} => archivos = Cargados /\ vacias = {}
                /\ fase # "RECHAZADO"

---------------------------------------------------------------------------
(* The abstract store *)

\* The files are those whose keys are on disk; CREATE is the only request whose
\* effect comes before its last step.
TamaniosEnDisco == [n \in DOMAIN metadata |-> metadata[n].TAMANIO_ARCHIVO]

YaCreado == fase = "MARCAR_CREADO"

Promesa == INSTANCE Archivos WITH tamanios <- TamaniosEnDisco, hecho <- YaCreado

\* The one answer that is not kept: CREATE says OK of a file it could not open.
RespondeSinArchivo ==
    /\ fase = "MARCAR_SIN_ARCHIVO"
    /\ Promesa!Terminar("OK")
    /\ UNCHANGED TamaniosEnDisco

\* Every request takes effect once, whole or not at all, whatever the compaction
\* moves, and a stop at any step keeps the sizes of the files on disk; but for
\* RespondeSinArchivo, OK is said of what is on disk, and a refusal or a silence
\* leaves the files as they were.  Whether a later start accepts those files is
\* ReinicioFiel's question: it dies after a CREATE cut before its keys were saved.
CumpleArchivos == Promesa!Init /\ [][Promesa!Next \/ RespondeSinArchivo]_(Promesa!vars)

---------------------------------------------------------------------------
(* What a comment of the code promises, and the code does not do *)

Termina(op) == pedido.op = op /\ fase = "ATENDER" /\ fase' = "ESPERA"

\* "Comprobamos que al escribir no se pase del tamaño del archivo"
\* (kernel_dialfs.c:377): an accepted WRITE ends inside the file.
EscrituraDentro ==
    [][Termina("WRITE") /\ respuesta' = "OK"
          => pedido.dato + LargoTexto <= archivos[pedido.nombre].total_size]_vars
=============================================================================
