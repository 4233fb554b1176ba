------------------------------- MODULE DialFs -------------------------------
(***************************************************************************)
(* The file system of a DIALFS interface.  A file is a run of contiguous   *)
(* blocks: a block control record in memory (t_fcb), a metadata file on    *)
(* disk and the bits of its blocks in a bitmap that is mapped to disk.     *)
(* One thread attends the kernel's requests, one at a time; the process    *)
(* may stop at any moment and start again from what is on disk.            *)
(* The bytes of bloques.dat are left out: where a file's blocks are, and   *)
(* which requests are accepted, does not depend on them.                   *)
(***************************************************************************)
EXTENDS Integers, FiniteSets, FiniteSetsExt, Functions

CONSTANTS
    Nombres,      \* names of files
    BlockSize,    \* BLOCK_SIZE, in bytes
    BlockCount,   \* BLOCK_COUNT
    Tamanios,     \* bytes a TRUNCATE may add
    MaxTamanio,   \* bound: bytes of a file
    Punteros,     \* offsets a WRITE may name
    LargoTexto    \* strlen(write->escribir) + 1

ASSUME DialFsAssumption ==
    /\ BlockSize \in Nat \ {0}
    /\ BlockCount \in Nat \ {0}
    /\ Tamanios \subseteq Nat
    /\ MaxTamanio \in Nat
    /\ Punteros \subseteq Nat
    /\ LargoTexto \in Nat \ {0}

Bloques == 0 .. BlockCount - 1

VARIABLES
    archivos,    \* dictionary in memory: the fcb of each file
    metadata,    \* on disk: what the metadata file of each file says
    vacias,      \* on disk: the metadata files that were created and have no keys
    bitmap,      \* on disk: the blocks whose bit is 1
    fase,        \* what the thread is about to do
    pedido,      \* the request it attends
    truncado,    \* locals of the TRUNCATE it attends
    respuesta    \* resultado of the answer to the last request, or "NINGUNA"

vars == <<archivos, metadata, vacias, bitmap, fase, pedido, truncado, respuesta>>

Fases == {"DETENIDO", "RECHAZADO", "ESPERA", "ATENDER", "GUARDAR_CREADO", "MARCAR_CREADO",
          "MARCAR_SIN_ARCHIVO", "QUITAR_BORRADO", "COMPACTAR", "MARCAR_TRUNCADO",
          "GUARDAR_TRUNCADO"}

Fcb == [total_size : Nat, inicio : Nat, fin_bloque : Nat]

Metadata == [TAMANIO_ARCHIVO : Nat, BLOQUE_INICIAL : Nat]

\* dato: tamanio_a_truncar of a TRUNCATE, puntero_archivo of a WRITE.
Pedidos ==
    [op : {"CREATE", "DELETE", "READ"}, nombre : Nombres, dato : {0}]
        \cup [op : {"TRUNCATE"}, nombre : Nombres, dato : Tamanios]
        \cup [op : {"WRITE"}, nombre : Nombres, dato : Punteros]

NoPedido == [op |-> "NADA", nombre |-> "NADA", dato |-> 0]

NoTruncado == [cantidad |-> 0, fin |-> 0, tamanio |-> 0, i |-> 0]

Vacio == [n \in {} |-> NoPedido]

Existe(nombre) == nombre \in DOMAIN archivos

Sin(f, nombre) == Restrict(f, DOMAIN f \ {nombre})

Con(f, nombre, valor) == [x \in DOMAIN f \cup {nombre} |-> IF x = nombre THEN valor ELSE f[x]]

---------------------------------------------------------------------------
(* Bitmap *)

Libres == Bloques \ bitmap

\* First of n contiguous free blocks, from a block on; none for n = 0, which the
\* counter of the code never equals.
InicioDeLibres(referencia, n) ==
    {b \in referencia .. BlockCount - n : n > 0 /\ b .. b + n - 1 \subseteq Libres}

NoHay == -1

fs_buscar_primera_ocurrencia_libre(referencia, n) ==
    IF InicioDeLibres(referencia, n) = {} THEN NoHay ELSE Min(InicioDeLibres(referencia, n))

fs_buscar_bloque_libre == IF Libres = {} THEN NoHay ELSE Min(Libres)

fs_bloques_ocupados == Cardinality(bitmap)

---------------------------------------------------------------------------
(* Start and stop *)

\* Mutant: the last block is one too far.
CargarSinRestar(m) ==
    [total_size |-> m.TAMANIO_ARCHIVO, inicio |-> m.BLOQUE_INICIAL,
     fin_bloque |-> m.BLOQUE_INICIAL + m.TAMANIO_ARCHIVO \div BlockSize]

\* The fcb that a metadata file stands for.
Cargar(m) ==
    LET fin == m.BLOQUE_INICIAL + m.TAMANIO_ARCHIVO \div BlockSize
    IN  [total_size |-> m.TAMANIO_ARCHIVO, inicio |-> m.BLOQUE_INICIAL,
         fin_bloque |-> IF fin # m.BLOQUE_INICIAL THEN fin - 1 ELSE fin]

EntreBloques(f, g) == ~(f.fin_bloque < g.inicio \/ f.inicio > g.fin_bloque)

Cargados == [n \in DOMAIN metadata |-> Cargar(metadata[n])]

HayEntreBloques ==
    \E n, m \in DOMAIN metadata : n # m /\ EntreBloques(Cargados[n], Cargados[m])

\* metadata_inicializar reads every metadata file.  It dies on one without keys, and
\* exits when two files share a block.
Arrancar ==
    /\ fase = "DETENIDO"
    /\ IF vacias # {} \/ HayEntreBloques
       THEN /\ fase' = "RECHAZADO"
            /\ UNCHANGED archivos
       ELSE /\ fase' = "ESPERA"
            /\ archivos' = Cargados
    /\ UNCHANGED <<metadata, vacias, bitmap, pedido, truncado, respuesta>>

\* The memory is lost and the request with it; the kernel learns that from the
\* closed socket.
Caer ==
    /\ fase' = "DETENIDO"
    /\ archivos' = Vacio
    /\ pedido' = NoPedido
    /\ truncado' = NoTruncado
    /\ respuesta' = "NINGUNA"
    /\ UNCHANGED <<metadata, vacias, bitmap>>

\* FINALIZAR_SISTEMA, or a signal, at any step of a request.
Detener == fase \notin {"DETENIDO", "RECHAZADO"} /\ Caer

---------------------------------------------------------------------------
(* Requests *)

\* The kernel sends a request; TRUNCATEs beyond the bound are left out.
Pedir ==
    /\ fase = "ESPERA"
    /\ \E p \in Pedidos :
          /\ p.op = "TRUNCATE" /\ Existe(p.nombre)
                => archivos[p.nombre].total_size + p.dato <= MaxTamanio
          /\ pedido' = p
    /\ fase' = "ATENDER"
    /\ respuesta' = "NINGUNA"
    /\ UNCHANGED <<archivos, metadata, vacias, bitmap, truncado>>

Atiende(op) == fase = "ATENDER" /\ pedido.op = op

Responder(resultado) ==
    /\ fase' = "ESPERA"
    /\ pedido' = NoPedido
    /\ respuesta' = resultado

\* The handler breaks out before the answer.
Callar ==
    /\ fase' = "ESPERA"
    /\ pedido' = NoPedido
    /\ UNCHANGED respuesta

\* fs_archivo_crear first creates the metadata file, with no keys.  It returns early
\* when it cannot open the file, or cannot read it back once it is there, and its
\* caller does not know.
CrearVacia ==
    \/ fase' = "GUARDAR_CREADO" /\ vacias' = vacias \cup {pedido.nombre}
    \/ fase' = "MARCAR_SIN_ARCHIVO" /\ vacias' \in {vacias, vacias \cup {pedido.nombre}}

\* Mutant: a full disk is not noticed.
CrearSinLugar ==
    /\ Atiende("CREATE")
    /\ IF Existe(pedido.nombre)
       THEN Responder("ERROR") /\ UNCHANGED vacias
       ELSE CrearVacia /\ UNCHANGED <<pedido, respuesta>>
    /\ UNCHANGED <<archivos, metadata, bitmap, truncado>>

Crear ==
    /\ Atiende("CREATE")
    /\ IF fs_buscar_bloque_libre = NoHay \/ Existe(pedido.nombre)
       THEN Responder("ERROR") /\ UNCHANGED vacias
       ELSE CrearVacia /\ UNCHANGED <<pedido, respuesta>>
    /\ UNCHANGED <<archivos, metadata, bitmap, truncado>>

\* posicion, which Crear looked for: the bitmap has not changed since.
Posicion == fs_buscar_bloque_libre

\* The keys are saved, and the file and its metadata come before the bit of its block.
GuardarCreado ==
    /\ fase = "GUARDAR_CREADO"
    /\ archivos' = Con(archivos, pedido.nombre,
           [total_size |-> 0, inicio |-> Posicion, fin_bloque |-> Posicion])
    /\ metadata' = Con(metadata, pedido.nombre,
           [TAMANIO_ARCHIVO |-> 0, BLOQUE_INICIAL |-> Posicion])
    /\ vacias' = vacias \ {pedido.nombre}
    /\ fase' = "MARCAR_CREADO"
    /\ UNCHANGED <<bitmap, pedido, truncado, respuesta>>

\* Whether there is a file or not.
MarcarCreado ==
    /\ fase \in {"MARCAR_CREADO", "MARCAR_SIN_ARCHIVO"}
    /\ bitmap' = bitmap \cup {Posicion}
    /\ Responder("OK")
    /\ UNCHANGED <<archivos, metadata, vacias, truncado>>

\* The bits come before the file.  A missing file is not answered.
Borrar ==
    /\ Atiende("DELETE")
    /\ IF Existe(pedido.nombre)
       THEN LET archivo == archivos[pedido.nombre]
            IN  /\ bitmap' = bitmap \ (archivo.inicio .. archivo.fin_bloque)
                /\ fase' = "QUITAR_BORRADO"
                /\ UNCHANGED <<pedido, respuesta>>
       ELSE Callar /\ UNCHANGED bitmap
    /\ UNCHANGED <<archivos, metadata, vacias, truncado>>

\* Mutant: the metadata file stays on disk.
QuitarDeMemoria ==
    /\ fase = "QUITAR_BORRADO"
    /\ archivos' = Sin(archivos, pedido.nombre)
    /\ Responder("OK")
    /\ UNCHANGED <<metadata, vacias, bitmap, truncado>>

QuitarBorrado ==
    /\ fase = "QUITAR_BORRADO"
    /\ archivos' = Sin(archivos, pedido.nombre)
    /\ metadata' = Sin(metadata, pedido.nombre)
    /\ Responder("OK")
    /\ UNCHANGED <<vacias, bitmap, truncado>>

\* The guard adds an offset in bytes to a number of blocks, and compares it with
\* the number of the last block.
Cabe(archivo, puntero) == puntero + LargoTexto \div BlockSize <= archivo.fin_bloque

\* A WRITE to a missing file, or refused, is not answered.
Escribir ==
    /\ Atiende("WRITE")
    /\ IF Existe(pedido.nombre) /\ Cabe(archivos[pedido.nombre], pedido.dato)
       THEN Responder("OK")
       ELSE Callar
    /\ UNCHANGED <<archivos, metadata, vacias, bitmap, truncado>>

Leer ==
    /\ Atiende("READ")
    /\ IF Existe(pedido.nombre) THEN Responder("OK") ELSE Callar
    /\ UNCHANGED <<archivos, metadata, vacias, bitmap, truncado>>

---------------------------------------------------------------------------
(* TRUNCATE, which only makes files grow *)

\* Both copies of a file's size.
GuardarTamanio(nombre, tamanio, fin) ==
    /\ archivos' = [archivos EXCEPT ![nombre].total_size = tamanio,
                                    ![nombre].fin_bloque = fin]
    /\ metadata' = [metadata EXCEPT ![nombre].TAMANIO_ARCHIVO = tamanio]

\* Blocks a TRUNCATE adds: the first block of an empty file is its own already.
BloquesATruncar(archivo, bytes) ==
    (IF archivo.total_size = 0 THEN bytes - BlockSize ELSE bytes) \div BlockSize

\* Mutant: > for >=.
CompactarTarde(nombre, n) ==
    LET archivo    == archivos[nombre]
        siguientes == {m \in DOMAIN archivos : archivos[m].inicio > archivo.inicio}
    IN  {siguientes # {} /\ archivo.fin_bloque + n > Min({archivos[m].inicio : m \in siguientes})}

\* What fs_tiene_compactar may say: is there a file in the next n blocks?  Of the
\* files with one first block, fs_obtener_archivos_ordenados keeps one, repeated.
fs_tiene_compactar(nombre, n) ==
    LET archivo    == archivos[nombre]
        iguales    == {m \in DOMAIN archivos : archivos[m].inicio = archivo.inicio}
        siguientes == {m \in DOMAIN archivos : archivos[m].inicio > archivo.inicio}
    IN  IF iguales # {nombre} THEN BOOLEAN
        ELSE {siguientes # {} /\ archivo.fin_bloque + n >= Min({archivos[m].inicio : m \in siguientes})}

Truncar ==
    /\ Atiende("TRUNCATE")
    /\ IF ~Existe(pedido.nombre)
       THEN Responder("ERROR") /\ UNCHANGED <<archivos, metadata, truncado>>
       ELSE LET archivo  == archivos[pedido.nombre]
                tamanio  == archivo.total_size + pedido.dato
                cantidad == BloquesATruncar(archivo, pedido.dato)
            IN  IF archivo.total_size = 0 /\ tamanio < BlockSize
                THEN /\ GuardarTamanio(pedido.nombre, tamanio, archivo.fin_bloque)
                     /\ Responder("OK")
                     /\ UNCHANGED truncado
                ELSE IF cantidad + fs_bloques_ocupados > BlockCount
                THEN Responder("ERROR") /\ UNCHANGED <<archivos, metadata, truncado>>
                ELSE /\ truncado' = [cantidad |-> cantidad, fin |-> archivo.inicio + cantidad,
                                     tamanio |-> tamanio, i |-> Cardinality(DOMAIN archivos)]
                     /\ \E compactar \in fs_tiene_compactar(pedido.nombre, cantidad) :
                           fase' = IF compactar THEN "COMPACTAR" ELSE "MARCAR_TRUNCADO"
                     /\ UNCHANGED <<archivos, metadata, pedido, respuesta>>
    /\ UNCHANGED <<vacias, bitmap>>

\* Mutant: the old block stays marked.
DesplazarSinLimpiar(nombre, n) ==
    LET inicio == archivos[nombre].inicio + n
    IN  /\ bitmap' = bitmap \cup (inicio .. archivos[nombre].fin_bloque + n)
        /\ archivos' = [archivos EXCEPT
               ![nombre].inicio = inicio,
               ![nombre].fin_bloque = inicio + archivos[nombre].total_size \div BlockSize]
        /\ metadata' = [metadata EXCEPT ![nombre].BLOQUE_INICIAL = inicio]

\* One file goes n blocks to the right: bits, fcb and metadata.
fs_desplazar_archivo_hacia_derecha(nombre, n) ==
    LET archivo == archivos[nombre]
        inicio  == archivo.inicio + n
        suelta  == IF archivo.inicio = archivo.fin_bloque
                   THEN {archivo.inicio} ELSE archivo.inicio .. inicio - 1
    IN  /\ bitmap' = (bitmap \ suelta) \cup (inicio .. archivo.fin_bloque + n)
        /\ archivos' = [archivos EXCEPT
               ![nombre].inicio = inicio,
               ![nombre].fin_bloque = inicio + archivo.total_size \div BlockSize]
        /\ metadata' = [metadata EXCEPT ![nombre].BLOQUE_INICIAL = inicio]

TerminarCompactacion ==
    /\ fase' = "MARCAR_TRUNCADO"
    /\ UNCHANGED <<archivos, metadata, vacias, bitmap, pedido, truncado, respuesta>>

\* One turn of the loop of fs_compactar.  When no file ends where the free blocks
\* begin, the code compares a name with NULL and the process dies.
Compactar ==
    /\ fase = "COMPACTAR"
    /\ LET libre    == fs_buscar_primera_ocurrencia_libre(
                           archivos[pedido.nombre].fin_bloque, truncado.cantidad)
           proximos == {m \in DOMAIN archivos : archivos[m].fin_bloque = libre - 1}
       IN  IF truncado.i = 0 \/ libre = NoHay THEN TerminarCompactacion
           ELSE IF proximos = {} THEN Caer
           ELSE \E archivo_mas_proximo \in proximos :
                   IF archivo_mas_proximo = pedido.nombre THEN TerminarCompactacion
                   ELSE /\ fs_desplazar_archivo_hacia_derecha(archivo_mas_proximo, truncado.cantidad)
                        /\ truncado' = [truncado EXCEPT !.i = @ - 1]
                        /\ UNCHANGED <<vacias, fase, pedido, respuesta>>

\* Bits beyond the last block fall outside the bitmap and nobody reads them.
BloquesNuevos ==
    LET fin == archivos[pedido.nombre].fin_bloque
    IN  fin + 1 .. fin + truncado.cantidad

MarcarTruncado ==
    /\ fase = "MARCAR_TRUNCADO"
    /\ bitmap' = bitmap \cup (BloquesNuevos \cap Bloques)
    /\ fase' = "GUARDAR_TRUNCADO"
    /\ UNCHANGED <<archivos, metadata, vacias, pedido, truncado, respuesta>>

GuardarTruncado ==
    /\ fase = "GUARDAR_TRUNCADO"
    /\ GuardarTamanio(pedido.nombre, truncado.tamanio, truncado.fin)
    /\ truncado' = NoTruncado
    /\ Responder("OK")
    /\ UNCHANGED <<vacias, bitmap>>

---------------------------------------------------------------------------

Init ==
    /\ archivos = Vacio
    /\ metadata = Vacio
    /\ vacias = {}
    /\ bitmap = {}
    /\ fase = "DETENIDO"
    /\ pedido = NoPedido
    /\ truncado = NoTruncado
    /\ respuesta = "NINGUNA"

Next ==
    \/ Arrancar
    \/ Detener
    \/ Pedir
    \/ Crear
    \/ GuardarCreado
    \/ MarcarCreado
    \/ Borrar
    \/ QuitarBorrado
    \/ Escribir
    \/ Leer
    \/ Truncar
    \/ Compactar
    \/ MarcarTruncado
    \/ GuardarTruncado

Spec == Init /\ [][Next]_vars
=============================================================================
