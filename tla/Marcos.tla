------------------------------- MODULE Marcos -------------------------------
(***************************************************************************)
(* Memoria's frames: the page table of every process, the bitmap of the    *)
(* user space and the bytes in use of every frame, with the two threads    *)
(* that change them and share no lock for it.  The thread of the kernel    *)
(* creates and releases the tables; the thread of the CPU translates,      *)
(* resizes, reads and writes.                                              *)
(***************************************************************************)
EXTENDS Integers, Sequences, FiniteSets, FiniteSetsExt

CONSTANTS
    MaxPid,            \* bound: processes the kernel creates
    CantidadMarcos,    \* TAM_MEMORIA / TAM_PAGINA, also the size of a page table
    TamPagina,         \* TAM_PAGINA, in bytes
    Configuraciones    \* what memoria and the CPU may read at start, and the
                       \* programs that run: see ConfiguracionesAssumption

Pids == 1 .. MaxPid

\* Page numbers and frame numbers have the same range.
Paginas == 0 .. CantidadMarcos - 1
NumerosMarco == 0 .. CantidadMarcos - 1

TamMemoria == CantidadMarcos * TamPagina

\* A page with validez == 0, and the -1 of the functions that find no frame.
Invalida == -1

\* A MOV moves at most 4 bytes, and the code spreads them over two pages.
ASSUME PaginacionAssumption ==
    /\ MaxPid \in Nat \ {0}
    /\ CantidadMarcos \in Nat \ {0}
    /\ TamPagina \in Nat /\ TamPagina >= 4

\* entradas and algoritmo: the CPU's TLB.  holgado: memoria attends every end in
\* time (FinalizacionesAlDia) and the operator kills nobody.  tamanios, direcciones, anchos,
\* copias and lecturas: the arguments of the RESIZE, MOV (address and size of the
\* register), COPY_STRING and IO_STDIN_READ (size) of the programs.
ASSUME ConfiguracionesAssumption ==
    \A c \in Configuraciones :
        /\ c.entradas \in Nat
        /\ c.algoritmo \in {"FIFO", "LRU"}
        /\ c.holgado \in BOOLEAN
        /\ c.tamanios \subseteq 0 .. TamMemoria + TamPagina
        /\ c.direcciones \subseteq Nat
        /\ c.anchos \subseteq {1, 4}
        /\ c.copias \subseteq Nat \ {0}
        /\ c.lecturas \subseteq Nat

VARIABLES
    config,          \* the configuration of this run
    procesos,        \* keys of diccionario_procesos
    cantidad,        \* list_size(lista_procesos), which never shrinks
    tabla,           \* page table of each process: the frame, or Invalida
    bitmap_array,    \* 1: the frame is in use
    bytes_usados,    \* bytes in use of each frame
    liberando,       \* kernel thread: the table it is releasing, and its page
    bucle,           \* CPU thread: the loop over the pages of a RESIZE or an
                     \* IO_STDIN_READ
    a_memoria,       \* kernel -> memoria: processes to create and to end
    peticion,        \* CPU -> memoria, at most one
    respuesta        \* memoria -> CPU, at most one

varsMarcos == <<config, procesos, cantidad, tabla, bitmap_array, bytes_usados,
                liberando, bucle, a_memoria, peticion, respuesta>>

NoPeticion == [tipo |-> "NADA", pid |-> 0, pagina |-> 0, fisica |-> 0,
               origen |-> 0, bytes |-> 0]

\* LIBERADA: memoria freed the request and goes on with it (LecturaSinMarco).
Peticion == [tipo   : {"NADA", "NUMERO_FRAME", "MOV_IN", "MOV_OUT", "RESIZE", "COPY_STRING_2",
                       "IO_STDIN_READ", "LIBERADA"},
             pid    : Pids \cup {0}, pagina : Nat, fisica : Int, origen : Int, bytes : Nat]

NoRespuesta == [tipo |-> "NADA", pid |-> 0, pagina |-> 0, marco |-> Invalida,
                bytes |-> 0, resultado |-> FALSE]

Respuesta == [tipo : {"NADA", "NUMERO_FRAME", "MOV_IN", "MOV_OUT", "RESIZE", "COPY_STRING_2",
                      "IO_STDIN_READ"},
              pid  : Pids \cup {0}, pagina : Nat, marco : NumerosMarco \cup {Invalida},
              bytes : Nat, resultado : BOOLEAN]

NadaQueLiberar == [pid |-> 0, pagina |-> Invalida]

SinBucle == [pid |-> 0, i |-> 0, hasta |-> 0, bytes |-> 0]

InitMarcos ==
    /\ config \in Configuraciones
    /\ procesos = {}
    /\ cantidad = 0
    /\ tabla = [p \in Pids |-> [n \in Paginas |-> Invalida]]
    /\ bitmap_array = [m \in NumerosMarco |-> 0]
    /\ bytes_usados = [m \in NumerosMarco |-> 0]
    /\ liberando = NadaQueLiberar
    /\ bucle = SinBucle
    /\ a_memoria = << >>
    /\ peticion = NoPeticion
    /\ respuesta = NoRespuesta

-----------------------------------------------------------------------------
(* Page tables                                                             *)

Validas(p) == {n \in Paginas : tabla[p][n] # Invalida}

\* tabla_paginas_frames_ocupados and tabla_paginas_bytes_ocupados
FramesOcupados(p) == Cardinality(Validas(p))
BytesOcupados(p) == TamPagina * FramesOcupados(p)

\* tabla_paginas_acceder_pagina; list_get of a page past the end is NULL.
AccederPagina(p, n) == IF n \in Validas(p) THEN tabla[p][n] ELSE Invalida

\* (bytes + tamPagina - 1) / tamPagina
Techo(bytes) == (bytes + TamPagina - 1) \div TamPagina

\* espacio_usuario_bytes_disponibles: buscar_proceso of the numbers from 0 to
\* the size of the list less one.  Pids start at 1.
BytesDisponibles ==
    LET contados == {p \in procesos : p < cantidad}
        ocupadas == {x \in contados \X Paginas : tabla[x[1]][x[2]] # Invalida}
    IN  TamMemoria - TamPagina * Cardinality(ocupadas)

\* espacio_usuario_proximo_frame for a whole page.  The free space is an
\* unsigned subtraction: it wraps, and is enough, when bytes_usados exceeds the
\* page.
EntraUnaPagina(m) == bytes_usados[m] \notin 1 .. TamPagina

\* Mutant: only the bytes are looked at.
FramesSinDatos == {m \in NumerosMarco : EntraUnaPagina(m)}

FramesLibres == {m \in NumerosMarco : bitmap_array[m] = 0 /\ EntraUnaPagina(m)}
ProximosFrames == {m \in FramesLibres : \A otro \in FramesLibres : m <= otro}

\* Mutant: the frame is taken, but not marked.
AsignarSinMarcar(p, n, m) ==
    /\ tabla' = [tabla EXCEPT ![p][n] = m]
    /\ UNCHANGED <<bitmap_array, bytes_usados>>

\* tabla_paginas_asignar_pagina of a page of the table and a frame: whatever the
\* page had is forgotten, and its frame stays marked.
AsignarPagina(p, n, m) ==
    /\ tabla' = [tabla EXCEPT ![p][n] = m]
    /\ bitmap_array' = [bitmap_array EXCEPT ![m] = 1]
    /\ UNCHANGED bytes_usados

\* Mutant: the page is left without its frame, which stays marked.
LiberarSinBitmap(p, n) ==
    /\ bytes_usados' = [bytes_usados EXCEPT ![tabla[p][n]] = 0]
    /\ tabla' = [tabla EXCEPT ![p][n] = Invalida]
    /\ UNCHANGED bitmap_array

\* tabla_paginas_liberar_pagina: it resets bytes_usados, and then
\* espacio_usuario_liberar_dato subtracts the page and clears the bitmap.
LiberarPagina(p, n) ==
    /\ bytes_usados' = [bytes_usados EXCEPT ![tabla[p][n]] = 0 - TamPagina]
    /\ bitmap_array' = [bitmap_array EXCEPT ![tabla[p][n]] = 0]
    /\ tabla' = [tabla EXCEPT ![p][n] = Invalida]

-----------------------------------------------------------------------------
(* User space                                                              *)

\* The physical addresses of the four bytes from a physical address: what does
\* not fit in the frame goes on at the start of the next page's, and a page
\* without a frame gives a negative address.
CuatroBytes(p, pagina, fisica) ==
    LET caben   == Min({4, TamPagina - (fisica % TamPagina)})
        proxima == AccederPagina(p, pagina + 1) * TamPagina
    IN  [i \in 0 .. 3 |-> IF i < caben THEN fisica + i ELSE proxima + i - caben]

\* Where a MOV_OUT writes.
DireccionesMovOut(r) ==
    LET bytes == CuatroBytes(r.pid, r.pagina, r.fisica)
    IN  IF r.bytes = 1 THEN {r.fisica} ELSE {bytes[i] : i \in 0 .. 3}

\* COPY_STRING reads and writes one run of physical addresses, in however many
\* frames it falls.
DireccionesCopia(r) == (r.origen .. r.origen + r.bytes - 1)
                       \cup (r.fisica .. r.fisica + r.bytes - 1)

EnMemoria(direcciones) == direcciones \cap (0 .. TamMemoria - 1)

MarcoDe(direccion) == direccion \div TamPagina

\* espacio_usuario_escribir_dato: whoever owns the frames, they become marked
\* as in use.  Past a whole page, bytes_usados is kept as "more than a page".
Escribir(direcciones) ==
    LET enMarco(m) == {d \in EnMemoria(direcciones) : MarcoDe(d) = m}
        Tope(n)    == IF n > TamPagina THEN TamPagina + 1 ELSE n
    IN  /\ bitmap_array' = [m \in NumerosMarco |->
                               IF enMarco(m) = {} THEN bitmap_array[m] ELSE 1]
        /\ bytes_usados' = [m \in NumerosMarco |->
                               Tope(bytes_usados[m] + Cardinality(enMarco(m)))]

-----------------------------------------------------------------------------
(* The kernel's thread: switch_case_kernel                                 *)

Cabeza == Head(a_memoria)

HiloKernelLibre == liberando.pid = 0 /\ a_memoria # << >>

\* KERNEL_MEMORIA_NUEVO_PROCESO of a script that can be read
MemoriaNuevoProceso ==
    /\ HiloKernelLibre
    /\ Cabeza.tipo = "NUEVO_PROCESO"
    /\ procesos' = procesos \cup {Cabeza.pid}
    /\ cantidad' = cantidad + 1
    /\ tabla' = [tabla EXCEPT ![Cabeza.pid] = [n \in Paginas |-> Invalida]]
    /\ a_memoria' = Tail(a_memoria)
    /\ UNCHANGED <<config, bitmap_array, bytes_usados, liberando, bucle, peticion, respuesta>>

\* KERNEL_MEMORIA_FINALIZAR_PROCESO, up to tabla_paginas_liberar
MemoriaFinalizar ==
    /\ HiloKernelLibre
    /\ Cabeza.tipo = "FINALIZAR_PROCESO"
    /\ liberando' = IF Cabeza.pid \in procesos
                    THEN [pid |-> Cabeza.pid, pagina |-> Invalida] ELSE NadaQueLiberar
    /\ a_memoria' = Tail(a_memoria)
    /\ UNCHANGED <<config, procesos, cantidad, tabla, bitmap_array, bytes_usados,
                   bucle, peticion, respuesta>>

\* The loop of tabla_paginas_liberar clears the bitmap of a page's frame ...
LiberarMarco ==
    /\ liberando.pid # 0
    /\ liberando.pagina = Invalida
    /\ \E n \in Validas(liberando.pid) :
          /\ \A otra \in Validas(liberando.pid) : n <= otra
          /\ bitmap_array' = [bitmap_array EXCEPT ![tabla[liberando.pid][n]] = 0]
          /\ liberando' = [liberando EXCEPT !.pagina = n]
    /\ UNCHANGED <<config, procesos, cantidad, tabla, bytes_usados, bucle,
                   a_memoria, peticion, respuesta>>

\* ... and then calls tabla_paginas_liberar_pagina, which clears it again.
LiberarPaginaDeTabla ==
    /\ liberando.pagina # Invalida
    /\ LiberarPagina(liberando.pid, liberando.pagina)
    /\ liberando' = [liberando EXCEPT !.pagina = Invalida]
    /\ UNCHANGED <<config, procesos, cantidad, bucle, a_memoria, peticion, respuesta>>

\* After the loop the table is destroyed and the pid leaves the dictionary.
MemoriaFinalizado ==
    /\ liberando.pid # 0
    /\ liberando.pagina = Invalida
    /\ Validas(liberando.pid) = {}
    /\ procesos' = procesos \ {liberando.pid}
    /\ liberando' = NadaQueLiberar
    /\ UNCHANGED <<config, cantidad, tabla, bitmap_array, bytes_usados, bucle,
                   a_memoria, peticion, respuesta>>

-----------------------------------------------------------------------------
(* The CPU's thread: switch_case_cpu                                       *)

\* Assumption on the environment, when config.holgado: a process that ended was
\* released before the next one's first use of memoria arrives.  A RETARDO_RESPUESTA
\* of a second or more gives it when the operator does not pile up creations in
\* front of that end: the request comes after the fetch of its instruction, and both
\* wait as long as the release does (memoria_hilo_ejecutar).
FinalizacionesAlDia ==
    config.holgado =>
        /\ liberando.pid = 0
        /\ \A j \in DOMAIN a_memoria : a_memoria[j].tipo # "FINALIZAR_PROCESO"

Atiende(tipo) ==
    /\ peticion.tipo = tipo
    /\ bucle.pid = 0
    /\ FinalizacionesAlDia

Responder(tipo, marco, bytes, resultado) ==
    /\ respuesta' = [tipo |-> tipo, pid |-> peticion.pid, pagina |-> peticion.pagina,
                     marco |-> marco, bytes |-> bytes, resultado |-> resultado]
    /\ peticion' = NoPeticion

\* CPU_MEMORIA_NUMERO_FRAME
MemoriaNumeroFrame ==
    /\ Atiende("NUMERO_FRAME")
    /\ LET marco == AccederPagina(peticion.pid, peticion.pagina)
       IN  Responder("NUMERO_FRAME", marco, 0, marco # Invalida)
    /\ UNCHANGED <<config, procesos, cantidad, tabla, bitmap_array, bytes_usados,
                   liberando, bucle, a_memoria>>

\* CPU_MEMORIA_MOV_OUT: the result is 1 whatever was written.
MemoriaMovOut ==
    /\ Atiende("MOV_OUT")
    /\ Escribir(DireccionesMovOut(peticion))
    /\ Responder("MOV_OUT", Invalida, peticion.bytes, TRUE)
    /\ UNCHANGED <<config, procesos, cantidad, tabla, liberando, bucle, a_memoria>>

\* CPU_MEMORIA_MOV_IN: reads, and answers 1 whatever was read.
MemoriaMovIn ==
    /\ Atiende("MOV_IN")
    /\ Responder("MOV_IN", Invalida, peticion.bytes, TRUE)
    /\ UNCHANGED <<config, procesos, cantidad, tabla, bitmap_array, bytes_usados,
                   liberando, bucle, a_memoria>>

\* CPU_MEMORIA_COPY_STRING_2: what is read may be shorter than what was asked,
\* up to its first zero byte; it fails past the end of memoria.
MemoriaCopyString ==
    /\ Atiende("COPY_STRING_2")
    /\ \E largo \in 1 .. peticion.bytes :
          LET lee     == peticion.origen + peticion.bytes <= TamMemoria
              escribe == peticion.fisica + largo <= TamMemoria
          IN  /\ IF lee /\ escribe
                 THEN Escribir(peticion.fisica .. peticion.fisica + largo - 1)
                 ELSE UNCHANGED <<bitmap_array, bytes_usados>>
              /\ Responder("COPY_STRING_2", Invalida, peticion.bytes, lee /\ escribe)
    /\ UNCHANGED <<config, procesos, cantidad, tabla, liberando, bucle, a_memoria>>

\* CPU_MEMORIA_RESIZE: "Out of Memory" when a process that grows asks in all for
\* more than what is available ...
SinMemoria(p, bytes) == bytes > BytesOcupados(p) /\ bytes > BytesDisponibles

MemoriaResizeRechaza ==
    /\ Atiende("RESIZE")
    /\ SinMemoria(peticion.pid, peticion.bytes)
    /\ Responder("RESIZE", Invalida, peticion.bytes, FALSE)
    /\ UNCHANGED <<config, procesos, cantidad, tabla, bitmap_array, bytes_usados,
                   liberando, bucle, a_memoria>>

\* ... and otherwise the loop of tabla_paginas_resize.
MemoriaResize ==
    /\ Atiende("RESIZE")
    /\ ~ SinMemoria(peticion.pid, peticion.bytes)
    /\ bucle' = [pid |-> peticion.pid, i |-> FramesOcupados(peticion.pid),
                  hasta |-> Techo(peticion.bytes), bytes |-> peticion.bytes]
    /\ UNCHANGED <<config, procesos, cantidad, tabla, bitmap_array, bytes_usados,
                   liberando, a_memoria, peticion, respuesta>>

\* Mutant: the loop always goes for the same page.
PrimeraQueSobra == bucle.hasta

PaginaQueSobra == bucle.i - 1

\* One page less.
ResizeLibera ==
    /\ bucle.i > bucle.hasta
    /\ IF PaginaQueSobra \in Validas(bucle.pid)
       THEN LiberarPagina(bucle.pid, PaginaQueSobra)
       ELSE UNCHANGED <<tabla, bitmap_array, bytes_usados>>
    /\ bucle' = [bucle EXCEPT !.i = @ - 1]
    /\ UNCHANGED <<config, procesos, cantidad, liberando, a_memoria, peticion, respuesta>>

\* CPU_MEMORIA_IO_STDIN_READ is refused when there is no such process or page, or
\* not enough memoria ...
SinDondeLeer ==
    \/ peticion.pid \notin procesos
    \/ peticion.pagina \notin Paginas
    \/ peticion.bytes > BytesDisponibles

MemoriaLecturaRechaza ==
    /\ Atiende("IO_STDIN_READ")
    /\ SinDondeLeer
    /\ Responder("IO_STDIN_READ", Invalida, peticion.bytes, FALSE)
    /\ UNCHANGED <<config, procesos, cantidad, tabla, bitmap_array, bytes_usados,
                   liberando, bucle, a_memoria>>

\* ... and otherwise every page from the one asked for on gets a new frame,
\* whether it had one or not.
MemoriaLectura ==
    /\ Atiende("IO_STDIN_READ")
    /\ ~ SinDondeLeer
    /\ bucle' = [pid |-> peticion.pid, i |-> peticion.pagina,
                 hasta |-> peticion.pagina + Techo(peticion.bytes), bytes |-> peticion.bytes]
    /\ UNCHANGED <<config, procesos, cantidad, tabla, bitmap_array, bytes_usados,
                   liberando, a_memoria, peticion, respuesta>>

\* One page more, while there is a frame; past the end of the table the frame is
\* left where it was.
BucleAsigna ==
    /\ bucle.i < bucle.hasta
    /\ \E m \in ProximosFrames :
          IF bucle.i \in Paginas THEN AsignarPagina(bucle.pid, bucle.i, m)
          ELSE UNCHANGED <<tabla, bitmap_array, bytes_usados>>
    /\ bucle' = [bucle EXCEPT !.i = @ + 1]
    /\ UNCHANGED <<config, procesos, cantidad, liberando, a_memoria, peticion, respuesta>>

\* The loop is over, or a RESIZE stopped for want of a frame: the answer is OK.
BucleResponde ==
    /\ bucle.pid # 0
    /\ \/ bucle.i = bucle.hasta
       \/ peticion.tipo = "RESIZE" /\ bucle.i < bucle.hasta /\ FramesLibres = {}
    /\ Responder(peticion.tipo, Invalida, bucle.bytes, TRUE)
    /\ bucle' = SinBucle
    /\ UNCHANGED <<config, procesos, cantidad, tabla, bitmap_array, bytes_usados,
                   liberando, a_memoria>>

\* An IO_STDIN_READ that runs out of frames half way answers 0, frees the request,
\* leaves only the loop, and then answers 1 with what the request said and frees it
\* again.  What follows is undefined: the thread is followed no further, and no
\* property says anything of it (Definido).
LecturaSinMarco ==
    /\ peticion.tipo = "IO_STDIN_READ"
    /\ bucle.i < bucle.hasta /\ FramesLibres = {}
    /\ peticion' = [peticion EXCEPT !.tipo = "LIBERADA"]
    /\ bucle' = SinBucle
    /\ UNCHANGED <<config, procesos, cantidad, tabla, bitmap_array, bytes_usados,
                   liberando, a_memoria, respuesta>>

HiloKernelDeMemoria ==
    \/ MemoriaNuevoProceso \/ MemoriaFinalizar
    \/ LiberarMarco \/ LiberarPaginaDeTabla \/ MemoriaFinalizado

HiloCpuDeMemoria ==
    \/ MemoriaNumeroFrame \/ MemoriaMovOut \/ MemoriaMovIn \/ MemoriaCopyString
    \/ MemoriaResizeRechaza \/ MemoriaResize \/ MemoriaLecturaRechaza \/ MemoriaLectura
    \/ ResizeLibera \/ BucleAsigna \/ BucleResponde \/ LecturaSinMarco
=============================================================================
