------------------------- MODULE PropiedadesMemoria -------------------------
(***************************************************************************)
(* What the paging of memoria and the translation of the CPU must keep.    *)
(***************************************************************************)
EXTENDS Traduccion

TipoMarcos ==
    /\ config \in Configuraciones
    /\ procesos \subseteq Pids
    /\ cantidad \in Nat
    /\ tabla \in [Pids -> [Paginas -> NumerosMarco \cup {Invalida}]]
    /\ bitmap_array \in [NumerosMarco -> {0, 1}]
    /\ bytes_usados \in [NumerosMarco -> Int]
    /\ liberando \in [pid : Pids \cup {0}, pagina : Paginas \cup {Invalida}]
    /\ liberando.pagina # Invalida =>
          liberando.pid # 0 /\ liberando.pagina \in Validas(liberando.pid)
    /\ bucle \in [pid : Pids \cup {0}, i : Nat, hasta : Nat, bytes : Nat]

TipoMensajes ==
    /\ a_memoria \in Seq([tipo : {"NUEVO_PROCESO", "FINALIZAR_PROCESO"}, pid : Pids])
    /\ peticion \in Peticion
    /\ respuesta \in Respuesta

TipoCpu ==
    /\ estado \in [Pids -> {"SIN_CREAR", "READY", "EXEC", "EXIT"}]
    /\ cpu \in [pid : Pids \cup {0}, ocupada : BOOLEAN]
    /\ mmu \in {"ESPERA", "FRAME"}
    /\ mmu_ejecucion \in Nat
    /\ orden \in [codigo : Codigos, logica : Nat, destino : Nat, origen : Int, bytes : Nat]
    /\ marco \in NumerosMarco \cup {Invalida}
    /\ resultado \in BOOLEAN

TipoTlb ==
    /\ tlb \in [Entradas -> [pid : Pids \cup {0}, pagina : Nat,
                             marco : NumerosMarco \cup {Invalida}, ultimo_acceso : Nat]]
    /\ proximo_indice_reemplazo \in Nat
    /\ config.entradas > 0 => proximo_indice_reemplazo < config.entradas

\* The loop of tabla_paginas_resize stays in its table; that of IO_STDIN_READ
\* may ask for pages past the end.
TipoBucle ==
    peticion.tipo # "IO_STDIN_READ" =>
        bucle.i \in 0 .. CantidadMarcos /\ bucle.hasta \in 0 .. CantidadMarcos

Tipos == TipoMarcos /\ TipoMensajes /\ TipoCpu /\ TipoTlb

\* What the properties below speak of, until memoria's thread uses a request it
\* has freed (LecturaSinMarco): an IO_STDIN_READ that ran out of frames half way.
Definido == peticion.tipo # "LIBERADA"

\* Shape of the state: frames of the tables and of the TLB exist, messages are
\* of the protocol, and nothing indexes outside its array.
TipoMemoria == Definido => Tipos /\ TipoBucle

\* The frames of the pages of process p.
MarcosDe(p) == {tabla[p][n] : n \in Validas(p)}

\* Two pages, of one process or of two, never share a frame: the write of one
\* would be read by the other.  With the finalizations up to date; without,
\* the frame that tabla_paginas_liberar clears twice may be given away between.
MarcoExclusivo ==
    config.holgado /\ Definido =>
        \A p, q \in Pids : \A n \in Validas(p), o \in Validas(q) :
            tabla[p][n] = tabla[q][o] => p = q /\ n = o

\* A frame in a page of a process that lives is marked, so that nobody is given
\* it again (tabla_paginas_asignar_pagina).
PaginaMarcada ==
    config.holgado /\ Definido =>
        \A p \in Pids : \A n \in Validas(p) :
            bitmap_array[tabla[p][n]] = 1 \/ (liberando.pid = p /\ liberando.pagina = n)

\* What the programs must not do for a translation to be good when it is used.
\* RESIZE and IO_STDIN_READ leave the TLB as it was, so with a TLB nobody may give
\* pages back nor get a new frame for a page that has one; and COPY_STRING
\* translates its first byte only, so it may not leave its page.
SoloCrece == Cardinality(config.tamanios) <= 1
SinLecturas == config.lecturas = {}
CopiasEnPagina ==
    \A d \in config.direcciones, b \in config.copias : (d % TamPagina) + b <= TamPagina
TraduccionVigente == (config.entradas = 0 \/ (SoloCrece /\ SinLecturas)) /\ CopiasEnPagina

\* No frame leaks: one that is marked belongs to a page of some process, after
\* any interleaving of resizes, writes and finalizations.  An IO_STDIN_READ over
\* a page that has a frame leaks it, so no program has one.
SinFugas ==
    TraduccionVigente /\ SinLecturas =>
        \A m \in NumerosMarco : bitmap_array[m] = 1 => \E p \in Pids : m \in MarcosDe(p)

\* The pages of a process that is not being released are the first ones of its
\* table, which is what lets tabla_paginas_resize count them to know where the
\* table ends: an IO_STDIN_READ beyond them would leave a hole.
PaginasContiguas ==
    SinLecturas =>
    \A p \in Pids \ {liberando.pid} :
        bucle.pid # p => Validas(p) = 0 .. FramesOcupados(p) - 1

\* Whatever a MOV_OUT or a COPY_STRING writes, and a COPY_STRING reads, lies in
\* frames of the process that asked: the translation is still good when the
\* access arrives, also when an IO_STDIN_READ changed the frames in between and
\* there is no TLB.
AccesoPropio ==
    TraduccionVigente =>
    \A tipo \in {"MOV_OUT", "COPY_STRING_2"} :
        peticion.tipo = tipo =>
            LET direcciones == IF tipo = "MOV_OUT" THEN DireccionesMovOut(peticion)
                               ELSE DireccionesCopia(peticion)
            IN  \A d \in EnMemoria(direcciones) : MarcoDe(d) \in MarcosDe(peticion.pid)

\* The TLB agrees with the page tables: an entry of a process that lives gives
\* the frame its table gives, as long as no table gives pages back and no page
\* gets a second frame.
TlbAlDia ==
    SoloCrece /\ SinLecturas =>
    \A i \in Entradas :
        tlb[i].pid \in procesos \ {liberando.pid} =>
            tlb[i].marco = AccederPagina(tlb[i].pid, tlb[i].pagina)

\* The MMU and the thread of memoria share one semaphore for two purposes, "there
\* is an address" and "there is a frame".  No post is taken for the other: while
\* an instruction is under way exactly one thing will make it go on, and once it
\* is over nothing is left but the post of a translation that failed.
UnSoloPendiente ==
    LET Uno(hay)  == IF hay THEN 1 ELSE 0
        enVuelo   == Uno(peticion.tipo # "NADA") + Uno(respuesta.tipo # "NADA")
        rechazada == /\ mmu = "FRAME"
                     /\ ~ resultado
                     /\ peticion.tipo # "NUMERO_FRAME"
                     /\ respuesta.tipo # "NUMERO_FRAME"
    IN  Definido => enVuelo + mmu_ejecucion = Uno(cpu.ocupada) + Uno(rechazada)

\* RESIZE answers "OK" to a process that has the pages it asked for, and does
\* not let it go on when there is not enough memoria (memoria/src/atencion/cpu.c,
\* "no se puede realizar el resize").
ResizeCumplido ==
    respuesta.tipo = "RESIZE" /\ respuesta.resultado =>
        FramesOcupados(respuesta.pid) = Techo(respuesta.bytes)
=============================================================================
