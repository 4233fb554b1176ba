-------------------------- MODULE PerifericosKernel --------------------------
(***************************************************************************)
(* The kernel's side of the STDIN, STDOUT and DIALFS interfaces: requests, *)
(* completions, the next request of an interface, the kill of whoever uses *)
(* it, and the registry of interfaces that connect and disconnect.         *)
(*                                                                         *)
(* The kernel's record has three fields more than in module Kernel:        *)
(*   operacion   what the request a process remembers asks for             *)
(*   registro    the names in dictionary_entrada_salida                    *)
(*   liberadas   list_entrada_salida holds entries that were freed         *)
(* and in a_cpu notices travel among the dispatched processes.             *)
(***************************************************************************)
EXTENDS Kernel

OperacionesFs == {"IO_FS_CREATE", "IO_FS_DELETE", "IO_FS_TRUNCATE", "IO_FS_WRITE",
                  "IO_FS_READ"}

OperacionesIo == {"IO_STDIN_READ", "IO_STDOUT_WRITE"} \cup OperacionesFs

TipoDe(op) == CASE op = "IO_STDIN_READ"   -> "STDIN"
                [] op = "IO_STDOUT_WRITE" -> "STDOUT"
                [] op \in OperacionesFs   -> "DIALFS"

Ninguna == "NINGUNA"

KernelConPerifericos ==
    [ pid                  |-> KernelInicial.pid,
      cola                 |-> KernelInicial.cola,
      procesos             |-> KernelInicial.procesos,
      pcb                  |-> KernelInicial.pcb,
      recursos             |-> KernelInicial.recursos,
      io                   |-> KernelInicial.io,
      planificador_iniciar |-> KernelInicial.planificador_iniciar,
      detener              |-> KernelInicial.detener,
      grado                |-> KernelInicial.grado,
      timer                |-> KernelInicial.timer,
      a_cpu                |-> KernelInicial.a_cpu,
      a_interrupt          |-> KernelInicial.a_interrupt,
      a_memoria            |-> KernelInicial.a_memoria,
      a_io                 |-> KernelInicial.a_io,
      caido                |-> KernelInicial.caido,
      operacion            |-> [p \in Pids |-> Ninguna],
      registro             |-> Interfaces,
      liberadas            |-> FALSE ]

\* The notice of how an operation went, on the socket of the dispatches.  The
\* CPU does not look at the pid it carries.
AvisarCpu(s, op, resultado) ==
    [s EXCEPT !.a_cpu = Append(@, [aviso |-> op, resultado |-> resultado])]

-----------------------------------------------------------------------------
(* Requests.  Every packet has the same four endings.                      *)

\* kernel_cpu_entradasalida_no_conectada and _distinto_tipo: STDOUT, STDIN and
\* CREATE tell the CPU, which resumes whatever it is running by then.
RechazarPedido(s, p, op, resto) ==
    LET t == GuardarQuantum(s, p, resto)
    IN  FinalizarInterfazInvalida(
            IF op \in {"IO_STDOUT_WRITE", "IO_STDIN_READ", "IO_FS_CREATE"}
            THEN AvisarCpu(t, op, FALSE) ELSE t, p)

\* The interface is busy: the PCB remembers the request.
RecordarPedido(s, p, i, op) ==
    Avisar([s EXCEPT !.pcb[p].proxima_io = i, !.operacion[p] = op])

\* The interface is free: it is taken and the request is sent.
TomarInterfaz(s, p, i, op) ==
    Avisar(EnviarIo([s EXCEPT !.io[i] = [ocupado |-> TRUE, pid |-> p]], i, op, p))

\* Mutant: the registers of the packet are not saved in the PCB.
BloquearSinRegistros(s, p, pc, resto) == ExecBlock(GuardarQuantum(s, p, resto))

Bloquear(s, p, pc, resto) ==
    ExecBlock(ActualizarRegistros(GuardarQuantum(s, p, resto), p, pc))

\* Packet m asks for op on the interface it names.
PedirIo(s, m, op, resto) ==
    IF ~ Esta(s, "EXEC", m.pid) THEN s
    ELSE IF m.dato \notin s.registro \/ TipoInterfaz[m.dato] # TipoDe(op)
    THEN RechazarPedido(s, m.pid, op, resto)
    ELSE IF s.io[m.dato].ocupado
    THEN RecordarPedido(Bloquear(s, m.pid, m.pc, resto), m.pid, m.dato, op)
    ELSE TomarInterfaz(Bloquear(s, m.pid, m.pc, resto), m.pid, m.dato, op)

PedirStdoutWrite(s, m, resto) == PedirIo(s, m, "IO_STDOUT_WRITE", resto)
PedirStdinRead(s, m, resto)   == PedirIo(s, m, "IO_STDIN_READ", resto)
PedirFsCreate(s, m, resto)    == PedirIo(s, m, "IO_FS_CREATE", resto)
PedirFsTruncate(s, m, resto)  == PedirIo(s, m, "IO_FS_TRUNCATE", resto)
PedirFsWrite(s, m, resto)     == PedirIo(s, m, "IO_FS_WRITE", resto)
PedirFsDelete(s, m, resto)    == PedirIo(s, m, "IO_FS_DELETE", resto)
PedirFsRead(s, m, resto)      == PedirIo(s, m, "IO_FS_READ", resto)

\* CPU_KERNEL_COPY_STRING: a failed copy ends its process in whatever list it is.
AtenderCopyString(s, m) ==
    IF ~ Buscar(s, m.pid) THEN s
    ELSE IF m.dato = "OK" THEN Avisar(s)
    ELSE FinalizarSegmentationFault(s, m.pid)

-----------------------------------------------------------------------------
(* The next request of an interface                                        *)

EsperanOperacion(s, i, ops) ==
    {p \in EsperanInterfaz(s, i) : s.operacion[p] \in ops}

\* Mutant: nobody is sent.
ProximoIoOlvidado(s, i, ops) == s

\* As in kernel_proximo_io_generic, the loop sends every process it finds.
ProximoIoDe(s, i, ops) ==
    LET orden == Filtrar(s.cola["BLOCK"], EsperanOperacion(s, i, ops)) IN
    IF orden = << >> THEN s
    ELSE [s EXCEPT
            !.io[i] = [ocupado |-> TRUE, pid |-> orden[Len(orden)]],
            !.a_io[i] = @ \o [j \in DOMAIN orden |->
                                [op |-> s.operacion[orden[j]], pid |-> orden[j]]],
            !.pcb = [p \in Pids |-> IF p \in Range(orden)
                                    THEN [@[p] EXCEPT !.proxima_io = SinIo]
                                    ELSE @[p]],
            !.operacion = [p \in Pids |-> IF p \in Range(orden) THEN Ninguna ELSE @[p]]]

ProximoIoStdin(s, i)  == ProximoIoDe(s, i, {"IO_STDIN_READ"})
ProximoIoStdout(s, i) == ProximoIoDe(s, i, {"IO_STDOUT_WRITE"})

\* A DELETE that waited kept pointers into a packet that was freed with it, and
\* list_destroy_and_destroy_elements frees them again (falla).
ProximoIoFs(s, i, falla) ==
    IF falla /\ \E p \in EsperanOperacion(s, i, {"IO_FS_DELETE"}) : TRUE
    THEN Caer(s)
    ELSE ProximoIoDe(s, i, OperacionesFs)

-----------------------------------------------------------------------------
(* Completions: interface i reports the end m of a request.  registrada is *)
(* the interface that buscar_interfaz_pid returns, when there is one;      *)
(* falla says whether the undefined behaviour on the way is fatal.         *)

Despertar(s, i, p) ==
    [ManejarBlockReady(s, p) EXCEPT !.io[i] = Libre]

CompletarStdinRead(s, i, m, registrada, falla) ==
    LET aviso(t, resultado) == AvisarCpu(t, "IO_STDIN_READ", resultado) IN
    IF ~ m.exito
    THEN IF ~ Buscar(s, m.pid) THEN Caer(s)
         ELSE FinalizarErrorEjecucion(aviso(InterrumpirTemporizador(s), FALSE), m.pid)
    ELSE IF InterfacesDe(s, m.pid) = {}
    THEN IF falla THEN Caer(s) ELSE s      \* frees a pointer nobody assigned
    ELSE Avisar(ProximoIoStdin(aviso(Despertar(s, i, m.pid), TRUE), registrada))

\* The interface is not checked before it is freed and searched for.
CompletarStdoutWrite(s, i, m, registrada) ==
    LET aviso(t, resultado) == AvisarCpu(t, "IO_STDOUT_WRITE", resultado)
        listo == aviso(Despertar(s, i, m.pid), TRUE)
        esperan == {p \in Range(listo.cola["BLOCK"]) :
                        RecursosDe(listo, p) = {} /\ listo.pcb[p].proxima_io # SinIo}
    IN  IF ~ m.exito
        THEN Avisar(FinalizarSegmentationFault(
                        aviso(InterrumpirTemporizador(s), FALSE), m.pid))
        ELSE IF InterfacesDe(s, m.pid) # {}
        THEN Avisar(ProximoIoStdout(listo, registrada))
        ELSE IF esperan # {} THEN Caer(listo) ELSE Avisar(listo)

\* Mutant: the waiting processes are forgotten.
CompletarSinProximo(s, i, m, registrada, falla) ==
    IF InterfacesDe(s, m.pid) = {} THEN s
    ELSE Avisar(AvisarCpu(Despertar(s, i, m.pid), m.op, TRUE))

\* CREATE and DELETE.  A failure frees the interface and forgets both whoever
\* waits for it and the planner.
CompletarFsCreate(s, i, m, registrada, falla) ==
    IF ~ m.exito THEN AvisarCpu(Despertar(s, i, m.pid), m.op, FALSE)
    ELSE IF InterfacesDe(s, m.pid) = {} THEN s
    ELSE Avisar(ProximoIoFs(AvisarCpu(Despertar(s, i, m.pid), m.op, TRUE),
                            registrada, falla))

CompletarFsDelete(s, i, m, registrada, falla) ==
    CompletarFsCreate(s, i, m, registrada, falla)

\* Mutant: the planner is not told.
CompletarFsSinAviso(s, i, m, registrada, falla) ==
    IF InterfacesDe(s, m.pid) = {} THEN s
    ELSE ProximoIoFs(Despertar(s, i, m.pid), registrada, falla)

\* TRUNCATE and WRITE.  A failure leaves the interface busy.
CompletarFsTruncate(s, i, m, registrada, falla) ==
    Avisar(IF ~ m.exito THEN ManejarBlockReady(s, m.pid)
           ELSE IF InterfacesDe(s, m.pid) = {} THEN s
           ELSE ProximoIoFs(Despertar(s, i, m.pid), registrada, falla))

CompletarFsWrite(s, i, m, registrada, falla) ==
    CompletarFsTruncate(s, i, m, registrada, falla)

\* READ: what was read goes to memoria after the process was made ready.
CompletarFsRead(s, i, m, registrada, falla) ==
    LET leido(t) == [t EXCEPT !.a_memoria =
                        Append(@, [op |-> "IO_FS_READ", pid |-> m.pid])]
    IN  Avisar(IF ~ m.exito THEN ManejarBlockReady(s, m.pid)
               ELSE IF InterfacesDe(s, m.pid) = {} THEN s
               ELSE ProximoIoFs(leido(Despertar(s, i, m.pid)), registrada, falla))

\* Mutant: it is taken for the end of the request the interface was given last.
CompletarDelOcupante(s, i, m, registrada, falla) ==
    IF s.io[i].pid = 0 THEN s
    ELSE Avisar(ProximoIoDe(Despertar(s, i, s.io[i].pid), i, OperacionesIo))

Completar(s, i, m, registrada, falla) ==
    CASE Esta(s, "EXIT", m.pid)     -> MatarEnExit(s, m.pid)
      [] m.op = "IO_STDIN_READ"     -> CompletarStdinRead(s, i, m, registrada, falla)
      [] m.op = "IO_STDOUT_WRITE"   -> CompletarStdoutWrite(s, i, m, registrada)
      [] m.op = "IO_FS_CREATE"      -> CompletarFsCreate(s, i, m, registrada, falla)
      [] m.op = "IO_FS_DELETE"      -> CompletarFsDelete(s, i, m, registrada, falla)
      [] m.op = "IO_FS_TRUNCATE"    -> CompletarFsTruncate(s, i, m, registrada, falla)
      [] m.op = "IO_FS_WRITE"       -> CompletarFsWrite(s, i, m, registrada, falla)
      [] m.op = "IO_FS_READ"        -> CompletarFsRead(s, i, m, registrada, falla)

-----------------------------------------------------------------------------
(* The kill of a process that uses interface i                             *)

\* The test that should send the next request of a DIALFS compares the type of
\* the interface with those of the requests: it never holds.
FinalizarEnPeriferico(s, p, i) ==
    LET t == EnviarIo([BlockExit(s, p) EXCEPT !.io[i] = Libre], i, "IO_INTERRUPCION", p)
    IN  MatarEnMemoria(CASE TipoInterfaz[i] = "STDIN"  -> ProximoIoStdin(t, i)
                         [] TipoInterfaz[i] = "STDOUT" -> ProximoIoStdout(t, i)
                         [] OTHER -> t, p)

-----------------------------------------------------------------------------
(* The registry                                                            *)

\* Mutant: memoria is not told.
DesconectarCallada(s, i) ==
    [(IF s.io[i].pid = 0 THEN s ELSE Matar(s, s.io[i].pid)) EXCEPT
        !.registro = @ \ {i}, !.io[i] = Libre, !.a_io[i] = << >>, !.liberadas = TRUE]

\* The end of hilos_ejecutar_entrada_salida: whoever uses the interface is
\* killed, but memoria is told the global pid, that of the last process created.
Desconectar(s, i) ==
    LET t == IF s.io[i].pid = 0 THEN s
             ELSE AvisarMemoriaFinalizacion(Matar(s, s.io[i].pid), s.pid)
    IN  IF t.caido THEN t
        ELSE [t EXCEPT !.registro = @ \ {i}, !.io[i] = Libre, !.a_io[i] = << >>,
                       !.liberadas = TRUE]

\* entrada_salida_agregar_identificador
Registrar(s, i) == [s EXCEPT !.registro = @ \cup {i}, !.io[i] = Libre, !.a_io[i] = << >>]

\* A name that is taken: the entry is listed as "no identificada", and freed
\* when its thread finds the socket closed.
RechazarRepetida(s) == [s EXCEPT !.liberadas = TRUE]
=============================================================================
