----------------------------- MODULE Perifericos -----------------------------
(***************************************************************************)
(* The system of module Sistema with every kind of interface: the CPU's    *)
(* instructions that use them and its MMU thread, what memoria answers     *)
(* them, the STDIN, STDOUT and DIALFS processes, the kernel's handlers of  *)
(* their packets, and interfaces that fall, connect again or are rejected. *)
(*                                                                         *)
(* completados[i] holds [op, pid, exito] for interfaces that are not       *)
(* GENERIC.  Files and user space are left to DialFs and Traduccion: here  *)
(* an operation on them goes well or fails.                                *)
(***************************************************************************)
EXTENDS Sistema, PerifericosKernel

CONSTANTS
    MaxImprevistos, \* bound on the operations that fail, the interface processes
                    \* that die or are rejected and the processes that are killed
    Desconectables  \* the interfaces that may fall and connect again

ConRed == {i \in Interfaces : TipoInterfaz[i] # "GENERIC"}

ASSUME PerifericosAssumption ==
    /\ MaxImprevistos \in Nat
    /\ Desconectables \subseteq ConRed

VARIABLES
    mmu,        \* hilo_mmu: the posts of mmu_ejecucion, the packet args->paquete
                \* names (none once it is freed), whether the thread waits for a
                \* frame memoria will not send, and whether the CPU process fell
    imprevistos, \* how many of those there were
    periferico  \* the STDIN, STDOUT and DIALFS processes: whether they are alive,
                \* and their sockets to and from memoria

varsPerifericos == <<vars, mmu, periferico, imprevistos>>

\* Something that the programs do not ask for.
Imprevisto == imprevistos < MaxImprevistos /\ imprevistos' = imprevistos + 1

SinImprevisto == UNCHANGED imprevistos

PerifericoNuevo == [vivo |-> TRUE, pedidos |-> << >>, respuestas |-> << >>]

InitPerifericos ==
    /\ k = KernelConPerifericos
    /\ dispatch = << >> /\ interrupt = << >> /\ respuestas = << >>
    /\ completados = [i \in Interfaces |-> << >>]
    /\ cpu = [pid |-> 0, pc |-> 0, flag_interrupt |-> FALSE]
    /\ pedidos = << >> /\ entregas = << >>
    /\ memoria = [procesos |-> {}, caida |-> FALSE]
    /\ interfaces = [i \in Interfaces |->
                        [pid |-> 0, armado |-> FALSE, huerfanos |-> 0, avisos |-> 0]]
    /\ mmu = [posts |-> 0, paquete |-> << >>, esperando |-> FALSE, caida |-> FALSE]
    /\ periferico = [i \in ConRed |-> PerifericoNuevo]
    /\ imprevistos = 0

-----------------------------------------------------------------------------
(* CPU: instructions.  Each is sent to memoria, to the MMU or to the kernel *)
(* with the registers of the context c, and the cycle stops there.          *)

\* Mutant: the packets queue up.
MmuEncolar(x) == mmu' = [mmu EXCEPT !.posts = @ + 1, !.paquete = Append(@, x)]

\* mmu_iniciar: whatever packet was waiting for the thread is replaced.
MmuIniciar(x) == mmu' = [mmu EXCEPT !.posts = @ + 1, !.paquete = <<x>>]

PorMemoria(c, e) ==
    /\ pedidos' = Append(pedidos, Paquete(c, e.op, e.dato))
    /\ UNCHANGED <<dispatch, mmu>>

PorMmu(c, e) == MmuIniciar(Paquete(c, e.op, e.dato)) /\ UNCHANGED <<dispatch, pedidos>>

PorDispatch(c, e) == AlDispatch(c, e.op, e.dato) /\ UNCHANGED <<pedidos, mmu>>

EjecutarStdinRead(c, e)   == e.op = "IO_STDIN_READ"   /\ PorMemoria(c, e)
EjecutarCopyString(c, e)  == e.op = "COPY_STRING"     /\ PorMmu(c, e)
EjecutarStdoutWrite(c, e) == e.op = "IO_STDOUT_WRITE" /\ PorMmu(c, e)
EjecutarFsWrite(c, e)     == e.op = "IO_FS_WRITE"     /\ PorMmu(c, e)
EjecutarFsRead(c, e)      == e.op = "IO_FS_READ"      /\ PorMmu(c, e)
EjecutarFsCreate(c, e)    == e.op = "IO_FS_CREATE"    /\ PorDispatch(c, e)
EjecutarFsDelete(c, e)    == e.op = "IO_FS_DELETE"    /\ PorDispatch(c, e)
EjecutarFsTruncate(c, e)  == e.op = "IO_FS_TRUNCATE"  /\ PorDispatch(c, e)

InstruccionPeriferico ==
    /\ entregas # << >>
    /\ Head(entregas).op = "PROXIMA_INSTRUCCION"
    /\ cpu.pc < MaxPc
    /\ entregas' = Tail(entregas)
    /\ LET e == Head(entregas).instruccion
           c == [cpu EXCEPT !.pc = @ + 1]
       IN  /\ cpu' = c
           /\ \/ EjecutarStdinRead(c, e)
              \/ EjecutarCopyString(c, e)
              \/ EjecutarStdoutWrite(c, e)
              \/ EjecutarFsWrite(c, e)
              \/ EjecutarFsRead(c, e)
              \/ EjecutarFsCreate(c, e)
              \/ EjecutarFsDelete(c, e)
              \/ EjecutarFsTruncate(c, e)
    /\ UNCHANGED <<k, interrupt, respuestas, completados, memoria, interfaces, periferico,
                   imprevistos>>

-----------------------------------------------------------------------------
(* CPU: the MMU thread, with the question for the frame it may have to ask  *)

Atendido == [mmu EXCEPT !.posts = @ - 1]

\* Once translated the packet goes on, and is freed.
Traducir(x) ==
    \/ /\ x.op \in {"IO_STDOUT_WRITE", "IO_STDIN_READ", "IO_FS_READ"}
       /\ dispatch' = Append(dispatch, x)
       /\ mmu' = [Atendido EXCEPT !.paquete = << >>]
       /\ UNCHANGED pedidos
    \/ /\ x.op \in {"COPY_STRING_2", "IO_FS_WRITE"}
       /\ pedidos' = Append(pedidos, x)
       /\ mmu' = [Atendido EXCEPT !.paquete = << >>]
       /\ UNCHANGED dispatch
    \/ /\ x.op = "COPY_STRING"      \* the thread starts itself for DI
       /\ mmu' = [mmu EXCEPT !.paquete = <<[x EXCEPT !.op = "COPY_STRING_2"]>>]
       /\ UNCHANGED <<dispatch, pedidos>>

\* The look-up uses the pid the CPU has by then.  Memoria does not answer for a
\* process it does not hold, and the next mmu_iniciar is taken for the answer.
HiloMmu ==
    /\ ~ mmu.caida
    /\ mmu.posts > 0
    /\ \/ /\ mmu.esperando
          /\ mmu' = [Atendido EXCEPT !.esperando = FALSE]
          /\ UNCHANGED <<dispatch, pedidos, imprevistos>>
       \/ /\ ~ mmu.esperando
          /\ mmu.paquete = << >>     \* it was freed by the turn before
          /\ mmu' \in {Atendido, [mmu EXCEPT !.caida = TRUE]}
          /\ UNCHANGED <<dispatch, pedidos, imprevistos>>
       \/ /\ ~ mmu.esperando
          /\ \E x \in Range(mmu.paquete) : Traducir(x)
          /\ UNCHANGED imprevistos
       \/ /\ ~ mmu.esperando /\ mmu.paquete # << >>
          /\ cpu.pid \notin memoria.procesos \/ memoria.caida
          /\ mmu' = [Atendido EXCEPT !.esperando = TRUE]
          /\ UNCHANGED <<dispatch, pedidos, imprevistos>>
       \/ /\ ~ mmu.esperando /\ mmu.paquete # << >>
          /\ cpu.pid \in memoria.procesos
          /\ Imprevisto
          /\ mmu' = Atendido
          /\ AlDispatch(cpu, "PROCESO", "ERROR")
          /\ UNCHANGED pedidos
    /\ UNCHANGED <<k, interrupt, respuestas, completados, cpu, entregas, memoria,
                   interfaces, periferico>>

-----------------------------------------------------------------------------
(* CPU: what memoria answers                                                *)

RecibirEntrega(op) ==
    /\ entregas # << >>
    /\ Head(entregas).op = op
    /\ entregas' = Tail(entregas)
    /\ UNCHANGED <<k, interrupt, respuestas, completados, memoria, interfaces, periferico,
                   imprevistos>>

\* Mutant: the thread is not posted.
CpuStdinSinMmu ==
    /\ RecibirEntrega("IO_STDIN_READ")
    /\ UNCHANGED <<cpu, pedidos, dispatch, mmu>>

CpuStdinRead ==
    /\ RecibirEntrega("IO_STDIN_READ")
    /\ UNCHANGED <<cpu, pedidos>>
    /\ \/ Head(entregas).exito /\ MmuIniciar(Head(entregas).paquete) /\ UNCHANGED dispatch
       \/ ~ Head(entregas).exito /\ AlDispatch(cpu, "PROCESO", "ERROR") /\ UNCHANGED mmu

\* The kernel is told; after a success the CPU goes on with whatever it runs.
CpuCopyString ==
    /\ RecibirEntrega("COPY_STRING_2")
    /\ UNCHANGED mmu
    /\ LET aviso(dato) == [Head(entregas).paquete EXCEPT !.op = "COPY_STRING", !.dato = dato]
       IN  \/ /\ ~ Head(entregas).exito
              /\ dispatch' = Append(dispatch, aviso("FALLO"))
              /\ UNCHANGED <<cpu, pedidos>>
           \/ /\ Head(entregas).exito /\ cpu.flag_interrupt
              /\ dispatch' = dispatch \o <<aviso("OK"), Paquete(cpu, "PROCESO", "PARCIAL")>>
              /\ cpu' = [cpu EXCEPT !.flag_interrupt = FALSE]
              /\ UNCHANGED pedidos
           \/ /\ Head(entregas).exito /\ ~ cpu.flag_interrupt
              /\ dispatch' = Append(dispatch, aviso("OK"))
              /\ Solicitar(cpu)
              /\ UNCHANGED cpu

\* Nobody is told of a failure.
CpuFsWrite ==
    /\ RecibirEntrega("IO_FS_WRITE")
    /\ UNCHANGED <<cpu, pedidos, mmu>>
    /\ dispatch' = IF Head(entregas).exito THEN Append(dispatch, Head(entregas).paquete)
                   ELSE dispatch

\* The notices of the kernel: those that fail finish whatever process the CPU
\* has, and STDOUT's takes the interrupt that was meant for the cycle.
CpuAviso ==
    /\ k.a_cpu # << >>
    /\ "aviso" \in DOMAIN Head(k.a_cpu)
    /\ k' = [k EXCEPT !.a_cpu = Tail(@)]
    /\ LET m == Head(k.a_cpu)
           deStdout == m.aviso = "IO_STDOUT_WRITE"
       IN  \/ /\ ~ deStdout /\ ~ m.resultado
              /\ AlDispatch(cpu, "PROCESO", "ERROR")
              /\ UNCHANGED cpu
           \/ /\ deStdout /\ m.resultado /\ cpu.flag_interrupt
              /\ AlDispatch(cpu, "PROCESO", "PARCIAL")
              /\ cpu' = [cpu EXCEPT !.flag_interrupt = FALSE]
           \/ /\ IF deStdout THEN m.resultado => ~ cpu.flag_interrupt ELSE m.resultado
              /\ UNCHANGED <<dispatch, cpu>>
    /\ UNCHANGED <<interrupt, respuestas, completados, pedidos, entregas, memoria,
                   interfaces, mmu, periferico, imprevistos>>

CpuEjecuta ==
    /\ k.a_cpu # << >>
    /\ "aviso" \notin DOMAIN Head(k.a_cpu)
    /\ CpuEjecutarProceso

-----------------------------------------------------------------------------
(* Memoria                                                                 *)

\* The CPU's request op is answered with one or more outcomes.
Responder(op, exitos) ==
    LET x == Head(pedidos) IN
    entregas' = entregas \o [n \in DOMAIN exitos |->
                    [op |-> op, pid |-> x.pid, pc |-> x.pc, exito |-> exitos[n],
                     paquete |-> x]]

RecibirPedido(op) ==
    /\ ~ memoria.caida
    /\ pedidos # << >>
    /\ Head(pedidos).op = op
    /\ pedidos' = Tail(pedidos)
    /\ UNCHANGED <<k, dispatch, interrupt, respuestas, completados, cpu, memoria,
                   interfaces, mmu, periferico>>

\* A refusal: the process is not held, or its table or user space fail it.
Rehusar(p) == IF p \in memoria.procesos THEN Imprevisto ELSE SinImprevisto

Aceptar(p) == p \in memoria.procesos /\ SinImprevisto

MemoriaPide(op) ==
    LET p == Head(pedidos).pid IN
    /\ RecibirPedido(op)
    /\ \/ Aceptar(p) /\ Responder(op, <<TRUE>>)
       \/ Rehusar(p) /\ Responder(op, <<FALSE>>)

\* The break of the refusal for want of a frame only leaves the inner loop, so
\* that a refusal may be followed by an acceptance.
MemoriaStdinRead ==
    \/ MemoriaPide("IO_STDIN_READ")
    \/ /\ RecibirPedido("IO_STDIN_READ")
       /\ Head(pedidos).pid \in memoria.procesos
       /\ Imprevisto
       /\ Responder("IO_STDIN_READ", <<FALSE, TRUE>>)

MemoriaCopyString == MemoriaPide("COPY_STRING_2")

MemoriaFsWrite == MemoriaPide("IO_FS_WRITE")

\* KERNEL_MEMORIA_IO_FS_READ: what was read is written in user space.  The
\* kernel only logs the answer.
MemoriaFsRead ==
    /\ ~ memoria.caida
    /\ k.a_memoria # << >>
    /\ Head(k.a_memoria).op = "IO_FS_READ"
    /\ k' = [k EXCEPT !.a_memoria = Tail(@)]
    /\ UNCHANGED <<dispatch, interrupt, respuestas, completados, cpu, pedidos, entregas,
                   memoria, interfaces, mmu, periferico, imprevistos>>

SoloPeriferico ==
    UNCHANGED <<k, dispatch, interrupt, respuestas, completados, cpu, pedidos, entregas,
                interfaces, mmu>>

\* ENTRADA_SALIDA_MEMORIA_IO_STDIN_READ: no answer for a process that is not
\* held, nor when what was typed does not fill the frames.
MemoriaStdin(i) ==
    /\ ~ memoria.caida
    /\ TipoInterfaz[i] = "STDIN"
    /\ periferico[i].pedidos # << >>
    /\ LET p == Head(periferico[i].pedidos)
           leido == [periferico EXCEPT ![i].pedidos = Tail(@)]
       IN  \/ /\ Aceptar(p)
              /\ periferico' = [leido EXCEPT ![i].respuestas = Append(@, p)]
           \/ /\ Rehusar(p)
              /\ periferico' = leido
    /\ UNCHANGED memoria
    /\ SoloPeriferico

\* ENTRADA_SALIDA_MEMORIA_IO_STDOUT_WRITE: the process is not checked before its
\* table is walked, nor the pages that follow the first; and no answer when no
\* page has the frame.
MemoriaStdout(i) ==
    /\ ~ memoria.caida
    /\ TipoInterfaz[i] = "STDOUT"
    /\ periferico[i].pedidos # << >>
    /\ LET p == Head(periferico[i].pedidos)
           leido == [periferico EXCEPT ![i].pedidos = Tail(@)]
       IN  \/ /\ Aceptar(p)
              /\ periferico' = [leido EXCEPT ![i].respuestas = Append(@, p)]
              /\ UNCHANGED memoria
           \/ /\ p \in memoria.procesos /\ Imprevisto
              /\ periferico' = leido
              /\ UNCHANGED memoria
           \/ /\ Rehusar(p)
              /\ periferico' = leido
              /\ memoria' = [memoria EXCEPT !.caida = TRUE]
    /\ SoloPeriferico

-----------------------------------------------------------------------------
(* The interface processes                                                 *)

\* STDIN, with the user at its keyboard, and STDOUT: both forward the request
\* to memoria.  An interruption is read from a socket that was never opened.
PerifericoRecibe(i) ==
    /\ TipoInterfaz[i] \in {"STDIN", "STDOUT"}
    /\ periferico[i].vivo
    /\ k.a_io[i] # << >>
    /\ LET m == Head(k.a_io[i]) IN
       periferico' = IF m.op = "IO_INTERRUPCION"
                     THEN [periferico EXCEPT ![i].vivo = FALSE]
                     ELSE [periferico EXCEPT ![i].pedidos = Append(@, m.pid)]
    /\ k' = [k EXCEPT !.a_io[i] = Tail(@)]
    /\ UNCHANGED <<dispatch, interrupt, respuestas, completados, cpu, pedidos, entregas,
                   memoria, interfaces, mmu, imprevistos>>

OperacionPropia(i) == IF TipoInterfaz[i] = "STDIN" THEN "IO_STDIN_READ" ELSE "IO_STDOUT_WRITE"

\* What memoria answered is the end of the request.
PerifericoAvisa(i) ==
    /\ periferico[i].vivo
    /\ periferico[i].respuestas # << >>
    /\ periferico' = [periferico EXCEPT ![i].respuestas = Tail(@)]
    /\ completados' = [completados EXCEPT ![i] = Append(@,
            [op |-> OperacionPropia(i), pid |-> Head(periferico[i].respuestas),
             exito |-> TRUE])]
    /\ UNCHANGED <<k, dispatch, interrupt, respuestas, cpu, pedidos, entregas, memoria,
                   interfaces, mmu, imprevistos>>

\* DIALFS: an interruption is only logged.  When the file is missing or does not
\* fit, CREATE and TRUNCATE say so and the others do not answer.
DialFsAtiende(i) ==
    /\ TipoInterfaz[i] = "DIALFS"
    /\ periferico[i].vivo
    /\ k.a_io[i] # << >>
    /\ k' = [k EXCEPT !.a_io[i] = Tail(@)]
    /\ LET m == Head(k.a_io[i])
           Informar(exito) == completados' = [completados EXCEPT ![i] =
                                 Append(@, [op |-> m.op, pid |-> m.pid, exito |-> exito])]
       IN  \/ m.op = "IO_INTERRUPCION" /\ UNCHANGED completados /\ SinImprevisto
           \/ m.op # "IO_INTERRUPCION" /\ Informar(TRUE) /\ SinImprevisto
           \/ /\ m.op \in {"IO_FS_CREATE", "IO_FS_TRUNCATE"}
              /\ Informar(FALSE)
              /\ Imprevisto
           \/ /\ m.op \in {"IO_FS_DELETE", "IO_FS_WRITE", "IO_FS_READ"}
              /\ UNCHANGED completados
              /\ Imprevisto
    /\ UNCHANGED <<dispatch, interrupt, respuestas, cpu, pedidos, entregas, memoria,
                   interfaces, mmu, periferico>>

PerifericoMuere(i) ==
    /\ i \in Desconectables
    /\ periferico[i].vivo
    /\ Imprevisto
    /\ periferico' = [periferico EXCEPT ![i].vivo = FALSE]
    /\ UNCHANGED <<vars, mmu>>

\* The process is started again, once the kernel has no entry with its name.
PerifericoVuelve(i) ==
    /\ ~ k.caido
    /\ ~ periferico[i].vivo /\ i \notin k.registro
    /\ periferico[i].pedidos = << >>
    /\ periferico' = [periferico EXCEPT ![i] = PerifericoNuevo]
    /\ k' = Registrar(k, i)
    /\ UNCHANGED <<dispatch, interrupt, respuestas, completados, cpu, pedidos, entregas,
                   memoria, interfaces, mmu, imprevistos>>

-----------------------------------------------------------------------------
(* Kernel.  A search by pid reads the entries that were freed: it may fault *)
(* (BuscarPid is the set of outcomes around the intended one).              *)

BuscarPid(s, intencion) == {intencion} \cup (IF s.liberadas THEN {Caer(s)} ELSE {})

SoloKernelPeriferico == SoloKernel /\ UNCHANGED <<mmu, periferico>>

DispatchStdoutWrite == RecibirDispatch("IO_STDOUT_WRITE")
    /\ \E resto \in Restos : k' = PedirStdoutWrite(k, Head(dispatch), resto)

DispatchStdinRead == RecibirDispatch("IO_STDIN_READ")
    /\ \E resto \in Restos : k' = PedirStdinRead(k, Head(dispatch), resto)

DispatchFsCreate == RecibirDispatch("IO_FS_CREATE")
    /\ \E resto \in Restos : k' = PedirFsCreate(k, Head(dispatch), resto)

DispatchFsTruncate == RecibirDispatch("IO_FS_TRUNCATE")
    /\ \E resto \in Restos : k' = PedirFsTruncate(k, Head(dispatch), resto)

DispatchFsWrite == RecibirDispatch("IO_FS_WRITE")
    /\ \E resto \in Restos : k' = PedirFsWrite(k, Head(dispatch), resto)

DispatchFsDelete == RecibirDispatch("IO_FS_DELETE")
    /\ \E resto \in Restos : k' = PedirFsDelete(k, Head(dispatch), resto)

DispatchFsRead == RecibirDispatch("IO_FS_READ")
    /\ \E resto \in Restos : k' = PedirFsRead(k, Head(dispatch), resto)

DispatchCopyString ==
    RecibirDispatch("COPY_STRING") /\ k' = AtenderCopyString(k, Head(dispatch))

\* The end of a request on the socket of interface i.
AtenderPeriferico(i) ==
    /\ ~ k.caido
    /\ i \in ConRed
    /\ completados[i] # << >>
    /\ completados' = [completados EXCEPT ![i] = Tail(@)]
    /\ LET m == Head(completados[i])
           registradas == IF InterfacesDe(k, m.pid) = {} THEN {i} ELSE InterfacesDe(k, m.pid)
       IN  \E registrada \in registradas, falla \in BOOLEAN :
              k' \in BuscarPid(k, Completar(k, i, m, registrada, falla))
    /\ UNCHANGED <<dispatch, interrupt, respuestas>>

\* FINALIZAR_PROCESO p, blocked and on no resource: the branches of
\* FinalizarProceso that search by pid.
FinalizarBloqueado(p) ==
    /\ ~ k.caido
    /\ "FINALIZAR_PROCESO" \in Comandos
    /\ k.procesos[p] = "BLOCK"
    /\ RecursosDe(k, p) = {}
    /\ \/ /\ InterfacesDe(k, p) = {}
          /\ k' \in BuscarPid(k, FinalizarEnEspera(k, p))
       \/ \E i \in InterfacesDe(k, p) :
             k' \in BuscarPid(k, IF i \in ConRed THEN FinalizarEnPeriferico(k, p, i)
                                 ELSE FinalizarEnInterfaz(k, p, i))
    /\ UNCHANGED entradas

FinalizarOtro(p) ==
    /\ k.procesos[p] = "BLOCK" => RecursosDe(k, p) # {}
    /\ FinalizarProceso(p)

\* The thread of i finds its socket closed, after everything that was in it.
DetectarCaida(i) ==
    /\ ~ k.caido
    /\ i \in k.registro /\ ~ periferico[i].vivo
    /\ completados[i] = << >>
    /\ k' = Desconectar(k, i)
    /\ UNCHANGED entradas

\* Another process identifies itself with a name that is taken, and leaves.
RechazarIdentificacion(i) ==
    /\ ~ k.caido
    /\ i \in k.registro
    /\ k' = RechazarRepetida(k)
    /\ UNCHANGED entradas

NextKernelPeriferico ==
    \/ DispatchStdoutWrite
    \/ DispatchStdinRead
    \/ DispatchFsCreate
    \/ DispatchFsTruncate
    \/ DispatchFsWrite
    \/ DispatchFsDelete
    \/ DispatchFsRead
    \/ DispatchCopyString
    \/ \E i \in ConRed : AtenderPeriferico(i) \/ DetectarCaida(i)

-----------------------------------------------------------------------------

\* The kernel's steps of module Sistema that this module does not replace.
NextKernelComun ==
    \/ IniciarProceso
    \/ DetenerPlanificacion
    \/ IniciarPlanificacion
    \/ \E g \in Grados : Multiprogramacion(g)
    \/ HiloPlanificador
    \/ TemporizadorVence
    \/ FinQuantum
    \/ AtenderMemoria
    \/ DispatchProceso
    \/ DispatchResize
    \/ DispatchWait
    \/ DispatchSignal
    \/ InterruptIoGenSleep
    \/ \E i \in Interfaces \ ConRed : AtenderCompletado(i)

PasoKernelPeriferico ==
    /\ \/ (NextKernelComun \/ NextKernelPeriferico) /\ SinImprevisto
       \/ ((\E p \in Pids : FinalizarBloqueado(p) \/ FinalizarOtro(p))
           \/ (\E i \in Desconectables : RechazarIdentificacion(i))) /\ Imprevisto
    /\ SoloKernelPeriferico

PasoCpuPeriferico ==
    /\ ~ mmu.caida
    /\ \/ (CpuEjecuta \/ CpuInterrupcion \/ InstruccionCiclo \/ CpuResize)
          /\ UNCHANGED <<mmu, periferico, imprevistos>>
       \/ InstruccionPeriferico
       \/ HiloMmu
       \/ CpuStdinRead
       \/ CpuCopyString
       \/ CpuFsWrite
       \/ CpuAviso

PasoMemoriaPeriferico ==
    \/ PasoMemoria /\ UNCHANGED <<mmu, periferico, imprevistos>>
    \/ MemoriaStdinRead
    \/ MemoriaCopyString
    \/ MemoriaFsWrite
    \/ MemoriaFsRead
    \/ \E i \in ConRed : MemoriaStdin(i) \/ MemoriaStdout(i)

PasoPeriferico ==
    \/ \E i \in Interfaces \ ConRed :
          (InterfazRecibe(i) \/ InterfazVence(i) \/ InterfazAvisa(i))
          /\ UNCHANGED <<mmu, periferico, imprevistos>>
    \/ \E i \in ConRed :
          \/ PerifericoRecibe(i)
          \/ PerifericoAvisa(i)
          \/ DialFsAtiende(i)
          \/ PerifericoMuere(i)
          \/ PerifericoVuelve(i)

NextPerifericos ==
    PasoKernelPeriferico \/ PasoCpuPeriferico \/ PasoMemoriaPeriferico \/ PasoPeriferico

SpecPerifericos == InitPerifericos /\ [][NextPerifericos]_varsPerifericos
=============================================================================
