------------------------------- MODULE Sistema ------------------------------
(***************************************************************************)
(* The kernel together with the processes it talks to: the CPU and its     *)
(* instruction cycle, memoria as far as it answers the kernel and the CPU, *)
(* and the GENERIC interfaces of entradasalida.                            *)
(***************************************************************************)
EXTENDS Kernel

CONSTANTS
    Programa,       \* the instructions of the script each pid is started with
    PuedeRechazar   \* memoria may fail to read a script

\* Those of the last three lines run in module Perifericos.
Operaciones == {"SET", "JNZ", "RESIZE", "WAIT", "SIGNAL", "IO_GEN_SLEEP",
                "EXIT", "DESCONOCIDA", "INVALIDA",
                "COPY_STRING", "IO_STDIN_READ", "IO_STDOUT_WRITE",
                "IO_FS_CREATE", "IO_FS_DELETE", "IO_FS_TRUNCATE",
                "IO_FS_WRITE", "IO_FS_READ"}

Instruccion == [op : Operaciones, dato : Datos]

ASSUME ProgramaAssumption ==
    /\ Programa \in [Pids -> Seq(Instruccion)]
    /\ \A p \in Pids : Programa[p] # << >> /\ Len(Programa[p]) < MaxPc
    /\ PuedeRechazar \in BOOLEAN

VARIABLES
    cpu,         \* t_cpu: the process it runs, its pc and the interrupt flag
    pedidos,     \* cpu -> memoria
    entregas,    \* memoria -> cpu
    memoria,     \* the pids whose scripts memoria holds, and whether it fell
    interfaces   \* the state of each interface process

vars == <<k, dispatch, interrupt, respuestas, completados,
          cpu, pedidos, entregas, memoria, interfaces>>

Pedido == [op : {"PROXIMA_INSTRUCCION", "RESIZE"}, pid : Pids, pc : 0 .. MaxPc]

Entrega == [op : {"PROXIMA_INSTRUCCION"}, pid : Pids, pc : 0 .. MaxPc,
            instruccion : Instruccion]
           \cup [op : {"RESIZE"}, pid : Pids, dato : {"OK", "FALLO"}]

Init ==
    /\ InitKernel
    /\ cpu = [pid |-> 0, pc |-> 0, flag_interrupt |-> FALSE]
    /\ pedidos = << >>
    /\ entregas = << >>
    /\ memoria = [procesos |-> {}, caida |-> FALSE]
    /\ interfaces = [i \in Interfaces |->
                        [pid |-> 0, armado |-> FALSE, huerfanos |-> 0, avisos |-> 0]]

-----------------------------------------------------------------------------
(* CPU                                                                     *)

\* instruccion_solicitar, from the state c of the CPU.
Solicitar(c) ==
    pedidos' = Append(pedidos, [op |-> "PROXIMA_INSTRUCCION", pid |-> c.pid, pc |-> c.pc])

\* A packet of the CPU with its current pid and registers.
Paquete(c, op, dato) == [op |-> op, pid |-> c.pid, pc |-> c.pc, dato |-> dato]

AlDispatch(c, op, dato) == dispatch' = Append(dispatch, Paquete(c, op, dato))

\* KERNEL_CPU_EJECUTAR_PROCESO: whatever the CPU was doing is overwritten.
CpuEjecutarProceso ==
    /\ k.a_cpu # << >>
    /\ LET m == Head(k.a_cpu)
           c == [pid |-> m.pid, pc |-> m.pc, flag_interrupt |-> FALSE]
       IN  cpu' = c /\ Solicitar(c)
    /\ k' = [k EXCEPT !.a_cpu = Tail(@)]
    /\ UNCHANGED <<dispatch, interrupt, respuestas, completados, entregas,
                   memoria, interfaces>>

\* KERNEL_CPU_INTERRUPCION: the flag is raised even when the pid it carries is
\* not the one the CPU runs.
CpuInterrupcion ==
    /\ k.a_interrupt # << >>
    /\ cpu' = [cpu EXCEPT !.flag_interrupt = TRUE]
    /\ k' = [k EXCEPT !.a_interrupt = Tail(@)]
    /\ UNCHANGED <<dispatch, interrupt, respuestas, completados, pedidos,
                   entregas, memoria, interfaces>>

\* Mutant: no return after the interrupt: the next instruction is fetched too.
SeguirSinRetorno(c) ==
    /\ cpu' = [c EXCEPT !.flag_interrupt = FALSE]
    /\ Solicitar(c)
    /\ IF c.flag_interrupt THEN AlDispatch(c, "PROCESO", "PARCIAL") ELSE UNCHANGED dispatch
    /\ UNCHANGED interrupt

\* The end of a cycle: instruccion_interrupt or the next fetch.
SeguirCiclo(c) ==
    IF c.flag_interrupt
    THEN /\ cpu' = [c EXCEPT !.flag_interrupt = FALSE]
         /\ AlDispatch(c, "PROCESO", "PARCIAL")
         /\ UNCHANGED <<interrupt, pedidos>>
    ELSE /\ cpu' = c
         /\ Solicitar(c)
         /\ UNCHANGED <<dispatch, interrupt>>

\* instruccion_ejecutar, by instruction, in the context c whose pc already
\* points to the next one.
\* SET stands for SUM and SUB too: they write registers and go on.
EjecutarSet(c, e) == e.op = "SET" /\ SeguirCiclo(c)

EjecutarJnz(c, e) ==
    /\ e.op = "JNZ"
    /\ \E destino \in {0, c.pc} : SeguirCiclo([c EXCEPT !.pc = destino])

EjecutarResize(c, e) ==
    /\ e.op = "RESIZE"
    /\ cpu' = c
    /\ pedidos' = Append(pedidos, [op |-> "RESIZE", pid |-> c.pid, pc |-> c.pc])
    /\ UNCHANGED <<dispatch, interrupt>>

EjecutarRecurso(c, e) ==
    /\ e.op \in {"WAIT", "SIGNAL"}
    /\ cpu' = c
    /\ AlDispatch(c, e.op, e.dato)
    /\ UNCHANGED <<interrupt, pedidos>>

EjecutarIoGenSleep(c, e) ==
    /\ e.op = "IO_GEN_SLEEP"
    /\ cpu' = c
    /\ interrupt' = Append(interrupt, Paquete(c, "IO_GEN_SLEEP", e.dato))
    /\ UNCHANGED <<dispatch, pedidos>>

EjecutarExit(c, e) ==
    /\ e.op = "EXIT"
    /\ cpu' = c
    /\ AlDispatch(c, "PROCESO", "EJECUTANDO")
    /\ UNCHANGED <<interrupt, pedidos>>

\* An instruction that fails returns -1, which the cycle takes for "bifurcated"
\* and returns: nobody is told.
EjecutarInvalida(c, e) ==
    /\ e.op = "INVALIDA"
    /\ cpu' = c
    /\ UNCHANGED <<dispatch, interrupt, pedidos>>

\* instruccion_recibir does not know the operation: the pc stays, and the
\* process is returned to the kernel as failed.
RecibirDesconocida(e) ==
    /\ e.op = "DESCONOCIDA"
    /\ AlDispatch(cpu, "PROCESO", "ERROR")
    /\ UNCHANGED <<cpu, interrupt, pedidos>>

\* MEMORIA_CPU_PROXIMA_INSTRUCCION: the instruction runs in the current
\* context, whatever process it was fetched for.
InstruccionCiclo ==
    /\ entregas # << >>
    /\ Head(entregas).op = "PROXIMA_INSTRUCCION"
    /\ cpu.pc < MaxPc
    /\ entregas' = Tail(entregas)
    /\ LET e == Head(entregas).instruccion
           c == [cpu EXCEPT !.pc = @ + 1]
       IN  \/ RecibirDesconocida(e)
           \/ EjecutarSet(c, e)
           \/ EjecutarJnz(c, e)
           \/ EjecutarResize(c, e)
           \/ EjecutarRecurso(c, e)
           \/ EjecutarIoGenSleep(c, e)
           \/ EjecutarExit(c, e)
           \/ EjecutarInvalida(c, e)
    /\ UNCHANGED <<k, respuestas, completados, memoria, interfaces>>

\* MEMORIA_CPU_RESIZE: the kernel is told; after a success the CPU goes on
\* with whatever process it runs by then.
CpuResize ==
    /\ entregas # << >>
    /\ Head(entregas).op = "RESIZE"
    /\ entregas' = Tail(entregas)
    /\ LET m == Head(entregas)
           aviso == [op |-> "RESIZE", pid |-> m.pid, pc |-> 0, dato |-> m.dato]
       IN  IF m.dato = "FALLO"
           THEN dispatch' = Append(dispatch, aviso) /\ UNCHANGED <<cpu, pedidos>>
           ELSE IF cpu.flag_interrupt
           THEN /\ dispatch' = dispatch \o <<aviso, Paquete(cpu, "PROCESO", "PARCIAL")>>
                /\ cpu' = [cpu EXCEPT !.flag_interrupt = FALSE]
                /\ UNCHANGED pedidos
           ELSE dispatch' = Append(dispatch, aviso) /\ Solicitar(cpu) /\ UNCHANGED cpu
    /\ UNCHANGED <<k, interrupt, respuestas, completados, memoria, interfaces>>

-----------------------------------------------------------------------------
(* Memoria                                                                 *)

\* KERNEL_MEMORIA_NUEVO_PROCESO and KERNEL_MEMORIA_FINALIZAR_PROCESO.
MemoriaKernel ==
    /\ ~ memoria.caida
    /\ k.a_memoria # << >>
    /\ k' = [k EXCEPT !.a_memoria = Tail(@)]
    /\ LET m == Head(k.a_memoria)
           Responder(leido) ==
              respuestas' = Append(respuestas, [pid |-> m.pid, leido |-> leido])
       IN  \/ /\ m.op = "NUEVO_PROCESO"
              /\ memoria' = [memoria EXCEPT !.procesos = @ \cup {m.pid}]
              /\ Responder(TRUE)
           \/ /\ m.op = "NUEVO_PROCESO" /\ PuedeRechazar
              /\ Responder(FALSE)
              /\ UNCHANGED memoria
           \/ /\ m.op = "FINALIZAR_PROCESO"
              /\ memoria' = [memoria EXCEPT !.procesos = @ \ {m.pid}]
              /\ UNCHANGED respuestas
    /\ UNCHANGED <<dispatch, interrupt, completados, cpu, pedidos, entregas, interfaces>>

\* The instruction at pc: past the end by one it is an EXIT.
InstruccionEn(p, pc) ==
    IF pc < Len(Programa[p]) THEN Programa[p][pc + 1]
    ELSE [op |-> "EXIT", dato |-> "EJECUTANDO"]

\* CPU_MEMORIA_PROXIMA_INSTRUCCION: no answer for a pid that memoria does not
\* hold; list_get beyond the end returns NULL, which is dereferenced.
MemoriaProximaInstruccion ==
    /\ ~ memoria.caida
    /\ pedidos # << >>
    /\ Head(pedidos).op = "PROXIMA_INSTRUCCION"
    /\ pedidos' = Tail(pedidos)
    /\ LET m == Head(pedidos) IN
       IF m.pid \notin memoria.procesos THEN UNCHANGED <<entregas, memoria>>
       ELSE IF m.pc > Len(Programa[m.pid])
       THEN memoria' = [memoria EXCEPT !.caida = TRUE] /\ UNCHANGED entregas
       ELSE /\ entregas' = Append(entregas,
                    [op |-> "PROXIMA_INSTRUCCION", pid |-> m.pid, pc |-> m.pc,
                     instruccion |-> InstruccionEn(m.pid, m.pc)])
            /\ UNCHANGED memoria
    /\ UNCHANGED <<k, dispatch, interrupt, respuestas, completados, cpu, interfaces>>

\* CPU_MEMORIA_RESIZE: there may or may not be room.
MemoriaResize ==
    /\ ~ memoria.caida
    /\ pedidos # << >>
    /\ Head(pedidos).op = "RESIZE"
    /\ pedidos' = Tail(pedidos)
    /\ \E dato \in {"OK", "FALLO"} :
          /\ dato = "OK" => Head(pedidos).pid \in memoria.procesos
          /\ entregas' = Append(entregas, [op |-> "RESIZE", pid |-> Head(pedidos).pid,
                                           dato |-> dato])
    /\ UNCHANGED <<k, dispatch, interrupt, respuestas, completados, cpu, memoria,
                   interfaces>>

-----------------------------------------------------------------------------
(* The GENERIC interface process                                           *)

\* A request starts a new timer over the one that may be running; an
\* interruption deletes the timer the interface knows.
InterfazRecibe(i) ==
    /\ k.a_io[i] # << >>
    /\ k' = [k EXCEPT !.a_io[i] = Tail(@)]
    /\ LET m == Head(k.a_io[i])
           d == interfaces[i]
       IN  interfaces' = [interfaces EXCEPT ![i] =
              IF m.op = "IO_GEN_SLEEP"
              THEN [d EXCEPT !.pid = m.pid,
                             !.armado = TRUE,
                             !.huerfanos = IF d.armado THEN @ + 1 ELSE @]
              ELSE [d EXCEPT !.armado = FALSE]]
    /\ UNCHANGED <<dispatch, interrupt, respuestas, completados, cpu, pedidos,
                   entregas, memoria>>

InterfazVence(i) ==
    /\ \/ /\ interfaces[i].armado
          /\ interfaces' = [interfaces EXCEPT ![i].armado = FALSE, ![i].avisos = @ + 1]
       \/ /\ interfaces[i].huerfanos > 0
          /\ interfaces' = [interfaces EXCEPT ![i].huerfanos = @ - 1, ![i].avisos = @ + 1]
    /\ UNCHANGED <<k, dispatch, interrupt, respuestas, completados, cpu, pedidos,
                   entregas, memoria>>

\* interfaz_manejador_temporizador reports the pid of the last request, not
\* of the one whose timer expired.
InterfazAvisa(i) ==
    /\ interfaces[i].avisos > 0
    /\ interfaces' = [interfaces EXCEPT ![i].avisos = @ - 1]
    /\ completados' = [completados EXCEPT ![i] = Append(@, interfaces[i].pid)]
    /\ UNCHANGED <<k, dispatch, interrupt, respuestas, cpu, pedidos, entregas, memoria>>

-----------------------------------------------------------------------------

SoloKernel == UNCHANGED <<cpu, pedidos, entregas, memoria, interfaces>>

PasoKernel == NextKernel /\ SoloKernel

PasoCpu ==
    \/ CpuEjecutarProceso
    \/ CpuInterrupcion
    \/ InstruccionCiclo
    \/ CpuResize

PasoMemoria ==
    \/ MemoriaKernel
    \/ MemoriaProximaInstruccion
    \/ MemoriaResize

PasoInterfaz ==
    \E i \in Interfaces : InterfazRecibe(i) \/ InterfazVence(i) \/ InterfazAvisa(i)

Next == PasoKernel \/ PasoCpu \/ PasoMemoria \/ PasoInterfaz

Spec == Init /\ [][Next]_vars
=============================================================================
