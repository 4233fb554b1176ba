------------------------------- MODULE Kernel -------------------------------
(***************************************************************************)
(* The kernel process: one action per console command, per turn of the     *)
(* planner thread, per packet its attention threads receive, and per       *)
(* quantum timer.  Each action is a whole handler.                         *)
(*                                                                         *)
(* k is the kernel's memory (module Procesos).  The other variables are    *)
(* the sockets it reads, each a FIFO that another process writes.          *)
(***************************************************************************)
EXTENDS InterfacesKernel

CONSTANTS
    Comandos,        \* console commands the operator uses besides INICIAR_PROCESO
    Grados,          \* degrees of multiprogramming, the configured one included
    GradoInicial,    \* GRADO_MULTIPROGRAMACION of the kernel's config
    Argumentos,      \* names of resources and interfaces programs mention
    OperadorEspera,  \* INICIAR_PROCESO only once memoria answered the last one
    TopeSemaforo,    \* bound: tokens in planificador_iniciar when the operator
                     \* adds one by INICIAR_PLANIFICACION
    DespachoOportuno \* the CPU reads a dispatched process before its quantum ends

ASSUME ConsolaAssumption ==
    /\ Comandos \subseteq {"FINALIZAR_PROCESO", "DETENER_PLANIFICACION",
                           "INICIAR_PLANIFICACION", "MULTIPROGRAMACION"}
    /\ Grados \subseteq Nat /\ GradoInicial \in Grados
    /\ OperadorEspera \in BOOLEAN /\ DespachoOportuno \in BOOLEAN
    /\ TopeSemaforo \in Nat

VARIABLES
    k,             \* the kernel's memory
    dispatch,      \* cpu -> kernel, dispatch socket
    interrupt,     \* cpu -> kernel, interrupt socket
    respuestas,    \* memoria -> kernel
    completados    \* interfaces -> kernel, one socket each

entradas == <<dispatch, interrupt, respuestas, completados>>

varsKernel == <<k, dispatch, interrupt, respuestas, completados>>

EstadoKernel ==
    [ pid                  : Int,
      cola                 : [Colas -> Seq(Pids)],
      procesos             : [Pids -> Colas \cup {SinEstado}],
      pcb                  : [Pids -> Pcb],
      recursos             : [Recursos -> Recurso],
      io                   : [Interfaces -> Interfaz],
      planificador_iniciar : Nat,
      detener              : BOOLEAN,
      grado                : Nat,
      timer                : Temporizador,
      a_cpu                : Seq([pid : Pids, pc : 0 .. MaxPc]),
      a_interrupt          : Seq(Pids),
      a_memoria            : Seq([op : {"NUEVO_PROCESO", "FINALIZAR_PROCESO"}, pid : Pids]),
      a_io                 : [Interfaces -> Seq(PaqueteIo)],
      caido                : BOOLEAN ]

Libre == [ocupado |-> FALSE, pid |-> 0]

KernelInicial ==
    [ pid                  |-> 0,
      cola                 |-> [estado \in Colas |-> << >>],
      procesos             |-> [p \in Pids |-> SinEstado],
      pcb                  |-> [p \in Pids |-> PcbCrear],
      recursos             |-> RecursoInit,
      io                   |-> [i \in Interfaces |-> Libre],
      planificador_iniciar |-> 0,
      detener              |-> FALSE,
      grado                |-> GradoInicial,
      timer                |-> [armado |-> FALSE, huerfanos |-> 0, avisos |-> 0],
      a_cpu                |-> << >>,
      a_interrupt          |-> << >>,
      a_memoria            |-> << >>,
      a_io                 |-> [i \in Interfaces |-> << >>],
      caido                |-> FALSE ]

InitKernel ==
    /\ k = KernelInicial
    /\ dispatch = << >>
    /\ interrupt = << >>
    /\ respuestas = << >>
    /\ completados = [i \in Interfaces |-> << >>]

-----------------------------------------------------------------------------
(* Console                                                                 *)

\* The creation of a process that memoria has not answered yet.
CreacionPendiente ==
    \E p \in Range(k.cola["NEW"]) : ~ k.pcb[p].memoria_aceptado

NuevoProceso(s, p) ==
    LET t == Push([s EXCEPT !.pid = p, !.pcb[p] = PcbCrear], "NEW", p)
    IN  [t EXCEPT !.a_memoria = Append(@, [op |-> "NUEVO_PROCESO", pid |-> p])]

IniciarProceso ==
    /\ ~ k.caido
    /\ k.pid + 1 \in Pids
    /\ OperadorEspera => ~ CreacionPendiente
    /\ k' = NuevoProceso(k, k.pid + 1)
    /\ UNCHANGED entradas

\* FINALIZAR_PROCESO p, by the state in which the console thread finds p; a
\* pid that does not exist or is in EXIT changes nothing.
FinalizarProceso(p) ==
    /\ ~ k.caido
    /\ "FINALIZAR_PROCESO" \in Comandos
    /\ Finalizable(k, p)
    /\ UNCHANGED entradas
    /\ \/ /\ k.procesos[p] = "EXEC"
          /\ k' = FinalizarEnExec(k, p)
       \/ /\ k.procesos[p] = "BLOCK"
          /\ \E r \in RecursosDe(k, p), falla \in BOOLEAN :
                \E orden \in OrdenesAlInterrumpir(k, p, r) :
                    k' = FinalizarEnRecurso(k, p, r, orden, falla)
       \/ /\ k.procesos[p] = "BLOCK"
          /\ RecursosDe(k, p) = {}
          /\ \E i \in InterfacesDe(k, p) : k' = FinalizarEnInterfaz(k, p, i)
       \/ /\ k.procesos[p] = "BLOCK"
          /\ RecursosDe(k, p) = {} /\ InterfacesDe(k, p) = {}
          /\ k' = FinalizarEnEspera(k, p)
       \/ /\ k.procesos[p] \notin {"EXEC", "BLOCK"}
          /\ k' = FinalizarEnCola(k, p)

DetenerPlanificacion ==
    /\ ~ k.caido
    /\ "DETENER_PLANIFICACION" \in Comandos
    /\ ~ k.detener
    /\ k' = [k EXCEPT !.detener = TRUE]
    /\ UNCHANGED entradas

IniciarPlanificacion ==
    /\ ~ k.caido
    /\ "INICIAR_PLANIFICACION" \in Comandos
    /\ k.planificador_iniciar < TopeSemaforo
    /\ k' = Avisar([k EXCEPT !.detener = FALSE])
    /\ UNCHANGED entradas

Multiprogramacion(g) ==
    /\ ~ k.caido
    /\ "MULTIPROGRAMACION" \in Comandos
    /\ k.grado # g
    /\ k' = [k EXCEPT !.grado = g]
    /\ UNCHANGED entradas

-----------------------------------------------------------------------------
(* The planner thread                                                      *)

Concurrentes(s) == Len(s.cola["READY"]) + Len(s.cola["EXEC"])
                   + Len(s.cola["BLOCK"]) + Len(s.cola["READY_PRIORIDAD"])

\* Mutant: off by one in the degree.
AdmitidosDeMas(s) ==
    Min({n \in 0 .. Len(s.cola["NEW"]) :
            \/ n = Len(s.cola["NEW"])
            \/ Concurrentes(s) + n > s.grado
            \/ ~ s.pcb[s.cola["NEW"][n + 1]].memoria_aceptado})

\* How many heads of NEW the loop of planificacion_largo_plazo moves: it
\* stops at the degree, at the end of NEW, and in effect at the first process
\* memoria has not accepted.
Admitidos(s) ==
    LET nuevos == s.cola["NEW"]
    IN  Min({n \in 0 .. Len(nuevos) :
                \/ n = Len(nuevos)
                \/ Concurrentes(s) + n >= s.grado
                \/ ~ s.pcb[nuevos[n + 1]].memoria_aceptado})

\* The kernel_transicion_new_ready of the first n processes of NEW.
NewReady(s, n) ==
    LET nuevos == s.cola["NEW"]
        listos == SubSeq(nuevos, 1, n)
    IN  [s EXCEPT
            !.cola["NEW"] = SubSeq(nuevos, n + 1, Len(nuevos)),
            !.cola["READY"] = @ \o listos,
            !.procesos = [p \in Pids |-> IF p \in Range(listos) THEN "READY" ELSE @[p]]]

LargoPlazo(s) == NewReady(s, Admitidos(s))

\* kernel_desalojar_proceso, for the process that has just been sent.
Desalojar(s, p) == IF s.procesos[p] = "EXEC" THEN IniciarTemporizador(s) ELSE s

Fifo(s) == IF s.cola["EXEC"] # << >> THEN s ELSE ReadyExec(s)

\* Mutant: EXEC is not looked at.
TurnoSinMirar(s) ==
    IF s.cola["READY"] = << >> THEN s
    ELSE Desalojar(ReadyExec(s), Head(s.cola["READY"]))

RoundRobin(s) ==
    IF s.cola["EXEC"] # << >> \/ s.cola["READY"] = << >> THEN s
    ELSE Desalojar(ReadyExec(s), Head(s.cola["READY"]))

\* Mutant: a process of READY_PRIORIDAD runs without a timer.
PrioridadSinTemporizador(s) ==
    IF s.cola["EXEC"] # << >> THEN s
    ELSE IF s.cola["READY_PRIORIDAD"] # << >> THEN ReadyExecMayorPrioridad(s)
    ELSE RoundRobin(s)

VirtualRoundRobin(s) ==
    IF s.cola["EXEC"] # << >> THEN s
    ELSE IF s.cola["READY_PRIORIDAD"] # << >>
    THEN Desalojar(ReadyExecMayorPrioridad(s), Head(s.cola["READY_PRIORIDAD"]))
    ELSE RoundRobin(s)

CortoPlazo(s) ==
    CASE Algoritmo = "FIFO" -> Fifo(s)
      [] Algoritmo = "RR"   -> RoundRobin(s)
      [] Algoritmo = "VRR"  -> VirtualRoundRobin(s)

\* Mutant: sem_trywait in place of sem_wait.
PlanificadorSinEsperar ==
    /\ ~ k.caido
    /\ k' = CortoPlazo(LargoPlazo([k EXCEPT !.planificador_iniciar = @ - 1]))
    /\ UNCHANGED entradas

\* One turn of hilo_planificador: while the planning is stopped the token is
\* consumed and nothing else happens.
HiloPlanificador ==
    /\ ~ k.caido
    /\ k.planificador_iniciar > 0
    /\ LET t == [k EXCEPT !.planificador_iniciar = @ - 1]
       IN  k' = IF t.detener THEN t ELSE CortoPlazo(LargoPlazo(t))
    /\ UNCHANGED entradas

-----------------------------------------------------------------------------
(* The quantum timers                                                      *)

TemporizadorVence ==
    /\ ~ k.caido
    /\ \/ /\ k.timer.armado
          /\ DespachoOportuno => k.a_cpu = << >>
          /\ k' = [k EXCEPT !.timer.armado = FALSE, !.timer.avisos = @ + 1]
       \/ /\ k.timer.huerfanos > 0
          /\ k' = [k EXCEPT !.timer.huerfanos = @ - 1, !.timer.avisos = @ + 1]
    /\ UNCHANGED entradas

\* Mutant: the kernel takes the process out of EXEC without waiting for the CPU.
FinQuantumInmediato ==
    /\ ~ k.caido
    /\ k.timer.avisos > 0
    /\ k' = Avisar(ExecReady([k EXCEPT !.timer.avisos = @ - 1]))
    /\ UNCHANGED entradas

\* kernel_fin_quantum interrupts whatever is in EXEC by the time it runs.
FinQuantum ==
    /\ ~ k.caido
    /\ k.timer.avisos > 0
    /\ LET t == [k EXCEPT !.timer.avisos = @ - 1]
       IN  k' = IF t.cola["EXEC"] = << >> THEN t
                ELSE InterrumpirCpu(t, Head(t.cola["EXEC"]))
    /\ UNCHANGED entradas

-----------------------------------------------------------------------------
(* Packets from memoria                                                    *)

\* Mutant: the planner is not told of an accepted process.
ResponderSinAviso(s, p, leido) ==
    IF ~ leido THEN Revertir(s, p) ELSE [s EXCEPT !.pcb[p].memoria_aceptado = TRUE]

\* Mutant: a process that ended meanwhile is reverted like any other.
ResponderSinExit(s, p, leido) ==
    IF ~ leido THEN Revertir(s, p)
    ELSE IF ~ Esta(s, "NEW", p) THEN s
    ELSE Avisar([s EXCEPT !.pcb[p].memoria_aceptado = TRUE])

\* MEMORIA_KERNEL_NUEVO_PROCESO
ResponderNuevoProceso(s, p, leido) ==
    IF s.procesos[p] = SinEstado THEN Caer(s)
    ELSE IF s.procesos[p] = "EXIT" THEN s
    ELSE IF ~ leido THEN Revertir(s, p)
    ELSE IF ~ Esta(s, "NEW", p) THEN s
    ELSE Avisar([s EXCEPT !.pcb[p].memoria_aceptado = TRUE])

AtenderMemoria ==
    /\ ~ k.caido
    /\ respuestas # << >>
    /\ respuestas' = Tail(respuestas)
    /\ k' = ResponderNuevoProceso(k, Head(respuestas).pid, Head(respuestas).leido)
    /\ UNCHANGED <<dispatch, interrupt, completados>>

-----------------------------------------------------------------------------
(* Packets from the CPU                                                    *)

\* What a packet of the CPU carries besides the registers: the outcome of the
\* instruction cycle or of RESIZE, or the name an instruction gives.
Datos == {"EJECUTANDO", "PARCIAL", "ERROR", "OK", "FALLO"} \cup Argumentos

Mensaje == [op : {"PROCESO", "WAIT", "SIGNAL", "RESIZE", "IO_GEN_SLEEP"},
            pid : Pids, pc : 0 .. MaxPc, dato : Datos]

\* The answers interrumpir_temporizador may give; only VRR looks at them.
Restos == IF Algoritmo = "VRR" THEN BOOLEAN ELSE {FALSE}

\* Mutant: no token after a process that ran partially.
AtenderProcesoSinAviso(s, m, resto) ==
    IF m.dato = "EJECUTANDO"
    THEN Avisar(FinalizarExito(InterrumpirTemporizador(s), m.pid))
    ELSE ManejarExecReady(ActualizarRegistros(s, m.pid, m.pc), m.pid, resto)

\* CPU_KERNEL_PROCESO.  dato is proceso.ejecutado.
AtenderProceso(s, m, resto) ==
    LET enExec == Esta(s, "EXEC", m.pid) IN
    IF s.procesos[m.pid] = SinEstado THEN Caer(s)
    ELSE IF s.procesos[m.pid] = "EXIT" THEN Avisar(s)
    ELSE IF m.dato = "EJECUTANDO"
    THEN Avisar(IF enExec THEN FinalizarExito(InterrumpirTemporizador(s), m.pid)
                ELSE s)
    ELSE IF enExec
    THEN Avisar(ManejarExecReady(ActualizarRegistros(s, m.pid, m.pc), m.pid, resto))
    ELSE s

\* CPU_KERNEL_RESIZE.  A process that is not in EXEC is finished, and the
\* timer of whoever is in EXEC is deleted; a success only adds a token.
AtenderResize(s, m, resto) ==
    IF ~ Esta(s, "EXEC", m.pid)
    THEN FinalizarSinMemoria(InterrumpirTemporizador(s), m.pid)
    ELSE IF m.dato = "OK" THEN Avisar(s)
    ELSE Avisar(FinalizarSinMemoria(GuardarQuantum(s, m.pid, resto), m.pid))

\* CPU_KERNEL_WAIT and CPU_KERNEL_SIGNAL dereference the PCB they look up in
\* EXEC without a check.  dato is the name of the resource.
AtenderWait(s, m, resto) ==
    IF ~ Esta(s, "EXEC", m.pid) THEN Caer(s)
    ELSE Avisar(Wait(ActualizarRegistros(s, m.pid, m.pc), m.pid, m.dato, resto))

AtenderSignal(s, m, resto, cabeza) ==
    IF ~ Esta(s, "EXEC", m.pid) THEN Caer(s)
    ELSE Avisar(Signal(ActualizarRegistros(s, m.pid, m.pc), m.pid, m.dato,
                       resto, cabeza))

RecibirDispatch(op) ==
    /\ ~ k.caido
    /\ dispatch # << >>
    /\ Head(dispatch).op = op
    /\ dispatch' = Tail(dispatch)
    /\ UNCHANGED <<interrupt, respuestas, completados>>

DispatchProceso ==
    /\ RecibirDispatch("PROCESO")
    /\ \E resto \in Restos : k' = AtenderProceso(k, Head(dispatch), resto)

DispatchResize ==
    /\ RecibirDispatch("RESIZE")
    /\ \E resto \in Restos : k' = AtenderResize(k, Head(dispatch), resto)

DispatchWait ==
    /\ RecibirDispatch("WAIT")
    /\ \E resto \in Restos : k' = AtenderWait(k, Head(dispatch), resto)

DispatchSignal ==
    /\ RecibirDispatch("SIGNAL")
    /\ LET m == Head(dispatch) IN
       \E resto \in Restos, cabeza \in CabezasLeidas(k, m.pid, m.dato) :
            k' = AtenderSignal(k, m, resto, cabeza)

\* CPU_KERNEL_IO_GEN_SLEEP arrives on the interrupt socket, read by a thread
\* of its own.
InterruptIoGenSleep ==
    /\ ~ k.caido
    /\ interrupt # << >>
    /\ interrupt' = Tail(interrupt)
    /\ LET m == Head(interrupt) IN
       \E resto \in Restos : k' = PedirIoGenSleep(k, m.pid, m.pc, m.dato, resto)
    /\ UNCHANGED <<dispatch, respuestas, completados>>

-----------------------------------------------------------------------------
(* Packets from the interfaces                                             *)

\* ENTRADA_SALIDA_KERNEL_IO_GEN_SLEEP on the socket of interface i.
AtenderCompletado(i) ==
    /\ ~ k.caido
    /\ completados[i] # << >>
    /\ completados' = [completados EXCEPT ![i] = Tail(@)]
    /\ LET p == Head(completados[i])
           registradas == IF InterfacesDe(k, p) = {} THEN {i} ELSE InterfacesDe(k, p)
       IN  \E registrada \in registradas :
              k' = CompletarIoGenSleep(k, i, p, registrada)
    /\ UNCHANGED <<dispatch, interrupt, respuestas>>

NextKernel ==
    \/ IniciarProceso
    \/ \E p \in Pids : FinalizarProceso(p)
    \/ DetenerPlanificacion
    \/ IniciarPlanificacion
    \/ \E g \in Grados : Multiprogramacion(g)
    \/ HiloPlanificador
    \/ TemporizadorVence
    \/ FinQuantum
    \/ AtenderMemoria
    \/ DispatchProceso
    \/ DispatchResize
    \/ DispatchWait
    \/ DispatchSignal
    \/ InterruptIoGenSleep
    \/ \E i \in Interfaces : AtenderCompletado(i)
=============================================================================
