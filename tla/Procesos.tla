------------------------------ MODULE Procesos ------------------------------
(***************************************************************************)
(* The kernel's process table: the PCBs, the six state queues of           *)
(* t_diagrama_estados, the dictionary that names the state of every pid,   *)
(* the transitions between queues and the quantum timer.                   *)
(*                                                                         *)
(* The whole memory of the kernel is one record s (t_kernel together with  *)
(* t_diagrama_estados).  Every C function that changes it is an operator   *)
(* from a record to the next record, so that a handler that calls several  *)
(* functions is the composition of their operators.  What the kernel       *)
(* writes into a socket is appended to one of the a_... fields and stays   *)
(* there until the process at the other end reads it.                      *)
(***************************************************************************)
EXTENDS Integers, Sequences, FiniteSets, SequencesExt

CONSTANTS
    MaxPid,      \* bound: pids the kernel hands out
    MaxPc,       \* bound: instructions of the longest program
    Algoritmo,   \* ALGORITMO_PLANIFICACION of the kernel's config
    Recursos,    \* RECURSOS of the kernel's config
    Interfaces   \* the I/O interfaces that are connected

ASSUME LimitesAssumption == MaxPid \in Nat \ {0} /\ MaxPc \in Nat
ASSUME AlgoritmoAssumption == Algoritmo \in {"FIFO", "RR", "VRR"}

Pids == 1 .. MaxPid

Colas == {"NEW", "READY", "READY_PRIORIDAD", "EXEC", "BLOCK", "EXIT"}

\* A pid without an entry in the dictionary: proceso_estado returns NULL.
SinEstado == "NULL"

\* A PCB whose proxima_io has tiene_proxima_io == false.
SinIo == "SIN_IO"

(***************************************************************************)
(* t_pcb.  Of the registers only the program counter is kept, and of the   *)
(* quantum whether it exceeds the 100 ms of proceso_tiene_prioridad (every *)
(* QUANTUM of the shipped configurations does).  The dictionary            *)
(* recursos_tomados is its keys, the resources the process has ever asked  *)
(* for, and their counts.                                                  *)
(***************************************************************************)
Pcb == [ pc               : 0 .. MaxPc,
         quantum_largo    : BOOLEAN,
         memoria_aceptado : BOOLEAN,
         proxima_io       : Interfaces \cup {SinIo},
         claves_tomados   : SUBSET Recursos,
         recursos_tomados : [Recursos -> Int] ]

PcbCrear == [ pc               |-> 0,
              quantum_largo    |-> TRUE,
              memoria_aceptado |-> FALSE,
              proxima_io       |-> SinIo,
              claves_tomados   |-> {},
              recursos_tomados |-> [r \in Recursos |-> 0] ]

-----------------------------------------------------------------------------
(* Queues and dictionary.                                                  *)

\* proceso_push_new, _ready, _exec, _block, _exit and _cola_prioritaria.
Push(s, estado, p) ==
    [s EXCEPT !.cola[estado] = Append(@, p), !.procesos[p] = estado]

\* proceso_pop_new, _ready, _exec and _cola_prioritaria on a list that is
\* not empty.
Pop(s, estado) == [s EXCEPT !.cola[estado] = Tail(@)]

\* list_remove at the first position that holds p.
Quitar(q, p) == RemoveAt(q, Min({i \in DOMAIN q : q[i] = p}))

\* Whether pid p is found in the list of a state.
Esta(s, estado, p) == p \in Range(s.cola[estado])

\* proceso_buscar: any of the six lists.
Buscar(s, p) == \E estado \in Colas : Esta(s, estado, p)

\* A NULL dereference ends the kernel process: nothing runs after it.
Caer(s) == [s EXCEPT !.caido = TRUE]

\* Mutant: the dictionary is not told.
MatarSinDiccionario(s, p) ==
    IF s.procesos[p] \in Colas /\ Esta(s, s.procesos[p], p)
    THEN [s EXCEPT !.cola[s.procesos[p]] = Quitar(@, p)] ELSE s

\* proceso_matar looks p up in the list its dictionary entry names; there is
\* no list for READY_PRIORIDAD, so list_size(NULL) faults.  The PCB is freed.
Matar(s, p) ==
    LET estado == s.procesos[p] IN
    IF estado \in {"READY_PRIORIDAD", SinEstado} THEN Caer(s)
    ELSE IF ~ Esta(s, estado, p) THEN s
    ELSE [s EXCEPT !.cola[estado] = Quitar(@, p),
                   !.pcb[p] = PcbCrear,
                   !.procesos[p] = "EXIT"]

\* proceso_revertir: a position that is not found is taken as position 0, and
\* the global pid counter goes back by one whatever pid is reverted.
Revertir(s, p) ==
    LET q == s.cola["NEW"] IN
    [s EXCEPT !.cola["NEW"] = IF q = << >> THEN q
                              ELSE IF p \in Range(q) THEN Quitar(q, p)
                              ELSE Tail(q),
              !.procesos[p] = SinEstado,
              !.pid = @ - 1]

-----------------------------------------------------------------------------
(* The semaphore of the planner thread and the messages to other modules.  *)

\* avisar_planificador, sem_post(&planificador_iniciar).
Avisar(s) == [s EXCEPT !.planificador_iniciar = @ + 1]

\* KERNEL_CPU_EJECUTAR_PROCESO with the registers of the PCB.
EnviarEjecutar(s, p) ==
    [s EXCEPT !.a_cpu = Append(@, [pid |-> p, pc |-> s.pcb[p].pc])]

InterrumpirCpu(s, p) == [s EXCEPT !.a_interrupt = Append(@, p)]

AvisarMemoriaFinalizacion(s, p) ==
    [s EXCEPT !.a_memoria = Append(@, [op |-> "FINALIZAR_PROCESO", pid |-> p])]

-----------------------------------------------------------------------------
(* The quantum timer.  armado: the timer args->timer names is running.     *)
(* huerfanos: running timers that a later timer_create has overwritten, so *)
(* nothing can delete them any more.  avisos: notifications of timers that *)
(* expired and whose SIGEV_THREAD thread has not run yet.                  *)

Temporizador == [armado : BOOLEAN, huerfanos : Nat, avisos : Nat]

IniciarTemporizador(s) ==
    [s EXCEPT !.timer.huerfanos = IF s.timer.armado THEN @ + 1 ELSE @,
              !.timer.armado = TRUE]

InterrumpirTemporizador(s) ==
    IF Algoritmo = "FIFO" THEN s ELSE [s EXCEPT !.timer.armado = FALSE]

\* Whether the value interrumpir_temporizador returns exceeds 100: it is 0
\* under FIFO, -1 or 0 when no timer runs, and otherwise the milliseconds of
\* the current second, which may be any number (resto).
QuantumRestante(s, resto) == resto /\ Algoritmo # "FIFO" /\ s.timer.armado

\* pcb->quantum = interrumpir_temporizador(args)
GuardarQuantum(s, p, resto) ==
    [InterrumpirTemporizador(s) EXCEPT
        !.pcb[p].quantum_largo = QuantumRestante(s, resto)]

TienePrioridad(quantum_largo) == Algoritmo = "VRR" /\ quantum_largo

-----------------------------------------------------------------------------
(* transiciones.c                                                          *)

\* From the head of one list to the end of another; an empty list is left
\* as it is.
Mover(s, de, a) ==
    IF s.cola[de] = << >> THEN s ELSE Push(Pop(s, de), a, Head(s.cola[de]))

ExecReady(s) == Mover(s, "EXEC", "READY")

ExecReadyMayorPrioridad(s) == Mover(s, "EXEC", "READY_PRIORIDAD")

ExecBlock(s) == Mover(s, "EXEC", "BLOCK")

ExecExit(s) ==
    IF s.cola["EXEC"] = << >> THEN s ELSE Avisar(Mover(s, "EXEC", "EXIT"))

ReadyExec(s) ==
    IF s.cola["READY"] = << >> THEN s
    ELSE EnviarEjecutar(Mover(s, "READY", "EXEC"), Head(s.cola["READY"]))

ReadyExecMayorPrioridad(s) ==
    IF s.cola["READY_PRIORIDAD"] = << >> THEN s
    ELSE EnviarEjecutar(Mover(s, "READY_PRIORIDAD", "EXEC"),
                        Head(s.cola["READY_PRIORIDAD"]))

\* proceso_remover_block followed by the push: out of the middle of BLOCK.
SacarDeBlock(s, p, a) ==
    IF ~ Esta(s, "BLOCK", p) THEN s
    ELSE Push([s EXCEPT !.cola["BLOCK"] = Quitar(@, p)], a, p)

BlockReady(s, p) == SacarDeBlock(s, p, "READY")

BlockReadyMayorPrioridad(s, p) == SacarDeBlock(s, p, "READY_PRIORIDAD")

BlockExit(s, p) == SacarDeBlock(s, p, "EXIT")

\* kernel_manejar_ready(args, p, EXEC_READY)
ManejarExecReady(s, p, resto) ==
    IF ~ Esta(s, "EXEC", p) THEN s
    ELSE IF Algoritmo = "FIFO" THEN ExecReady(s)
    ELSE IF TienePrioridad(QuantumRestante(s, resto))
    THEN ExecReadyMayorPrioridad(
            [InterrumpirTemporizador(s) EXCEPT !.pcb[p].quantum_largo = TRUE])
    ELSE ExecReady(InterrumpirTemporizador(s))

\* kernel_manejar_ready(args, p, BLOCK_READY)
ManejarBlockReady(s, p) ==
    IF TienePrioridad(s.pcb[p].quantum_largo)
    THEN BlockReadyMayorPrioridad(s, p)
    ELSE BlockReady(s, p)
=============================================================================
