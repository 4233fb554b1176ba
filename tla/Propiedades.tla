----------------------------- MODULE Propiedades -----------------------------
(***************************************************************************)
(* What the system of module Sistema promises.  Each property says which   *)
(* behaviour of the code it is about; README.md says which run checks it,  *)
(* and which theorem proves it.                                            *)
(***************************************************************************)
EXTENDS Sistema

TiposCpu == [pid : 0 .. MaxPid, pc : 0 .. MaxPc, flag_interrupt : BOOLEAN]

TiposInterfaz == [pid : 0 .. MaxPid, armado : BOOLEAN, huerfanos : Nat, avisos : Nat]

\* Type invariant: the kernel's record, the sockets and the states of the CPU,
\* memoria and the interfaces keep the types the C declarations give them, and
\* a pid that is about to be sent is a real one: the CPU has a process while it
\* talks to memoria, and an interface while it has something to report.
TypeOK ==
    /\ k \in EstadoKernel
    /\ dispatch \in Seq(Mensaje)
    /\ interrupt \in Seq(Mensaje)
    /\ respuestas \in Seq([pid : Pids, leido : BOOLEAN])
    /\ completados \in [Interfaces -> Seq(Pids)]
    /\ cpu \in TiposCpu
    /\ pedidos \in Seq(Pedido)
    /\ entregas \in Seq(Entrega)
    /\ memoria \in [procesos : SUBSET Pids, caida : BOOLEAN]
    /\ interfaces \in [Interfaces -> TiposInterfaz]
    /\ pedidos # << >> \/ entregas # << >> => cpu.pid \in Pids
    /\ \A i \in Interfaces :
          interfaces[i].armado \/ interfaces[i].huerfanos + interfaces[i].avisos > 0 =>
              interfaces[i].pid \in Pids

-----------------------------------------------------------------------------
(* Process table                                                           *)

\* A pid names one process: no two entries of the queues have the same pid.
\* procesos.h says new_pid returns a unique one; proceso_revertir takes one
\* back whenever memoria rejects a script.
PidUnico ==
    /\ \A estado \in Colas : IsInjective(k.cola[estado])
    /\ \A e, f \in Colas : e # f => Range(k.cola[e]) \cap Range(k.cola[f]) = {}

\* The dictionary procesos and the queues agree: a pid is in the list its
\* entry names and in no other, and a process that ended is in none.
\* transiciones.c keeps both by hand, and kernel_finalizar_proceso and
\* proceso_buscar trust one or the other.
ColasCoherentes ==
    ~ k.caido =>
        /\ PidUnico
        /\ \A estado \in Colas \ {"EXIT"}, p \in Pids :
              Esta(k, estado, p) <=> k.procesos[p] = estado
        /\ k.cola["EXIT"] = << >>

\* At most one process is in EXEC, whatever the order of tokens, packets,
\* quantum interrupts and kills: the planner is the only one that fills EXEC,
\* and it looks before it does.
ExecUnico == Len(k.cola["EXEC"]) <= 1

\* The notice that a RESIZE went well ends no turn: the CPU goes on by itself.
EsAviso(m) == m.op = "RESIZE" /\ m.dato = "OK"

\* How many messages can still end the turn of the process in EXEC, or be the
\* turn itself.
Devoluciones(q) == Cardinality({n \in DOMAIN q : ~ EsAviso(q[n])})

\* While nobody is killed from the console there is exactly one thread of
\* control between kernel, CPU and memoria for a process in EXEC, and none
\* when EXEC is empty: an instruction is never run twice, and a turn is never
\* returned twice or lost.
ControlUnico ==
    ~ k.caido /\ ~ memoria.caida =>
        Len(k.cola["EXEC"]) =
            Len(k.a_cpu) + Len(pedidos) + Len(entregas) + Len(interrupt)
            + Devoluciones(dispatch)

\* The CPU runs an instruction in the context it was fetched for: the reply
\* of memoria is for the pid and the pc of the registers, and that process is
\* the one in EXEC.  instruccion_recibir takes the reply without looking at
\* either.
InstruccionPropia ==
    \A n \in DOMAIN entregas :
        /\ entregas[n].pid = cpu.pid
        /\ entregas[n].op = "PROXIMA_INSTRUCCION" => entregas[n].pc = cpu.pc
        /\ k.cola["EXEC"] = <<cpu.pid>>

\* A process that ended stays ended: no late packet, completed I/O, signal or
\* quantum interrupt brings it back to a queue.
ExitDefinitivo ==
    [][\A p \in Pids : k.procesos[p] = "EXIT" => k'.procesos[p] = "EXIT"]_vars

-----------------------------------------------------------------------------
(* Planner                                                                 *)

HayListos == k.cola["READY"] # << >> \/ k.cola["READY_PRIORIDAD"] # << >>

\* No lost wake-up of the planner thread: when a process is ready and nothing
\* executes there is a token in planificador_iniciar, so that every handler
\* that empties EXEC or fills READY has posted.
SinDespertarPerdido ==
    ~ k.caido /\ ~ k.detener /\ HayListos /\ k.cola["EXEC"] = << >> =>
        k.planificador_iniciar > 0

\* No lost admission: when memoria accepted the head of NEW and the degree of
\* multiprogramming has room for it, the planner has a token.
AdmisionSinPerder ==
    ~ k.caido /\ ~ k.detener /\ Admitidos(k) > 0 => k.planificador_iniciar > 0

\* The long term planner admits up to the degree of multiprogramming, the one
\* in force at that turn, and in the order of creation.
GradoRespetado ==
    [][Len(k'.cola["NEW"]) < Len(k.cola["NEW"]) /\ HiloPlanificador =>
            /\ Concurrentes(k') <= k.grado
            /\ IsSuffix(k'.cola["NEW"], k.cola["NEW"])]_vars

\* Whatever can still take the CPU from the process in EXEC.
FinDeTurnoPendiente ==
    \/ k.timer.armado \/ k.timer.huerfanos > 0 \/ k.timer.avisos > 0
    \/ k.a_interrupt # << >> \/ cpu.flag_interrupt
    \/ Devoluciones(dispatch) > 0 \/ interrupt # << >>

\* Under RR and VRR a process in EXEC always has something that will end its
\* turn: no process keeps the CPU because its timer was lost.
ConQuantum ==
    Algoritmo # "FIFO" /\ ~ k.caido /\ k.cola["EXEC"] # << >> => FinDeTurnoPendiente

\* A quantum timer runs only while a process executes, and only one: every
\* path out of EXEC deletes the timer that the planner armed.
TemporizadorDelTurno ==
    ~ k.caido =>
        /\ k.timer.armado => k.cola["EXEC"] # << >>
        /\ k.timer.huerfanos = 0

-----------------------------------------------------------------------------
(* Memoria                                                                 *)

\* memoria holds the script of every process it accepted that has not ended,
\* and it forgets those that ended: the notices that make it so are on their
\* way whenever it is not so yet.
MemoriaAlDia ==
    ~ k.caido =>
        \A p \in Pids :
            LET aviso(op) == \E n \in DOMAIN k.a_memoria :
                                k.a_memoria[n] = [op |-> op, pid |-> p]
            IN  /\ k.procesos[p] \in Colas \ {"EXIT"} /\ k.pcb[p].memoria_aceptado =>
                        p \in memoria.procesos /\ ~ aviso("FINALIZAR_PROCESO")
                /\ k.procesos[p] = "EXIT" /\ p \in memoria.procesos =>
                        aviso("FINALIZAR_PROCESO")

-----------------------------------------------------------------------------
(* Resources and interfaces                                                *)

\* The lists of the resources and the BLOCK queue agree: whoever a resource
\* holds is blocked, in one list and once.
BloqueadosCoherentes ==
    \A r \in Recursos :
        /\ IsInjective(k.recursos[r].bloqueados)
        /\ \A p \in Range(k.recursos[r].bloqueados) :
              k.procesos[p] = "BLOCK" /\ RecursosDe(k, p) = {r}

\* How many instances of r process p holds: what its dictionary counts, less
\* the one it still waits for.
Tomadas(p, r) == k.pcb[p].recursos_tomados[r]
                 - (IF r \in RecursosDe(k, p) THEN 1 ELSE 0)

\* Never more instances of a resource are held than the configuration gives:
\* recursos_tomados is, as procesos.h says of it, the number of instances the
\* process has taken.
TomadasDisponibles ==
    ~ k.caido =>
        \A r \in Recursos :
            MapThenSumSet(LAMBDA p : Tomadas(p, r), Pids)
                <= InstanciasIniciales[r]

\* No process waits for a resource that has an instance to give.
SinEsperaOciosa ==
    \A r \in Recursos :
        k.recursos[r].bloqueados # << >> => k.recursos[r].instancias < 0

\* The requests of GENERIC sleep that interface i has not completed.
EnCurso(i) ==
    Len(SelectSeq(k.a_io[i], LAMBDA m : m.op = "IO_GEN_SLEEP"))
    + (IF interfaces[i].armado THEN 1 ELSE 0)
    + interfaces[i].huerfanos + interfaces[i].avisos
    + Len(completados[i])

\* One request at a time per interface: kernel_proximo_io_generic sends the
\* next process, not the next processes.
UnaIoPorVez == \A i \in Interfaces : EnCurso(i) <= 1

\* Whether interface i will still report the end of p's request.
Reportara(i, p) ==
    \/ \E n \in DOMAIN k.a_io[i] : k.a_io[i][n] = [op |-> "IO_GEN_SLEEP", pid |-> p]
    \/ interfaces[i].pid = p
       /\ (interfaces[i].armado \/ interfaces[i].huerfanos > 0 \/ interfaces[i].avisos > 0)
    \/ p \in Range(completados[i])

\* A process in BLOCK that no resource lists waits for an interface that will get to
\* it: its own request is in course there, or the interface is busy with a request
\* in course, whose end sends what is remembered (kernel_proximo_io_generic).  And
\* whoever remembers an interface is in the list of no resource, because that search
\* skips those who are.
PeticionAtendida ==
    ~ k.caido =>
        \A p \in Range(k.cola["BLOCK"]) :
            LET recordada == k.pcb[p].proxima_io
            IN  /\ recordada # SinIo =>
                      /\ RecursosDe(k, p) = {}
                      /\ k.io[recordada].ocupado
                      /\ Reportara(recordada, k.io[recordada].pid)
                /\ recordada = SinIo /\ RecursosDe(k, p) = {} =>
                      \E i \in InterfacesDe(k, p) : Reportara(i, p)

\* Killing a process that waits for a resource frees whoever waits for a resource it
\* held: the operator can undo a deadlock of two processes over two resources
\* (kernel_signal with motive INTERRUPCION gives back all that the process it pops had
\* taken; with more users in one list that need not be the process killed).
MatarSepara ==
    [][\A p \in Pids :
          /\ k.procesos[p] = "BLOCK" /\ RecursosDe(k, p) # {}
          /\ k'.procesos[p] = "EXIT" /\ ~ k'.caido
          => \A r \in Recursos : Tomadas(p, r) > 0 =>
                \A q \in Range(k.recursos[r].bloqueados) : k'.procesos[q] # "BLOCK"]_vars

\* No handler of the kernel dereferences NULL and no fetch of memoria runs past
\* the script, while nobody is killed from the console.
SinCaidas == ~ k.caido /\ ~ memoria.caida

-----------------------------------------------------------------------------
(* Liveness                                                                *)

\* Every process that was created ends: admitted, given the CPU again after
\* every quantum and every block, and finished.
Termina == \A p \in Pids : k.procesos[p] = "NEW" ~> k.procesos[p] = "EXIT"

\* A process in READY eventually executes.
ListoEjecuta ==
    \A p \in Pids : k.procesos[p] = "READY" ~> k.procesos[p] \in {"EXEC", "EXIT"}
=============================================================================
