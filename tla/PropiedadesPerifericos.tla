------------------------ MODULE PropiedadesPerifericos -----------------------
(***************************************************************************)
(* What the system of module Perifericos promises, over the properties of  *)
(* module Propiedades that its runs check as well.                         *)
(***************************************************************************)
EXTENDS Perifericos, Propiedades

PaqueteCpu == [op : Operaciones \cup {"COPY_STRING_2"}, pid : Pids, pc : 0 .. MaxPc,
               dato : Datos]

\* Type invariant of what module Perifericos adds: the MMU's packet is one of
\* the CPU's, what an interface is asked is an operation of its type, and every
\* pid that travels is a real one.
TipoPerifericos ==
    /\ k.operacion \in [Pids -> OperacionesIo \cup {Ninguna}]
    /\ k.registro \subseteq Interfaces
    /\ k.liberadas \in BOOLEAN
    /\ mmu.posts \in Nat /\ mmu.esperando \in BOOLEAN /\ mmu.caida \in BOOLEAN
    /\ Len(mmu.paquete) <= 1 /\ Range(mmu.paquete) \subseteq PaqueteCpu
    /\ \A i \in ConRed :
          /\ periferico[i].vivo \in BOOLEAN
          /\ periferico[i].pedidos \in Seq(Pids) /\ periferico[i].respuestas \in Seq(Pids)
          /\ \A n \in DOMAIN k.a_io[i] :
                k.a_io[i][n].op # "IO_INTERRUPCION" => TipoDe(k.a_io[i][n].op) = TipoInterfaz[i]

\* What an interface is asked is what the process that is blocked asked: the
\* instruction before the pc it was saved with, on that interface, whether it
\* was sent at once or remembered in the PCB in the meantime.
PedidoPropio ==
    ~ k.caido =>
        \A i \in Interfaces : \A n \in DOMAIN k.a_io[i] :
            LET m == k.a_io[i][n] IN
            m.op # "IO_INTERRUPCION" =>
                \/ k.procesos[m.pid] = "EXIT"
                \/ /\ k.procesos[m.pid] = "BLOCK"
                   /\ k.pcb[m.pid].pc > 0
                   /\ InstruccionEn(m.pid, k.pcb[m.pid].pc - 1) = [op |-> m.op, dato |-> i]

\* The messages of the kernel to the CPU that dispatch a process.
Despachos == Len(SelectSeq(k.a_cpu, LAMBDA m : "aviso" \notin DOMAIN m))

\* The packets to the kernel that are not the notice of a copy that went well.
DevolucionesDe(q) == Devoluciones(SelectSeq(q, LAMBDA m : ~ (m.op = "COPY_STRING" /\ m.dato = "OK")))

\* ControlUnico with the MMU thread in the path: while nothing fails and nobody
\* is killed a process in EXEC has exactly one thread of control, in the
\* kernel's socket, memoria's, the MMU's semaphore or on its way back.
ControlUnicoPeriferico ==
    ~ k.caido /\ ~ memoria.caida =>
        Len(k.cola["EXEC"]) =
            Despachos + Len(pedidos) + Len(entregas) + Len(interrupt)
            + mmu.posts + DevolucionesDe(dispatch)

\* Whether interface i still has the request of p to finish.
EnManos(i, p) ==
    \/ \E n \in DOMAIN k.a_io[i] :
          k.a_io[i][n].pid = p /\ k.a_io[i][n].op # "IO_INTERRUPCION"
    \/ p \in Range(periferico[i].pedidos) \/ p \in Range(periferico[i].respuestas)
    \/ \E n \in DOMAIN completados[i] : completados[i][n].pid = p

\* No request is lost and none is done twice over: a busy interface is working
\* for the blocked process it is registered to, and whoever else is blocked
\* remembers an interface that is busy.
PedidosAtendidos ==
    ~ k.caido =>
        /\ \A i \in ConRed : k.io[i].ocupado =>
              k.procesos[k.io[i].pid] = "BLOCK" /\ EnManos(i, k.io[i].pid)
        /\ \A p \in Range(k.cola["BLOCK"]) :
              InterfacesDe(k, p) = {} =>
                  \E i \in Interfaces : k.pcb[p].proxima_io = i /\ k.io[i].ocupado

\* Nobody goes on while an interface still works for it: what wakes a process
\* is the end of its own request, even when the interface has queued behind it,
\* or in front, that of a process that was killed.
EsperaSuPedido ==
    ~ k.caido =>
        \A p \in Range(k.cola["READY"]) \cup Range(k.cola["EXEC"]) :
            \A i \in ConRed : ~ EnManos(i, p)

-----------------------------------------------------------------------------
(* Liveness                                                                *)

\* Every thread of every process goes on, the user at a STDIN keyboard types
\* what is asked, and the operator at the console need not type anything.
JusticiaPerifericos ==
    /\ WF_varsPerifericos(HiloPlanificador /\ SoloKernelPeriferico /\ SinImprevisto)
    /\ WF_varsPerifericos(TemporizadorVence /\ SoloKernelPeriferico /\ SinImprevisto)
    /\ WF_varsPerifericos(FinQuantum /\ SoloKernelPeriferico /\ SinImprevisto)
    /\ WF_varsPerifericos(AtenderMemoria /\ SoloKernelPeriferico /\ SinImprevisto)
    /\ WF_varsPerifericos((\/ DispatchProceso \/ DispatchResize
                           \/ DispatchWait \/ DispatchSignal
                           \/ DispatchStdoutWrite \/ DispatchStdinRead
                           \/ DispatchFsCreate \/ DispatchFsTruncate \/ DispatchFsWrite
                           \/ DispatchFsDelete \/ DispatchFsRead \/ DispatchCopyString)
                          /\ SoloKernelPeriferico /\ SinImprevisto)
    /\ WF_varsPerifericos(InterruptIoGenSleep /\ SoloKernelPeriferico /\ SinImprevisto)
    /\ WF_varsPerifericos(PasoCpuPeriferico)
    /\ WF_varsPerifericos(HiloMmu)
    /\ WF_varsPerifericos(CpuInterrupcion /\ UNCHANGED <<mmu, periferico, imprevistos>>)
    /\ WF_varsPerifericos(PasoMemoriaPeriferico)
    /\ \A i \in ConRed :
          /\ WF_varsPerifericos(AtenderPeriferico(i) /\ SoloKernelPeriferico /\ SinImprevisto)
          /\ WF_varsPerifericos(PerifericoRecibe(i))
          /\ WF_varsPerifericos(PerifericoAvisa(i))
          /\ WF_varsPerifericos(DialFsAtiende(i))
          /\ WF_varsPerifericos(MemoriaStdin(i))
          /\ WF_varsPerifericos(MemoriaStdout(i))
    /\ \A i \in Interfaces \ ConRed :
          /\ WF_varsPerifericos(AtenderCompletado(i) /\ SoloKernelPeriferico /\ SinImprevisto)
          /\ WF_varsPerifericos(InterfazRecibe(i) /\ UNCHANGED <<mmu, periferico, imprevistos>>)
          /\ WF_varsPerifericos(InterfazVence(i) /\ UNCHANGED <<mmu, periferico, imprevistos>>)
          /\ WF_varsPerifericos(InterfazAvisa(i) /\ UNCHANGED <<mmu, periferico, imprevistos>>)

SpecPerifericosJusta == SpecPerifericos /\ JusticiaPerifericos
=============================================================================
