---------------------------- MODULE SistemaPruebas ----------------------------
EXTENDS Propiedades, OrdenPruebas

\* TypeOK and ExecUnico are invariants of the system for every value of the
\* constants.  Neither is inductive alone: the types of a message sent by the
\* CPU need the pid it runs to be a pid, and the length of EXEC is bounded only
\* while the lists are lists.  Inductivo is their conjunction; each action has a
\* lemma on the part of the state it disturbs.

\* The types of what the sockets of the kernel's threads hold.
Entradas == /\ dispatch \in Seq(Mensaje)
            /\ interrupt \in Seq(Mensaje)
            /\ respuestas \in Seq([pid : Pids, leido : BOOLEAN])
            /\ completados \in [Interfaces -> Seq(Pids)]

\* The CPU's part of TypeOK.
Procesador ==
    /\ cpu \in TiposCpu
    /\ pedidos \in Seq(Pedido)
    /\ entregas \in Seq(Entrega)
    /\ pedidos # << >> \/ entregas # << >> => cpu.pid \in Pids

\* The interfaces' part of TypeOK.
Dispositivos ==
    /\ interfaces \in [Interfaces -> TiposInterfaz]
    /\ \A i \in Interfaces :
          interfaces[i].armado \/ interfaces[i].huerfanos + interfaces[i].avisos > 0 =>
              interfaces[i].pid \in Pids

\* The inductive invariant
Inductivo == TypeOK /\ ExecUnico

\* A handler that preserves Conserva from a state of the invariant keeps the
\* turn.
LEMMA ConservaEnTurno ==
    ASSUME Inductivo, NEW t, Conserva(k, t)
    PROVE  EnTurno(t)
<1>1. EnTurno(k)
  BY DEF Inductivo, TypeOK, ExecUnico, EnTurno
<1> QED
  BY <1>1, EnTurnoConserva

\* The kernel of main() starts with its types and an empty EXEC.
LEMMA InicialTipo == EnTurno(KernelInicial)
<1> DEFINE s == KernelInicial
<1>1. s.cola \in [Colas -> Seq(Pids)] /\ s.cola["EXEC"] = << >>
  BY ExecEsCola DEF KernelInicial
<1>2. s.recursos \in [Recursos -> Recurso]
  BY InstanciasAssumption DEF KernelInicial, RecursoInit, Recurso
<1>3. s.pcb \in [Pids -> Pcb]
  BY PcbCrearTipo DEF KernelInicial
<1>4. s.io \in [Interfaces -> Interfaz] /\ s.a_io \in [Interfaces -> Seq(PaqueteIo)]
  BY LimitesAssumption DEF KernelInicial, Interfaz, Libre
<1>5. s.grado \in Nat /\ s.timer \in Temporizador
  BY ConsolaAssumption DEF KernelInicial, Temporizador
<1>6. s.procesos \in [Pids -> Colas \cup {SinEstado}]
  BY DEF KernelInicial
<1>7. /\ s.pid \in Int /\ s.planificador_iniciar \in Nat
      /\ s.detener \in BOOLEAN /\ s.caido \in BOOLEAN
      /\ s.a_cpu = << >> /\ s.a_interrupt = << >> /\ s.a_memoria = << >>
  BY DEF KernelInicial
<1>8. s \in EstadoKernel
  BY <1>1, <1>2, <1>3, <1>4, <1>5, <1>6, <1>7, EmptySeq DEF KernelInicial, EstadoKernel
<1> QED
  BY <1>1, <1>8, EmptySeq DEF EnTurno

\* A step that reads no socket keeps what the sockets hold.
LEMMA EntradasIguales ==
    ASSUME Inductivo, UNCHANGED entradas
    PROVE  Entradas'
BY DEF Inductivo, TypeOK, entradas, Entradas

\* FINALIZAR_PROCESO from the console preserves the kernel's part.
LEMMA FinalizarProcesoPaso ==
    ASSUME Inductivo, NEW p \in Pids, FinalizarProceso(p)
    PROVE  EnTurno(k') /\ Entradas'
<1>1. k \in EstadoKernel
  BY DEF Inductivo, TypeOK
<1>2. Entradas'
  BY EntradasIguales DEF FinalizarProceso
<1>3. Conserva(k, k')
  <2>1. CASE k' = FinalizarEnExec(k, p)
    BY <1>1, <2>1, FinalizarUsuarioConserva
  <2>2. CASE \E r \in RecursosDe(k, p), falla \in BOOLEAN :
                \E orden \in OrdenesAlInterrumpir(k, p, r) :
                    k' = FinalizarEnRecurso(k, p, r, orden, falla)
    <3>1. PICK r \in RecursosDe(k, p), falla \in BOOLEAN :
             \E orden \in OrdenesAlInterrumpir(k, p, r) :
                k' = FinalizarEnRecurso(k, p, r, orden, falla)
      BY <2>2
    <3>2. PICK orden \in OrdenesAlInterrumpir(k, p, r) :
             k' = FinalizarEnRecurso(k, p, r, orden, falla)
      BY <3>1
    <3>3. r \in Recursos
      BY DEF RecursosDe
    <3>4. orden \in Seq(Pids)
      BY <1>1, <3>3, OrdenesTipo
    <3> QED
      BY <1>1, <3>2, <3>3, <3>4, FinalizarUsuarioConserva
  <2>3. CASE \E i \in InterfacesDe(k, p) : k' = FinalizarEnInterfaz(k, p, i)
    BY <1>1, <2>3, FinalizarUsuarioConserva DEF InterfacesDe
  <2>4. CASE k' = FinalizarEnEspera(k, p)
    BY <1>1, <2>4, FinalizarUsuarioConserva
  <2>5. CASE k' = FinalizarEnCola(k, p)
    BY <1>1, <2>5, FinalizarUsuarioConserva
  <2> QED
    BY <2>1, <2>2, <2>3, <2>4, <2>5 DEF FinalizarProceso
<1> QED
  BY <1>2, <1>3, ConservaEnTurno

\* The other commands of the console preserve the kernel's part.
LEMMA ConsolaPaso ==
    ASSUME Inductivo,
           \/ IniciarProceso \/ DetenerPlanificacion \/ IniciarPlanificacion
           \/ \E g \in Grados : Multiprogramacion(g)
    PROVE  EnTurno(k') /\ Entradas'
<1>1. k \in EstadoKernel
  BY DEF Inductivo, TypeOK
<1>2. Entradas'
  BY EntradasIguales DEF IniciarProceso, DetenerPlanificacion, IniciarPlanificacion,
                         Multiprogramacion
<1>3. CASE IniciarProceso
  <2>1. k.pid + 1 \in Pids /\ k' = NuevoProceso(k, k.pid + 1)
    BY <1>3 DEF IniciarProceso
  <2> QED
    BY <1>1, <1>2, <2>1, NuevoProcesoConserva, ConservaEnTurno
<1>4. CASE DetenerPlanificacion
  BY <1>1, <1>2, <1>4, ConDetener, ConservaEnTurno DEF DetenerPlanificacion
<1>5. CASE IniciarPlanificacion
  <2>1. Conserva(k, [k EXCEPT !.detener = FALSE])
    BY <1>1, ConDetener
  <2>2. Conserva(k, k')
    BY <1>1, <1>5, <2>1, AvisarConserva, Tipado, Transitiva DEF IniciarPlanificacion
  <2> QED
    BY <1>2, <2>2, ConservaEnTurno
<1>6. CASE \E g \in Grados : Multiprogramacion(g)
  <2>1. PICK g \in Grados : Multiprogramacion(g)
    BY <1>6
  <2>2. g \in Nat
    BY ConsolaAssumption
  <2> QED
    BY <1>1, <1>2, <2>1, <2>2, ConGrado, ConservaEnTurno DEF Multiprogramacion
<1> QED
  BY <1>3, <1>4, <1>5, <1>6

\* One turn of hilo_planificador preserves the kernel's part: the short-term
\* planner fills EXEC only when it finds it empty.
LEMMA PlanificadorPaso ==
    ASSUME Inductivo, HiloPlanificador
    PROVE  EnTurno(k') /\ Entradas'
<1> DEFINE t == [k EXCEPT !.planificador_iniciar = @ - 1]
<1>1. k \in EstadoKernel
  BY DEF Inductivo, TypeOK
<1>2. Entradas'
  BY EntradasIguales DEF HiloPlanificador
<1>3. k.planificador_iniciar - 1 \in Nat
  <2>1. k.planificador_iniciar \in Nat
    BY <1>1, Zenon DEF EstadoKernel
  <2> QED
    BY <2>1 DEF HiloPlanificador
<1>4. EnTurno(t)
  BY <1>1, <1>3, ConFichas, ConservaEnTurno
<1>5. k' = IF t.detener THEN t ELSE CortoPlazo(LargoPlazo(t))
  BY DEF HiloPlanificador
<1> HIDE DEF t
<1>6. EnTurno(LargoPlazo(t))
  BY <1>4, LargoPlazoConserva, EnTurnoConserva DEF EnTurno
<1>7. EnTurno(CortoPlazo(LargoPlazo(t)))
  BY <1>6, CortoPlazoEnTurno
<1> QED
  BY <1>2, <1>4, <1>5, <1>7

\* The quantum's timer preserves the kernel's part.
LEMMA TemporizadorPaso ==
    ASSUME Inductivo, TemporizadorVence \/ FinQuantum
    PROVE  EnTurno(k') /\ Entradas'
<1>1. k \in EstadoKernel /\ k.timer \in Temporizador
  <2>1. k \in EstadoKernel
    BY DEF Inductivo, TypeOK
  <2> QED
    BY <2>1, Zenon DEF EstadoKernel
<1>2. Entradas'
  BY EntradasIguales DEF TemporizadorVence, FinQuantum
<1>3. k.timer.huerfanos \in Nat /\ k.timer.avisos \in Nat
  BY <1>1, TemporizadorCampos
<1>4. \A h, n \in Nat, b \in BOOLEAN :
          [armado |-> b, huerfanos |-> h, avisos |-> n] \in Temporizador
  BY DEF Temporizador
<1>5. CASE TemporizadorVence
  <2> DEFINE x == [[k.timer EXCEPT !.armado = FALSE] EXCEPT !.avisos = k.timer.avisos + 1]
             y == [[k.timer EXCEPT !.huerfanos = k.timer.huerfanos - 1]
                      EXCEPT !.avisos = k.timer.avisos + 1]
  <2>1. k.timer.avisos + 1 \in Nat
    BY <1>3
  <2>2. x \in Temporizador
    BY <1>1, <2>1, TemporizadorCampos
  <2>3. ASSUME k.timer.huerfanos > 0
        PROVE  y \in Temporizador
    <3>1. k.timer.huerfanos - 1 \in Nat
      BY <1>3, <2>3
    <3> QED
      BY <1>1, <2>1, <3>1, TemporizadorCampos
  <2>4. k' = [k EXCEPT !.timer = x] \/ (k.timer.huerfanos > 0 /\ k' = [k EXCEPT !.timer = y])
    BY <1>1, <1>5, Zenon DEF TemporizadorVence, EstadoKernel, Temporizador
  <2> HIDE DEF x, y
  <2> QED
    BY <1>1, <1>2, <2>2, <2>3, <2>4, ConTimer, ConservaEnTurno
<1>6. CASE FinQuantum
  <2> DEFINE x == [k.timer EXCEPT !.avisos = k.timer.avisos - 1]
             t == [k EXCEPT !.timer = x]
  <2>1. k.timer.avisos - 1 \in Nat
    BY <1>3, <1>6 DEF FinQuantum
  <2>2. x \in Temporizador
    BY <1>1, <2>1, TemporizadorCampos
  <2>3. k' = IF t.cola["EXEC"] = << >> THEN t ELSE InterrumpirCpu(t, Head(t.cola["EXEC"]))
    BY <1>6 DEF FinQuantum
  <2> HIDE DEF x
  <2>4. Conserva(k, t)
    BY <1>1, <2>2, ConTimer
  <2> HIDE DEF t
  <2>5. EnTurno(t) /\ t \in EstadoKernel
    BY <2>4, Tipado, ConservaEnTurno
  <2>6. ASSUME t.cola["EXEC"] # << >>
        PROVE  EnTurno(InterrumpirCpu(t, Head(t.cola["EXEC"])))
    BY <2>5, <2>6, CabezaTipo, ExecEsCola, InterrumpirCpuConserva, EnTurnoConserva
  <2> QED
    BY <1>2, <2>3, <2>5, <2>6
<1> QED
  BY <1>5, <1>6

\* The thread that attends memoria preserves the kernel's part.
LEMMA MemoriaPaso ==
    ASSUME Inductivo, AtenderMemoria
    PROVE  EnTurno(k') /\ Entradas'
<1> DEFINE R == [pid : Pids, leido : BOOLEAN]
<1>1. k \in EstadoKernel /\ respuestas \in Seq(R)
  BY DEF Inductivo, TypeOK
<1>2. Head(respuestas) \in R /\ Tail(respuestas) \in Seq(R)
  BY <1>1, HeadTailProperties DEF AtenderMemoria
<1>3. Head(respuestas).pid \in Pids /\ Head(respuestas).leido \in BOOLEAN
  BY <1>2
<1>4. EnTurno(k')
  BY <1>1, <1>3, ResponderConserva, ConservaEnTurno DEF AtenderMemoria
<1>5. Entradas'
  BY <1>2 DEF Inductivo, TypeOK, Entradas, AtenderMemoria
<1> QED
  BY <1>4, <1>5

\* The thread that attends the dispatch port preserves the kernel's part.
LEMMA DispatchPaso ==
    ASSUME Inductivo,
           DispatchProceso \/ DispatchResize \/ DispatchWait \/ DispatchSignal
    PROVE  EnTurno(k') /\ Entradas'
<1>1. k \in EstadoKernel /\ dispatch \in Seq(Mensaje)
  BY DEF Inductivo, TypeOK
<1>2. PICK op : RecibirDispatch(op)
  BY DEF DispatchProceso, DispatchResize, DispatchWait, DispatchSignal
<1>3. Head(dispatch) \in Mensaje /\ Tail(dispatch) \in Seq(Mensaje)
  BY <1>1, <1>2, HeadTailProperties DEF RecibirDispatch
<1>4. Entradas'
  BY <1>2, <1>3 DEF Inductivo, TypeOK, Entradas, RecibirDispatch
<1>5. CASE DispatchProceso
  BY <1>1, <1>3, <1>4, <1>5, RestosTipo, AtenderProcesoConserva, ConservaEnTurno
     DEF DispatchProceso
<1>6. CASE DispatchResize
  BY <1>1, <1>3, <1>4, <1>6, RestosTipo, AtenderResizeConserva, ConservaEnTurno
     DEF DispatchResize
<1>7. CASE DispatchWait
  BY <1>1, <1>3, <1>4, <1>7, RestosTipo, AtenderRecursoConserva, ConservaEnTurno
     DEF DispatchWait
<1>8. CASE DispatchSignal
  BY <1>1, <1>3, <1>4, <1>8, RestosTipo, CabezasTipo, AtenderRecursoConserva,
     ConservaEnTurno DEF DispatchSignal
<1> QED
  BY <1>5, <1>6, <1>7, <1>8

\* The thread that attends the interrupt port preserves the kernel's part.
LEMMA InterruptPaso ==
    ASSUME Inductivo, InterruptIoGenSleep
    PROVE  EnTurno(k') /\ Entradas'
<1>1. k \in EstadoKernel /\ interrupt \in Seq(Mensaje)
  BY DEF Inductivo, TypeOK
<1>2. Head(interrupt) \in Mensaje /\ Tail(interrupt) \in Seq(Mensaje)
  BY <1>1, HeadTailProperties DEF InterruptIoGenSleep
<1>3. Entradas'
  BY <1>2 DEF Inductivo, TypeOK, Entradas, InterruptIoGenSleep
<1> QED
  BY <1>1, <1>2, <1>3, MensajeTipo, RestosTipo, PedirConserva, ConservaEnTurno
     DEF InterruptIoGenSleep

\* The thread that attends an interface preserves the kernel's part.
LEMMA CompletadoPaso ==
    ASSUME Inductivo, NEW i \in Interfaces, AtenderCompletado(i)
    PROVE  EnTurno(k') /\ Entradas'
<1>1. k \in EstadoKernel /\ completados \in [Interfaces -> Seq(Pids)]
  BY DEF Inductivo, TypeOK
<1>2. Head(completados[i]) \in Pids /\ Tail(completados[i]) \in Seq(Pids)
  BY <1>1, HeadTailProperties DEF AtenderCompletado
<1>3. completados' \in [Interfaces -> Seq(Pids)]
  BY <1>1, <1>2 DEF AtenderCompletado
<1>4. Entradas'
  BY <1>3 DEF Inductivo, TypeOK, Entradas, AtenderCompletado
<1>5. PICK registrada \in Interfaces :
         k' = CompletarIoGenSleep(k, i, Head(completados[i]), registrada)
  BY DEF AtenderCompletado, InterfacesDe
<1> QED
  BY <1>1, <1>2, <1>4, <1>5, CompletarConserva, ConservaEnTurno

\* The part of TypeOK of memoria.
Archivos == memoria \in [procesos : SUBSET Pids, caida : BOOLEAN]

\* The invariant read as one part per process of the system.
LEMMA Partes ==
    ASSUME Inductivo
    PROVE  EnTurno(k) /\ Entradas /\ Procesador /\ Dispositivos /\ Archivos
BY DEF Inductivo, TypeOK, ExecUnico, EnTurno, Entradas, Procesador, Dispositivos, Archivos

\* The parts of the next state make the invariant of the next state.
LEMMA PartesSiguientes ==
    ASSUME EnTurno(k'), Entradas', Procesador', Dispositivos', Archivos'
    PROVE  Inductivo'
BY DEF Inductivo, TypeOK, ExecUnico, EnTurno, Entradas, Procesador, Dispositivos, Archivos

-----------------------------------------------------------------------------
\* The CPU asks memoria for the instruction of a pid.
LEMMA SolicitarTipo ==
    ASSUME NEW c \in TiposCpu, c.pid \in Pids, pedidos \in Seq(Pedido), Solicitar(c)
    PROVE  pedidos' \in Seq(Pedido)
<1>1. [op |-> "PROXIMA_INSTRUCCION", pid |-> c.pid, pc |-> c.pc] \in Pedido
  BY DEF Pedido, TiposCpu
<1> QED
  BY <1>1, AppendProperties DEF Solicitar

\* A message built from the CPU's registers has its type.
LEMMA PaqueteTipo ==
    ASSUME NEW c \in TiposCpu, c.pid \in Pids, NEW dato \in Datos,
           NEW op \in {"PROCESO", "WAIT", "SIGNAL", "RESIZE", "IO_GEN_SLEEP"}
    PROVE  Paquete(c, op, dato) \in Mensaje
BY DEF Paquete, Mensaje, TiposCpu

\* Writing such a message to dispatch keeps the type of the socket.
LEMMA AlDispatchTipo ==
    ASSUME NEW c \in TiposCpu, c.pid \in Pids, NEW dato \in Datos,
           NEW op \in {"PROCESO", "WAIT", "SIGNAL", "RESIZE", "IO_GEN_SLEEP"},
           dispatch \in Seq(Mensaje), AlDispatch(c, op, dato)
    PROVE  dispatch' \in Seq(Mensaje)
BY PaqueteTipo, AppendProperties DEF AlDispatch

\* The writes to the CPU's registers keep their types.
LEMMA CpuCampos ==
    ASSUME NEW c \in TiposCpu
    PROVE  /\ c.pid \in 0 .. MaxPid /\ c.pc \in 0 .. MaxPc
           /\ \A v \in BOOLEAN : /\ [c EXCEPT !.flag_interrupt = v] \in TiposCpu
                                 /\ [c EXCEPT !.flag_interrupt = v].pid = c.pid
           /\ \A v \in 0 .. MaxPc : /\ [c EXCEPT !.pc = v] \in TiposCpu
                                    /\ [c EXCEPT !.pc = v].pid = c.pid
BY Zenon DEF TiposCpu

\* What a cycle of the CPU leaves: its context, still that of a process, and
\* the sockets it writes.
CicloTipado(c) ==
    /\ cpu' \in TiposCpu /\ cpu'.pid = c.pid
    /\ pedidos' \in Seq(Pedido)
    /\ dispatch' \in Seq(Mensaje)
    /\ interrupt' \in Seq(Mensaje)

\* The end of an instruction cycle: next fetch, or return of the process.
LEMMA SeguirCicloTipo ==
    ASSUME Inductivo, NEW c \in TiposCpu, c.pid \in Pids, SeguirCiclo(c)
    PROVE  CicloTipado(c)
<1>1. dispatch \in Seq(Mensaje) /\ interrupt \in Seq(Mensaje) /\ pedidos \in Seq(Pedido)
  BY DEF Inductivo, TypeOK
<1>2. CASE c.flag_interrupt
  <2>1. dispatch' \in Seq(Mensaje)
    BY <1>1, <1>2, AlDispatchTipo DEF SeguirCiclo, Datos
  <2>2. cpu' \in TiposCpu /\ cpu'.pid = c.pid
    BY <1>2, CpuCampos DEF SeguirCiclo
  <2> QED
    BY <1>1, <1>2, <2>1, <2>2 DEF SeguirCiclo, CicloTipado
<1>3. CASE ~ c.flag_interrupt
  <2>1. pedidos' \in Seq(Pedido)
    BY <1>1, <1>3, SolicitarTipo DEF SeguirCiclo
  <2> QED
    BY <1>1, <1>3, <2>1 DEF SeguirCiclo, CicloTipado
<1> QED
  BY <1>2, <1>3

\* Executing an instruction, whichever it is.
LEMMA EjecutarTipo ==
    ASSUME Inductivo, cpu.pid \in Pids, NEW e \in Instruccion, cpu.pc < MaxPc,
           NEW c, c = [cpu EXCEPT !.pc = @ + 1],
           \/ RecibirDesconocida(e) \/ EjecutarSet(c, e) \/ EjecutarJnz(c, e)
           \/ EjecutarResize(c, e) \/ EjecutarRecurso(c, e) \/ EjecutarIoGenSleep(c, e)
           \/ EjecutarExit(c, e) \/ EjecutarInvalida(c, e)
    PROVE  CicloTipado(cpu)
<1>1. /\ dispatch \in Seq(Mensaje) /\ interrupt \in Seq(Mensaje)
      /\ pedidos \in Seq(Pedido) /\ cpu \in TiposCpu
  BY DEF Inductivo, TypeOK
<1>2. cpu.pc + 1 \in 0 .. MaxPc /\ 0 \in 0 .. MaxPc
  BY <1>1, CpuCampos, LimitesAssumption
<1>3. c \in TiposCpu /\ c.pid = cpu.pid
  BY <1>1, <1>2, CpuCampos
<1>4. e.dato \in Datos /\ {"PARCIAL", "ERROR", "EJECUTANDO"} \subseteq Datos
  BY DEF Instruccion, Datos
<1>5. CASE RecibirDesconocida(e)
  BY <1>1, <1>4, <1>5, AlDispatchTipo DEF RecibirDesconocida, CicloTipado
<1>6. CASE EjecutarSet(c, e)
  BY <1>3, <1>6, SeguirCicloTipo DEF EjecutarSet, CicloTipado
<1>7. CASE EjecutarJnz(c, e)
  <2>1. PICK destino \in {0, c.pc} : SeguirCiclo([c EXCEPT !.pc = destino])
    BY <1>7 DEF EjecutarJnz
  <2>2. destino \in 0 .. MaxPc
    BY <1>2, <1>3, CpuCampos
  <2>3. [c EXCEPT !.pc = destino] \in TiposCpu /\ [c EXCEPT !.pc = destino].pid = cpu.pid
    BY <1>3, <2>2, CpuCampos
  <2> QED
    BY <2>1, <2>3, SeguirCicloTipo DEF CicloTipado
<1>8. CASE EjecutarResize(c, e)
  <2>1. [op |-> "RESIZE", pid |-> c.pid, pc |-> c.pc] \in Pedido
    BY <1>3, CpuCampos DEF Pedido
  <2>2. pedidos' \in Seq(Pedido)
    BY <1>1, <1>8, <2>1, AppendProperties DEF EjecutarResize
  <2> QED
    BY <1>1, <1>3, <1>8, <2>2 DEF EjecutarResize, CicloTipado
<1>9. CASE EjecutarRecurso(c, e)
  <2>1. e.op \in {"WAIT", "SIGNAL"} /\ AlDispatch(c, e.op, e.dato)
    BY <1>9 DEF EjecutarRecurso
  <2>2. dispatch' \in Seq(Mensaje)
    BY <1>1, <1>3, <1>4, <2>1, AlDispatchTipo
  <2> QED
    BY <1>1, <1>3, <1>9, <2>2 DEF EjecutarRecurso, CicloTipado
<1>10. CASE EjecutarIoGenSleep(c, e)
  <2>1. Paquete(c, "IO_GEN_SLEEP", e.dato) \in Mensaje
    BY <1>3, <1>4, PaqueteTipo
  <2>2. interrupt' \in Seq(Mensaje)
    BY <1>1, <1>10, <2>1, AppendProperties DEF EjecutarIoGenSleep
  <2> QED
    BY <1>1, <1>3, <1>10, <2>2 DEF EjecutarIoGenSleep, CicloTipado
<1>11. CASE EjecutarExit(c, e)
  BY <1>1, <1>3, <1>4, <1>11, AlDispatchTipo DEF EjecutarExit, CicloTipado
<1>12. CASE EjecutarInvalida(c, e)
  BY <1>1, <1>3, <1>12 DEF EjecutarInvalida, CicloTipado
<1> QED
  BY <1>5, <1>6, <1>7, <1>8, <1>9, <1>10, <1>11, <1>12

\* The CPU receives a process.
LEMMA CpuEjecutarPaso ==
    ASSUME Inductivo, CpuEjecutarProceso
    PROVE  Inductivo'
<1> DEFINE M == [pid : Pids, pc : 0 .. MaxPc]
           m == Head(k.a_cpu)
           c == [pid |-> m.pid, pc |-> m.pc, flag_interrupt |-> FALSE]
<1>1. k \in EstadoKernel /\ pedidos \in Seq(Pedido) /\ k.a_cpu \in Seq(M)
  <2>1. k \in EstadoKernel /\ pedidos \in Seq(Pedido)
    BY DEF Inductivo, TypeOK
  <2> QED
    BY <2>1, Zenon DEF EstadoKernel
<1>2. m \in M /\ Tail(k.a_cpu) \in Seq(M)
  BY <1>1, HeadTailProperties DEF CpuEjecutarProceso
<1>3. Conserva(k, k')
  BY <1>1, <1>2, ConACpu DEF CpuEjecutarProceso
<1>4. c \in TiposCpu /\ c.pid \in Pids
  BY <1>2, LimitesAssumption DEF TiposCpu, Pids
<1>5. cpu' = c /\ Solicitar(c)
  BY DEF CpuEjecutarProceso
<1> HIDE DEF c
<1>6. pedidos' \in Seq(Pedido)
  BY <1>1, <1>4, <1>5, SolicitarTipo
<1>7. EnTurno(k')
  BY <1>3, ConservaEnTurno
<1>8. Procesador'
  BY <1>4, <1>5, <1>6 DEF Procesador, CpuEjecutarProceso, Inductivo, TypeOK
<1> QED
  BY <1>7, <1>8, Partes, PartesSiguientes
     DEF CpuEjecutarProceso, Entradas, Dispositivos, Archivos

\* The CPU receives an interrupt.
LEMMA CpuInterrupcionPaso ==
    ASSUME Inductivo, CpuInterrupcion
    PROVE  Inductivo'
<1>1. k \in EstadoKernel /\ cpu \in TiposCpu
  BY DEF Inductivo, TypeOK
<1>2. k.a_interrupt \in Seq(Pids)
  BY <1>1, Zenon DEF EstadoKernel
<1>3. Tail(k.a_interrupt) \in Seq(Pids)
  BY <1>2, HeadTailProperties DEF CpuInterrupcion
<1>4. EnTurno(k')
  BY <1>1, <1>3, ConAInterrupt, ConservaEnTurno DEF CpuInterrupcion
<1>5. cpu' \in TiposCpu /\ cpu'.pid = cpu.pid
  BY <1>1, CpuCampos DEF CpuInterrupcion
<1>6. Procesador'
  BY <1>5 DEF Procesador, CpuInterrupcion, Inductivo, TypeOK
<1> QED
  BY <1>4, <1>6, Partes, PartesSiguientes
     DEF CpuInterrupcion, Entradas, Dispositivos, Archivos

\* The CPU receives an instruction and executes it.
LEMMA InstruccionPaso ==
    ASSUME Inductivo, InstruccionCiclo
    PROVE  Inductivo'
<1>1. entregas \in Seq(Entrega) /\ entregas # << >> /\ cpu.pid \in Pids
  BY DEF Inductivo, TypeOK, InstruccionCiclo
<1>2. Head(entregas) \in Entrega /\ Tail(entregas) \in Seq(Entrega)
  BY <1>1, HeadTailProperties
<1>3. Head(entregas).instruccion \in Instruccion
  BY <1>2 DEF Entrega, InstruccionCiclo
<1>4. CicloTipado(cpu)
  BY <1>1, <1>3, EjecutarTipo DEF InstruccionCiclo
<1>5. Procesador'
  BY <1>1, <1>2, <1>4 DEF CicloTipado, Procesador, InstruccionCiclo
<1>6. Entradas'
  BY <1>4 DEF CicloTipado, Entradas, InstruccionCiclo, Inductivo, TypeOK
<1> QED
  BY <1>5, <1>6, Partes, PartesSiguientes
     DEF InstruccionCiclo, EnTurno, Dispositivos, Archivos

\* The CPU receives the answer of a RESIZE.
LEMMA CpuResizePaso ==
    ASSUME Inductivo, CpuResize
    PROVE  Inductivo'
<1> DEFINE m == Head(entregas)
           aviso == [op |-> "RESIZE", pid |-> m.pid, pc |-> 0, dato |-> m.dato]
<1>1. /\ entregas \in Seq(Entrega) /\ entregas # << >> /\ cpu.pid \in Pids
      /\ dispatch \in Seq(Mensaje) /\ pedidos \in Seq(Pedido) /\ cpu \in TiposCpu
  BY DEF Inductivo, TypeOK, CpuResize
<1>2. m \in Entrega /\ Tail(entregas) \in Seq(Entrega)
  BY <1>1, HeadTailProperties
<1>3. aviso \in Mensaje
  <2>1. m.pid \in Pids /\ m.dato \in Datos
    BY <1>2 DEF Entrega, Datos, CpuResize
  <2> QED
    BY <2>1, LimitesAssumption DEF Mensaje
<1>4. Paquete(cpu, "PROCESO", "PARCIAL") \in Mensaje
  BY <1>1, PaqueteTipo DEF Datos
<1>5. \/ dispatch' = Append(dispatch, aviso) /\ UNCHANGED <<cpu, pedidos>>
      \/ /\ dispatch' = dispatch \o <<aviso, Paquete(cpu, "PROCESO", "PARCIAL")>>
         /\ cpu' = [cpu EXCEPT !.flag_interrupt = FALSE]
         /\ UNCHANGED pedidos
      \/ dispatch' = Append(dispatch, aviso) /\ Solicitar(cpu) /\ UNCHANGED cpu
  BY DEF CpuResize
<1> HIDE DEF m, aviso
<1>6. dispatch' \in Seq(Mensaje)
  <2>1. <<aviso, Paquete(cpu, "PROCESO", "PARCIAL")>> \in Seq(Mensaje)
    BY <1>3, <1>4
  <2>2. Append(dispatch, aviso) \in Seq(Mensaje)
    BY <1>1, <1>3, AppendProperties
  <2>3. dispatch \o <<aviso, Paquete(cpu, "PROCESO", "PARCIAL")>> \in Seq(Mensaje)
    BY <1>1, <2>1, ConcatProperties
  <2> QED
    BY <1>5, <2>2, <2>3, Zenon
<1>7. cpu' \in TiposCpu /\ cpu'.pid = cpu.pid /\ pedidos' \in Seq(Pedido)
  BY <1>1, <1>5, CpuCampos, SolicitarTipo
<1>8. Procesador'
  BY <1>1, <1>2, <1>7 DEF Procesador, CpuResize
<1>9. Entradas'
  BY <1>6 DEF Entradas, CpuResize, Inductivo, TypeOK
<1> QED
  BY <1>8, <1>9, Partes, PartesSiguientes
     DEF CpuResize, EnTurno, Dispositivos, Archivos

-----------------------------------------------------------------------------
\* Memoria attends the kernel.
LEMMA MemoriaKernelPaso ==
    ASSUME Inductivo, MemoriaKernel
    PROVE  Inductivo'
<1> DEFINE M == [op : {"NUEVO_PROCESO", "FINALIZAR_PROCESO"}, pid : Pids]
           R == [pid : Pids, leido : BOOLEAN]
           m == Head(k.a_memoria)
<1>1. k \in EstadoKernel /\ respuestas \in Seq(R)
  BY DEF Inductivo, TypeOK
<1>2. k.a_memoria \in Seq(M)
  BY <1>1, Zenon DEF EstadoKernel
<1>3. m \in M /\ Tail(k.a_memoria) \in Seq(M)
  BY <1>2, HeadTailProperties DEF MemoriaKernel
<1>4. EnTurno(k')
  BY <1>1, <1>3, ConAMemoria, ConservaEnTurno DEF MemoriaKernel
<1>5. \A b \in BOOLEAN : Append(respuestas, [pid |-> m.pid, leido |-> b]) \in Seq(R)
  BY <1>1, <1>3, AppendProperties
<1>6. respuestas' \in Seq(R)
  BY <1>1, <1>5 DEF MemoriaKernel
<1>7. Archivos'
  <2>1. memoria \in [procesos : SUBSET Pids, caida : BOOLEAN] /\ m.pid \in Pids
    BY <1>3 DEF Inductivo, TypeOK
  <2>2. \A P \in SUBSET Pids : [memoria EXCEPT !.procesos = P]
                                 \in [procesos : SUBSET Pids, caida : BOOLEAN]
    BY <2>1
  <2>3. /\ memoria.procesos \cup {m.pid} \in SUBSET Pids
        /\ memoria.procesos \ {m.pid} \in SUBSET Pids
    BY <2>1
  <2>4. \/ memoria' = memoria
        \/ memoria' = [memoria EXCEPT !.procesos = memoria.procesos \cup {m.pid}]
        \/ memoria' = [memoria EXCEPT !.procesos = memoria.procesos \ {m.pid}]
    BY DEF MemoriaKernel
  <2> QED
    BY <2>1, <2>2, <2>3, <2>4 DEF Archivos
<1>8. Entradas'
  BY <1>6 DEF Entradas, MemoriaKernel, Inductivo, TypeOK
<1> QED
  BY <1>4, <1>7, <1>8, Partes, PartesSiguientes DEF MemoriaKernel, Procesador, Dispositivos

\* Memoria attends the CPU.
LEMMA MemoriaCpuPaso ==
    ASSUME Inductivo, MemoriaProximaInstruccion \/ MemoriaResize
    PROVE  Inductivo'
<1> DEFINE m == Head(pedidos)
<1>1. /\ pedidos \in Seq(Pedido) /\ pedidos # << >> /\ entregas \in Seq(Entrega)
      /\ cpu \in TiposCpu /\ cpu.pid \in Pids
      /\ memoria \in [procesos : SUBSET Pids, caida : BOOLEAN]
  BY DEF Inductivo, TypeOK, MemoriaProximaInstruccion, MemoriaResize
<1>2. m \in Pedido /\ Tail(pedidos) \in Seq(Pedido)
  BY <1>1, HeadTailProperties
<1>3. m.pid \in Pids /\ m.pc \in 0 .. MaxPc
  BY <1>2 DEF Pedido
<1>4. pedidos' \in Seq(Pedido)
  BY <1>2 DEF MemoriaProximaInstruccion, MemoriaResize
<1>5. entregas' \in Seq(Entrega)
  <2>1. CASE MemoriaProximaInstruccion
    <3> DEFINE x == [op |-> "PROXIMA_INSTRUCCION", pid |-> m.pid, pc |-> m.pc,
                     instruccion |-> InstruccionEn(m.pid, m.pc)]
    <3>1. InstruccionEn(m.pid, m.pc) \in Instruccion
      <4>1. CASE m.pc < Len(Programa[m.pid])
        <5>1. Programa[m.pid] \in Seq(Instruccion)
          BY <1>3, ProgramaAssumption
        <5>2. m.pc + 1 \in 1 .. Len(Programa[m.pid])
          BY <1>3, <4>1, <5>1, LenProperties
        <5> QED
          BY <4>1, <5>1, <5>2, ElementOfSeq DEF InstruccionEn
      <4>2. CASE ~ (m.pc < Len(Programa[m.pid]))
        BY <4>2 DEF InstruccionEn, Instruccion, Operaciones, Datos
      <4> QED
        BY <4>1, <4>2
    <3>2. x \in Entrega
      BY <1>3, <3>1 DEF Entrega
    <3>3. entregas' = entregas \/ entregas' = Append(entregas, x)
      BY <2>1 DEF MemoriaProximaInstruccion
    <3> HIDE DEF x
    <3> QED
      BY <1>1, <3>2, <3>3, AppendProperties
  <2>2. CASE MemoriaResize
    <3>1. PICK dato \in {"OK", "FALLO"} :
             entregas' = Append(entregas, [op |-> "RESIZE", pid |-> m.pid, dato |-> dato])
      BY <2>2 DEF MemoriaResize
    <3>2. [op |-> "RESIZE", pid |-> m.pid, dato |-> dato] \in Entrega
      BY <1>3 DEF Entrega
    <3> QED
      BY <1>1, <3>1, <3>2, AppendProperties
  <2> QED
    BY <2>1, <2>2
<1>6. Procesador'
  BY <1>1, <1>4, <1>5 DEF Procesador, MemoriaProximaInstruccion, MemoriaResize
<1>7. Archivos'
  BY <1>1 DEF Archivos, MemoriaProximaInstruccion, MemoriaResize
<1>8. EnTurno(k') /\ Entradas' /\ Dispositivos'
  BY Partes DEF MemoriaProximaInstruccion, MemoriaResize, EnTurno, Entradas, Dispositivos
<1> QED
  BY <1>6, <1>7, <1>8, PartesSiguientes

-----------------------------------------------------------------------------
\* An interface with a timer armed or due knows the pid it works for.
DispositivoValido(d) ==
    d.armado \/ d.huerfanos + d.avisos > 0 => d.pid \in Pids

\* Writing one interface keeps the types of all.
LEMMA DispositivoTipo ==
    ASSUME Inductivo, NEW i \in Interfaces, NEW d \in TiposInterfaz,
           DispositivoValido(d), interfaces' = [interfaces EXCEPT ![i] = d]
    PROVE  Dispositivos'
<1>1. interfaces \in [Interfaces -> TiposInterfaz]
  BY DEF Inductivo, TypeOK
<1>2. interfaces' \in [Interfaces -> TiposInterfaz]
  BY <1>1
<1>3. ASSUME NEW j \in Interfaces
      PROVE  DispositivoValido(interfaces'[j])
  BY <1>1 DEF Inductivo, TypeOK, DispositivoValido
<1> QED
  BY <1>2, <1>3 DEF Dispositivos, DispositivoValido

\* The fields of an interface have their types.
LEMMA DispositivoCampos ==
    ASSUME NEW d \in TiposInterfaz
    PROVE  d.pid \in 0 .. MaxPid /\ d.armado \in BOOLEAN
           /\ d.huerfanos \in Nat /\ d.avisos \in Nat
BY Zenon DEF TiposInterfaz

\* An interface receives an operation or an interruption.
LEMMA InterfazRecibePaso ==
    ASSUME Inductivo, NEW i \in Interfaces, InterfazRecibe(i)
    PROVE  Inductivo'
<1> DEFINE m == Head(k.a_io[i])
           d == interfaces[i]
           h == IF d.armado THEN d.huerfanos + 1 ELSE d.huerfanos
           x == [[[d EXCEPT !.pid = m.pid] EXCEPT !.armado = TRUE] EXCEPT !.huerfanos = h]
           y == [d EXCEPT !.armado = FALSE]
<1>1. k \in EstadoKernel /\ interfaces \in [Interfaces -> TiposInterfaz]
  BY DEF Inductivo, TypeOK
<1>2. k.a_io \in [Interfaces -> Seq(PaqueteIo)]
  BY <1>1, Zenon DEF EstadoKernel
<1>3. m \in PaqueteIo /\ Tail(k.a_io[i]) \in Seq(PaqueteIo)
  BY <1>2, HeadTailProperties DEF InterfazRecibe
<1>4. EnTurno(k')
  BY <1>1, <1>3, ConAIo, ConservaEnTurno DEF InterfazRecibe
<1>5. d \in TiposInterfaz /\ DispositivoValido(d)
  BY <1>1 DEF Inductivo, TypeOK, DispositivoValido
<1>6. m.pid \in Pids /\ m.pid \in 0 .. MaxPid
  BY <1>3 DEF PaqueteIo, Pids
<1>7. interfaces' = [interfaces EXCEPT ![i] = x] \/ interfaces' = [interfaces EXCEPT ![i] = y]
  BY DEF InterfazRecibe
<1>8. h \in Nat
  BY <1>5, DispositivoCampos
<1> HIDE DEF d, h, m
<1>9. x \in TiposInterfaz /\ x.pid = m.pid
  BY <1>5, <1>6, <1>8 DEF TiposInterfaz
<1>10. y \in TiposInterfaz /\ y.pid = d.pid /\ y.armado = FALSE
       /\ y.huerfanos = d.huerfanos /\ y.avisos = d.avisos
  BY <1>5 DEF TiposInterfaz
<1> HIDE DEF x, y
<1>11. DispositivoValido(x) /\ DispositivoValido(y)
  BY <1>5, <1>6, <1>9, <1>10 DEF DispositivoValido
<1>12. Dispositivos'
  BY <1>7, <1>9, <1>10, <1>11, DispositivoTipo
<1> QED
  BY <1>4, <1>12, Partes, PartesSiguientes
     DEF InterfazRecibe, Entradas, Procesador, Archivos

\* The timer of an interface expires.
LEMMA InterfazVencePaso ==
    ASSUME Inductivo, NEW i \in Interfaces, InterfazVence(i)
    PROVE  Inductivo'
<1> DEFINE d == interfaces[i]
           n == d.avisos + 1
           h == d.huerfanos - 1
           x == [[d EXCEPT !.armado = FALSE] EXCEPT !.avisos = n]
           y == [[d EXCEPT !.huerfanos = h] EXCEPT !.avisos = n]
<1>1. interfaces \in [Interfaces -> TiposInterfaz]
  BY DEF Inductivo, TypeOK
<1>2. d \in TiposInterfaz /\ DispositivoValido(d)
  BY <1>1 DEF Inductivo, TypeOK, DispositivoValido
<1>3. \/ d.armado /\ interfaces' = [interfaces EXCEPT ![i] = x]
      \/ d.huerfanos > 0 /\ interfaces' = [interfaces EXCEPT ![i] = y]
  BY <1>1, <1>2 DEF InterfazVence, TiposInterfaz
<1>4. d.armado \/ d.huerfanos > 0 => d.pid \in Pids
  BY <1>2, DispositivoCampos DEF DispositivoValido
<1>5. n \in Nat /\ (d.huerfanos > 0 => h \in Nat)
  BY <1>2, DispositivoCampos
<1> HIDE DEF d, n, h
<1>6. x \in TiposInterfaz /\ x.pid = d.pid
  BY <1>2, <1>5 DEF TiposInterfaz
<1>7. d.huerfanos > 0 => y \in TiposInterfaz /\ y.pid = d.pid
  BY <1>2, <1>5 DEF TiposInterfaz
<1> HIDE DEF x, y
<1>8. Dispositivos'
  BY <1>3, <1>4, <1>6, <1>7, DispositivoTipo DEF DispositivoValido
<1> QED
  BY <1>8, Partes, PartesSiguientes
     DEF InterfazVence, EnTurno, Entradas, Procesador, Archivos

\* An interface tells the kernel that it finished.
LEMMA InterfazAvisaPaso ==
    ASSUME Inductivo, NEW i \in Interfaces, InterfazAvisa(i)
    PROVE  Inductivo'
<1> DEFINE d == interfaces[i]
           n == d.avisos - 1
           x == [d EXCEPT !.avisos = n]
<1>1. /\ interfaces \in [Interfaces -> TiposInterfaz]
      /\ completados \in [Interfaces -> Seq(Pids)]
  BY DEF Inductivo, TypeOK
<1>2. d \in TiposInterfaz /\ DispositivoValido(d)
  BY <1>1 DEF Inductivo, TypeOK, DispositivoValido
<1>3. n \in Nat /\ d.pid \in Pids
  BY <1>2, DispositivoCampos DEF InterfazAvisa, DispositivoValido
<1>4. /\ interfaces' = [interfaces EXCEPT ![i] = x]
      /\ completados' = [completados EXCEPT ![i] = Append(completados[i], d.pid)]
  BY DEF InterfazAvisa
<1> HIDE DEF d, n
<1>5. x \in TiposInterfaz /\ x.pid = d.pid
  BY <1>2, <1>3 DEF TiposInterfaz
<1>6. completados' \in [Interfaces -> Seq(Pids)]
  <2>1. Append(completados[i], d.pid) \in Seq(Pids)
    BY <1>1, <1>3, AppendProperties
  <2> QED
    BY <1>1, <1>4, <2>1
<1> HIDE DEF x
<1>7. Dispositivos'
  BY <1>3, <1>4, <1>5, DispositivoTipo DEF DispositivoValido
<1>8. Entradas'
  BY <1>6 DEF Entradas, InterfazAvisa, Inductivo, TypeOK
<1> QED
  BY <1>7, <1>8, Partes, PartesSiguientes DEF InterfazAvisa, EnTurno, Procesador, Archivos

-----------------------------------------------------------------------------
\* The invariant holds in the initial states.
LEMMA InicialInductivo == Init => Inductivo
<1> SUFFICES ASSUME Init
             PROVE  Inductivo
  OBVIOUS
<1>1. EnTurno(k)
  BY InicialTipo DEF Init, InitKernel
<1>2. Entradas
  BY EmptySeq DEF Init, InitKernel, Entradas
<1>3. /\ cpu \in TiposCpu /\ pedidos = << >> /\ entregas = << >>
      /\ pedidos \in Seq(Pedido) /\ entregas \in Seq(Entrega)
  BY LimitesAssumption, EmptySeq DEF Init, TiposCpu
<1>4. /\ interfaces \in [Interfaces -> TiposInterfaz]
      /\ \A i \in Interfaces : ~ interfaces[i].armado /\ interfaces[i].huerfanos = 0
                               /\ interfaces[i].avisos = 0
  BY LimitesAssumption DEF Init, TiposInterfaz
<1>5. memoria \in [procesos : SUBSET Pids, caida : BOOLEAN]
  BY DEF Init
<1> QED
  BY <1>1, <1>2, <1>3, <1>4, <1>5 DEF Inductivo, TypeOK, ExecUnico, EnTurno, Entradas

\* Every step of the kernel, the CPU, memoria or an interface preserves it.
LEMMA PasoInductivo == Inductivo /\ [Next]_vars => Inductivo'
<1> SUFFICES ASSUME Inductivo, [Next]_vars
             PROVE  Inductivo'
  OBVIOUS
<1>1. ASSUME PasoKernel
      PROVE  Inductivo'
  <2>1. EnTurno(k') /\ Entradas'
    BY <1>1, FinalizarProcesoPaso, ConsolaPaso, PlanificadorPaso, TemporizadorPaso,
       MemoriaPaso, DispatchPaso, InterruptPaso, CompletadoPaso DEF PasoKernel, NextKernel
  <2> QED
    BY <1>1, <2>1, Partes, PartesSiguientes
       DEF PasoKernel, SoloKernel, Procesador, Dispositivos, Archivos
<1>2. ASSUME PasoCpu
      PROVE  Inductivo'
  BY <1>2, CpuEjecutarPaso, CpuInterrupcionPaso, InstruccionPaso, CpuResizePaso DEF PasoCpu
<1>3. ASSUME PasoMemoria
      PROVE  Inductivo'
  BY <1>3, MemoriaKernelPaso, MemoriaCpuPaso DEF PasoMemoria
<1>4. ASSUME PasoInterfaz
      PROVE  Inductivo'
  BY <1>4, InterfazRecibePaso, InterfazVencePaso, InterfazAvisaPaso DEF PasoInterfaz
<1>5. CASE UNCHANGED vars
  BY <1>5 DEF vars, Inductivo, TypeOK, ExecUnico
<1> QED
  BY <1>1, <1>2, <1>3, <1>4, <1>5 DEF Next

\* Type correctness, for any number of pids, programs, resources, interfaces
\* and any configuration of the planner: no handler, whatever the order of
\* messages, timers and commands, leaves a value outside its C type.
THEOREM Tipos == Spec => []TypeOK
<1>1. Inductivo => TypeOK
  BY DEF Inductivo
<1> QED
  BY <1>1, InicialInductivo, PasoInductivo, PTL DEF Spec

\* At most one process in EXEC, for every configuration.
THEOREM Exclusion == Spec => []ExecUnico
<1>1. Inductivo => ExecUnico
  BY DEF Inductivo
<1> QED
  BY <1>1, InicialInductivo, PasoInductivo, PTL DEF Spec

-----------------------------------------------------------------------------
(* The table of processes and memoria.                                     *)

\* While the operator waits for each creation to be answered, the lists and
\* the dictionary of the kernel agree, a process that ended stays so, and
\* memoria holds what the kernel believes it holds.  None of the three is
\* inductive alone: they need that the last pid handed out is the only one whose
\* creation is on its way (Creacion), and the order of the notices to memoria
\* (AlDia).

\* The creation of p is on its way: p is the last pid handed out and waits in
\* NEW, unless it was killed meanwhile.
EnCreacion(s, p) ==
    \/ s.procesos[p] = "EXIT"
    \/ p = s.pid /\ s.procesos[p] = "NEW" /\ ~ s.pcb[p].memoria_aceptado

Nuevo(p) == [op |-> "NUEVO_PROCESO", pid |-> p]

\* The pids are handed out in order, only accepted processes leave NEW, and
\* each creation is on its way once, to memoria or back in q.
Creacion(s, q) ==
    /\ s.pid \in 0 .. MaxPid
    /\ \A p \in Pids :
          /\ s.procesos[p] = SinEstado <=> p > s.pid
          /\ s.procesos[p] \in {"READY", "READY_PRIORIDAD", "EXEC", "BLOCK"}
                => s.pcb[p].memoria_aceptado
          /\ \A n \in 1 .. Len(s.a_memoria) : s.a_memoria[n] = Nuevo(p) =>
                /\ EnCreacion(s, p)
                /\ \A j \in 1 .. Len(s.a_memoria) : s.a_memoria[j] = Nuevo(p) => j = n
                /\ \A j \in 1 .. Len(q) : q[j].pid # p
          /\ \A n \in 1 .. Len(q) : q[n].pid = p =>
                /\ EnCreacion(s, p)
                /\ \A j \in 1 .. Len(q) : q[j].pid = p => j = n

\* Of process p: what memoria holds (M), what the kernel has told it and what
\* it has answered (q).
AlDiaDe(s, q, M, p) ==
    /\ \A n \in 1 .. Len(s.a_memoria) : s.a_memoria[n] = Fin(p) => s.procesos[p] = "EXIT"
    /\ s.procesos[p] = "EXIT" /\ p \in M =>
          \E n \in 1 .. Len(s.a_memoria) : s.a_memoria[n] = Fin(p)
    /\ s.procesos[p] = "EXIT" => \A n \in 1 .. Len(s.a_memoria) : s.a_memoria[n] = Nuevo(p) =>
          \E j \in 1 .. Len(s.a_memoria) : j > n /\ s.a_memoria[j] = Fin(p)
    /\ s.procesos[p] \in Colas \ {"EXIT"} /\ s.pcb[p].memoria_aceptado => p \in M
    /\ s.procesos[p] # "EXIT" =>
          \A n \in 1 .. Len(q) : q[n] = [pid |-> p, leido |-> TRUE] => p \in M

AlDia(s, q, M) == ~ s.caido => \A p \in Pids : AlDiaDe(s, q, M, p)

Coherente(s, q, M) == Orden(s, {}) /\ Creacion(s, q) /\ AlDia(s, q, M)

\* A step that leaves alone the table of processes and what memoria is told.
Mismo(s, t) ==
    /\ t.cola = s.cola /\ t.procesos = s.procesos /\ t.a_memoria = s.a_memoria
    /\ t.pid = s.pid /\ t.caido = s.caido
    /\ \A p \in Pids : t.pcb[p].memoria_aceptado = s.pcb[p].memoria_aceptado

\* Such a step keeps the agreement.
LEMMA MismoCoherente ==
    ASSUME NEW s, NEW q, NEW M, Coherente(s, q, M), NEW t, EnTurno(t), Mismo(s, t)
    PROVE  Coherente(t, q, M)
<1>1. Orden(t, {})
  BY DEF Coherente, Orden, Mismo, Esta
<1>2. \A p \in Pids : EnCreacion(s, p) => EnCreacion(t, p)
  BY DEF EnCreacion, Mismo
<1>3. Creacion(t, q)
  BY <1>2 DEF Coherente, Creacion, Mismo
<1>4. AlDia(t, q, M)
  <2>1. \A p \in Pids : AlDiaDe(s, q, M, p) => AlDiaDe(t, q, M, p)
    <3>1. /\ t.a_memoria = s.a_memoria /\ t.procesos = s.procesos
          /\ \A p \in Pids : t.pcb[p].memoria_aceptado = s.pcb[p].memoria_aceptado
      BY DEF Mismo
    <3> QED
      BY <3>1, Zenon DEF AlDiaDe
  <2> QED
    BY <2>1 DEF Coherente, AlDia, Mismo
<1> QED
  BY <1>1, <1>3, <1>4 DEF Coherente

\* A handler that keeps the lists in order and ends at most p, telling memoria
\* if it does, keeps the agreement.
LEMMA PasoCoherente ==
    ASSUME NEW s, NEW q, NEW M, Coherente(s, q, M), NEW e \in Pids, NEW t, Paso(s, t, e)
    PROVE  /\ Coherente(t, q, M)
           /\ \A p \in Pids : s.procesos[p] = "EXIT" => t.procesos[p] = "EXIT"
<1>1. /\ s \in EstadoKernel /\ t \in EstadoKernel /\ Orden(t, {}) /\ Sigue(s, t, {e})
  BY OrdenTipo DEF Coherente, Paso
<1>2. /\ Len(s.a_memoria) \in Nat /\ Len(t.a_memoria) \in Nat
      /\ Len(t.a_memoria) >= Len(s.a_memoria)
      /\ \A p \in Pids : s.procesos[p] \in Colas \cup {SinEstado}
                         /\ t.procesos[p] \in Colas \cup {SinEstado}
  BY <1>1, AMemoriaLargo, PcbTipo DEF Sigue
<1>3. \A p \in Pids : EnCreacion(s, p) => EnCreacion(t, p)
  BY <1>1 DEF Sigue, EnCreacion
<1>4. /\ \A n \in 1 .. Len(s.a_memoria) : n \in 1 .. Len(t.a_memoria)
                                          /\ t.a_memoria[n] = s.a_memoria[n]
      /\ \A n \in 1 .. Len(t.a_memoria) :
            n \notin 1 .. Len(s.a_memoria) => t.a_memoria[n] = Fin(e)
  BY <1>1, <1>2 DEF Sigue
<1>5. \A p, x \in Pids : Fin(p) # Nuevo(x) /\ (Fin(p) = Fin(x) => p = x)
  BY DEF Fin, Nuevo
<1>6. Creacion(t, q)
  <2>1. t.pid = s.pid /\ t.pid \in 0 .. MaxPid
    BY <1>1 DEF Coherente, Creacion, Sigue
  <2>2. ASSUME NEW p \in Pids
        PROVE  /\ t.procesos[p] = SinEstado <=> p > t.pid
               /\ t.procesos[p] \in {"READY", "READY_PRIORIDAD", "EXEC", "BLOCK"}
                     => t.pcb[p].memoria_aceptado
    <3>1. t.procesos[p] = SinEstado <=> p > t.pid
      BY <1>1, <2>1 DEF Coherente, Creacion, Sigue
    <3>2. ASSUME t.procesos[p] \in {"READY", "READY_PRIORIDAD", "EXEC", "BLOCK"}
          PROVE  t.pcb[p].memoria_aceptado
      <4>1. t.pcb[p].memoria_aceptado = s.pcb[p].memoria_aceptado
        BY <1>1, <3>2 DEF Sigue
      <4>2. s.procesos[p] \notin {"EXIT", SinEstado}
        BY <1>1, <3>2 DEF Sigue, SinEstado
      <4>3. CASE s.procesos[p] = "NEW"
        BY <1>1, <3>2, <4>1, <4>3 DEF Sigue
      <4>4. CASE s.procesos[p] \in {"READY", "READY_PRIORIDAD", "EXEC", "BLOCK"}
        BY <4>1, <4>4 DEF Coherente, Creacion
      <4> QED
        BY <1>2, <4>2, <4>3, <4>4 DEF Colas
    <3> QED
      BY <3>1, <3>2
  <2>3. ASSUME NEW p \in Pids, NEW n \in 1 .. Len(t.a_memoria), t.a_memoria[n] = Nuevo(p)
        PROVE  /\ EnCreacion(t, p)
               /\ \A j \in 1 .. Len(t.a_memoria) : t.a_memoria[j] = Nuevo(p) => j = n
               /\ \A j \in 1 .. Len(q) : q[j].pid # p
    <3>1. \A j \in 1 .. Len(t.a_memoria) : t.a_memoria[j] = Nuevo(p) =>
             j \in 1 .. Len(s.a_memoria) /\ s.a_memoria[j] = Nuevo(p)
      BY <1>4, <1>5
    <3>2. n \in 1 .. Len(s.a_memoria) /\ s.a_memoria[n] = Nuevo(p)
      BY <2>3, <3>1
    <3>3. /\ EnCreacion(s, p)
          /\ \A j \in 1 .. Len(s.a_memoria) : s.a_memoria[j] = Nuevo(p) => j = n
          /\ \A j \in 1 .. Len(q) : q[j].pid # p
      BY <3>2 DEF Coherente, Creacion
    <3> QED
      BY <1>3, <3>1, <3>3
  <2>4. ASSUME NEW p \in Pids, NEW n \in 1 .. Len(q), q[n].pid = p
        PROVE  /\ EnCreacion(t, p)
               /\ \A j \in 1 .. Len(q) : q[j].pid = p => j = n
    BY <1>3, <2>4 DEF Coherente, Creacion
  <2> QED
    BY <2>1, <2>2, <2>3, <2>4 DEF Creacion
<1>7. AlDia(t, q, M)
  <2> SUFFICES ASSUME ~ t.caido, NEW p \in Pids
               PROVE  AlDiaDe(t, q, M, p)
    BY DEF AlDia
  <2>1. AlDiaDe(s, q, M, p)
    BY <1>1 DEF Coherente, AlDia, Sigue
  <2>2. \A n \in 1 .. Len(t.a_memoria) : t.a_memoria[n] = Fin(p) => t.procesos[p] = "EXIT"
    <3> TAKE n \in 1 .. Len(t.a_memoria)
    <3>1. HAVE t.a_memoria[n] = Fin(p)
    <3>2. CASE n \in 1 .. Len(s.a_memoria)
      BY <1>1, <1>4, <2>1, <3>1, <3>2 DEF AlDiaDe, Sigue
    <3>3. CASE n \notin 1 .. Len(s.a_memoria)
      <4>1. Len(t.a_memoria) > Len(s.a_memoria)
        BY <1>2, <3>3
      <4>2. p = e
        BY <1>4, <1>5, <3>1, <3>3
      <4> QED
        BY <4>1, <4>2 DEF Paso
    <3> QED
      BY <3>2, <3>3
  <2>3. ASSUME t.procesos[p] = "EXIT", s.procesos[p] # "EXIT"
        PROVE  LET n == Len(s.a_memoria) + 1
               IN  n \in 1 .. Len(t.a_memoria) /\ t.a_memoria[n] = Fin(p)
    <3>1. p = e
      BY <1>1, <2>3 DEF Sigue
    <3>2. Len(t.a_memoria) > Len(s.a_memoria)
      BY <2>3, <3>1 DEF Paso
    <3>3. Len(s.a_memoria) + 1 \in 1 .. Len(t.a_memoria)
          /\ Len(s.a_memoria) + 1 \notin 1 .. Len(s.a_memoria)
      BY <1>2, <3>2
    <3> QED
      BY <1>4, <3>1, <3>3
  <2>4. t.procesos[p] = "EXIT" /\ p \in M =>
           \E n \in 1 .. Len(t.a_memoria) : t.a_memoria[n] = Fin(p)
    <3>1. CASE s.procesos[p] = "EXIT"
      BY <1>4, <2>1, <3>1 DEF AlDiaDe
    <3> QED
      BY <2>3, <3>1
  <2>5. t.procesos[p] = "EXIT" => \A n \in 1 .. Len(t.a_memoria) : t.a_memoria[n] = Nuevo(p) =>
           \E j \in 1 .. Len(t.a_memoria) : j > n /\ t.a_memoria[j] = Fin(p)
    <3>1. HAVE t.procesos[p] = "EXIT"
    <3>2. TAKE n \in 1 .. Len(t.a_memoria)
    <3>3. HAVE t.a_memoria[n] = Nuevo(p)
    <3>4. n \in 1 .. Len(s.a_memoria) /\ s.a_memoria[n] = Nuevo(p)
      BY <1>4, <1>5, <3>3
    <3>5. CASE s.procesos[p] = "EXIT"
      <4>1. PICK j \in 1 .. Len(s.a_memoria) : j > n /\ s.a_memoria[j] = Fin(p)
        BY <2>1, <3>4, <3>5 DEF AlDiaDe
      <4> QED
        BY <1>4, <4>1
    <3>6. CASE s.procesos[p] # "EXIT"
      <4>1. Len(s.a_memoria) + 1 > n
        BY <1>2, <3>4
      <4> QED
        BY <2>3, <3>1, <3>6, <4>1
    <3> QED
      BY <3>5, <3>6
  <2>6. t.procesos[p] \in Colas \ {"EXIT"} /\ t.pcb[p].memoria_aceptado => p \in M
    <3>1. HAVE t.procesos[p] \in Colas \ {"EXIT"} /\ t.pcb[p].memoria_aceptado
    <3>2. s.pcb[p].memoria_aceptado
      BY <1>1, <3>1 DEF Sigue
    <3>3. s.procesos[p] \in Colas \ {"EXIT"}
      <4>1. t.procesos[p] # SinEstado
        BY <3>1 DEF Colas, SinEstado
      <4>2. s.procesos[p] # SinEstado /\ s.procesos[p] # "EXIT"
        BY <1>1, <3>1, <4>1 DEF Sigue
      <4> QED
        BY <1>2, <4>2
    <3> QED
      BY <2>1, <3>2, <3>3 DEF AlDiaDe
  <2>7. t.procesos[p] # "EXIT" =>
           \A n \in 1 .. Len(q) : q[n] = [pid |-> p, leido |-> TRUE] => p \in M
    BY <1>1, <2>1 DEF AlDiaDe, Sigue
  <2> QED
    BY <2>2, <2>4, <2>5, <2>6, <2>7 DEF AlDiaDe
<1> QED
  BY <1>1, <1>6, <1>7 DEF Coherente, Sigue

-----------------------------------------------------------------------------
\* A socket after its first packet is read.
LEMMA PrimeroLeido ==
    ASSUME NEW S, NEW q \in Seq(S), q # << >>
    PROVE  /\ Head(q) \in S /\ Head(q) = q[1] /\ Tail(q) \in Seq(S)
           /\ Len(q) \in Nat /\ 1 \in 1 .. Len(q) /\ Len(Tail(q)) = Len(q) - 1
           /\ \A n \in 1 .. Len(Tail(q)) : n + 1 \in 1 .. Len(q) /\ Tail(q)[n] = q[n + 1]
           /\ \A n \in 1 .. Len(q) : n # 1 =>
                 n - 1 \in 1 .. Len(Tail(q)) /\ Tail(q)[n - 1] = q[n]
<1>1. /\ Head(q) \in S /\ Tail(q) \in Seq(S) /\ Len(Tail(q)) = Len(q) - 1
      /\ Len(q) \in Nat /\ Len(q) # 0
      /\ \A n \in 1 .. Len(Tail(q)) : Tail(q)[n] = q[n + 1]
  BY HeadTailProperties, EmptySeq, LenProperties
<1>2. Head(q) = q[1]
  OBVIOUS
<1> DEFINE r == Tail(q)
<1> HIDE DEF r
<1>3. \A n \in 1 .. Len(q) - 1 : n + 1 \in 1 .. Len(q)
  BY <1>1
<1>4. \A n \in 1 .. Len(q) : n # 1 => n - 1 \in 1 .. Len(q) - 1 /\ (n - 1) + 1 = n
  BY <1>1
<1> QED
  BY <1>1, <1>2, <1>3, <1>4 DEF r

\* A socket after a packet is written at its end.
LEMMA UltimoEscrito ==
    ASSUME NEW S, NEW q \in Seq(S), NEW x \in S
    PROVE  /\ Append(q, x) \in Seq(S) /\ Len(q) \in Nat /\ Len(Append(q, x)) = Len(q) + 1
           /\ Append(q, x)[Len(q) + 1] = x
           /\ \A n \in 1 .. Len(q) : Append(q, x)[n] = q[n] /\ n \in 1 .. Len(q) + 1
           /\ \A n \in 1 .. Len(q) + 1 : n \in 1 .. Len(q) \/ n = Len(q) + 1
BY AppendProperties, LenProperties

\* The answers and the notices to memoria that Coherente reads.
Respuesta == [pid : Pids, leido : BOOLEAN]

\* INICIAR_PROCESO with no creation on its way keeps the agreement.
LEMMA NuevoCoherente ==
    ASSUME NEW s, NEW q \in Seq(Respuesta), NEW M, Coherente(s, q, M),
           NEW p \in Pids, p = s.pid + 1,
           \A x \in Range(s.cola["NEW"]) : s.pcb[x].memoria_aceptado
    PROVE  LET t == NuevoProceso(s, p)
           IN  /\ Coherente(t, q, M)
               /\ \A x \in Pids : s.procesos[x] = "EXIT" => t.procesos[x] = "EXIT"
<1> DEFINE t == NuevoProceso(s, p)
           A == [op : {"NUEVO_PROCESO", "FINALIZAR_PROCESO"}, pid : Pids]
<1>1. /\ s \in EstadoKernel /\ Orden(s, {}) /\ Creacion(s, q) /\ AlDia(s, q, M)
      /\ s.pid \in 0 .. MaxPid /\ MaxPid \in Nat
  BY OrdenTipo, LimitesAssumption DEF Coherente, Creacion
<1>2. s.procesos[p] = SinEstado
  BY <1>1 DEF Creacion
<1>3. /\ Orden(t, {})
      /\ t.pid = p /\ t.caido = s.caido
      /\ t.procesos = [s.procesos EXCEPT ![p] = "NEW"]
      /\ t.pcb = [s.pcb EXCEPT ![p] = PcbCrear]
      /\ t.a_memoria = Append(s.a_memoria, Nuevo(p))
  <2>1. Orden(s, {})
    BY <1>1
  <2>2. p \in Pids
    OBVIOUS
  <2>3. /\ Orden(t, {})
        /\ t.pid = p /\ t.caido = s.caido /\ t.detener = s.detener
        /\ t.planificador_iniciar = s.planificador_iniciar
        /\ t.procesos = [s.procesos EXCEPT ![p] = "NEW"]
        /\ t.pcb = [s.pcb EXCEPT ![p] = PcbCrear]
        /\ t.a_memoria = Append(s.a_memoria, [op |-> "NUEVO_PROCESO", pid |-> p])
        /\ t.cola = [s.cola EXCEPT !["NEW"] = Append(s.cola["NEW"], p)]
    BY ONLY <1>2, <2>1, <2>2, NuevoProcesoOrden, ZenonT(60)
  <2> HIDE DEF t
  <2> QED
    BY <2>3 DEF Nuevo
<1> HIDE DEF t
<1>4. /\ s.a_memoria \in Seq(A) /\ Nuevo(p) \in A
      /\ s.procesos \in [Pids -> Colas \cup {SinEstado}] /\ s.pcb \in [Pids -> Pcb]
  BY <1>1, Zenon DEF EstadoKernel, Nuevo
<1> DEFINE l == Len(s.a_memoria)
<1>5. /\ l \in Nat /\ Len(t.a_memoria) = l + 1 /\ t.a_memoria[l + 1] = Nuevo(p)
      /\ \A n \in 1 .. l : t.a_memoria[n] = s.a_memoria[n] /\ n \in 1 .. l + 1
      /\ \A n \in 1 .. l + 1 : n \in 1 .. l \/ n = l + 1
  BY <1>3, <1>4, UltimoEscrito
<1> HIDE DEF l
<1>6. /\ t.procesos[p] = "NEW" /\ ~ t.pcb[p].memoria_aceptado
      /\ \A x \in Pids \ {p} : t.procesos[x] = s.procesos[x] /\ t.pcb[x] = s.pcb[x]
  BY <1>3, <1>4 DEF PcbCrear
<1>7. /\ \A x, y \in Pids : Nuevo(x) = Nuevo(y) => x = y
      /\ \A x, y \in Pids : Fin(x) # Nuevo(y)
  BY DEF Nuevo, Fin
<1>8. ASSUME NEW x \in Pids, EnCreacion(s, x)
      PROVE  s.procesos[x] = "EXIT" /\ x # p /\ EnCreacion(t, x)
  <2>1. ~ (s.procesos[x] = "NEW" /\ ~ s.pcb[x].memoria_aceptado)
    BY <1>1 DEF Orden, Esta, Colas
  <2>2. s.procesos[x] = "EXIT"
    BY <1>8, <2>1 DEF EnCreacion
  <2>3. x # p
    BY <1>2, <2>2 DEF SinEstado
  <2> QED
    BY <1>6, <2>2, <2>3 DEF EnCreacion
<1>9. Creacion(t, q)
  <2>1. ASSUME NEW x \in Pids
        PROVE  /\ t.procesos[x] = SinEstado <=> x > t.pid
               /\ t.procesos[x] \in {"READY", "READY_PRIORIDAD", "EXEC", "BLOCK"}
                     => t.pcb[x].memoria_aceptado
    <3>1. CASE x = p
      BY <1>3, <1>6, <3>1 DEF SinEstado, Pids
    <3>2. CASE x # p
      <4>1. x > p <=> x > s.pid
        BY <1>1, <3>2 DEF Pids
      <4> QED
        BY <1>1, <1>3, <1>6, <3>2, <4>1 DEF Creacion
    <3> QED
      BY <3>1, <3>2
  <2>2. ASSUME NEW x \in Pids, NEW n \in 1 .. Len(t.a_memoria), t.a_memoria[n] = Nuevo(x)
        PROVE  /\ EnCreacion(t, x)
               /\ \A j \in 1 .. Len(t.a_memoria) : t.a_memoria[j] = Nuevo(x) => j = n
               /\ \A j \in 1 .. Len(q) : q[j].pid # x
    <3>1. \A y \in Pids, j \in 1 .. l : s.a_memoria[j] = Nuevo(y) => EnCreacion(s, y)
      BY <1>1 DEF Creacion, l
    <3>2. CASE n = l + 1
      <4>1. x = p
        BY <1>5, <1>7, <2>2, <3>2
      <4>2. \A j \in 1 .. l : s.a_memoria[j] # Nuevo(p)
        BY <1>8, <3>1
      <4>3. \A j \in 1 .. Len(t.a_memoria) : t.a_memoria[j] = Nuevo(x) => j = n
        BY <1>5, <3>2, <4>1, <4>2
      <4>4. EnCreacion(t, p)
        BY <1>3, <1>6 DEF EnCreacion
      <4>5. \A j \in 1 .. Len(q) : q[j].pid # p
        BY <1>1, <1>8 DEF Creacion
      <4> QED
        BY <4>1, <4>3, <4>4, <4>5
    <3>3. CASE n # l + 1
      <4>1. n \in 1 .. l /\ s.a_memoria[n] = Nuevo(x)
        BY <1>5, <2>2, <3>3
      <4>2. EnCreacion(s, x)
        BY <3>1, <4>1
      <4>3. x # p /\ EnCreacion(t, x)
        BY <1>8, <4>2
      <4>4. \A j \in 1 .. l : s.a_memoria[j] = Nuevo(x) => j = n
        BY <1>1, <4>1 DEF Creacion, l
      <4>5. \A j \in 1 .. Len(t.a_memoria) : t.a_memoria[j] = Nuevo(x) => j = n
        BY <1>5, <1>7, <4>3, <4>4
      <4>6. \A j \in 1 .. Len(q) : q[j].pid # x
        BY <1>1, <4>1 DEF Creacion, l
      <4> QED
        BY <4>3, <4>5, <4>6
    <3> QED
      BY <3>2, <3>3
  <2>3. ASSUME NEW x \in Pids, NEW n \in 1 .. Len(q), q[n].pid = x
        PROVE  /\ EnCreacion(t, x)
               /\ \A j \in 1 .. Len(q) : q[j].pid = x => j = n
    BY <1>1, <1>8, <2>3 DEF Creacion
  <2>4. t.pid \in 0 .. MaxPid
    BY <1>3 DEF Pids
  <2> QED
    BY <2>1, <2>2, <2>3, <2>4 DEF Creacion
<1>10. AlDia(t, q, M)
  <2> SUFFICES ASSUME ~ t.caido, NEW x \in Pids
               PROVE  AlDiaDe(t, q, M, x)
    BY DEF AlDia
  <2>1. AlDiaDe(s, q, M, x)
    BY <1>1, <1>3 DEF AlDia
  <2>2. \A n \in 1 .. Len(t.a_memoria) : t.a_memoria[n] = Fin(x) =>
           n \in 1 .. l /\ s.a_memoria[n] = Fin(x)
    BY <1>5, <1>7
  <2>3. CASE x = p
    <3>1. \A n \in 1 .. l : s.a_memoria[n] # Fin(p)
      BY <1>2, <2>1, <2>3 DEF AlDiaDe, l, SinEstado
    <3>2. \A n \in 1 .. Len(q) : q[n] # [pid |-> p, leido |-> TRUE]
      BY <1>1, <1>8 DEF Creacion
    <3> QED
      BY <1>6, <2>2, <2>3, <3>1, <3>2 DEF AlDiaDe
  <2>4. CASE x # p
    <3>1. t.procesos[x] = s.procesos[x] /\ t.pcb[x] = s.pcb[x]
      BY <1>6, <2>4
    <3>2. \A n \in 1 .. Len(t.a_memoria) : t.a_memoria[n] = Nuevo(x) =>
             n \in 1 .. l /\ s.a_memoria[n] = Nuevo(x)
      BY <1>5, <1>7, <2>4
    <3>3. \A n \in 1 .. l : n \in 1 .. Len(t.a_memoria) /\ t.a_memoria[n] = s.a_memoria[n]
      BY <1>5
    <3> QED
      BY <2>1, <2>2, <3>1, <3>2, <3>3 DEF AlDiaDe, l
  <2> QED
    BY <2>3, <2>4
<1>11. \A x \in Pids : s.procesos[x] = "EXIT" => t.procesos[x] = "EXIT"
  BY <1>2, <1>6 DEF SinEstado
<1> QED
  BY <1>3, <1>9, <1>10, <1>11 DEF Coherente, t

\* Memoria's answer to a creation keeps the agreement: what is reverted is the
\* last pid, and what is accepted has its script in memoria.
LEMMA RespuestaCoherente ==
    ASSUME NEW s, NEW q \in Seq(Respuesta), q # << >>, NEW M \in SUBSET Pids,
           Coherente(s, q, M)
    PROVE  LET t == ResponderNuevoProceso(s, Head(q).pid, Head(q).leido)
           IN  /\ Coherente(t, Tail(q), M)
               /\ \A x \in Pids : s.procesos[x] = "EXIT" => t.procesos[x] = "EXIT"
<1> DEFINE p == Head(q).pid
           t == ResponderNuevoProceso(s, p, Head(q).leido)
           r == Tail(q)
<1>1. /\ s \in EstadoKernel /\ EnTurno(s) /\ Orden(s, {}) /\ Creacion(s, q) /\ AlDia(s, q, M)
      /\ s.pid \in 0 .. MaxPid /\ MaxPid \in Nat
  BY OrdenTipo, LimitesAssumption DEF Coherente, Creacion, Orden
<1>2. /\ Head(q) \in Respuesta /\ Head(q) = q[1] /\ 1 \in 1 .. Len(q)
      /\ \A n \in 1 .. Len(r) : n + 1 \in 1 .. Len(q) /\ r[n] = q[n + 1]
  BY PrimeroLeido, Zenon
<1>3. p \in Pids /\ Head(q).leido \in BOOLEAN /\ q[1].pid = p
      /\ (Head(q).leido => q[1] = [pid |-> p, leido |-> TRUE])
  BY <1>2 DEF Respuesta
<1> HIDE DEF r
<1>4. EnCreacion(s, p) /\ \A n \in 1 .. Len(r) : r[n].pid # p
  <2>1. \A j \in 1 .. Len(q) : q[j].pid = p => j = 1
    BY <1>1, <1>2, <1>3 DEF Creacion
  <2>2. \A n \in 1 .. Len(r) : n + 1 # 1
    OBVIOUS
  <2> QED
    BY <1>1, <1>2, <1>3, <2>1, <2>2 DEF Creacion
<1>5. Creacion(s, r) /\ AlDia(s, r, M)
  <2>1. ASSUME NEW x \in Pids, NEW n \in 1 .. Len(r), r[n].pid = x
        PROVE  EnCreacion(s, x) /\ \A j \in 1 .. Len(r) : r[j].pid = x => j = n
    <3>1. n + 1 \in 1 .. Len(q) /\ q[n + 1].pid = x
      BY <1>2, <2>1
    <3>2. EnCreacion(s, x) /\ \A j \in 1 .. Len(q) : q[j].pid = x => j = n + 1
      BY <1>1, <3>1 DEF Creacion
    <3>3. \A j \in 1 .. Len(r) : r[j].pid = x => j + 1 = n + 1
      BY <1>2, <3>2
    <3> QED
      BY <3>2, <3>3
  <2>2. ASSUME NEW x \in Pids, NEW n \in 1 .. Len(s.a_memoria), s.a_memoria[n] = Nuevo(x)
        PROVE  /\ EnCreacion(s, x)
               /\ \A j \in 1 .. Len(s.a_memoria) : s.a_memoria[j] = Nuevo(x) => j = n
               /\ \A j \in 1 .. Len(r) : r[j].pid # x
    BY <1>1, <1>2, <2>2 DEF Creacion
  <2>4. Creacion(s, r)
    BY <1>1, <2>1, <2>2 DEF Creacion
  <2>3. AlDia(s, r, M)
    BY <1>1, <1>2 DEF AlDia, AlDiaDe
  <2> QED
    BY <2>3, <2>4
<1>6. Coherente(s, r, M)
  BY <1>1, <1>5 DEF Coherente
<1>7. \A x \in Pids, n \in 1 .. Len(s.a_memoria) : s.a_memoria[n] = Nuevo(x) => x # p
  BY <1>1, <1>2, <1>3 DEF Creacion
<1>8. CASE s.procesos[p] = "EXIT"
  <2>1. t = s
    BY <1>8 DEF ResponderNuevoProceso, SinEstado
  <2> QED
    BY <1>6, <2>1 DEF r
<1>9. CASE s.procesos[p] # "EXIT"
  <2>1. p = s.pid /\ s.procesos[p] = "NEW" /\ ~ s.pcb[p].memoria_aceptado
    BY <1>4, <1>9 DEF EnCreacion
  <2>2. \A x \in Pids : EnCreacion(s, x) /\ x # p => s.procesos[x] = "EXIT"
    BY <2>1 DEF EnCreacion
  <2>3. CASE ~ Head(q).leido
    <3>1. t = Revertir(s, p)
      BY <1>9, <2>1, <2>3 DEF ResponderNuevoProceso, SinEstado
    <3>2. /\ Orden(t, {})
          /\ t.pid = s.pid - 1 /\ t.caido = s.caido /\ t.detener = s.detener
          /\ t.planificador_iniciar = s.planificador_iniciar
          /\ t.procesos = [s.procesos EXCEPT ![p] = SinEstado]
          /\ t.pcb = s.pcb /\ t.a_memoria = s.a_memoria
          /\ \A e \in Colas \ {"NEW"} : t.cola[e] = s.cola[e]
      <4> DEFINE v == Revertir(s, p)
      <4> HIDE DEF p
      <4>1. Orden(s, {}) /\ p \in Pids /\ s.procesos[p] = "NEW"
        BY <1>1, <1>3, <2>1
      <4>2. /\ Orden(v, {})
            /\ v.pid = s.pid - 1 /\ v.caido = s.caido /\ v.detener = s.detener
            /\ v.planificador_iniciar = s.planificador_iniciar
            /\ v.procesos = [s.procesos EXCEPT ![p] = SinEstado]
            /\ v.pcb = s.pcb /\ v.a_memoria = s.a_memoria
            /\ \A e \in Colas \ {"NEW"} : v.cola[e] = s.cola[e]
        BY ONLY <4>1, RevertirOrden, Zenon
      <4>3. t = v
        BY <3>1
      <4> HIDE DEF t, v
      <4> QED
        BY <4>2, <4>3
    <3> HIDE DEF t, p
    <3>3. s.procesos \in [Pids -> Colas \cup {SinEstado}]
      BY <1>1, Zenon DEF EstadoKernel
    <3>4. /\ t.procesos[p] = SinEstado
          /\ \A x \in Pids \ {p} : t.procesos[x] = s.procesos[x]
      BY <1>3, <3>2, <3>3
    <3>5. ASSUME NEW x \in Pids, EnCreacion(s, x), x # p
          PROVE  EnCreacion(t, x)
      BY <2>2, <3>4, <3>5 DEF EnCreacion
    <3>6. Creacion(t, r)
      <4>1. ASSUME NEW x \in Pids
            PROVE  /\ t.procesos[x] = SinEstado <=> x > t.pid
                   /\ t.procesos[x] \in {"READY", "READY_PRIORIDAD", "EXEC", "BLOCK"}
                         => t.pcb[x].memoria_aceptado
        <5>1. CASE x = p
          BY <1>1, <2>1, <3>2, <3>4, <5>1 DEF SinEstado
        <5>2. CASE x # p
          <6>1. x > s.pid - 1 <=> x > s.pid
            BY <1>1, <2>1, <5>2 DEF Pids
          <6> QED
            BY <1>1, <3>2, <3>4, <5>2, <6>1 DEF Creacion
        <5> QED
          BY <5>1, <5>2
      <4>2. t.pid \in 0 .. MaxPid
        BY <1>1, <1>3, <2>1, <3>2 DEF Pids
      <4>3. ASSUME NEW x \in Pids, NEW n \in 1 .. Len(t.a_memoria), t.a_memoria[n] = Nuevo(x)
            PROVE  /\ EnCreacion(t, x)
                   /\ \A j \in 1 .. Len(t.a_memoria) : t.a_memoria[j] = Nuevo(x) => j = n
                   /\ \A j \in 1 .. Len(r) : r[j].pid # x
        <5>1. s.a_memoria[n] = Nuevo(x) /\ n \in 1 .. Len(s.a_memoria)
          BY <3>2, <4>3
        <5>2. /\ x # p /\ EnCreacion(s, x)
              /\ \A j \in 1 .. Len(s.a_memoria) : s.a_memoria[j] = Nuevo(x) => j = n
              /\ \A j \in 1 .. Len(r) : r[j].pid # x
          BY <1>5, <1>7, <5>1 DEF Creacion
        <5>3. t.a_memoria = s.a_memoria /\ EnCreacion(t, x)
          BY <3>2, <3>5, <5>2
        <5> QED
          BY <5>2, <5>3
      <4>4. ASSUME NEW x \in Pids, NEW n \in 1 .. Len(r), r[n].pid = x
            PROVE  /\ EnCreacion(t, x)
                   /\ \A j \in 1 .. Len(r) : r[j].pid = x => j = n
        BY <1>4, <1>5, <3>5, <4>4 DEF Creacion
      <4> QED
        BY <4>1, <4>2, <4>3, <4>4 DEF Creacion
    <3>7. AlDia(t, r, M)
      <4> SUFFICES ASSUME ~ t.caido, NEW x \in Pids
                   PROVE  AlDiaDe(t, r, M, x)
        BY DEF AlDia
      <4>1. AlDiaDe(s, r, M, x)
        BY <1>5, <3>2 DEF AlDia
      <4>2. CASE x = p
        <5>1. \A n \in 1 .. Len(s.a_memoria) : s.a_memoria[n] # Fin(p)
          BY <1>9, <4>1, <4>2 DEF AlDiaDe
        <5>2. \A n \in 1 .. Len(r) : r[n] # [pid |-> p, leido |-> TRUE]
          BY <1>4
        <5>3. t.procesos[p] # "EXIT" /\ t.procesos[p] \notin Colas \ {"EXIT"}
          BY <3>4 DEF SinEstado, Colas
        <5> QED
          BY <3>2, <4>2, <5>1, <5>2, <5>3 DEF AlDiaDe
      <4>3. CASE x # p
        <5>1. t.procesos[x] = s.procesos[x] /\ t.pcb = s.pcb /\ t.a_memoria = s.a_memoria
          BY <3>2, <3>4, <4>3
        <5> QED
          BY <4>1, <5>1 DEF AlDiaDe
      <4> QED
        BY <4>2, <4>3
    <3>8. \A x \in Pids : s.procesos[x] = "EXIT" => t.procesos[x] = "EXIT"
      BY <1>9, <3>4
    <3>9. Coherente(t, r, M)
      BY <3>2, <3>6, <3>7 DEF Coherente
    <3> QED
      BY <3>8, <3>9 DEF t, r, p
  <2>4. CASE Head(q).leido
    <3> DEFINE u == [s EXCEPT !.pcb[p].memoria_aceptado = TRUE]
    <3>1. Esta(s, "NEW", p)
      BY <1>1, <1>3, <2>1 DEF Orden, Colas
    <3>2. t = Avisar(u)
      BY <1>9, <2>1, <2>4, <3>1 DEF ResponderNuevoProceso, SinEstado
    <3>3. EnTurno(t)
      <4>1. t \in EstadoKernel /\ Conserva(s, t)
        BY <1>1, <1>3, ResponderConserva, Tipado
      <4> QED
        BY <1>1, <4>1, EnTurnoConserva
    <3>4. /\ t.pid = s.pid /\ t.caido = s.caido /\ t.procesos = s.procesos
          /\ t.a_memoria = s.a_memoria /\ t.cola = s.cola
          /\ t.pcb[p].memoria_aceptado = TRUE
          /\ \A x \in Pids \ {p} : t.pcb[x] = s.pcb[x]
      <4>1. s.pcb \in [Pids -> Pcb] /\ s.pcb[p] \in Pcb
        BY <1>1, <1>3, Zenon DEF EstadoKernel
      <4>2. /\ t.pid = s.pid /\ t.caido = s.caido /\ t.procesos = s.procesos
            /\ t.a_memoria = s.a_memoria /\ t.cola = s.cola
            /\ t.pcb = [s.pcb EXCEPT ![p] = [s.pcb[p] EXCEPT !.memoria_aceptado = TRUE]]
        <5> HIDE DEF p
        <5> QED
          BY <1>1, <3>2, Zenon DEF EstadoKernel, Avisar
      <4> HIDE DEF t, p
      <4> QED
        BY <1>3, <4>1, <4>2 DEF Pcb
    <3> HIDE DEF t, p
    <3>5. Orden(t, {})
      BY <1>1, <3>3, <3>4 DEF Orden, Esta
    <3>6. ASSUME NEW x \in Pids, EnCreacion(s, x), x # p
          PROVE  EnCreacion(t, x)
      BY <2>2, <3>4, <3>6 DEF EnCreacion
    <3>7. Creacion(t, r)
      <4>1. ASSUME NEW x \in Pids
            PROVE  /\ t.procesos[x] = SinEstado <=> x > t.pid
                   /\ t.procesos[x] \in {"READY", "READY_PRIORIDAD", "EXEC", "BLOCK"}
                         => t.pcb[x].memoria_aceptado
        BY <1>1, <3>4 DEF Creacion
      <4>2. ASSUME NEW x \in Pids, NEW n \in 1 .. Len(t.a_memoria), t.a_memoria[n] = Nuevo(x)
            PROVE  /\ EnCreacion(t, x)
                   /\ \A j \in 1 .. Len(t.a_memoria) : t.a_memoria[j] = Nuevo(x) => j = n
                   /\ \A j \in 1 .. Len(r) : r[j].pid # x
        <5>1. s.a_memoria[n] = Nuevo(x) /\ n \in 1 .. Len(s.a_memoria)
          BY <3>4, <4>2
        <5>2. /\ x # p /\ EnCreacion(s, x)
              /\ \A j \in 1 .. Len(s.a_memoria) : s.a_memoria[j] = Nuevo(x) => j = n
              /\ \A j \in 1 .. Len(r) : r[j].pid # x
          BY <1>5, <1>7, <5>1 DEF Creacion
        <5>3. t.a_memoria = s.a_memoria /\ EnCreacion(t, x)
          BY <3>4, <3>6, <5>2
        <5> QED
          BY <5>2, <5>3
      <4>3. ASSUME NEW x \in Pids, NEW n \in 1 .. Len(r), r[n].pid = x
            PROVE  /\ EnCreacion(t, x)
                   /\ \A j \in 1 .. Len(r) : r[j].pid = x => j = n
        BY <1>4, <1>5, <3>6, <4>3 DEF Creacion
      <4>4. t.pid \in 0 .. MaxPid
        BY <1>1, <3>4
      <4> QED
        BY <4>1, <4>2, <4>3, <4>4 DEF Creacion
    <3>8. AlDia(t, r, M)
      <4> SUFFICES ASSUME ~ t.caido, NEW x \in Pids
                   PROVE  AlDiaDe(t, r, M, x)
        BY DEF AlDia
      <4>1. AlDiaDe(s, r, M, x) /\ AlDiaDe(s, q, M, x)
        BY <1>1, <1>5, <3>4 DEF AlDia
      <4>2. t.procesos = s.procesos /\ t.a_memoria = s.a_memoria
        BY <3>4
      <4>3. CASE x = p
        <5>1. p \in M
          BY <1>2, <1>3, <1>9, <2>4, <4>1, <4>3 DEF AlDiaDe
        <5> QED
          BY <4>1, <4>2, <4>3, <5>1 DEF AlDiaDe
      <4>4. CASE x # p
        <5>1. t.pcb[x] = s.pcb[x]
          BY <3>4, <4>4
        <5> QED
          BY <4>1, <4>2, <5>1 DEF AlDiaDe
      <4> QED
        BY <4>3, <4>4
    <3>9. Coherente(t, r, M)
      BY <3>5, <3>7, <3>8 DEF Coherente
    <3> QED
      BY <3>4, <3>9 DEF t, r, p
  <2> QED
    BY <1>3, <2>3, <2>4
<1> QED
  BY <1>8, <1>9

\* Memoria reads a notice of the kernel: it answers a creation, read or not,
\* and forgets the process of an end.
LEMMA AvisoLeidoCoherente ==
    ASSUME NEW s, NEW q \in Seq(Respuesta), NEW M \in SUBSET Pids, Coherente(s, q, M),
           s.a_memoria # << >>
    PROVE  LET t == [s EXCEPT !.a_memoria = Tail(@)]
               m == Head(s.a_memoria)
           IN  /\ m.op = "NUEVO_PROCESO" =>
                     /\ Coherente(t, Append(q, [pid |-> m.pid, leido |-> TRUE]), M \cup {m.pid})
                     /\ Coherente(t, Append(q, [pid |-> m.pid, leido |-> FALSE]), M)
               /\ m.op = "FINALIZAR_PROCESO" => Coherente(t, q, M \ {m.pid})
               /\ t.procesos = s.procesos
<1> DEFINE a == s.a_memoria
           b == Tail(a)
           t == [s EXCEPT !.a_memoria = b]
           m == Head(a)
           A == [op : {"NUEVO_PROCESO", "FINALIZAR_PROCESO"}, pid : Pids]
<1>1. s \in EstadoKernel /\ Orden(s, {}) /\ Creacion(s, q) /\ AlDia(s, q, M) /\ EnTurno(s)
  BY OrdenTipo DEF Coherente, Orden
<1>2. a \in Seq(A) /\ a # << >>
  BY <1>1, Zenon DEF EstadoKernel
<1>3. t = [s EXCEPT !.a_memoria = Tail(@)]
  OBVIOUS
<1>4. /\ t.a_memoria = b /\ t.procesos = s.procesos /\ t.pcb = s.pcb /\ t.cola = s.cola
      /\ t.pid = s.pid /\ t.caido = s.caido
  BY <1>1, Zenon DEF EstadoKernel
<1> HIDE DEF a
<1>5. /\ m \in A /\ m = a[1] /\ b \in Seq(A) /\ Len(a) \in Nat /\ 1 \in 1 .. Len(a)
      /\ \A n \in 1 .. Len(b) : n + 1 \in 1 .. Len(a) /\ b[n] = a[n + 1]
      /\ \A n \in 1 .. Len(a) : n # 1 => n - 1 \in 1 .. Len(b) /\ b[n - 1] = a[n]
  BY <1>2, PrimeroLeido, Zenon
<1>6. EnTurno(t)
  <2>1. Conserva(s, t)
    BY <1>1, <1>5, ConAMemoria
  <2> QED
    BY <1>1, <2>1, EnTurnoConserva
<1> HIDE DEF t, b, m
<1>7. /\ m.pid \in Pids
      /\ m.op = "NUEVO_PROCESO" => m = Nuevo(m.pid)
      /\ m.op = "FINALIZAR_PROCESO" => m = Fin(m.pid)
      /\ \A x, y \in Pids : Nuevo(x) # Fin(y)
      /\ \A x, y \in Pids : Nuevo(x) = Nuevo(y) => x = y
      /\ \A x, y \in Pids : Fin(x) = Fin(y) => x = y
  BY <1>5 DEF Nuevo, Fin
<1>8. Orden(t, {})
  BY <1>1, <1>4, <1>6 DEF Orden, Esta
<1>9. \A x \in Pids : EnCreacion(s, x) <=> EnCreacion(t, x)
  BY <1>4 DEF EnCreacion
<1>10. /\ t.pid \in 0 .. MaxPid
       /\ \A x \in Pids :
             /\ t.procesos[x] = SinEstado <=> x > t.pid
             /\ t.procesos[x] \in {"READY", "READY_PRIORIDAD", "EXEC", "BLOCK"}
                   => t.pcb[x].memoria_aceptado
  BY <1>1, <1>4 DEF Creacion
<1>11. ASSUME NEW x \in Pids, NEW n \in 1 .. Len(b), b[n] = Nuevo(x)
       PROVE  /\ EnCreacion(t, x)
              /\ \A j \in 1 .. Len(b) : b[j] = Nuevo(x) => j = n
              /\ \A j \in 1 .. Len(q) : q[j].pid # x
              /\ m.op = "NUEVO_PROCESO" => x # m.pid
  <2>1. n + 1 \in 1 .. Len(a) /\ a[n + 1] = Nuevo(x)
    BY <1>5, <1>11
  <2>2. /\ EnCreacion(s, x)
        /\ \A j \in 1 .. Len(a) : a[j] = Nuevo(x) => j = n + 1
        /\ \A j \in 1 .. Len(q) : q[j].pid # x
    BY <1>1, <2>1 DEF Creacion, a
  <2>3. \A j \in 1 .. Len(b) : b[j] = Nuevo(x) => j + 1 = n + 1
    BY <1>5, <2>2
  <2>4. m.op = "NUEVO_PROCESO" => x # m.pid
    BY <1>5, <1>7, <2>2
  <2> QED
    BY <1>9, <2>2, <2>3, <2>4
<1>12. ASSUME NEW x \in Pids, NEW n \in 1 .. Len(q), q[n].pid = x
       PROVE  /\ EnCreacion(t, x)
              /\ \A j \in 1 .. Len(q) : q[j].pid = x => j = n
  BY <1>1, <1>9, <1>12 DEF Creacion
<1>13. ASSUME ~ t.caido, NEW x \in Pids
       PROVE  /\ \A n \in 1 .. Len(b) : b[n] = Fin(x) => t.procesos[x] = "EXIT"
              /\ t.procesos[x] = "EXIT" /\ x \in M /\ m # Fin(x) =>
                    \E n \in 1 .. Len(b) : b[n] = Fin(x)
              /\ t.procesos[x] = "EXIT" /\ m = Nuevo(x) =>
                    \E n \in 1 .. Len(b) : b[n] = Fin(x)
              /\ t.procesos[x] = "EXIT" => \A n \in 1 .. Len(b) : b[n] = Nuevo(x) =>
                    \E j \in 1 .. Len(b) : j > n /\ b[j] = Fin(x)
              /\ m = Fin(x) => t.procesos[x] = "EXIT"
              /\ t.procesos[x] \in Colas \ {"EXIT"} /\ t.pcb[x].memoria_aceptado => x \in M
              /\ t.procesos[x] # "EXIT" =>
                    \A n \in 1 .. Len(q) : q[n] = [pid |-> x, leido |-> TRUE] => x \in M
  <2>1. /\ \A n \in 1 .. Len(a) : a[n] = Fin(x) => s.procesos[x] = "EXIT"
        /\ s.procesos[x] = "EXIT" /\ x \in M => \E n \in 1 .. Len(a) : a[n] = Fin(x)
        /\ s.procesos[x] = "EXIT" => \A n \in 1 .. Len(a) : a[n] = Nuevo(x) =>
              \E j \in 1 .. Len(a) : j > n /\ a[j] = Fin(x)
        /\ s.procesos[x] \in Colas \ {"EXIT"} /\ s.pcb[x].memoria_aceptado => x \in M
        /\ s.procesos[x] # "EXIT" =>
              \A n \in 1 .. Len(q) : q[n] = [pid |-> x, leido |-> TRUE] => x \in M
    <3>1. AlDiaDe(s, q, M, x)
      BY <1>1, <1>4, <1>13 DEF AlDia
    <3> QED
      BY <3>1 DEF AlDiaDe, a
  <2>2. ASSUME NEW n \in 1 .. Len(a), n # 1, a[n] = Fin(x)
        PROVE  n - 1 \in 1 .. Len(b) /\ b[n - 1] = Fin(x)
    BY <1>5, <2>2
  <2>3. \A n \in 1 .. Len(b) : b[n] = Fin(x) => t.procesos[x] = "EXIT"
    BY <1>4, <1>5, <2>1
  <2>4. t.procesos[x] = "EXIT" /\ x \in M /\ m # Fin(x) =>
           \E n \in 1 .. Len(b) : b[n] = Fin(x)
    <3>1. HAVE t.procesos[x] = "EXIT" /\ x \in M /\ m # Fin(x)
    <3>2. PICK n \in 1 .. Len(a) : a[n] = Fin(x)
      BY <1>4, <2>1, <3>1
    <3>3. n # 1
      BY <1>5, <3>1, <3>2
    <3> QED
      BY <2>2, <3>2, <3>3
  <2>5. t.procesos[x] = "EXIT" /\ m = Nuevo(x) => \E n \in 1 .. Len(b) : b[n] = Fin(x)
    <3>1. HAVE t.procesos[x] = "EXIT" /\ m = Nuevo(x)
    <3>2. PICK n \in 1 .. Len(a) : n > 1 /\ a[n] = Fin(x)
      BY <1>4, <1>5, <2>1, <3>1
    <3> QED
      BY <2>2, <3>2
  <2>6. t.procesos[x] = "EXIT" => \A n \in 1 .. Len(b) : b[n] = Nuevo(x) =>
           \E j \in 1 .. Len(b) : j > n /\ b[j] = Fin(x)
    <3>1. HAVE t.procesos[x] = "EXIT"
    <3>2. TAKE n \in 1 .. Len(b)
    <3>3. HAVE b[n] = Nuevo(x)
    <3>4. n + 1 \in 1 .. Len(a) /\ a[n + 1] = Nuevo(x)
      BY <1>5, <3>3
    <3>5. PICK j \in 1 .. Len(a) : j > n + 1 /\ a[j] = Fin(x)
      BY <1>4, <2>1, <3>1, <3>4
    <3>6. j # 1 /\ j - 1 > n
      BY <1>5, <3>5
    <3> QED
      BY <2>2, <3>5, <3>6
  <2>7. m = Fin(x) => t.procesos[x] = "EXIT"
    BY <1>4, <1>5, <2>1
  <2> QED
    BY <1>4, <2>1, <2>3, <2>4, <2>5, <2>6, <2>7
<1>14. ASSUME m.op = "FINALIZAR_PROCESO"
       PROVE  Coherente(t, q, M \ {m.pid})
  <2>1. Creacion(t, q)
    BY <1>4, <1>10, <1>11, <1>12 DEF Creacion
  <2>2. AlDia(t, q, M \ {m.pid})
    <3> SUFFICES ASSUME ~ t.caido, NEW x \in Pids
                 PROVE  AlDiaDe(t, q, M \ {m.pid}, x)
      BY DEF AlDia
    <3>1. m = Fin(m.pid)
      BY <1>7, <1>14
    <3>2. x # m.pid => m # Fin(x)
      BY <1>7, <3>1
    <3>3. x = m.pid => t.procesos[x] = "EXIT"
      BY <1>13, <3>1
    <3> QED
      BY <1>4, <1>13, <3>2, <3>3 DEF AlDiaDe
  <2> QED
    BY <1>8, <2>1, <2>2 DEF Coherente
<1>15. ASSUME m.op = "NUEVO_PROCESO", NEW l \in BOOLEAN
       PROVE  LET r == Append(q, [pid |-> m.pid, leido |-> l])
              IN  /\ Creacion(t, r)
                  /\ \A x \in Pids, n \in 1 .. Len(r) : r[n] = [pid |-> x, leido |-> TRUE] =>
                        \/ l /\ x = m.pid
                        \/ n \in 1 .. Len(q) /\ q[n] = [pid |-> x, leido |-> TRUE]
  <2> DEFINE z == [pid |-> m.pid, leido |-> l]
             r == Append(q, z)
  <2>1. z \in Respuesta /\ z.pid = m.pid /\ z.leido = l
    BY <1>7 DEF Respuesta
  <2>2. /\ Len(q) \in Nat /\ Len(r) = Len(q) + 1 /\ r[Len(q) + 1] = z
        /\ \A n \in 1 .. Len(q) : r[n] = q[n] /\ n \in 1 .. Len(q) + 1
        /\ \A n \in 1 .. Len(q) + 1 : n \in 1 .. Len(q) \/ n = Len(q) + 1
    BY <2>1, UltimoEscrito
  <2> HIDE DEF z, r
  <2>3. EnCreacion(t, m.pid) /\ \A j \in 1 .. Len(q) : q[j].pid # m.pid
    <3>1. a[1] = Nuevo(m.pid)
      BY <1>5, <1>7, <1>15
    <3>2. EnCreacion(s, m.pid) /\ \A j \in 1 .. Len(q) : q[j].pid # m.pid
      BY <1>1, <1>5, <1>7, <3>1 DEF Creacion, a
    <3> QED
      BY <1>7, <1>9, <3>2
  <2>4. ASSUME NEW x \in Pids, NEW n \in 1 .. Len(r), r[n].pid = x
        PROVE  /\ EnCreacion(t, x)
               /\ \A j \in 1 .. Len(r) : r[j].pid = x => j = n
    <3>1. CASE n = Len(q) + 1
      <4>1. x = m.pid
        BY <2>1, <2>2, <2>4, <3>1
      <4> QED
        BY <2>2, <2>3, <3>1, <4>1
    <3>2. CASE n # Len(q) + 1
      <4>1. n \in 1 .. Len(q) /\ q[n].pid = x
        BY <2>2, <2>4, <3>2
      <4>2. x # m.pid
        BY <2>3, <4>1
      <4>3. EnCreacion(t, x) /\ \A j \in 1 .. Len(q) : q[j].pid = x => j = n
        BY <1>12, <4>1
      <4> QED
        BY <2>1, <2>2, <4>2, <4>3
    <3> QED
      BY <3>1, <3>2
  <2>5. ASSUME NEW x \in Pids, NEW n \in 1 .. Len(b), b[n] = Nuevo(x)
        PROVE  \A j \in 1 .. Len(r) : r[j].pid # x
    <3>1. x # m.pid /\ \A j \in 1 .. Len(q) : q[j].pid # x
      BY <1>11, <1>15, <2>5
    <3> QED
      BY <2>1, <2>2, <3>1
  <2>6. Creacion(t, r)
    BY <1>4, <1>10, <1>11, <2>4, <2>5 DEF Creacion
  <2>7. ASSUME NEW x \in Pids, NEW n \in 1 .. Len(r), r[n] = [pid |-> x, leido |-> TRUE]
        PROVE  \/ l /\ x = m.pid
               \/ n \in 1 .. Len(q) /\ q[n] = [pid |-> x, leido |-> TRUE]
    <3>1. CASE n \in 1 .. Len(q)
      BY <2>2, <2>7, <3>1
    <3>2. CASE n = Len(q) + 1
      <4>1. z = [pid |-> x, leido |-> TRUE]
        BY <2>2, <2>7, <3>2
      <4>2. z.pid = x /\ z.leido = TRUE
        BY <4>1
      <4> QED
        BY <2>1, <4>2, Zenon
    <3> QED
      BY <2>2, <3>1, <3>2
  <2> QED
    BY <2>6, <2>7 DEF r, z
<1>16. ASSUME m.op = "NUEVO_PROCESO"
       PROVE  Coherente(t, Append(q, [pid |-> m.pid, leido |-> TRUE]), M \cup {m.pid})
  <2> DEFINE r == Append(q, [pid |-> m.pid, leido |-> TRUE])
  <2>1. /\ Creacion(t, r)
        /\ \A x \in Pids, n \in 1 .. Len(r) : r[n] = [pid |-> x, leido |-> TRUE] =>
              \/ x = m.pid
              \/ n \in 1 .. Len(q) /\ q[n] = [pid |-> x, leido |-> TRUE]
    BY <1>15, <1>16
  <2> HIDE DEF r
  <2>2. AlDia(t, r, M \cup {m.pid})
    <3> SUFFICES ASSUME ~ t.caido, NEW x \in Pids
                 PROVE  AlDiaDe(t, r, M \cup {m.pid}, x)
      BY DEF AlDia
    <3>1. m = Nuevo(m.pid) /\ m # Fin(x)
      BY <1>7, <1>16
    <3>2. t.procesos[x] # "EXIT" => \A n \in 1 .. Len(r) :
             r[n] = [pid |-> x, leido |-> TRUE] => x \in M \cup {m.pid}
      BY <1>13, <2>1
    <3>3. t.procesos[x] = "EXIT" /\ x \in M \cup {m.pid} =>
             \E n \in 1 .. Len(b) : b[n] = Fin(x)
      BY <1>13, <3>1
    <3> QED
      BY <1>4, <1>13, <3>2, <3>3 DEF AlDiaDe
  <2> QED
    BY <1>8, <2>1, <2>2 DEF Coherente, r
<1>17. ASSUME m.op = "NUEVO_PROCESO"
       PROVE  Coherente(t, Append(q, [pid |-> m.pid, leido |-> FALSE]), M)
  <2> DEFINE r == Append(q, [pid |-> m.pid, leido |-> FALSE])
  <2>1. /\ Creacion(t, r)
        /\ \A x \in Pids, n \in 1 .. Len(r) : r[n] = [pid |-> x, leido |-> TRUE] =>
              n \in 1 .. Len(q) /\ q[n] = [pid |-> x, leido |-> TRUE]
    BY <1>15, <1>17
  <2> HIDE DEF r
  <2>2. AlDia(t, r, M)
    <3> SUFFICES ASSUME ~ t.caido, NEW x \in Pids
                 PROVE  AlDiaDe(t, r, M, x)
      BY DEF AlDia
    <3>1. m # Fin(x)
      BY <1>7, <1>17
    <3>2. t.procesos[x] # "EXIT" => \A n \in 1 .. Len(r) :
             r[n] = [pid |-> x, leido |-> TRUE] => x \in M
      BY <1>13, <2>1
    <3> QED
      BY <1>4, <1>13, <3>1, <3>2 DEF AlDiaDe
  <2> QED
    BY <1>8, <2>1, <2>2 DEF Coherente, r
<1> QED
  BY <1>4, <1>14, <1>16, <1>17 DEF t, m, b, a

-----------------------------------------------------------------------------
(* The actions.                                                            *)

\* The agreement, in the current state.
Coherencia == Coherente(k, respuestas, memoria.procesos)

\* The command FINALIZAR_PROCESO is a handler that ends one process.
LEMMA FinalizarProcesoOrden ==
    ASSUME Orden(k, {}), NEW p \in Pids, FinalizarProceso(p)
    PROVE  Paso(k, k', p)
<1>1. k.procesos[p] = "EXEC" => Esta(k, "EXEC", p)
  BY DEF Orden, Colas
<1>2. CASE k.procesos[p] = "EXEC" /\ k' = FinalizarEnExec(k, p)
  BY <1>1, <1>2, FinalizarUsuarioPaso
<1>3. CASE \E r \in RecursosDe(k, p), falla \in BOOLEAN :
              \E orden \in OrdenesAlInterrumpir(k, p, r) :
                  k' = FinalizarEnRecurso(k, p, r, orden, falla)
  <2>1. PICK r \in RecursosDe(k, p), falla \in BOOLEAN :
           \E orden \in OrdenesAlInterrumpir(k, p, r) :
              k' = FinalizarEnRecurso(k, p, r, orden, falla)
    BY <1>3
  <2>2. PICK orden \in OrdenesAlInterrumpir(k, p, r) :
           k' = FinalizarEnRecurso(k, p, r, orden, falla)
    BY <2>1
  <2>3. r \in Recursos
    BY DEF RecursosDe
  <2> QED
    BY <2>2, <2>3, FinalizarUsuarioPaso
<1>4. CASE \E i \in InterfacesDe(k, p) : k' = FinalizarEnInterfaz(k, p, i)
  BY <1>4, FinalizarUsuarioPaso DEF InterfacesDe
<1>5. CASE k' = FinalizarEnEspera(k, p)
  BY <1>5, FinalizarUsuarioPaso
<1>6. CASE k' = FinalizarEnCola(k, p)
  BY <1>6, FinalizarUsuarioPaso
<1> QED
  BY <1>2, <1>3, <1>4, <1>5, <1>6 DEF FinalizarProceso

\* So is each packet of the CPU and each report of an interface.
LEMMA PaquetesOrden ==
    ASSUME Inductivo, Orden(k, {}),
           \/ DispatchProceso \/ DispatchResize \/ DispatchWait \/ DispatchSignal
           \/ InterruptIoGenSleep
           \/ \E i \in Interfaces : AtenderCompletado(i)
    PROVE  \E p \in Pids : Paso(k, k', p)
<1>1. /\ k \in EstadoKernel /\ dispatch \in Seq(Mensaje) /\ interrupt \in Seq(Mensaje)
      /\ completados \in [Interfaces -> Seq(Pids)]
  BY DEF Inductivo, TypeOK
<1>2. ASSUME dispatch # << >>
      PROVE  Head(dispatch) \in Mensaje /\ Head(dispatch).pid \in Pids
  BY <1>1, <1>2, HeadTailProperties, MensajeTipo
<1>3. CASE DispatchProceso
  BY <1>2, <1>3, RestosTipo, DispatchOrden DEF DispatchProceso, RecibirDispatch
<1>4. CASE DispatchResize
  BY <1>2, <1>4, RestosTipo, DispatchOrden DEF DispatchResize, RecibirDispatch
<1>5. CASE DispatchWait
  BY <1>2, <1>5, RestosTipo, DispatchOrden DEF DispatchWait, RecibirDispatch
<1>6. CASE DispatchSignal
  BY <1>1, <1>2, <1>6, RestosTipo, CabezasTipo, DispatchOrden
     DEF DispatchSignal, RecibirDispatch
<1>7. CASE InterruptIoGenSleep
  <2>1. Head(interrupt) \in Mensaje
    BY <1>1, <1>7, HeadTailProperties DEF InterruptIoGenSleep
  <2> QED
    BY <1>7, <2>1, MensajeTipo, RestosTipo, IoPaso DEF InterruptIoGenSleep
<1>8. CASE \E i \in Interfaces : AtenderCompletado(i)
  <2>1. PICK i \in Interfaces : AtenderCompletado(i)
    BY <1>8
  <2>2. Head(completados[i]) \in Pids
    BY <1>1, <2>1, HeadTailProperties DEF AtenderCompletado
  <2>3. PICK registrada \in Interfaces :
           k' = CompletarIoGenSleep(k, i, Head(completados[i]), registrada)
    BY <2>1 DEF AtenderCompletado, InterfacesDe
  <2>4. Continua(k, k', {})
    BY <2>2, <2>3, IoPaso
  <2> DEFINE p == Head(completados[i])
  <2> HIDE DEF p
  <2>5. Continua(k, k', {}) => Paso(k, k', p)
    BY <2>2, ContinuaPaso DEF p
  <2> QED
    BY <2>2, <2>4, <2>5 DEF p
<1> QED
  BY <1>3, <1>4, <1>5, <1>6, <1>7, <1>8

\* The commands that only set a flag or post, the timers, and the reads of the
\* CPU and the interfaces leave the table of processes alone.
LEMMA Ajenos ==
    ASSUME Inductivo,
           \/ DetenerPlanificacion \/ IniciarPlanificacion
           \/ \E g \in Grados : Multiprogramacion(g)
           \/ TemporizadorVence \/ FinQuantum
           \/ CpuEjecutarProceso \/ CpuInterrupcion
           \/ \E i \in Interfaces : InterfazRecibe(i)
    PROVE  Mismo(k, k')
<1>1. k \in EstadoKernel
  BY DEF Inductivo, TypeOK
<1>2. /\ k'.cola = k.cola /\ k'.procesos = k.procesos /\ k'.a_memoria = k.a_memoria
      /\ k'.pid = k.pid /\ k'.caido = k.caido /\ k'.pcb = k.pcb
  <2>1. CASE DetenerPlanificacion
    BY <1>1, <2>1, Zenon DEF DetenerPlanificacion, EstadoKernel
  <2>2. CASE IniciarPlanificacion
    BY <1>1, <2>2, Zenon DEF IniciarPlanificacion, Avisar, EstadoKernel
  <2>3. CASE \E g \in Grados : Multiprogramacion(g)
    BY <1>1, <2>3, Zenon DEF Multiprogramacion, EstadoKernel
  <2>4. CASE TemporizadorVence
    BY <1>1, <2>4, Zenon DEF TemporizadorVence, EstadoKernel
  <2>5. CASE FinQuantum
    BY <1>1, <2>5, Zenon DEF FinQuantum, InterrumpirCpu, EstadoKernel
  <2>6. CASE CpuEjecutarProceso
    BY <1>1, <2>6, Zenon DEF CpuEjecutarProceso, EstadoKernel
  <2>7. CASE CpuInterrupcion
    BY <1>1, <2>7, Zenon DEF CpuInterrupcion, EstadoKernel
  <2>8. CASE \E i \in Interfaces : InterfazRecibe(i)
    BY <1>1, <2>8, Zenon DEF InterfazRecibe, EstadoKernel
  <2> QED
    BY <2>1, <2>2, <2>3, <2>4, <2>5, <2>6, <2>7, <2>8
<1> QED
  BY <1>2 DEF Mismo

\* A turn of the planner is a step that leaves the table alone, taking the
\* token, and one that moves processes without ending any.
LEMMA TurnoOrden ==
    ASSUME Inductivo, Orden(k, {}), HiloPlanificador
    PROVE  LET t == [k EXCEPT !.planificador_iniciar = @ - 1]
           IN  /\ Mismo(k, t) /\ EnTurno(t) /\ Orden(t, {})
               /\ Continua(t, k', {})
               /\ k' = IF t.detener THEN t ELSE CortoPlazo(LargoPlazo(t))
               /\ t.grado = k.grado /\ t.detener = k.detener
<1> DEFINE t == [k EXCEPT !.planificador_iniciar = @ - 1]
<1>1. k \in EstadoKernel /\ EnTurno(k)
  BY DEF Orden, Inductivo, TypeOK
<1>2. k.planificador_iniciar - 1 \in Nat
  <2>1. k.planificador_iniciar \in Nat
    BY <1>1, SemaforoTipo
  <2> QED
    BY <2>1 DEF HiloPlanificador
<1>3. EnTurno(t)
  BY <1>1, <1>2, ConFichas, ConservaEnTurno
<1>4. k' = IF t.detener THEN t ELSE CortoPlazo(LargoPlazo(t))
  BY DEF HiloPlanificador
<1>5. /\ t.cola = k.cola /\ t.procesos = k.procesos /\ t.a_memoria = k.a_memoria
      /\ t.pid = k.pid /\ t.caido = k.caido /\ t.pcb = k.pcb
      /\ t.grado = k.grado /\ t.detener = k.detener
  BY <1>1, Zenon DEF EstadoKernel
<1> HIDE DEF t
<1>6. Mismo(k, t)
  BY <1>5 DEF Mismo
<1>7. Orden(t, {})
  BY <1>3, <1>5 DEF Orden, Esta
<1>8. Continua(t, t, {}) /\ Continua(t, LargoPlazo(t), {})
  BY <1>7, MismoContinua, LargoPlazoContinua
<1>9. Continua(t, CortoPlazo(LargoPlazo(t)), {})
  <2>1. Continua(LargoPlazo(t), CortoPlazo(LargoPlazo(t)), {})
    BY <1>8, CortoPlazoContinua DEF Continua
  <2> QED
    BY <1>7, <1>8, <2>1, ContinuaTransitivo
<1>10. Continua(t, k', {})
  BY <1>4, <1>8, <1>9
<1> QED
  BY <1>3, <1>4, <1>5, <1>6, <1>7, <1>10 DEF t

\* What every step keeps: the agreement, and that who ended stays so.
Firme == Coherencia' /\ \A p \in Pids : k.procesos[p] = "EXIT" => k'.procesos[p] = "EXIT"

\* A step that leaves the table alone, and what memoria holds and answered.
LEMMA MismoFirme ==
    ASSUME Coherencia, EnTurno(k'), Mismo(k, k'), UNCHANGED <<respuestas, memoria>>
    PROVE  Firme
<1>1. Coherente(k', respuestas, memoria.procesos)
  BY MismoCoherente DEF Coherencia
<1> QED
  BY <1>1 DEF Coherencia, Firme, Mismo

\* A handler that ends one process or none.
LEMMA PasoFirme ==
    ASSUME Coherencia, NEW p \in Pids, Paso(k, k', p), UNCHANGED <<respuestas, memoria>>
    PROVE  Firme
<1>1. /\ Coherente(k', respuestas, memoria.procesos)
      /\ \A x \in Pids : k.procesos[x] = "EXIT" => k'.procesos[x] = "EXIT"
  BY PasoCoherente DEF Coherencia
<1> QED
  BY <1>1 DEF Coherencia, Firme

\* The kernel's actions.
LEMMA KernelFirme ==
    ASSUME OperadorEspera = TRUE, Inductivo, Inductivo', Coherencia, PasoKernel
    PROVE  Firme
<1>1. /\ k \in EstadoKernel /\ EnTurno(k') /\ Orden(k, {}) /\ UNCHANGED memoria
      /\ respuestas \in Seq(Respuesta) /\ memoria.procesos \in SUBSET Pids
  BY DEF Inductivo, TypeOK, ExecUnico, EnTurno, Coherencia, Coherente, PasoKernel,
         SoloKernel, Respuesta
<1>2. CASE IniciarProceso
  <2> DEFINE p == k.pid + 1
  <2>1. p \in Pids /\ k' = NuevoProceso(k, p) /\ UNCHANGED respuestas
    BY <1>2 DEF IniciarProceso, entradas
  <2>2. \A x \in Range(k.cola["NEW"]) : k.pcb[x].memoria_aceptado
    BY <1>2 DEF IniciarProceso, CreacionPendiente
  <2>3. p = k.pid + 1
    OBVIOUS
  <2> HIDE DEF p
  <2>4. /\ Coherente(NuevoProceso(k, p), respuestas, memoria.procesos)
        /\ \A x \in Pids : k.procesos[x] = "EXIT" => NuevoProceso(k, p).procesos[x] = "EXIT"
    BY <1>1, <2>1, <2>2, <2>3, NuevoCoherente DEF Coherencia
  <2> QED
    BY <1>1, <2>1, <2>4 DEF Coherencia, Firme
<1>3. CASE \E p \in Pids : FinalizarProceso(p)
  <2>1. PICK p \in Pids : FinalizarProceso(p)
    BY <1>3
  <2>2. UNCHANGED respuestas
    BY <2>1 DEF FinalizarProceso, entradas
  <2> QED
    BY <1>1, <2>1, <2>2, FinalizarProcesoOrden, PasoFirme
<1>4. CASE \/ DetenerPlanificacion \/ IniciarPlanificacion
           \/ \E g \in Grados : Multiprogramacion(g)
           \/ TemporizadorVence \/ FinQuantum
  <2>1. UNCHANGED respuestas
    BY <1>4 DEF DetenerPlanificacion, IniciarPlanificacion, Multiprogramacion,
                TemporizadorVence, FinQuantum, entradas
  <2>2. Mismo(k, k')
    BY <1>4, Ajenos
  <2> QED
    BY <1>1, <2>1, <2>2, MismoFirme
<1>5. CASE HiloPlanificador
  <2> DEFINE t == [k EXCEPT !.planificador_iniciar = @ - 1]
  <2>1. Mismo(k, t) /\ EnTurno(t) /\ Orden(t, {}) /\ Continua(t, k', {})
    BY <1>1, <1>5, TurnoOrden
  <2> HIDE DEF t
  <2>2. 1 \in Pids
    BY LimitesAssumption DEF Pids
  <2>3. Continua(t, k', {}) => Paso(t, k', 1)
    BY <2>1, <2>2, ContinuaPaso
  <2>4. Coherente(t, respuestas, memoria.procesos)
    BY <2>1, MismoCoherente DEF Coherencia
  <2>5. /\ Coherente(k', respuestas, memoria.procesos)
        /\ \A x \in Pids : t.procesos[x] = "EXIT" => k'.procesos[x] = "EXIT"
    BY <2>1, <2>2, <2>3, <2>4, PasoCoherente
  <2>6. UNCHANGED respuestas
    BY <1>5 DEF HiloPlanificador, entradas
  <2> QED
    BY <1>1, <2>1, <2>5, <2>6 DEF Coherencia, Firme, Mismo
<1>6. CASE AtenderMemoria
  <2> DEFINE t == ResponderNuevoProceso(k, Head(respuestas).pid, Head(respuestas).leido)
  <2>1. k' = t /\ respuestas # << >> /\ respuestas' = Tail(respuestas)
    BY <1>6 DEF AtenderMemoria
  <2>2. /\ Coherente(t, Tail(respuestas), memoria.procesos)
        /\ \A x \in Pids : k.procesos[x] = "EXIT" => t.procesos[x] = "EXIT"
    BY <1>1, <2>1, RespuestaCoherente DEF Coherencia
  <2> HIDE DEF t
  <2> QED
    BY <1>1, <2>1, <2>2 DEF Coherencia, Firme
<1>7. CASE \/ DispatchProceso \/ DispatchResize \/ DispatchWait \/ DispatchSignal
           \/ InterruptIoGenSleep
           \/ \E i \in Interfaces : AtenderCompletado(i)
  <2>1. PICK p \in Pids : Paso(k, k', p)
    BY <1>1, <1>7, PaquetesOrden
  <2>2. UNCHANGED respuestas
    BY <1>7 DEF DispatchProceso, DispatchResize, DispatchWait, DispatchSignal,
                RecibirDispatch, InterruptIoGenSleep, AtenderCompletado
  <2> QED
    BY <1>1, <2>1, <2>2, PasoFirme
<1> QED
  BY <1>2, <1>3, <1>4, <1>5, <1>6, <1>7 DEF PasoKernel, NextKernel

\* Memoria reads a notice of the kernel.
LEMMA MemoriaFirme ==
    ASSUME Inductivo, Coherencia, MemoriaKernel
    PROVE  Firme
<1> DEFINE t == [k EXCEPT !.a_memoria = Tail(@)]
           m == Head(k.a_memoria)
           q == respuestas
           M == memoria.procesos
<1>1. /\ q \in Seq(Respuesta) /\ M \in SUBSET Pids
      /\ memoria \in [procesos : SUBSET Pids, caida : BOOLEAN]
  BY DEF Inductivo, TypeOK, Respuesta
<1>2. k' = t /\ k.a_memoria # << >>
  BY DEF MemoriaKernel
<1>3. \/ /\ m.op = "NUEVO_PROCESO"
         /\ memoria'.procesos = M \cup {m.pid}
         /\ respuestas' = Append(q, [pid |-> m.pid, leido |-> TRUE])
      \/ /\ m.op = "NUEVO_PROCESO"
         /\ memoria'.procesos = M
         /\ respuestas' = Append(q, [pid |-> m.pid, leido |-> FALSE])
      \/ /\ m.op = "FINALIZAR_PROCESO"
         /\ memoria'.procesos = M \ {m.pid}
         /\ respuestas' = q
  BY <1>1 DEF MemoriaKernel
<1>4. /\ m.op = "NUEVO_PROCESO" =>
            /\ Coherente(t, Append(q, [pid |-> m.pid, leido |-> TRUE]), M \cup {m.pid})
            /\ Coherente(t, Append(q, [pid |-> m.pid, leido |-> FALSE]), M)
      /\ m.op = "FINALIZAR_PROCESO" => Coherente(t, q, M \ {m.pid})
      /\ t.procesos = k.procesos
  BY <1>1, <1>2, AvisoLeidoCoherente DEF Coherencia
<1> HIDE DEF t, m, q, M
<1> QED
  BY <1>2, <1>3, <1>4 DEF Coherencia, Firme

\* Every step of the system.
LEMMA SistemaFirme ==
    ASSUME OperadorEspera = TRUE, Inductivo, Inductivo', Coherencia, [Next]_vars
    PROVE  Firme
<1>1. EnTurno(k')
  BY DEF Inductivo, TypeOK, ExecUnico, EnTurno
<1>2. CASE PasoKernel
  BY <1>2, KernelFirme
<1>3. CASE CpuEjecutarProceso \/ CpuInterrupcion \/ \E i \in Interfaces : InterfazRecibe(i)
  <2>1. Mismo(k, k')
    BY <1>3, Ajenos
  <2>2. UNCHANGED <<respuestas, memoria>>
    BY <1>3 DEF CpuEjecutarProceso, CpuInterrupcion, InterfazRecibe
  <2> QED
    BY <1>1, <2>1, <2>2, MismoFirme
<1>4. CASE UNCHANGED <<k, respuestas, memoria.procesos>>
  BY <1>4 DEF Coherencia, Firme
<1>5. ASSUME \/ InstruccionCiclo \/ CpuResize \/ MemoriaProximaInstruccion \/ MemoriaResize
             \/ (\E i \in Interfaces : InterfazVence(i) \/ InterfazAvisa(i))
             \/ UNCHANGED vars
      PROVE  UNCHANGED <<k, respuestas, memoria.procesos>>
  <2>1. memoria \in [procesos : SUBSET Pids, caida : BOOLEAN]
    BY DEF Inductivo, TypeOK
  <2> QED
    BY <1>5, <2>1 DEF InstruccionCiclo, CpuResize, MemoriaProximaInstruccion, MemoriaResize,
                      InterfazVence, InterfazAvisa, vars
<1>6. CASE MemoriaKernel
  BY <1>6, MemoriaFirme
<1> QED
  BY <1>2, <1>3, <1>4, <1>5, <1>6 DEF Next, PasoCpu, PasoMemoria, PasoInterfaz

\* The kernel starts in agreement with memoria.
LEMMA InicialCoherente == Init => Coherencia
<1> SUFFICES ASSUME Init
             PROVE  Coherencia
  OBVIOUS
<1>1. EnTurno(k) /\ k = KernelInicial /\ respuestas = << >> /\ memoria.procesos = {}
  BY InicialTipo DEF Init, InitKernel
<1>2. /\ \A e \in Colas : k.cola[e] = << >> /\ IsInjective(k.cola[e])
                          /\ Range(k.cola[e]) = {}
      /\ \A p \in Pids : k.procesos[p] = SinEstado
      /\ k.pid = 0 /\ k.a_memoria = << >>
  BY <1>1 DEF KernelInicial, IsInjective, Range
<1>3. Orden(k, {})
  BY <1>1, <1>2 DEF Orden, Esta, Colas, SinEstado
<1>4. Creacion(k, respuestas)
  BY <1>1, <1>2, LimitesAssumption DEF Creacion, Pids, SinEstado
<1>5. AlDia(k, respuestas, memoria.procesos)
  BY <1>1, <1>2 DEF AlDia, AlDiaDe, SinEstado, Colas
<1> QED
  BY <1>3, <1>4, <1>5 DEF Coherencia, Coherente

-----------------------------------------------------------------------------
\* The inductive invariant of the theorems that follow.
InductivoCoherente == Inductivo /\ Coherencia

\* Every step preserves it, and brings nobody back from EXIT.
LEMMA PasoCoherencia ==
    ASSUME OperadorEspera = TRUE
    PROVE  InductivoCoherente /\ [Next]_vars =>
              /\ InductivoCoherente'
              /\ \A p \in Pids : k.procesos[p] = "EXIT" => k'.procesos[p] = "EXIT"
<1> SUFFICES ASSUME InductivoCoherente, [Next]_vars
             PROVE  /\ InductivoCoherente'
                    /\ \A p \in Pids : k.procesos[p] = "EXIT" => k'.procesos[p] = "EXIT"
  OBVIOUS
<1>1. Inductivo'
  BY PasoInductivo DEF InductivoCoherente
<1>2. Firme
  BY <1>1, SistemaFirme DEF InductivoCoherente
<1> QED
  BY <1>1, <1>2 DEF InductivoCoherente, Firme

\* It holds initially.
LEMMA InicioCoherencia == Init => InductivoCoherente
BY InicialInductivo, InicialCoherente DEF InductivoCoherente

\* The agreement of lists and dictionary is ColasCoherentes.
LEMMA CoherenciaColas == InductivoCoherente => ColasCoherentes
<1> SUFFICES ASSUME InductivoCoherente
             PROVE  ColasCoherentes
  OBVIOUS
<1>1. Orden(k, {}) /\ k \in EstadoKernel /\ "EXIT" \in Colas
  BY OrdenTipo DEF InductivoCoherente, Coherencia, Coherente, Colas
<1>2. Range(k.cola["EXIT"]) = {} /\ k.cola["EXIT"] \in Seq(Pids)
  BY <1>1, ColaTipo DEF Orden
<1>3. k.cola["EXIT"] = << >>
  BY <1>2, RangoVacio
<1>4. PidUnico
  <2>1. \A e \in Colas : IsInjective(k.cola[e])
    BY <1>1 DEF Orden
  <2>2. ASSUME NEW e \in Colas, NEW f \in Colas, e # f
        PROVE  Range(k.cola[e]) \cap Range(k.cola[f]) = {}
    <3> SUFFICES ASSUME NEW p \in Range(k.cola[e]), p \in Range(k.cola[f])
                 PROVE  FALSE
      OBVIOUS
    <3>1. p \in Pids
      BY <1>1, ColaTipo, RangoTipo
    <3>2. e # "EXIT" /\ f # "EXIT"
      BY <1>2
    <3>3. k.procesos[p] = e /\ k.procesos[p] = f
      BY <1>1, <3>1, <3>2 DEF Orden, Esta
    <3> QED
      BY <2>2, <3>3
  <2> QED
    BY <2>1, <2>2 DEF PidUnico
<1> QED
  BY <1>1, <1>3, <1>4 DEF ColasCoherentes, Orden

\* What AlDia says of the live processes and of those that ended is
\* MemoriaAlDia.
LEMMA CoherenciaMemoria == InductivoCoherente => MemoriaAlDia
<1> SUFFICES ASSUME InductivoCoherente, ~ k.caido, NEW p \in Pids
             PROVE  LET aviso(op) == \E n \in DOMAIN k.a_memoria :
                                        k.a_memoria[n] = [op |-> op, pid |-> p]
                    IN  /\ k.procesos[p] \in Colas \ {"EXIT"} /\ k.pcb[p].memoria_aceptado =>
                                p \in memoria.procesos /\ ~ aviso("FINALIZAR_PROCESO")
                        /\ k.procesos[p] = "EXIT" /\ p \in memoria.procesos =>
                                aviso("FINALIZAR_PROCESO")
  BY DEF MemoriaAlDia
<1>1. k \in EstadoKernel /\ AlDiaDe(k, respuestas, memoria.procesos, p)
  BY OrdenTipo DEF InductivoCoherente, Coherencia, Coherente, AlDia
<1>2. DOMAIN k.a_memoria = 1 .. Len(k.a_memoria)
  BY <1>1, AMemoriaLargo
<1> QED
  BY <1>1, <1>2 DEF AlDiaDe, Fin

\* The lists and the dictionary of the kernel agree in every state of every
\* configuration in which the operator waits for the answer to a creation:
\* whatever the order of packets, reports, quantum interrupts and kills, no
\* transition loses a process, repeats it or leaves it in two lists.
THEOREM Colas_Coherentes ==
    ASSUME OperadorEspera = TRUE
    PROVE  Spec => []ColasCoherentes
<1>1. Init => InductivoCoherente
  BY InicioCoherencia
<1>2. InductivoCoherente /\ [Next]_vars => InductivoCoherente'
  BY PasoCoherencia
<1>3. InductivoCoherente => ColasCoherentes
  BY CoherenciaColas
<1> QED
  BY <1>1, <1>2, <1>3, PTL DEF Spec

\* A process that ended stays ended, under the same hypothesis: no late packet
\* of the CPU, completed I/O, signal or quantum interrupt brings it back.
THEOREM Exit_Definitivo ==
    ASSUME OperadorEspera = TRUE
    PROVE  Spec => ExitDefinitivo
<1>1. Init => InductivoCoherente
  BY InicioCoherencia
<1>2. InductivoCoherente /\ [Next]_vars => InductivoCoherente'
  BY PasoCoherencia
<1>3. InductivoCoherente /\ [Next]_vars =>
         [\A p \in Pids : k.procesos[p] = "EXIT" => k'.procesos[p] = "EXIT"]_vars
  BY PasoCoherencia
<1> QED
  BY <1>1, <1>2, <1>3, PTL DEF Spec, ExitDefinitivo

\* memoria holds the script of every accepted process that lives, and a notice
\* is on its way for each one that ended and is still held.
THEOREM Memoria_Al_Dia ==
    ASSUME OperadorEspera = TRUE
    PROVE  Spec => []MemoriaAlDia
<1>1. Init => InductivoCoherente
  BY InicioCoherencia
<1>2. InductivoCoherente /\ [Next]_vars => InductivoCoherente'
  BY PasoCoherencia
<1>3. InductivoCoherente => MemoriaAlDia
  BY CoherenciaMemoria
<1> QED
  BY <1>1, <1>2, <1>3, PTL DEF Spec
=============================================================================
