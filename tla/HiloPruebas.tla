----------------------------- MODULE HiloPruebas -----------------------------
EXTENDS SistemaPruebas

\* Who has the CPU, and what will take it away.  The first part says what each
\* function of the kernel does to EXEC, to the sockets of the CPU and to the
\* quantum timer; the second, that the kernel, the CPU and memoria pass one
\* thread of control among them; the third and the fourth, that the timer runs
\* only while it is needed, and whenever it is.

-----------------------------------------------------------------------------
(* What the functions of the kernel do to the turn.                        *)

\* What interrumpir_temporizador leaves of the timer.
Parado(timer) == IF Algoritmo = "FIFO" THEN timer ELSE [timer EXCEPT !.armado = FALSE]

\* Nothing is sent to the CPU.
SinEnvios(s, t) == t.a_cpu = s.a_cpu /\ t.a_interrupt = s.a_interrupt

\* A function that has nothing to do with the turn.
Aparte(s, t) == /\ t.cola["EXEC"] = s.cola["EXEC"] /\ t.timer = s.timer
                /\ SinEnvios(s, t)

\* One that deletes the timer.
Frena(s, t) == /\ t.cola["EXEC"] = s.cola["EXEC"] /\ t.timer = Parado(s.timer)
               /\ SinEnvios(s, t)

\* One that takes the process out of EXEC.
Vacia(s, t) == t.cola["EXEC"] = << >> /\ t.timer = s.timer /\ SinEnvios(s, t)

\* One that ends the turn: both.
Suelta(s, t) == t.cola["EXEC"] = << >> /\ t.timer = Parado(s.timer) /\ SinEnvios(s, t)

\* The timer and the sockets of the CPU have their types.
LEMMA RelojTipo ==
    ASSUME NEW s \in EstadoKernel
    PROVE  /\ s.timer \in Temporizador /\ Parado(s.timer) \in Temporizador
           /\ s.a_cpu \in Seq([pid : Pids, pc : 0 .. MaxPc])
           /\ s.a_interrupt \in Seq(Pids)
<1>1. /\ s.timer \in Temporizador /\ s.a_interrupt \in Seq(Pids)
      /\ s.a_cpu \in Seq([pid : Pids, pc : 0 .. MaxPc])
  BY Zenon DEF EstadoKernel
<1> QED
  BY <1>1, TemporizadorCampos DEF Parado

\* A timer that was deleted is not deleted again.
LEMMA ParadoDosVeces ==
    ASSUME NEW x \in Temporizador
    PROVE  /\ Parado(Parado(x)) = Parado(x)
           /\ Parado(x).huerfanos = x.huerfanos /\ Parado(x).avisos = x.avisos
           /\ Parado(x).armado => x.armado
           /\ Parado(x).armado => Algoritmo = "FIFO"
BY DEF Parado, Temporizador

\* Two functions one after the other.
LEMMA Componen ==
    ASSUME NEW s \in EstadoKernel, NEW t, NEW u
    PROVE  /\ Aparte(s, t) /\ Aparte(t, u) => Aparte(s, u)
           /\ Aparte(s, t) /\ Frena(t, u) => Frena(s, u)
           /\ Aparte(s, t) /\ Vacia(t, u) => Vacia(s, u)
           /\ Aparte(s, t) /\ Suelta(t, u) => Suelta(s, u)
           /\ Frena(s, t) /\ Aparte(t, u) => Frena(s, u)
           /\ Frena(s, t) /\ Frena(t, u) => Frena(s, u)
           /\ Frena(s, t) /\ Vacia(t, u) => Suelta(s, u)
           /\ Frena(s, t) /\ Suelta(t, u) => Suelta(s, u)
           /\ Vacia(s, t) /\ Aparte(t, u) => Vacia(s, u)
           /\ Suelta(s, t) /\ Aparte(t, u) => Suelta(s, u)
<1>1. Parado(Parado(s.timer)) = Parado(s.timer)
  BY RelojTipo, ParadoDosVeces
<1> QED
  BY <1>1 DEF Aparte, Frena, Vacia, Suelta, SinEnvios

\* The functions that only touch the semaphore, the PCBs, the resources, the
\* interfaces, their sockets or the messages to memoria.
LEMMA AparteSimple ==
    ASSUME NEW s \in EstadoKernel
    PROVE  /\ Aparte(s, s) /\ Aparte(s, Caer(s)) /\ Aparte(s, Avisar(s))
           /\ \A p : Aparte(s, AvisarMemoriaFinalizacion(s, p))
           /\ \A x : /\ Aparte(s, [s EXCEPT !.pcb = x])
                     /\ Aparte(s, [s EXCEPT !.recursos = x])
                     /\ Aparte(s, [s EXCEPT !.io = x])
                     /\ Aparte(s, [s EXCEPT !.a_io = x])
                     /\ Aparte(s, [s EXCEPT !.procesos = x])
                     /\ Aparte(s, [s EXCEPT !.pid = x])
                     /\ Aparte(s, [s EXCEPT !.a_memoria = x])
                     /\ Aparte(s, [s EXCEPT !.planificador_iniciar = x])
<1>1. Aparte(s, s) /\ Aparte(s, Caer(s)) /\ Aparte(s, Avisar(s))
  BY Zenon DEF EstadoKernel, Aparte, SinEnvios, Caer, Avisar
<1>2. \A p : Aparte(s, AvisarMemoriaFinalizacion(s, p))
  BY Zenon DEF EstadoKernel, Aparte, SinEnvios, AvisarMemoriaFinalizacion
<1>3. \A x : /\ Aparte(s, [s EXCEPT !.pcb = x])
             /\ Aparte(s, [s EXCEPT !.recursos = x])
             /\ Aparte(s, [s EXCEPT !.io = x])
             /\ Aparte(s, [s EXCEPT !.a_io = x])
  BY Zenon DEF EstadoKernel, Aparte, SinEnvios
<1>4. \A x : /\ Aparte(s, [s EXCEPT !.procesos = x])
             /\ Aparte(s, [s EXCEPT !.pid = x])
             /\ Aparte(s, [s EXCEPT !.a_memoria = x])
             /\ Aparte(s, [s EXCEPT !.planificador_iniciar = x])
  BY Zenon DEF EstadoKernel, Aparte, SinEnvios
<1> QED
  BY <1>1, <1>2, <1>3, <1>4

\* Writing any list but EXEC.
LEMMA AparteCola ==
    ASSUME NEW s \in EstadoKernel, NEW e \in Colas \ {"EXEC"}, NEW q
    PROVE  Aparte(s, [s EXCEPT !.cola[e] = q])
<1> DEFINE t == [s EXCEPT !.cola[e] = q]
<1>1. /\ s.cola \in [Colas -> Seq(Pids)] /\ t.cola = [s.cola EXCEPT ![e] = q]
      /\ t.timer = s.timer /\ t.a_cpu = s.a_cpu /\ t.a_interrupt = s.a_interrupt
  BY Zenon DEF EstadoKernel
<1> HIDE DEF t
<1>2. t.cola["EXEC"] = s.cola["EXEC"]
  BY <1>1, ExecEsCola
<1>3. Aparte(s, t)
  BY <1>1, <1>2 DEF Aparte, SinEnvios
<1> QED
  BY <1>3 DEF t

\* proceso_push_* on any list but EXEC.
LEMMA ApartePush ==
    ASSUME NEW s \in EstadoKernel, NEW e \in Colas \ {"EXEC"}, NEW p \in Pids
    PROVE  Aparte(s, Push(s, e, p))
<1> DEFINE q == Append(s.cola[e], p)
           t == [s EXCEPT !.cola[e] = q]
           x == [t.procesos EXCEPT ![p] = e]
<1>1. t \in EstadoKernel
  BY ColaTipo, AppendProperties, ConCola, Tipado
<1>2. Push(s, e, p) = [t EXCEPT !.procesos = x]
  BY DEF Push
<1>3. Aparte(s, t)
  BY AparteCola
<1> HIDE DEF t, x
<1>4. Aparte(t, [t EXCEPT !.procesos = x])
  BY <1>1, AparteSimple
<1> QED
  BY <1>2, <1>3, <1>4, Componen

\* interrumpir_temporizador, the quantum it saves in the PCB, and the registers.
LEMMA FrenaSimple ==
    ASSUME NEW s \in EstadoKernel, NEW p \in Pids
    PROVE  /\ Frena(s, InterrumpirTemporizador(s))
           /\ \A resto : Frena(s, GuardarQuantum(s, p, resto))
           /\ \A pc : Aparte(s, ActualizarRegistros(s, p, pc))
<1> DEFINE t == InterrumpirTemporizador(s)
<1>1. Frena(s, t)
  <2>1. s.timer \in Temporizador
    BY RelojTipo
  <2>2. CASE Algoritmo = "FIFO"
    BY <2>2 DEF Frena, SinEnvios, Parado, InterrumpirTemporizador
  <2>3. CASE Algoritmo # "FIFO"
    <3>1. t = [s EXCEPT !.timer = [s.timer EXCEPT !.armado = FALSE]]
      BY <2>3 DEF InterrumpirTemporizador
    <3>2. /\ t.cola = s.cola /\ t.a_cpu = s.a_cpu /\ t.a_interrupt = s.a_interrupt
          /\ t.timer = [s.timer EXCEPT !.armado = FALSE]
      BY <3>1, Zenon DEF EstadoKernel
    <3> HIDE DEF t
    <3> QED
      BY <2>3, <3>2 DEF Frena, SinEnvios, Parado
  <2> QED
    BY <2>2, <2>3
<1>2. t \in EstadoKernel
  BY InterrumpirTemporizadorConserva, Tipado
<1>3. ASSUME NEW resto
      PROVE  Frena(s, GuardarQuantum(s, p, resto))
  <2> DEFINE x == [t.pcb EXCEPT ![p].quantum_largo = QuantumRestante(s, resto)]
  <2>1. GuardarQuantum(s, p, resto) = [t EXCEPT !.pcb = x]
    BY DEF GuardarQuantum
  <2> HIDE DEF t, x
  <2>2. Aparte(t, [t EXCEPT !.pcb = x])
    BY <1>2, AparteSimple
  <2> QED
    BY <1>1, <2>1, <2>2, Componen DEF t
<1>4. ASSUME NEW pc
      PROVE  Aparte(s, ActualizarRegistros(s, p, pc))
  <2> DEFINE x == [s.pcb EXCEPT ![p].pc = pc]
  <2>1. ActualizarRegistros(s, p, pc) = [s EXCEPT !.pcb = x]
    BY DEF ActualizarRegistros
  <2> HIDE DEF x
  <2> QED
    BY <2>1, AparteSimple
<1> QED
  BY <1>1, <1>3, <1>4

\* A transition out of EXEC leaves it empty: it held one process at most.
LEMMA MoverVacia ==
    ASSUME NEW s, EnTurno(s), NEW a \in Colas \ {"EXEC"}
    PROVE  Vacia(s, Mover(s, "EXEC", a))
<1>1. s \in EstadoKernel /\ s.cola["EXEC"] \in Seq(Pids) /\ Len(s.cola["EXEC"]) \in Nat
  BY ColaTipo, ExecEsCola DEF EnTurno
<1>2. CASE s.cola["EXEC"] = << >>
  BY <1>2 DEF Mover, Vacia, SinEnvios
<1>3. CASE s.cola["EXEC"] # << >>
  <2> DEFINE p == Head(s.cola["EXEC"])
             t == Pop(s, "EXEC")
  <2>1. p \in Pids /\ t \in EstadoKernel
    BY <1>1, <1>3, CabezaTipo, PopConserva, Tipado, ExecEsCola
  <2>2. Tail(s.cola["EXEC"]) = << >>
    <3> DEFINE q == s.cola["EXEC"]
    <3>1. q \in Seq(Pids) /\ q # << >> /\ Len(q) \in Nat /\ Len(q) <= 1
      BY <1>1, <1>3 DEF EnTurno
    <3> HIDE DEF q
    <3>2. Len(q) \in Nat \ {0}
      BY <3>1, EmptySeq, Zenon
    <3>3. Tail(q) \in Seq(Pids) /\ Len(Tail(q)) = Len(q) - 1
      BY <3>1, HeadTailProperties, Zenon
    <3>4. ~ (Len(Tail(q)) \in Nat \ {0})
      BY <3>1, <3>2, <3>3
    <3>5. Tail(q) = << >>
      BY <3>3, <3>4, EmptySeq, Zenon
    <3> QED
      BY <3>5 DEF q
  <2>3. Vacia(s, t)
    <3>1. /\ s.cola \in [Colas -> Seq(Pids)]
          /\ t.cola = [s.cola EXCEPT !["EXEC"] = Tail(s.cola["EXEC"])]
          /\ t.timer = s.timer /\ t.a_cpu = s.a_cpu /\ t.a_interrupt = s.a_interrupt
      BY <1>1, Zenon DEF EstadoKernel, Pop
    <3> HIDE DEF t
    <3> QED
      BY <2>2, <3>1, ExecEsCola DEF Vacia, SinEnvios
  <2>4. Mover(s, "EXEC", a) = Push(t, a, p)
    BY <1>3 DEF Mover
  <2> HIDE DEF t, p
  <2>5. Aparte(t, Push(t, a, p))
    BY <2>1, ApartePush
  <2> QED
    BY <1>1, <2>3, <2>4, <2>5, Componen
<1> QED
  BY <1>2, <1>3

\* The transitions out of BLOCK, and proceso_matar of who is not in EXEC.
LEMMA AparteBlock ==
    ASSUME NEW s \in EstadoKernel, NEW p \in Pids
    PROVE  /\ \A a \in Colas \ {"EXEC"} : Aparte(s, SacarDeBlock(s, p, a))
           /\ Aparte(s, ManejarBlockReady(s, p))
           /\ Aparte(s, BlockExit(s, p))
           /\ s.procesos[p] # "EXEC" => Aparte(s, Matar(s, p))
           /\ s.procesos[p] # "EXEC" => Aparte(s, MatarEnMemoria(s, p))
<1>1. Aparte(s, s) /\ Aparte(s, Caer(s))
  BY AparteSimple
<1>2. ASSUME NEW a \in Colas \ {"EXEC"}
      PROVE  Aparte(s, SacarDeBlock(s, p, a))
  <2>1. CASE ~ Esta(s, "BLOCK", p)
    BY <1>1, <2>1 DEF SacarDeBlock
  <2>2. CASE Esta(s, "BLOCK", p)
    <3> DEFINE q == Quitar(s.cola["BLOCK"], p)
               t == [s EXCEPT !.cola["BLOCK"] = q]
    <3>1. SacarDeBlock(s, p, a) = Push(t, a, p)
      BY <2>2 DEF SacarDeBlock
    <3>2. q \in Seq(Pids)
      BY <2>2, ColaTipo, QuitarTipo DEF Esta, Colas
    <3> HIDE DEF q
    <3>3. t \in EstadoKernel /\ Aparte(s, t)
      BY <3>2, ConCola, Tipado, AparteCola DEF Colas
    <3> HIDE DEF t
    <3>4. Aparte(t, Push(t, a, p))
      BY <3>3, ApartePush
    <3> QED
      BY <3>1, <3>3, <3>4, Componen
  <2> QED
    BY <2>1, <2>2
<1>3. Aparte(s, ManejarBlockReady(s, p)) /\ Aparte(s, BlockExit(s, p))
  BY <1>2 DEF ManejarBlockReady, BlockReady, BlockReadyMayorPrioridad, BlockExit, Colas
<1>4. ASSUME NEW t \in EstadoKernel, t.procesos[p] # "EXEC"
      PROVE  Aparte(t, Matar(t, p))
  <2> DEFINE estado == t.procesos[p]
             q == Quitar(t.cola[estado], p)
             u == [t EXCEPT !.cola[estado] = q]
             x == [u.pcb EXCEPT ![p] = PcbCrear]
             v == [u EXCEPT !.pcb = x]
             y == [v.procesos EXCEPT ![p] = "EXIT"]
  <2>1. CASE estado \in {"READY_PRIORIDAD", SinEstado} \/ ~ Esta(t, estado, p)
    BY <2>1, AparteSimple DEF Matar
  <2>2. CASE estado \notin {"READY_PRIORIDAD", SinEstado} /\ Esta(t, estado, p)
    <3>1. Matar(t, p) = [v EXCEPT !.procesos = y]
      BY <2>2 DEF Matar
    <3>2. estado \in Colas \ {"EXEC"}
      BY <1>4, <2>2, PcbTipo
    <3>3. q \in Seq(Pids)
      BY <2>2, <3>2, ColaTipo, QuitarTipo DEF Esta
    <3> HIDE DEF q, estado
    <3>4. u \in EstadoKernel /\ Aparte(t, u)
      BY <1>4, <3>2, <3>3, ConCola, Tipado, AparteCola DEF Colas, estado
    <3>5. v \in EstadoKernel
      BY <3>4, PcbCrearTipo, ConPcb, Tipado
    <3> HIDE DEF u, x
    <3>6. Aparte(u, v)
      BY <3>4, AparteSimple
    <3> HIDE DEF v, y
    <3>7. Aparte(v, [v EXCEPT !.procesos = y])
      BY <3>5, AparteSimple
    <3> QED
      BY <1>4, <3>1, <3>4, <3>5, <3>6, <3>7, Componen
  <2> QED
    BY <2>1, <2>2
<1>5. ASSUME s.procesos[p] # "EXEC"
      PROVE  Aparte(s, MatarEnMemoria(s, p))
  <2> DEFINE t == AvisarMemoriaFinalizacion(s, p)
  <2>1. t \in EstadoKernel /\ Aparte(s, t)
    BY AvisarMemoriaConserva, Tipado, AparteSimple
  <2>2. t.procesos = s.procesos
    BY Zenon DEF EstadoKernel, AvisarMemoriaFinalizacion
  <2> HIDE DEF t
  <2>3. Aparte(t, Matar(t, p))
    BY <1>4, <1>5, <2>1, <2>2
  <2> QED
    BY <2>1, <2>3, Componen DEF MatarEnMemoria, t
<1> QED
  BY <1>2, <1>3, <1>4, <1>5

-----------------------------------------------------------------------------
(* The handlers.                                                           *)

\* exec_exit, and the ends of the process in EXEC and of any other.
LEMMA FinalizarTurno ==
    ASSUME NEW s, Orden(s, {}), NEW p \in Pids
    PROVE  /\ Esta(s, "EXEC", p) => /\ Vacia(s, FinalizarExito(s, p))
                                    /\ Vacia(s, FinalizarRecursoInvalido(s, p))
                                    /\ Vacia(s, FinalizarInterfazInvalida(s, p))
           /\ ~ Esta(s, "EXEC", p) => Aparte(s, FinalizarExito(s, p))
<1>1. s \in EstadoKernel /\ EnTurno(s)
  BY OrdenTipo DEF Orden
<1>2. Esta(s, "EXEC", p) <=> s.procesos[p] = "EXEC"
  BY DEF Orden, Colas
<1>3. ASSUME ~ Esta(s, "EXEC", p)
      PROVE  Aparte(s, FinalizarExito(s, p))
  BY <1>1, <1>2, <1>3, AparteSimple, AparteBlock DEF FinalizarExito, SalirDeExec
<1>4. ASSUME Esta(s, "EXEC", p)
      PROVE  /\ Vacia(s, FinalizarExito(s, p))
             /\ Vacia(s, FinalizarRecursoInvalido(s, p))
             /\ Vacia(s, FinalizarInterfazInvalida(s, p))
  <2> DEFINE m == Mover(s, "EXEC", "EXIT")
             t == ExecExit(s)
  <2>1. s.cola["EXEC"] # << >> /\ Head(s.cola["EXEC"]) = p /\ Finalizable(s, p)
    BY <1>1, <1>2, <1>4, UnicoEnExec DEF Finalizable, SinEstado
  <2>2. t = Avisar(m)
    BY <2>1 DEF ExecExit
  <2>3. m \in EstadoKernel /\ Vacia(s, m)
    <3>1. "EXIT" \in Colas \ {"EXEC"}
      BY DEF Colas
    <3>2. Vacia(s, m)
      BY <1>1, <3>1, MoverVacia
    <3>3. Conserva(s, m)
      BY <1>1, <3>1, ExecEsCola, MoverConserva
    <3> QED
      BY <3>2, <3>3, Tipado
  <2> HIDE DEF m, t
  <2>4. t \in EstadoKernel /\ Vacia(s, t)
    <3>1. t \in EstadoKernel /\ Aparte(m, t)
      BY <2>2, <2>3, AvisarConserva, Tipado, AparteSimple
    <3> QED
      BY <1>1, <2>3, <3>1, Componen
  <2>5. t.procesos[p] = "EXIT"
    <3>1. Orden(t, {p})
      BY <1>4, SalirOrden DEF t
    <3> QED
      BY <3>1 DEF Orden
  <2>6. Aparte(t, Matar(t, p)) /\ Aparte(t, MatarEnMemoria(t, p))
    BY <2>4, <2>5, AparteBlock
  <2>7. Vacia(s, MatarEnMemoria(t, p)) /\ Vacia(s, Matar(t, p))
    BY <1>1, <2>4, <2>6, Componen
  <2>8. Vacia(s, MatarEnMemoria(Matar(t, p), p))
    <3> DEFINE u == Matar(t, p)
    <3>1. u \in EstadoKernel
      BY <2>4, MatarConserva, Tipado
    <3>2. u.procesos[p] # "EXEC"
      <4>1. Orden(t, {p})
        BY <1>4, SalirOrden DEF t
      <4>2. Orden(u, {})
        <5>1. Orden(u, {p} \ {p})
          BY <4>1, MatarOrden
        <5>2. {p} \ {p} = {}
          OBVIOUS
        <5> QED
          BY <5>1, <5>2
      <4>3. u.cola["EXEC"] = << >>
        BY <2>7 DEF Vacia
      <4>4. Range(u.cola["EXEC"]) = {}
        BY <4>3 DEF Range
      <4> HIDE DEF u
      <4> QED
        BY <4>2, <4>4 DEF Orden, Esta, Colas
    <3> HIDE DEF u
    <3>3. Aparte(u, MatarEnMemoria(u, p))
      BY <3>1, <3>2, AparteBlock
    <3> QED
      BY <1>1, <2>7, <3>3, Componen DEF u
  <2>9. FinalizarExito(s, p) = MatarEnMemoria(t, p)
    BY <1>2, <1>4, <2>1 DEF FinalizarExito, SalirDeExec, t
  <2>10. FinalizarRecursoInvalido(s, p) = MatarEnMemoria(Matar(t, p), p)
    BY <1>2, <1>4, <2>1 DEF FinalizarRecursoInvalido, t
  <2>11. FinalizarInterfazInvalida(s, p) = MatarEnMemoria(t, p)
    BY <2>1 DEF FinalizarInterfazInvalida, MatarEnMemoria, t
  <2> QED
    BY <2>7, <2>8, <2>9, <2>10, <2>11
<1> QED
  BY <1>3, <1>4

\* A quiet function keeps the agreement and who is in EXEC.
LEMMA QuietoOrden ==
    ASSUME NEW s, Orden(s, {}), NEW t \in EstadoKernel, Quieto(s, t), NEW p
    PROVE  Orden(t, {}) /\ (Esta(t, "EXEC", p) <=> Esta(s, "EXEC", p))
BY QuietoContinua DEF Continua, Quieto, Esta

\* kernel_manejar_ready, when the process is in EXEC.
LEMMA ManejarTurno ==
    ASSUME NEW s, EnTurno(s), NEW p \in Pids, Esta(s, "EXEC", p), NEW resto
    PROVE  Suelta(s, ManejarExecReady(s, p, resto))
<1> DEFINE t == InterrumpirTemporizador(s)
           x == [t.pcb EXCEPT ![p].quantum_largo = TRUE]
           u == [t EXCEPT !.pcb = x]
<1>1. s \in EstadoKernel /\ {"READY", "READY_PRIORIDAD"} \subseteq Colas \ {"EXEC"}
  BY DEF EnTurno, Colas
<1>2. \/ Algoritmo = "FIFO" /\ ManejarExecReady(s, p, resto) = Mover(s, "EXEC", "READY")
      \/ ManejarExecReady(s, p, resto) = Mover(t, "EXEC", "READY")
      \/ ManejarExecReady(s, p, resto) = Mover(u, "EXEC", "READY_PRIORIDAD")
  BY DEF ManejarExecReady, ExecReady, ExecReadyMayorPrioridad
<1>3. EnTurno(t) /\ t \in EstadoKernel /\ Frena(s, t)
  BY <1>1, InterrumpirTemporizadorConserva, EnTurnoConserva, Tipado, FrenaSimple
<1> HIDE DEF t
<1>4. EnTurno(u) /\ Frena(s, u)
  <2>1. x \in [Pids -> Pcb]
    <3>1. t.pcb \in [Pids -> Pcb]
      BY <1>3, Zenon DEF EstadoKernel
    <3>2. [t.pcb[p] EXCEPT !.quantum_largo = TRUE] \in Pcb
      BY <1>3, PcbTipo, PcbCampos
    <3> QED
      BY <3>1, <3>2
  <2> HIDE DEF x
  <2>2. Conserva(t, u)
    BY <1>3, <2>1, ConPcbs
  <2>3. Aparte(t, u)
    BY <1>3, AparteSimple
  <2> QED
    BY <1>1, <1>3, <2>2, <2>3, EnTurnoConserva, Componen
<1> HIDE DEF u
<1>5. Algoritmo = "FIFO" => Suelta(s, Mover(s, "EXEC", "READY"))
  <2>1. Vacia(s, Mover(s, "EXEC", "READY"))
    BY <1>1, MoverVacia
  <2> QED
    BY <2>1 DEF Vacia, Suelta, Parado
<1>6. Vacia(t, Mover(t, "EXEC", "READY")) /\ Vacia(u, Mover(u, "EXEC", "READY_PRIORIDAD"))
  BY <1>1, <1>3, <1>4, MoverVacia
<1>7. /\ Suelta(s, Mover(t, "EXEC", "READY"))
      /\ Suelta(s, Mover(u, "EXEC", "READY_PRIORIDAD"))
  BY <1>1, <1>3, <1>4, <1>6, Componen
<1> QED
  BY <1>2, <1>5, <1>7

\* The two places of kernel_wait that block the process.
LEMMA BloquearTurno ==
    ASSUME NEW s, EnTurno(s), NEW p \in Pids, NEW r \in Recursos, NEW resto \in BOOLEAN
    PROVE  Suelta(s, BloquearEnRecurso(s, p, r, resto))
<1> DEFINE g == GuardarQuantum(s, p, resto)
           x == [g.recursos[r] EXCEPT !.bloqueados = Append(@, p)]
           u == [g EXCEPT !.recursos[r] = x]
<1>1. s \in EstadoKernel
  BY DEF EnTurno
<1>2. EnTurno(g) /\ g \in EstadoKernel /\ Frena(s, g)
  BY <1>1, GuardarQuantumConserva, EnTurnoConserva, Tipado, FrenaSimple
<1>3. BloquearEnRecurso(s, p, r, resto) = Mover(u, "EXEC", "BLOCK")
  BY DEF BloquearEnRecurso, ExecBlock
<1> HIDE DEF g
<1>4. x \in Recurso
  BY <1>2, RecursoTipo, RecursoCampos, AppendProperties
<1>5. EnTurno(u)
  BY <1>2, <1>4, ConRecurso, EnTurnoConserva
<1>6. Aparte(g, u)
  <2> DEFINE y == [g.recursos EXCEPT ![r] = x]
  <2>1. u = [g EXCEPT !.recursos = y]
    OBVIOUS
  <2> HIDE DEF u, y
  <2> QED
    BY <1>2, <2>1, AparteSimple
<1> HIDE DEF u
<1>7. Vacia(u, Mover(u, "EXEC", "BLOCK"))
  BY <1>5, MoverVacia DEF Colas
<1> QED
  BY <1>1, <1>2, <1>3, <1>6, <1>7, Componen

\* What WAIT and SIGNAL write in the PCB and in the resource.
LEMMA TomarTurno ==
    ASSUME NEW s \in EstadoKernel, NEW p \in Pids, NEW r \in Recursos
    PROVE  /\ Aparte(s, Tomar(s, p, r))
           /\ Aparte(s, Liberar(s, p, r))
           /\ Aparte(s, SinCabeza(s, r))
<1>1. Aparte(s, Tomar(s, p, r))
  <2> DEFINE claves == s.pcb[p].claves_tomados \cup {r}
             t == [s EXCEPT !.pcb[p].claves_tomados = claves]
             x == [t.pcb EXCEPT ![p].recursos_tomados[r] = @ + 1]
             y == [s.pcb EXCEPT ![p].claves_tomados = claves]
  <2>1. t \in EstadoKernel
    <3>1. s.pcb[p] \in Pcb /\ claves \in SUBSET Recursos
      BY PcbTipo DEF Pcb
    <3>2. [s.pcb[p] EXCEPT !.claves_tomados = claves] \in Pcb
      BY <3>1, PcbCampos
    <3>3. t = [s EXCEPT !.pcb[p] = [s.pcb[p] EXCEPT !.claves_tomados = claves]]
      OBVIOUS
    <3> QED
      BY <3>2, <3>3, ConPcb, Tipado
  <2>2. Tomar(s, p, r) = [t EXCEPT !.pcb = x]
    BY DEF Tomar
  <2>3. t = [s EXCEPT !.pcb = y]
    OBVIOUS
  <2> HIDE DEF t, x, y
  <2>4. Aparte(s, t) /\ Aparte(t, [t EXCEPT !.pcb = x])
    BY <2>1, <2>3, AparteSimple
  <2> QED
    BY <2>2, <2>4, Componen
<1>2. Aparte(s, Devolver(s, p, r))
  <2> DEFINE x == [s.pcb EXCEPT ![p].recursos_tomados[r] = @ - 1]
  <2>1. Devolver(s, p, r) = s \/ Devolver(s, p, r) = [s EXCEPT !.pcb = x]
    BY DEF Devolver
  <2> HIDE DEF x
  <2> QED
    BY <2>1, AparteSimple
<1>3. Aparte(s, Liberar(s, p, r))
  <2> DEFINE t == Devolver(s, p, r)
             x == [t.recursos EXCEPT ![r].instancias = @ + 1]
  <2>1. t \in EstadoKernel
    BY DevolverConserva, Tipado
  <2>2. Liberar(s, p, r) = [t EXCEPT !.recursos = x]
    BY DEF Liberar
  <2> HIDE DEF t, x
  <2>3. Aparte(t, [t EXCEPT !.recursos = x])
    BY <2>1, AparteSimple
  <2> QED
    BY <1>2, <2>2, <2>3, Componen DEF t
<1>4. Aparte(s, SinCabeza(s, r))
  <2> DEFINE x == [s.recursos EXCEPT ![r].bloqueados = Tail(@)]
  <2>1. SinCabeza(s, r) = [s EXCEPT !.recursos = x]
    BY DEF SinCabeza
  <2> HIDE DEF x
  <2> QED
    BY <2>1, AparteSimple
<1> QED
  BY <1>1, <1>3, <1>4

\* kernel_wait ends the turn whatever it finds, and so does kernel_signal but
\* for the resource that does not exist: the process dies with its timer
\* running.  A waiting list whose head was freed makes the kernel fall.
LEMMA RecursosTurno ==
    ASSUME NEW s, Orden(s, {}), NEW p \in Pids, Esta(s, "EXEC", p), NEW r,
           NEW resto \in BOOLEAN
    PROVE  /\ Suelta(s, Wait(s, p, r, resto))
           /\ \A cabeza \in 0 .. MaxPid :
                 LET t == Signal(s, p, r, resto, cabeza)
                 IN  IF r \in Recursos THEN Suelta(s, t) \/ (t.caido /\ Aparte(s, t))
                     ELSE Vacia(s, t)
<1>1. s \in EstadoKernel /\ EnTurno(s)
  BY OrdenTipo DEF Orden
<1>2. CASE r \notin Recursos
  <2> DEFINE t == GuardarQuantum(s, p, resto)
  <2>1. t \in EstadoKernel /\ Quieto(s, t) /\ Frena(s, t)
    BY <1>1, GuardarQuantumConserva, Tipado, QuietoGuardar, FrenaSimple
  <2>2. Wait(s, p, r, resto) = FinalizarRecursoInvalido(t, p)
    BY <1>2 DEF Wait
  <2> HIDE DEF t
  <2>3. Orden(t, {}) /\ Esta(t, "EXEC", p)
    BY <2>1, QuietoOrden
  <2>4. Vacia(t, FinalizarRecursoInvalido(t, p)) /\ Vacia(s, FinalizarRecursoInvalido(s, p))
    BY <2>3, FinalizarTurno
  <2>5. \A cabeza : Signal(s, p, r, resto, cabeza) = FinalizarRecursoInvalido(s, p)
    BY <1>2 DEF Signal
  <2> QED
    BY <1>1, <1>2, <2>1, <2>2, <2>4, <2>5, Componen
<1>3. CASE r \in Recursos
  <2>1. Suelta(s, Wait(s, p, r, resto))
    <3> DEFINE t == Tomar(s, p, r)
               x == [t.recursos[r] EXCEPT !.instancias = @ - 1]
               u == [t EXCEPT !.recursos[r] = x]
    <3>1. t \in EstadoKernel /\ EnTurno(t) /\ Aparte(s, t) /\ Quieto(s, t)
      BY <1>1, <1>3, TomarConserva, EnTurnoConserva, Tipado, TomarTurno, QuietoTomar
    <3>2. Wait(s, p, r, resto) =
              IF t.recursos[r].instancias < 0 THEN BloquearEnRecurso(t, p, r, resto)
              ELSE IF u.recursos[r].instancias < 0 THEN BloquearEnRecurso(u, p, r, resto)
              ELSE ManejarExecReady(u, p, resto)
      BY <1>3 DEF Wait
    <3> HIDE DEF t
    <3>3. x \in Recurso
      <4>1. t.recursos[r] \in Recurso /\ t.recursos[r].instancias \in Int
        BY <1>3, <3>1, RecursoTipo
      <4>2. t.recursos[r].instancias - 1 \in Int
        BY <4>1
      <4> QED
        BY <4>1, <4>2, RecursoCampos, Zenon
    <3>4. EnTurno(u)
      BY <1>3, <3>1, <3>3, ConRecurso, EnTurnoConserva
    <3>5. Aparte(t, u) /\ Quieto(t, u)
      <4> DEFINE y == [t.recursos EXCEPT ![r] = x]
      <4>1. u = [t EXCEPT !.recursos = y]
        OBVIOUS
      <4> HIDE DEF u, y
      <4> QED
        BY <3>1, <4>1, AparteSimple, QuietoRecursos
    <3> HIDE DEF u, x
    <3>6. Esta(u, "EXEC", p) /\ Aparte(s, u)
      BY <1>1, <3>1, <3>5, Componen DEF Quieto, Esta
    <3>7. /\ Suelta(t, BloquearEnRecurso(t, p, r, resto))
          /\ Suelta(u, BloquearEnRecurso(u, p, r, resto))
          /\ Suelta(u, ManejarExecReady(u, p, resto))
      BY <1>3, <3>1, <3>4, <3>6, BloquearTurno, ManejarTurno
    <3> QED
      BY <1>1, <3>1, <3>2, <3>6, <3>7, Componen
  <2>2. ASSUME NEW cabeza \in 0 .. MaxPid
        PROVE  \/ Suelta(s, Signal(s, p, r, resto, cabeza))
               \/ /\ Signal(s, p, r, resto, cabeza).caido
                  /\ Aparte(s, Signal(s, p, r, resto, cabeza))
    <3> DEFINE t == Liberar(s, p, r)
               u == SinCabeza(t, r)
               v == IF u.procesos[cabeza] = "BLOCK" THEN ManejarBlockReady(u, cabeza) ELSE u
    <3>1. /\ t \in EstadoKernel /\ EnTurno(t) /\ Aparte(s, t) /\ Quieto(s, t)
      BY <1>1, <1>3, LiberarConserva, EnTurnoConserva, Tipado, TomarTurno, QuietoTomar
    <3>2. Signal(s, p, r, resto, cabeza) =
              IF ~ HayQueDesbloquear(t, r) THEN ManejarExecReady(t, p, resto)
              ELSE IF cabeza = 0 \/ t.procesos[cabeza] = SinEstado THEN Caer(t)
              ELSE ManejarExecReady(v, p, resto)
      BY <1>3 DEF Signal, SinCabeza
    <3> HIDE DEF t
    <3>3. Esta(t, "EXEC", p)
      BY <3>1 DEF Quieto, Esta
    <3>4. Suelta(s, ManejarExecReady(t, p, resto))
      BY <1>1, <3>1, <3>3, ManejarTurno, Componen
    <3>5. Aparte(s, Caer(t)) /\ Caer(t).caido
      <4>1. Caer(t).caido
        BY <3>1, Zenon DEF EstadoKernel, Caer
      <4> QED
        BY <1>1, <3>1, <4>1, AparteSimple, Componen
    <3>6. ASSUME HayQueDesbloquear(t, r), ~ (cabeza = 0 \/ t.procesos[cabeza] = SinEstado)
          PROVE  Suelta(s, ManejarExecReady(v, p, resto))
      <4>1. cabeza \in Pids
        BY <3>6, LimitesAssumption DEF Pids
      <4>2. u \in EstadoKernel /\ EnTurno(u) /\ Aparte(t, u)
        BY <1>3, <3>1, <3>6, SinCabezaConserva, EnTurnoConserva, Tipado, TomarTurno
           DEF HayQueDesbloquear
      <4> HIDE DEF u
      <4>3. v \in EstadoKernel /\ EnTurno(v) /\ Aparte(u, v)
        BY <4>1, <4>2, BlockConserva, EnTurnoConserva, Tipado, AparteSimple, AparteBlock
      <4> HIDE DEF v
      <4>4. Aparte(s, v)
        BY <1>1, <3>1, <4>2, <4>3, Componen
      <4>5. Esta(v, "EXEC", p)
        BY <4>4 DEF Aparte, Esta
      <4>6. Suelta(v, ManejarExecReady(v, p, resto))
        BY <4>1, <4>3, <4>5, ManejarTurno
      <4> QED
        BY <1>1, <4>4, <4>6, Componen
    <3> DEFINE w == Signal(s, p, r, resto, cabeza)
    <3> HIDE DEF w, v
    <3>7. Suelta(s, w) \/ (w.caido /\ Aparte(s, w))
      BY <3>2, <3>4, <3>5, <3>6 DEF w
    <3> QED
      BY <3>7 DEF w
  <2> QED
    BY <1>3, <2>1, <2>2
<1> QED
  BY <1>2, <1>3

\* What is written in the interfaces and in their sockets.
LEMMA IoAparte ==
    ASSUME NEW s \in EstadoKernel, NEW i
    PROVE  /\ \A op, p : Aparte(s, EnviarIo(s, i, op, p))
           /\ \A x : Aparte(s, [s EXCEPT !.io[i] = x])
           /\ Aparte(s, ProximoIoGeneric(s, i))
<1>1. ASSUME NEW op, NEW p
      PROVE  Aparte(s, EnviarIo(s, i, op, p))
  <2> DEFINE y == [s.a_io EXCEPT ![i] = Append(@, [op |-> op, pid |-> p])]
  <2>1. EnviarIo(s, i, op, p) = [s EXCEPT !.a_io = y]
    BY DEF EnviarIo
  <2> HIDE DEF y
  <2> QED
    BY <2>1, AparteSimple
<1>2. ASSUME NEW x
      PROVE  Aparte(s, [s EXCEPT !.io[i] = x])
  <2> DEFINE y == [s.io EXCEPT ![i] = x]
  <2>1. [s EXCEPT !.io[i] = x] = [s EXCEPT !.io = y]
    OBVIOUS
  <2> HIDE DEF y
  <2> QED
    BY <2>1, AparteSimple
<1>3. Aparte(s, ProximoIoGeneric(s, i))
  <2> DEFINE t == ProximoIoGeneric(s, i)
  <2>1. CASE t = s
    BY <2>1, AparteSimple
  <2>2. CASE t # s
    <3>1. /\ t.cola = s.cola /\ t.timer = s.timer /\ t.a_cpu = s.a_cpu
          /\ t.a_interrupt = s.a_interrupt
      BY <2>2, Zenon DEF EstadoKernel, ProximoIoGeneric
    <3> HIDE DEF t
    <3>2. Aparte(s, t)
      BY <3>1 DEF Aparte, SinEnvios
    <3> QED
      BY <3>2 DEF t
  <2> QED
    BY <2>1, <2>2
<1> QED
  BY <1>1, <1>2, <1>3

\* A request to a GENERIC interface ends the turn of the process in EXEC, and
\* changes nothing for any other; the end of one has nothing to do with it.
LEMMA IoTurno ==
    ASSUME NEW s, Orden(s, {}), NEW p \in Pids
    PROVE  /\ \A pc \in 0 .. MaxPc, resto \in BOOLEAN : \A i :
                 LET t == PedirIoGenSleep(s, p, pc, i, resto)
                 IN  IF Esta(s, "EXEC", p) THEN Suelta(s, t) ELSE t = s
           /\ \A i \in Interfaces, registrada \in Interfaces :
                 Aparte(s, CompletarIoGenSleep(s, i, p, registrada))
<1>1. s \in EstadoKernel /\ EnTurno(s)
  BY OrdenTipo DEF Orden
<1>2. ASSUME NEW pc \in 0 .. MaxPc, NEW i, NEW resto \in BOOLEAN, Esta(s, "EXEC", p)
      PROVE  Suelta(s, PedirIoGenSleep(s, p, pc, i, resto))
  <2> DEFINE t == GuardarQuantum(s, p, resto)
             a == ActualizarRegistros(t, p, pc)
             u == Mover(a, "EXEC", "BLOCK")
             v == [u EXCEPT !.pcb[p].proxima_io = i]
             w == [u EXCEPT !.io[i] = [ocupado |-> TRUE, pid |-> p]]
  <2>1. t \in EstadoKernel /\ Quieto(s, t) /\ Frena(s, t) /\ EnTurno(t)
    BY <1>1, GuardarQuantumConserva, EnTurnoConserva, Tipado, QuietoGuardar, FrenaSimple
  <2>2. \/ PedirIoGenSleep(s, p, pc, i, resto) = FinalizarInterfazInvalida(t, p)
        \/ /\ i \in Interfaces
           /\ \/ PedirIoGenSleep(s, p, pc, i, resto) = Avisar(v)
              \/ PedirIoGenSleep(s, p, pc, i, resto)
                   = Avisar(EnviarIo(w, i, "IO_GEN_SLEEP", p))
    BY <1>2 DEF PedirIoGenSleep, ExecBlock
  <2> HIDE DEF t
  <2>3. Suelta(s, FinalizarInterfazInvalida(t, p))
    <3>1. Orden(t, {}) /\ Esta(t, "EXEC", p)
      BY <1>2, <2>1, QuietoOrden
    <3>2. Vacia(t, FinalizarInterfazInvalida(t, p))
      BY <3>1, FinalizarTurno
    <3> QED
      BY <1>1, <2>1, <3>2, Componen
  <2>4. a \in EstadoKernel /\ EnTurno(a) /\ Aparte(t, a)
    BY <1>2, <2>1, ActualizarConserva, EnTurnoConserva, Tipado, FrenaSimple
  <2> HIDE DEF a
  <2>5. u \in EstadoKernel /\ Vacia(a, u)
    <3>1. "BLOCK" \in Colas \ {"EXEC"}
      BY DEF Colas
    <3>2. Vacia(a, u)
      BY <2>4, <3>1, MoverVacia
    <3>3. Conserva(a, u)
      BY <2>4, <3>1, ExecEsCola, MoverConserva
    <3> QED
      BY <3>2, <3>3, Tipado
  <2> HIDE DEF u
  <2>6. Suelta(s, u)
    BY <1>1, <2>1, <2>4, <2>5, Componen
  <2>7. ASSUME i \in Interfaces
        PROVE  Suelta(s, Avisar(v)) /\ Suelta(s, Avisar(EnviarIo(w, i, "IO_GEN_SLEEP", p)))
    <3>1. v \in EstadoKernel /\ Aparte(u, v)
      <4> DEFINE y == [u.pcb EXCEPT ![p].proxima_io = i]
      <4>1. [u.pcb[p] EXCEPT !.proxima_io = i] \in Pcb
        BY <2>5, <2>7, PcbTipo, PcbCampos
      <4>2. v = [u EXCEPT !.pcb[p] = [u.pcb[p] EXCEPT !.proxima_io = i]]
        OBVIOUS
      <4>3. v \in EstadoKernel
        BY <2>5, <4>1, <4>2, ConPcb, Tipado
      <4>4. v = [u EXCEPT !.pcb = y]
        OBVIOUS
      <4> HIDE DEF v, y
      <4> QED
        BY <2>5, <4>3, <4>4, AparteSimple
    <3> HIDE DEF v
    <3>2. w \in EstadoKernel /\ Aparte(u, w)
      BY <2>5, <2>7, InterfazTipo, ConIo, Tipado, IoAparte
    <3> HIDE DEF w
    <3>3. /\ EnviarIo(w, i, "IO_GEN_SLEEP", p) \in EstadoKernel
          /\ Aparte(w, EnviarIo(w, i, "IO_GEN_SLEEP", p))
      BY <2>7, <3>2, EnviarIoConserva, Tipado, IoAparte
    <3>4. /\ Aparte(v, Avisar(v))
          /\ Aparte(EnviarIo(w, i, "IO_GEN_SLEEP", p),
                    Avisar(EnviarIo(w, i, "IO_GEN_SLEEP", p)))
      BY <3>1, <3>3, AparteSimple
    <3>5. Suelta(s, v) /\ Suelta(s, w)
      BY <1>1, <2>6, <3>1, <3>2, Componen
    <3>6. Suelta(s, EnviarIo(w, i, "IO_GEN_SLEEP", p))
      BY <1>1, <3>3, <3>5, Componen
    <3> QED
      BY <1>1, <3>4, <3>5, <3>6, Componen
  <2> QED
    BY <2>2, <2>3, <2>7
<1>3. ASSUME NEW i \in Interfaces, NEW registrada \in Interfaces
      PROVE  Aparte(s, CompletarIoGenSleep(s, i, p, registrada))
  <2> DEFINE t == ManejarBlockReady(s, p)
             u == [t EXCEPT !.io[i] = [ocupado |-> FALSE, pid |-> 0]]
             v == ProximoIoGeneric(u, registrada)
  <2>1. ~ Esta(s, "EXIT", p)
    BY DEF Orden, Esta
  <2>2. \/ CompletarIoGenSleep(s, i, p, registrada) = Avisar(s)
        \/ CompletarIoGenSleep(s, i, p, registrada) = Avisar(v)
    BY <2>1 DEF CompletarIoGenSleep
  <2>3. t \in EstadoKernel /\ Aparte(s, t)
    BY <1>1, BlockConserva, Tipado, AparteBlock
  <2> HIDE DEF t
  <2>4. u \in EstadoKernel /\ Aparte(t, u)
    BY <1>3, <2>3, InterfazTipo, ConIo, Tipado, IoAparte
  <2> HIDE DEF u
  <2>5. v \in EstadoKernel /\ Aparte(u, v)
    BY <1>3, <2>4, ProximoIoConserva, Tipado, IoAparte
  <2> HIDE DEF v
  <2>6. Aparte(s, s) /\ Aparte(s, Avisar(s)) /\ Aparte(v, Avisar(v))
    BY <1>1, <2>5, AparteSimple
  <2>7. Aparte(s, v)
    BY <1>1, <2>3, <2>4, <2>5, Componen
  <2> QED
    BY <1>1, <2>2, <2>6, <2>7, Componen
<1>4. \A pc, i, resto : ~ Esta(s, "EXEC", p) => PedirIoGenSleep(s, p, pc, i, resto) = s
  BY DEF PedirIoGenSleep
<1> QED
  BY <1>2, <1>3, <1>4

\* The packets of the CPU on dispatch.  Of a process that is not in EXEC they
\* have nothing to do with the turn of another, but for the answer of a RESIZE,
\* which deletes its timer.
LEMMA DispatchTurno ==
    ASSUME NEW s, Orden(s, {}), NEW m \in Mensaje, NEW resto \in BOOLEAN
    PROVE  /\ Esta(s, "EXEC", m.pid) =>
                 /\ Suelta(s, AtenderProceso(s, m, resto))
                 /\ IF m.dato = "OK" THEN Aparte(s, AtenderResize(s, m, resto))
                    ELSE Suelta(s, AtenderResize(s, m, resto))
                 /\ Suelta(s, AtenderWait(s, m, resto))
                 /\ \A cabeza \in 0 .. MaxPid :
                       LET t == AtenderSignal(s, m, resto, cabeza)
                       IN  IF m.dato \in Recursos
                           THEN Suelta(s, t) \/ (t.caido /\ Aparte(s, t))
                           ELSE Vacia(s, t)
           /\ ~ Esta(s, "EXEC", m.pid) =>
                 /\ Aparte(s, AtenderProceso(s, m, resto))
                 /\ Frena(s, AtenderResize(s, m, resto))
                 /\ Aparte(s, AtenderWait(s, m, resto))
                 /\ \A cabeza : Aparte(s, AtenderSignal(s, m, resto, cabeza))
<1> DEFINE p == m.pid
           i == InterrumpirTemporizador(s)
           g == GuardarQuantum(s, p, resto)
           a == ActualizarRegistros(s, p, m.pc)
<1>1. s \in EstadoKernel /\ p \in Pids /\ m.pc \in 0 .. MaxPc
  BY OrdenTipo, MensajeTipo
<1>2. /\ i \in EstadoKernel /\ Quieto(s, i) /\ Frena(s, i)
      /\ g \in EstadoKernel /\ Quieto(s, g) /\ Frena(s, g)
      /\ a \in EstadoKernel /\ Quieto(s, a) /\ Aparte(s, a)
  BY <1>1, InterrumpirTemporizadorConserva, GuardarQuantumConserva, ActualizarConserva,
     Tipado, QuietoSimple, QuietoGuardar, FrenaSimple
<1>3. Aparte(s, s) /\ Aparte(s, Caer(s)) /\ Aparte(s, Avisar(s))
  BY <1>1, AparteSimple
<1>4. CASE ~ Esta(s, "EXEC", p)
  <2>1. /\ AtenderProceso(s, m, resto) \in {Caer(s), Avisar(s), s}
        /\ AtenderResize(s, m, resto) = FinalizarExito(i, p)
        /\ AtenderWait(s, m, resto) = Caer(s)
        /\ \A cabeza : AtenderSignal(s, m, resto, cabeza) = Caer(s)
    BY <1>4 DEF AtenderProceso, AtenderResize, AtenderWait, AtenderSignal, FinalizarSinMemoria
  <2> HIDE DEF i, p
  <2>2. Orden(i, {}) /\ ~ Esta(i, "EXEC", p)
    BY <1>2, <1>4, QuietoOrden
  <2>3. Aparte(i, FinalizarExito(i, p))
    BY <1>1, <2>2, FinalizarTurno
  <2>4. Frena(s, FinalizarExito(i, p))
    BY <1>1, <1>2, <2>3, Componen
  <2>5. Aparte(s, AtenderProceso(s, m, resto))
    BY <1>3, <2>1
  <2> QED
    BY <1>3, <1>4, <2>1, <2>4, <2>5 DEF p
<1>5. CASE Esta(s, "EXEC", p)
  <2>1. /\ s.procesos[p] \notin {SinEstado, "EXIT"}
    BY <1>1, <1>5 DEF Orden, Colas, SinEstado
  <2>2. /\ AtenderProceso(s, m, resto) \in
              {Avisar(FinalizarExito(i, p)), Avisar(ManejarExecReady(a, p, resto))}
        /\ AtenderResize(s, m, resto) = IF m.dato = "OK" THEN Avisar(s)
                                        ELSE Avisar(FinalizarExito(g, p))
        /\ AtenderWait(s, m, resto) = Avisar(Wait(a, p, m.dato, resto))
        /\ \A cabeza : AtenderSignal(s, m, resto, cabeza) =
              Avisar(Signal(a, p, m.dato, resto, cabeza))
    BY <1>5, <2>1 DEF AtenderProceso, AtenderResize, AtenderWait, AtenderSignal,
                      FinalizarSinMemoria
  <2> HIDE DEF i, g, a, p
  <2>3. /\ Orden(i, {}) /\ Esta(i, "EXEC", p)
        /\ Orden(g, {}) /\ Esta(g, "EXEC", p)
        /\ Orden(a, {}) /\ Esta(a, "EXEC", p)
    BY <1>2, <1>5, QuietoOrden
  <2>4. /\ Suelta(s, FinalizarExito(i, p)) /\ FinalizarExito(i, p) \in EstadoKernel
        /\ Suelta(s, FinalizarExito(g, p)) /\ FinalizarExito(g, p) \in EstadoKernel
    <3>1. Vacia(i, FinalizarExito(i, p)) /\ Vacia(g, FinalizarExito(g, p))
      BY <1>1, <2>3, FinalizarTurno
    <3>2. FinalizarExito(i, p) \in EstadoKernel /\ FinalizarExito(g, p) \in EstadoKernel
      BY <1>1, <1>2, FinalizarConserva, Tipado
    <3> QED
      BY <1>1, <1>2, <3>1, <3>2, Componen
  <2>5. /\ Suelta(s, ManejarExecReady(a, p, resto))
        /\ ManejarExecReady(a, p, resto) \in EstadoKernel
    <3>1. Suelta(a, ManejarExecReady(a, p, resto))
      BY <1>1, <2>3, ManejarTurno DEF Orden
    <3> QED
      BY <1>1, <1>2, <3>1, Componen, ManejarExecReadyConserva, Tipado
  <2>6. /\ Suelta(s, Wait(a, p, m.dato, resto))
        /\ Wait(a, p, m.dato, resto) \in EstadoKernel
    <3>1. Suelta(a, Wait(a, p, m.dato, resto))
      BY <1>1, <2>3, RecursosTurno
    <3> QED
      BY <1>1, <1>2, <3>1, Componen, WaitConserva, Tipado
  <2>7. \A t \in EstadoKernel : Suelta(s, t) => Suelta(s, Avisar(t))
    BY <1>1, AparteSimple, Componen
  <2>8. ASSUME NEW cabeza \in 0 .. MaxPid
        PROVE  LET t == AtenderSignal(s, m, resto, cabeza)
               IN  IF m.dato \in Recursos THEN Suelta(s, t) \/ (t.caido /\ Aparte(s, t))
                   ELSE Vacia(s, t)
    <3> DEFINE w == Signal(a, p, m.dato, resto, cabeza)
    <3>1. w \in EstadoKernel
      BY <1>1, <1>2, SignalConserva, Tipado
    <3>2. AtenderSignal(s, m, resto, cabeza) = Avisar(w)
      BY <2>2
    <3>3. IF m.dato \in Recursos THEN Suelta(a, w) \/ (w.caido /\ Aparte(a, w))
          ELSE Vacia(a, w)
      BY <1>1, <2>3, RecursosTurno
    <3> HIDE DEF w
    <3>4. Aparte(w, Avisar(w)) /\ (w.caido => Avisar(w).caido)
      <4>1. w.caido => Avisar(w).caido
        BY <3>1, Zenon DEF EstadoKernel, Avisar
      <4> QED
        BY <3>1, <4>1, AparteSimple
    <3>5. IF m.dato \in Recursos THEN Suelta(s, w) \/ (w.caido /\ Aparte(s, w))
          ELSE Vacia(s, w)
      BY <1>1, <1>2, <3>3, Componen
    <3> QED
      BY <1>1, <3>2, <3>4, <3>5, Componen
  <2> QED
    BY <1>3, <1>5, <2>2, <2>4, <2>5, <2>6, <2>7, <2>8 DEF p
<1> QED
  BY <1>4, <1>5 DEF p

-----------------------------------------------------------------------------
(* FINALIZAR_PROCESO.                                                      *)

\* kernel_signal of a killed process.
LEMMA SignalInterrupcionAparte ==
    ASSUME NEW s \in EstadoKernel, NEW p \in Pids, NEW r \in Recursos,
           NEW o \in Seq(Pids), NEW falla \in BOOLEAN
    PROVE  Aparte(s, SignalInterrupcion(s, p, r, o, falla))
<1> DEFINE t == Liberar(s, p, r)
           cabeza == Head(t.recursos[r].bloqueados)
           u == SinCabeza(t, r)
<1>1. t \in EstadoKernel /\ Aparte(s, t)
  BY LiberarConserva, Tipado, TomarTurno
<1>2. SignalInterrupcion(s, p, r, o, falla) =
        IF ~ HayQueDesbloquear(t, r) THEN t
        ELSE IF Buscar(t, cabeza) THEN DevolverTomados(u, cabeza, o)
        ELSE IF falla THEN Caer(u) ELSE u
  BY DEF SignalInterrupcion
<1> HIDE DEF t
<1>3. ASSUME HayQueDesbloquear(t, r)
      PROVE  Aparte(s, DevolverTomados(u, cabeza, o)) /\ Aparte(s, Caer(u)) /\ Aparte(s, u)
  <2>1. u \in EstadoKernel /\ Aparte(t, u)
    BY <1>1, <1>3, Tipado, SinCabezaConserva, TomarTurno DEF HayQueDesbloquear
  <2> HIDE DEF u, cabeza
  <2> DEFINE d == DesbloquearTodos(u, o)
             n == Cardinality(EntradasRecorridas(u, RecursosDevueltos(u, cabeza)))
             recursos == [x \in Recursos |->
                [u.recursos[x] EXCEPT !.instancias = @ + u.pcb[cabeza].recursos_tomados[x]]]
  <2>2. d \in EstadoKernel
    BY <2>1, DesbloquearConserva, Tipado
  <2>3. Aparte(u, d)
    <3>1. /\ d.timer = u.timer /\ d.a_cpu = u.a_cpu /\ d.a_interrupt = u.a_interrupt
          /\ d.cola = [u.cola EXCEPT
                          !["BLOCK"] = Filtrar(@, Pids \ Range(o)),
                          !["READY"] = @ \o Filtrar(o, Range(o) \
                              {q \in Range(o) : TienePrioridad(u.pcb[q].quantum_largo)}),
                          !["READY_PRIORIDAD"] = @ \o Filtrar(o,
                              {q \in Range(o) : TienePrioridad(u.pcb[q].quantum_largo)})]
      BY <2>1, Zenon DEF EstadoKernel, DesbloquearTodos
    <3>2. u.cola \in [Colas -> Seq(Pids)]
      BY <2>1, Zenon DEF EstadoKernel
    <3> HIDE DEF d
    <3>3. d.cola["EXEC"] = u.cola["EXEC"]
      BY <3>1, <3>2, ExecEsCola
    <3> QED
      BY <3>1, <3>3 DEF Aparte, SinEnvios
  <2>4. DevolverTomados(u, cabeza, o) =
            [d EXCEPT !.recursos = recursos, !.planificador_iniciar = @ + n]
    BY DEF DevolverTomados
  <2> HIDE DEF d, n, recursos
  <2>5. Aparte(d, [d EXCEPT !.recursos = recursos, !.planificador_iniciar = @ + n])
    BY <2>2, Zenon DEF EstadoKernel, Aparte, SinEnvios
  <2>6. Aparte(u, Caer(u))
    BY <2>1, AparteSimple
  <2>7. Aparte(s, u)
    BY <1>1, <2>1, Componen
  <2>8. Aparte(s, d)
    BY <2>3, <2>7, Componen
  <2> QED
    BY <2>4, <2>5, <2>6, <2>7, <2>8, Componen
<1> QED
  BY <1>1, <1>2, <1>3

\* A killed process that was in EXEC leaves it empty and without a timer; any
\* other has nothing to do with the turn.
LEMMA FinalizarUsuarioTurno ==
    ASSUME NEW s, Orden(s, {}), NEW p \in Pids
    PROVE  /\ Esta(s, "EXEC", p) => /\ FinalizarEnExec(s, p).cola["EXEC"] = << >>
                                    /\ FinalizarEnExec(s, p).timer = Parado(s.timer)
           /\ ~ Esta(s, "EXEC", p) =>
                 /\ \A r \in Recursos, falla \in BOOLEAN :
                       \A o \in OrdenesAlInterrumpir(s, p, r) :
                          Aparte(s, FinalizarEnRecurso(s, p, r, o, falla))
                 /\ \A i \in Interfaces : Aparte(s, FinalizarEnInterfaz(s, p, i))
                 /\ Aparte(s, FinalizarEnEspera(s, p))
                 /\ Aparte(s, FinalizarEnCola(s, p))
<1> DEFINE b == BlockExit(s, p)
<1>1. s \in EstadoKernel /\ b \in EstadoKernel /\ Aparte(s, b)
  BY OrdenTipo, BlockConserva, Tipado, AparteBlock
<1>2. PICK X \in SUBSET {p} : Orden(b, X) /\ Sigue(s, b, {p})
  BY SalirOrden
<1>3. ASSUME Esta(s, "EXEC", p)
      PROVE  /\ FinalizarEnExec(s, p).cola["EXEC"] = << >>
             /\ FinalizarEnExec(s, p).timer = Parado(s.timer)
  <2> DEFINE i == InterrumpirTemporizador(s)
             t == InterrumpirCpu(i, p)
             u == AvisarMemoriaFinalizacion(t, p)
             m == Mover(u, "EXEC", "EXIT")
             w == Matar(Avisar(m), p)
  <2>1. i \in EstadoKernel /\ Quieto(s, i) /\ Frena(s, i)
    BY <1>1, InterrumpirTemporizadorConserva, Tipado, QuietoSimple, FrenaSimple
  <2>2. t \in EstadoKernel /\ Quieto(i, t) /\ t.timer = i.timer
    <3>1. t.timer = i.timer
      BY <2>1, Zenon DEF EstadoKernel, InterrumpirCpu
    <3> QED
      BY <2>1, <3>1, InterrumpirCpuConserva, Tipado, QuietoSimple
  <2>3. Orden(t, {}) /\ t.cola = s.cola
    <3>1. Quieto(s, t)
      BY <1>1, <2>1, <2>2, QuietoTransitivo
    <3> QED
      BY <1>1, <2>2, <3>1, QuietoContinua DEF Quieto, Continua
  <2>4. FinalizarEnExec(s, p) = Avisar(Matar(ExecExit(u), p))
    BY DEF FinalizarEnExec
  <2> HIDE DEF t
  <2>5. Orden(u, {}) /\ u.cola = t.cola /\ Aparte(t, u)
    BY <2>2, <2>3, AvisarMemoriaOrden, AparteSimple
  <2> HIDE DEF u
  <2>6. Esta(u, "EXEC", p) /\ u \in EstadoKernel /\ EnTurno(u)
    BY <1>3, <2>3, <2>5, OrdenTipo DEF Esta, Orden
  <2>7. ExecExit(u) = Avisar(m)
    BY <2>6, UnicoEnExec DEF ExecExit
  <2>8. m \in EstadoKernel /\ Vacia(u, m)
    <3>1. "EXIT" \in Colas \ {"EXEC"}
      BY DEF Colas
    <3>2. Vacia(u, m)
      BY <2>6, <3>1, MoverVacia
    <3>3. Conserva(u, m)
      BY <2>6, <3>1, ExecEsCola, MoverConserva
    <3> QED
      BY <3>2, <3>3, Tipado
  <2>9. Avisar(m).procesos[p] = "EXIT"
    <3>1. Orden(ExecExit(u), {p})
      BY <2>5, <2>6, SalirOrden, Zenon
    <3> HIDE DEF m
    <3>2. Orden(Avisar(m), {p})
      BY <2>7, <3>1
    <3> QED
      BY <3>2 DEF Orden
  <2> HIDE DEF m
  <2>10. Avisar(m) \in EstadoKernel /\ Aparte(m, Avisar(m))
    BY <2>8, AvisarConserva, Tipado, AparteSimple
  <2>11. w \in EstadoKernel /\ Aparte(Avisar(m), w)
    BY <2>9, <2>10, MatarConserva, Tipado, AparteBlock
  <2> HIDE DEF w
  <2>12. Aparte(w, Avisar(w))
    BY <2>11, AparteSimple
  <2>13. FinalizarEnExec(s, p) = Avisar(w)
    BY <2>4, <2>7 DEF w
  <2> QED
    BY <2>1, <2>2, <2>5, <2>8, <2>10, <2>11, <2>12, <2>13 DEF Aparte, Vacia, Frena
<1>4. ASSUME ~ Esta(s, "EXEC", p), NEW t, NEW Y, Orden(t, Y), Aparte(s, t)
      PROVE  Aparte(s, MatarEnMemoria(t, p))
  <2>1. t \in EstadoKernel
    BY <1>4, OrdenTipo
  <2>2. t.procesos[p] # "EXEC"
    BY <1>4 DEF Aparte, Orden, Esta, Colas
  <2>3. Aparte(t, MatarEnMemoria(t, p))
    BY <2>1, <2>2, AparteBlock
  <2> QED
    BY <1>1, <1>4, <2>3, Componen
<1>5. ASSUME ~ Esta(s, "EXEC", p), NEW r \in Recursos, NEW falla \in BOOLEAN,
             NEW o \in OrdenesAlInterrumpir(s, p, r)
      PROVE  Aparte(s, FinalizarEnRecurso(s, p, r, o, falla))
  <2> DEFINE t == SignalInterrupcion(b, p, r, o, falla)
  <2>1. o \in Seq(Pids) /\ Range(o) \subseteq Range(b.cola["BLOCK"])
    BY <1>1, OrdenesTipo, OrdenesBloqueados
  <2>2. FinalizarEnRecurso(s, p, r, o, falla) = MatarEnMemoria(t, p)
    BY DEF FinalizarEnRecurso
  <2> HIDE DEF b
  <2>3. Continua(b, t, X)
    BY <1>2, <2>1, SignalInterrupcionContinua
  <2>4. Aparte(b, t)
    BY <1>1, <2>1, SignalInterrupcionAparte
  <2> HIDE DEF t
  <2>5. Aparte(s, t) /\ Orden(t, X)
    BY <1>1, <2>3, <2>4, Componen DEF Continua
  <2> QED
    BY <1>4, <1>5, <2>2, <2>5
<1>6. ASSUME ~ Esta(s, "EXEC", p), NEW i \in Interfaces
      PROVE  Aparte(s, FinalizarEnInterfaz(s, p, i))
  <2> DEFINE u == [b EXCEPT !.io[i] = [ocupado |-> FALSE, pid |-> 0]]
             v == EnviarIo(u, i, "IO_INTERRUPCION", p)
             w == ProximoIoGeneric(v, i)
  <2>1. FinalizarEnInterfaz(s, p, i) = MatarEnMemoria(w, p)
    BY DEF FinalizarEnInterfaz
  <2> HIDE DEF b
  <2>2. u \in EstadoKernel /\ Quieto(b, u) /\ Aparte(b, u)
    BY <1>1, InterfazTipo, ConIo, Tipado, QuietoIo, IoAparte
  <2> HIDE DEF u
  <2>3. v \in EstadoKernel /\ Quieto(u, v) /\ Aparte(u, v)
    BY <2>2, EnviarIoConserva, Tipado, QuietoIo, IoAparte
  <2> HIDE DEF v
  <2>4. w \in EstadoKernel /\ Quieto(v, w) /\ Aparte(v, w)
    BY <2>3, ProximoIoConserva, Tipado, QuietoIo, IoAparte
  <2> HIDE DEF w
  <2>5. Orden(w, X)
    <3>1. Quieto(b, v)
      BY <1>1, <2>2, <2>3, QuietoTransitivo
    <3>2. Quieto(b, w)
      BY <1>1, <2>3, <2>4, <3>1, QuietoTransitivo
    <3> QED
      BY <1>2, <2>4, <3>2, QuietoContinua DEF Continua
  <2>6. Aparte(s, u)
    BY <1>1, <2>2, Componen
  <2>7. Aparte(s, v)
    BY <1>1, <2>3, <2>6, Componen
  <2>8. Aparte(s, w)
    BY <1>1, <2>4, <2>7, Componen
  <2> QED
    BY <1>4, <1>6, <2>1, <2>5, <2>8
<1>7. ~ Esta(s, "EXEC", p) => Aparte(s, FinalizarEnEspera(s, p))
  BY <1>1, <1>2, <1>4 DEF FinalizarEnEspera
<1>8. ASSUME ~ Esta(s, "EXEC", p)
      PROVE  Aparte(s, FinalizarEnCola(s, p))
  <2> DEFINE t == MatarEnMemoria(s, p)
  <2>1. t \in EstadoKernel
    BY <1>1, MatarEnMemoriaConserva, Tipado
  <2>2. Aparte(s, s)
    BY <1>1, AparteSimple
  <2>3. Aparte(s, t)
    BY <1>4, <1>8, <2>2
  <2>4. FinalizarEnCola(s, p) = t \/ FinalizarEnCola(s, p) = AvisarMemoriaFinalizacion(t, p)
    BY DEF FinalizarEnCola
  <2> HIDE DEF t
  <2> QED
    BY <1>1, <2>1, <2>3, <2>4, AparteSimple, Componen
<1> QED
  BY <1>3, <1>5, <1>6, <1>7, <1>8

\* INICIAR_PROCESO, the answer to it, and the long-term planner.
LEMMA AltaAparte ==
    ASSUME NEW s \in EstadoKernel, NEW p \in Pids
    PROVE  /\ Aparte(s, NuevoProceso(s, p))
           /\ \A leido : Aparte(s, ResponderNuevoProceso(s, p, leido))
           /\ Aparte(s, LargoPlazo(s))
<1>1. s.cola \in [Colas -> Seq(Pids)] /\ {"NEW", "READY"} \subseteq Colas \ {"EXEC"}
  BY Zenon DEF EstadoKernel, Colas
<1>2. Aparte(s, NuevoProceso(s, p))
  <2> DEFINE t == NuevoProceso(s, p)
             q == Append(s.cola["NEW"], p)
  <2>1. /\ t.cola = [s.cola EXCEPT !["NEW"] = q]
        /\ t.timer = s.timer /\ t.a_cpu = s.a_cpu /\ t.a_interrupt = s.a_interrupt
    BY Zenon DEF EstadoKernel, NuevoProceso, Push
  <2> HIDE DEF t, q
  <2>2. t.cola["EXEC"] = s.cola["EXEC"]
    BY <1>1, <2>1, ExecEsCola
  <2>3. Aparte(s, t)
    BY <2>1, <2>2 DEF Aparte, SinEnvios
  <2> QED
    BY <2>3 DEF t
<1>3. Aparte(s, Revertir(s, p))
  <2> DEFINE t == Revertir(s, p)
             q == IF s.cola["NEW"] = << >> THEN s.cola["NEW"]
                  ELSE IF p \in Range(s.cola["NEW"]) THEN Quitar(s.cola["NEW"], p)
                  ELSE Tail(s.cola["NEW"])
  <2>1. /\ t.cola = [s.cola EXCEPT !["NEW"] = q]
        /\ t.timer = s.timer /\ t.a_cpu = s.a_cpu /\ t.a_interrupt = s.a_interrupt
    BY Zenon DEF EstadoKernel, Revertir
  <2> HIDE DEF t, q
  <2>2. t.cola["EXEC"] = s.cola["EXEC"]
    BY <1>1, <2>1, ExecEsCola
  <2>3. Aparte(s, t)
    BY <2>1, <2>2 DEF Aparte, SinEnvios
  <2> QED
    BY <2>3 DEF t
<1>4. Aparte(s, Avisar([s EXCEPT !.pcb[p].memoria_aceptado = TRUE]))
  <2> DEFINE x == [s.pcb EXCEPT ![p].memoria_aceptado = TRUE]
             u == [s EXCEPT !.pcb = x]
  <2>1. [s EXCEPT !.pcb[p].memoria_aceptado = TRUE] = u
    OBVIOUS
  <2>2. s.pcb \in [Pids -> Pcb]
    BY Zenon DEF EstadoKernel
  <2>3. x \in [Pids -> Pcb]
    BY <2>2 DEF Pcb
  <2> HIDE DEF x
  <2>4. u \in EstadoKernel /\ Aparte(s, u)
    BY <2>3, AparteSimple, Zenon DEF EstadoKernel
  <2> HIDE DEF u
  <2>5. Aparte(u, Avisar(u))
    BY <2>4, AparteSimple
  <2> QED
    BY <2>1, <2>4, <2>5, Componen
<1>5. \A leido : Aparte(s, ResponderNuevoProceso(s, p, leido))
  BY <1>3, <1>4, AparteSimple DEF ResponderNuevoProceso
<1>6. Aparte(s, LargoPlazo(s))
  <2> DEFINE t == LargoPlazo(s)
  <2>1. t.timer = s.timer /\ t.a_cpu = s.a_cpu /\ t.a_interrupt = s.a_interrupt
    BY Zenon DEF EstadoKernel, LargoPlazo, NewReady
  <2>2. t.cola["EXEC"] = s.cola["EXEC"]
    BY LargoPlazoCampos, ExecEsCola, Zenon DEF Colas
  <2> QED
    BY <2>1, <2>2 DEF Aparte, SinEnvios
<1> QED
  BY <1>2, <1>5, <1>6

\* What timer_create leaves of the timer.
Armado(timer) == [timer EXCEPT !.huerfanos = IF timer.armado THEN @ + 1 ELSE @,
                               !.armado = TRUE]

\* The short-term planner gives the CPU to h, and arms its timer unless the
\* algorithm is FIFO.
Despacho(s, t) ==
    /\ s.cola["EXEC"] = << >>
    /\ \E h \in Pids, pc \in 0 .. MaxPc :
          /\ t.cola["EXEC"] = <<h>>
          /\ t.a_cpu = Append(s.a_cpu, [pid |-> h, pc |-> pc])
    /\ t.a_interrupt = s.a_interrupt
    /\ t.timer = IF Algoritmo = "FIFO" THEN s.timer ELSE Armado(s.timer)

\* ready_a_exec on an empty EXEC hands it the head of the list, whose timer
\* Desalojar arms.
LEMMA ReadyExecTurno ==
    ASSUME NEW s, Orden(s, {}), s.cola["EXEC"] = << >>,
           NEW de \in {"READY", "READY_PRIORIDAD"}, s.cola[de] # << >>
    PROVE  LET h == Head(s.cola[de])
               t == EnviarEjecutar(Mover(s, de, "EXEC"), h)
           IN  /\ Algoritmo = "FIFO" => Despacho(s, t)
               /\ Algoritmo # "FIFO" => Despacho(s, Desalojar(t, h))
<1> DEFINE h == Head(s.cola[de])
           m == Mover(s, de, "EXEC")
           t == EnviarEjecutar(m, h)
           u == IniciarTemporizador(t)
<1>1. s \in EstadoKernel /\ de \in Colas /\ de # "EXEC" /\ s.cola \in [Colas -> Seq(Pids)]
  <2>1. s \in EstadoKernel
    BY OrdenTipo
  <2> QED
    BY <2>1, Zenon DEF EstadoKernel, Colas
<1>2. h \in Pids /\ m \in EstadoKernel
  BY <1>1, MoverAExec DEF EnTurno
<1>3. m.cola["EXEC"] = <<h>> /\ m.timer = s.timer /\ SinEnvios(s, m)
  <2> DEFINE q == Append([s.cola EXCEPT ![de] = Tail(@)]["EXEC"], h)
  <2>1. /\ m.cola = [[s.cola EXCEPT ![de] = Tail(@)] EXCEPT !["EXEC"] = q]
        /\ m.timer = s.timer /\ m.a_cpu = s.a_cpu /\ m.a_interrupt = s.a_interrupt
    BY <1>1, Zenon DEF EstadoKernel, Mover, Push, Pop
  <2> HIDE DEF h
  <2>2. q = <<h>>
    <3>1. [s.cola EXCEPT ![de] = Tail(@)]["EXEC"] = << >>
      BY <1>1, ExecEsCola
    <3>2. Append(<< >>, h) = <<h>>
      OBVIOUS
    <3> QED
      BY <3>1, <3>2
  <2> HIDE DEF m, q
  <2>3. m.cola["EXEC"] = q
    BY <1>1, <2>1, ExecEsCola
  <2> QED
    BY <2>1, <2>2, <2>3 DEF SinEnvios
<1>4. h \in Range(m.cola["EXEC"])
  <2> HIDE DEF h, m
  <2>1. Range(<<h>>) = {h}
    BY DEF Range
  <2> QED
    BY <1>3, <2>1
<1>5. Continua(s, t, {})
  BY <1>1, ReadyExecContinua
<1> HIDE DEF h, m
<1>6. /\ t.cola = m.cola /\ t.timer = m.timer /\ t.a_interrupt = m.a_interrupt
      /\ t.a_cpu = Append(m.a_cpu, [pid |-> h, pc |-> m.pcb[h].pc])
  BY <1>2, Zenon DEF EstadoKernel, EnviarEjecutar
<1>7. m.pcb[h].pc \in 0 .. MaxPc
  <2>1. m.pcb[h] \in Pcb
    BY <1>2, Zenon DEF EstadoKernel
  <2> QED
    BY <2>1 DEF Pcb
<1> HIDE DEF t
<1>8. t \in EstadoKernel /\ t.procesos[h] = "EXEC" /\ t.timer \in Temporizador
  <2>1. Orden(t, {}) /\ Esta(t, "EXEC", h)
    BY <1>4, <1>5, <1>6 DEF Continua, Esta
  <2> QED
    BY <1>2, <2>1, OrdenTipo, RelojTipo DEF Orden, Colas
<1>9. /\ t.cola["EXEC"] = <<h>> /\ t.timer = s.timer /\ t.a_interrupt = s.a_interrupt
      /\ t.a_cpu = Append(s.a_cpu, [pid |-> h, pc |-> m.pcb[h].pc])
  BY <1>3, <1>6 DEF SinEnvios
<1>10. ASSUME Algoritmo = "FIFO"
       PROVE  Despacho(s, t)
  BY <1>2, <1>7, <1>9, <1>10 DEF Despacho
<1>11. ASSUME Algoritmo # "FIFO"
       PROVE  Despacho(s, Desalojar(t, h))
  <2>1. Desalojar(t, h) = u
    BY <1>8 DEF Desalojar
  <2>2. /\ u.cola = t.cola /\ u.a_cpu = t.a_cpu /\ u.a_interrupt = t.a_interrupt
        /\ u.timer = [t.timer EXCEPT
                        !.huerfanos = IF t.timer.armado THEN @ + 1 ELSE @,
                        !.armado = TRUE]
    BY <1>8, Zenon DEF EstadoKernel, IniciarTemporizador
  <2> HIDE DEF u
  <2>3. u.timer = Armado(s.timer)
    BY <1>9, <2>2 DEF Armado
  <2> QED
    BY <1>2, <1>7, <1>9, <1>11, <2>1, <2>2, <2>3 DEF Despacho
<1> QED
  BY <1>10, <1>11 DEF t, h, m

\* The short-term planner, under the three algorithms.
LEMMA CortoPlazoTurno ==
    ASSUME NEW s, Orden(s, {})
    PROVE  Aparte(s, CortoPlazo(s)) \/ Despacho(s, CortoPlazo(s))
<1>1. Aparte(s, s)
  BY OrdenTipo, AparteSimple
<1>2. ASSUME s.cola["EXEC"] = << >>, s.cola["READY"] # << >>
      PROVE  /\ Algoritmo = "FIFO" => Despacho(s, ReadyExec(s))
             /\ Algoritmo # "FIFO" =>
                   Despacho(s, Desalojar(ReadyExec(s), Head(s.cola["READY"])))
  BY <1>2, ReadyExecTurno DEF ReadyExec
<1>3. ASSUME s.cola["EXEC"] = << >>, s.cola["READY_PRIORIDAD"] # << >>, Algoritmo # "FIFO"
      PROVE  Despacho(s, Desalojar(ReadyExecMayorPrioridad(s),
                                   Head(s.cola["READY_PRIORIDAD"])))
  BY <1>3, ReadyExecTurno DEF ReadyExecMayorPrioridad
<1>4. CASE Algoritmo = "FIFO"
  <2>1. CortoPlazo(s) = Fifo(s)
    BY <1>4 DEF CortoPlazo
  <2>2. Fifo(s) = s \/ (/\ s.cola["EXEC"] = << >> /\ s.cola["READY"] # << >>
                        /\ Fifo(s) = ReadyExec(s))
    BY DEF Fifo, ReadyExec
  <2> QED
    BY <1>1, <1>2, <1>4, <2>1, <2>2
<1>5. ASSUME Algoritmo # "FIFO"
      PROVE  Aparte(s, RoundRobin(s)) \/ Despacho(s, RoundRobin(s))
  BY <1>1, <1>2, <1>5 DEF RoundRobin
<1>6. CASE Algoritmo = "RR"
  BY <1>5, <1>6 DEF CortoPlazo
<1>7. CASE Algoritmo = "VRR"
  <2>1. CortoPlazo(s) = VirtualRoundRobin(s)
    BY <1>7 DEF CortoPlazo
  <2> QED
    BY <1>1, <1>3, <1>5, <1>7, <2>1 DEF VirtualRoundRobin
<1> QED
  BY <1>4, <1>6, <1>7, AlgoritmoAssumption

\* A turn of the planner thread.
LEMMA PlanificadorTurno ==
    ASSUME Inductivo, Orden(k, {}), HiloPlanificador
    PROVE  Aparte(k, k') \/ Despacho(k, k')
<1> DEFINE t == [k EXCEPT !.planificador_iniciar = @ - 1]
<1>1. k \in EstadoKernel /\ Orden(t, {})
  BY TurnoOrden, OrdenTipo
<1>2. k' = IF t.detener THEN t ELSE CortoPlazo(LargoPlazo(t))
  BY TurnoOrden
<1>3. Aparte(k, t)
  BY <1>1, AparteSimple
<1> HIDE DEF t
<1> DEFINE u == LargoPlazo(t)
<1>4. t \in EstadoKernel /\ Orden(u, {})
  BY <1>1, OrdenTipo, LargoPlazoContinua DEF Continua
<1>5. Aparte(t, u)
  <2>1. 1 \in Pids
    BY LimitesAssumption DEF Pids
  <2> QED
    BY <1>4, <2>1, AltaAparte
<1> HIDE DEF u
<1>6. Aparte(u, CortoPlazo(u)) \/ Despacho(u, CortoPlazo(u))
  BY <1>4, CortoPlazoTurno
<1>7. Aparte(k, u)
  BY <1>1, <1>3, <1>5, Componen
<1>8. Aparte(k, CortoPlazo(u)) \/ Despacho(k, CortoPlazo(u))
  BY <1>1, <1>6, <1>7, Componen DEF Despacho, Aparte, SinEnvios
<1> QED
  BY <1>2, <1>3, <1>8 DEF u

-----------------------------------------------------------------------------
(* One thread of control.  Kernel, CPU and memoria hand to one another the *)
(* turn of the process in EXEC: it is an order to the CPU, a request to    *)
(* memoria, its answer, a packet of the interrupt socket, or the last of   *)
(* the dispatch socket.  What else is in the dispatch socket are notices   *)
(* of a RESIZE, sent before.  c, pe, en, it and d stand for cpu, pedidos,  *)
(* entregas, interrupt and dispatch.                                       *)

\* The last packet of the dispatch socket ends the turn.
Vuelta(d) == d # << >> /\ ~ EsAviso(d[Len(d)])

\* How many messages carry the turn.
EnVuelo(s, pe, en, it, d) ==
    Len(s.a_cpu) + Len(pe) + Len(en) + Len(it) + (IF Vuelta(d) THEN 1 ELSE 0)

\* At most one does, and it names the process in EXEC; while the CPU waits for
\* memoria, its registers do too.
Hilo(s, c, pe, en, it, d) ==
    /\ \A n \in 1 .. Len(d) - 1 : EsAviso(d[n])
    /\ EnVuelo(s, pe, en, it, d) <= Len(s.cola["EXEC"])
    /\ s.a_cpu # << >> => s.a_cpu[1].pid = s.cola["EXEC"][1]
    /\ pe # << >> => /\ pe[1].pid = s.cola["EXEC"][1] /\ c.pid = s.cola["EXEC"][1]
                     /\ pe[1].op = "PROXIMA_INSTRUCCION" => pe[1].pc = c.pc
    /\ en # << >> => /\ en[1].pid = s.cola["EXEC"][1] /\ c.pid = s.cola["EXEC"][1]
                     /\ en[1].op = "PROXIMA_INSTRUCCION" => en[1].pc = c.pc
    /\ it # << >> => it[1].pid = s.cola["EXEC"][1]
    /\ Vuelta(d) => d[Len(d)].pid = s.cola["EXEC"][1]

\* The types of what Hilo reads.
Sockets(s, pe, en, it, d) ==
    /\ EnTurno(s) /\ pe \in Seq(Pedido) /\ en \in Seq(Entrega)
    /\ it \in Seq(Mensaje) /\ d \in Seq(Mensaje)

\* The lengths of those sequences.
LEMMA SocketsLargo ==
    ASSUME NEW s, NEW pe, NEW en, NEW it, NEW d, Sockets(s, pe, en, it, d)
    PROVE  /\ Len(s.a_cpu) \in Nat /\ (s.a_cpu = << >> <=> Len(s.a_cpu) = 0)
           /\ Len(pe) \in Nat /\ (pe = << >> <=> Len(pe) = 0)
           /\ Len(en) \in Nat /\ (en = << >> <=> Len(en) = 0)
           /\ Len(it) \in Nat /\ (it = << >> <=> Len(it) = 0)
           /\ Len(d) \in Nat /\ (d = << >> <=> Len(d) = 0)
           /\ s.cola["EXEC"] \in Seq(Pids) /\ Len(s.cola["EXEC"]) \in {0, 1}
           /\ s.cola["EXEC"] = << >> <=> Len(s.cola["EXEC"]) = 0
<1> DEFINE A == [pid : Pids, pc : 0 .. MaxPc]
<1>1. ASSUME NEW S, NEW q \in Seq(S)
      PROVE  Len(q) \in Nat /\ (q = << >> <=> Len(q) = 0)
  BY EmptySeq, LenProperties
<1>2. s.a_cpu \in Seq(A) /\ s.cola["EXEC"] \in Seq(Pids) /\ Len(s.cola["EXEC"]) \in Nat
      /\ Len(s.cola["EXEC"]) <= 1
  BY RelojTipo, ColaTipo, ExecEsCola DEF Sockets, EnTurno
<1> HIDE DEF A
<1>3. Len(s.a_cpu) \in Nat /\ (s.a_cpu = << >> <=> Len(s.a_cpu) = 0)
  BY <1>1, <1>2, Zenon
<1>4. s.cola["EXEC"] = << >> <=> Len(s.cola["EXEC"]) = 0
  BY <1>1, <1>2, Zenon
<1>5. /\ Len(pe) \in Nat /\ (pe = << >> <=> Len(pe) = 0)
      /\ Len(en) \in Nat /\ (en = << >> <=> Len(en) = 0)
      /\ Len(it) \in Nat /\ (it = << >> <=> Len(it) = 0)
      /\ Len(d) \in Nat /\ (d = << >> <=> Len(d) = 0)
  BY <1>1, Zenon DEF Sockets
<1>6. \A l \in Nat : l <= 1 => l \in {0, 1}
  OBVIOUS
<1> QED
  BY <1>2, <1>3, <1>4, <1>5, <1>6, Zenon

\* A sequence of one element.
LEMMA DeUno ==
    ASSUME NEW S, NEW q \in Seq(S), Len(q) = 1
    PROVE  /\ Head(q) = q[1] /\ q[1] \in S /\ Tail(q) = << >>
           /\ Range(q) = {q[1]}
<1>1. q # << >> /\ Tail(q) \in Seq(S) /\ Len(Tail(q)) = 0
  BY HeadTailProperties, EmptySeq
<1>2. Tail(q) = << >>
  BY <1>1, EmptySeq
<1>3. DOMAIN q = {1}
  BY LenProperties
<1> QED
  BY <1>1, <1>2, <1>3, HeadTailProperties DEF Range

\* The place of the turn is the only one that is not empty.
LEMMA UnLugar ==
    ASSUME NEW s, NEW c, NEW pe, NEW en, NEW it, NEW d, Sockets(s, pe, en, it, d),
           Hilo(s, c, pe, en, it, d)
    PROVE  /\ s.a_cpu # << >> => /\ Len(s.a_cpu) = 1 /\ pe = << >> /\ en = << >>
                                 /\ it = << >> /\ ~ Vuelta(d)
           /\ pe # << >> => /\ Len(pe) = 1 /\ s.a_cpu = << >> /\ en = << >>
                            /\ it = << >> /\ ~ Vuelta(d)
           /\ en # << >> => /\ Len(en) = 1 /\ s.a_cpu = << >> /\ pe = << >>
                            /\ it = << >> /\ ~ Vuelta(d)
           /\ it # << >> => /\ Len(it) = 1 /\ s.a_cpu = << >> /\ pe = << >>
                            /\ en = << >> /\ ~ Vuelta(d)
           /\ Vuelta(d) => s.a_cpu = << >> /\ pe = << >> /\ en = << >> /\ it = << >>
           /\ s.a_cpu # << >> \/ pe # << >> \/ en # << >> \/ it # << >> \/ Vuelta(d) =>
                 Len(s.cola["EXEC"]) = 1
           /\ s.cola["EXEC"] = << >> =>
                 /\ s.a_cpu = << >> /\ pe = << >> /\ en = << >> /\ it = << >> /\ ~ Vuelta(d)
<1> DEFINE a == Len(s.a_cpu)
           x == Len(pe)
           y == Len(en)
           z == Len(it)
           v == IF Vuelta(d) THEN 1 ELSE 0
           e == Len(s.cola["EXEC"])
<1>1. /\ a \in Nat /\ x \in Nat /\ y \in Nat /\ z \in Nat /\ v \in {0, 1} /\ e \in {0, 1}
      /\ s.a_cpu = << >> <=> a = 0
      /\ pe = << >> <=> x = 0
      /\ en = << >> <=> y = 0
      /\ it = << >> <=> z = 0
      /\ s.cola["EXEC"] = << >> <=> e = 0
      /\ Vuelta(d) <=> v = 1
      /\ a + x + y + z + v <= e
  <2>1. /\ a \in Nat /\ x \in Nat /\ y \in Nat /\ z \in Nat /\ e \in {0, 1}
        /\ s.a_cpu = << >> <=> a = 0
        /\ pe = << >> <=> x = 0
        /\ en = << >> <=> y = 0
        /\ it = << >> <=> z = 0
        /\ s.cola["EXEC"] = << >> <=> e = 0
    BY SocketsLargo, Zenon
  <2>2. a + x + y + z + v <= e
    BY DEF Hilo, EnVuelo
  <2>3. v \in {0, 1} /\ (Vuelta(d) <=> v = 1)
    OBVIOUS
  <2> QED
    BY <2>1, <2>2, <2>3, Zenon
<1> HIDE DEF a, x, y, z, v, e
<1>2. /\ a # 0 => a = 1 /\ x = 0 /\ y = 0 /\ z = 0 /\ v = 0
      /\ x # 0 => x = 1 /\ a = 0 /\ y = 0 /\ z = 0 /\ v = 0
      /\ y # 0 => y = 1 /\ a = 0 /\ x = 0 /\ z = 0 /\ v = 0
      /\ z # 0 => z = 1 /\ a = 0 /\ x = 0 /\ y = 0 /\ v = 0
      /\ v = 1 => a = 0 /\ x = 0 /\ y = 0 /\ z = 0
      /\ a # 0 \/ x # 0 \/ y # 0 \/ z # 0 \/ v = 1 => e = 1
      /\ e = 0 => a = 0 /\ x = 0 /\ y = 0 /\ z = 0 /\ v # 1
  BY <1>1
<1>3. v # 1 <=> v = 0
  BY <1>1
<1>4. /\ s.a_cpu # << >> => x = 0 /\ y = 0 /\ z = 0 /\ v = 0 /\ a = 1
      /\ pe # << >> => a = 0 /\ y = 0 /\ z = 0 /\ v = 0 /\ x = 1
      /\ en # << >> => a = 0 /\ x = 0 /\ z = 0 /\ v = 0 /\ y = 1
      /\ it # << >> => a = 0 /\ x = 0 /\ y = 0 /\ v = 0 /\ z = 1
  BY <1>1, <1>2, Zenon
<1> QED
  BY <1>1, <1>2, <1>3, <1>4 DEF a, x, y, z, e

\* What a packet at the end of the dispatch socket does to it.
LEMMA Encolado ==
    ASSUME NEW d \in Seq(Mensaje), NEW m \in Mensaje
    PROVE  LET f == Append(d, m)
           IN  /\ f \in Seq(Mensaje) /\ f # << >> /\ f[Len(f)] = m
               /\ Vuelta(f) <=> ~ EsAviso(m)
               /\ (\A n \in 1 .. Len(d) - 1 : EsAviso(d[n])) /\ ~ Vuelta(d) =>
                     \A n \in 1 .. Len(f) - 1 : EsAviso(f[n])
<1> DEFINE f == Append(d, m)
<1>1. /\ f \in Seq(Mensaje) /\ Len(d) \in Nat /\ Len(f) = Len(d) + 1 /\ f[Len(d) + 1] = m
      /\ \A n \in 1 .. Len(d) : f[n] = d[n]
  BY UltimoEscrito
<1>2. f # << >>
  BY <1>1, EmptySeq
<1> HIDE DEF f
<1>3. Vuelta(f) <=> ~ EsAviso(m)
  BY <1>1, <1>2 DEF Vuelta
<1>4. ASSUME \A n \in 1 .. Len(d) - 1 : EsAviso(d[n]), ~ Vuelta(d), NEW n \in 1 .. Len(f) - 1
      PROVE  EsAviso(f[n])
  <2>1. n \in 1 .. Len(d) /\ f[n] = d[n]
    BY <1>1
  <2>2. CASE n = Len(d)
    <3>1. d # << >>
      BY <2>1, <2>2, EmptySeq
    <3> QED
      BY <1>4, <2>1, <2>2, <3>1 DEF Vuelta
  <2>3. CASE n # Len(d)
    <3>1. n \in 1 .. Len(d) - 1
      BY <1>1, <2>1, <2>3
    <3> QED
      BY <1>4, <2>1, <3>1
  <2> QED
    BY <2>2, <2>3
<1> QED
  BY <1>1, <1>2, <1>3, <1>4 DEF f

\* The kernel reads the dispatch socket: a notice leaves the turn where it is,
\* and any other packet is the turn, alone.
LEMMA Leido ==
    ASSUME NEW s, NEW c, NEW pe, NEW en, NEW it, NEW d, Sockets(s, pe, en, it, d),
           Hilo(s, c, pe, en, it, d), d # << >>
    PROVE  /\ EsAviso(Head(d)) =>
                 /\ Vuelta(Tail(d)) <=> Vuelta(d)
                 /\ Hilo(s, c, pe, en, it, Tail(d))
           /\ ~ EsAviso(Head(d)) =>
                 /\ Head(d).pid = s.cola["EXEC"][1] /\ Len(s.cola["EXEC"]) = 1
                 /\ s.a_cpu = << >> /\ pe = << >> /\ en = << >> /\ it = << >>
                 /\ Tail(d) = << >>
<1> DEFINE r == Tail(d)
<1>1. /\ d \in Seq(Mensaje) /\ Head(d) = d[1] /\ r \in Seq(Mensaje)
      /\ Len(d) \in Nat /\ 1 \in 1 .. Len(d) /\ Len(r) = Len(d) - 1
      /\ \A n \in 1 .. Len(r) : n + 1 \in 1 .. Len(d) /\ r[n] = d[n + 1]
  BY PrimeroLeido, Zenon DEF Sockets
<1>2. Len(r) \in Nat /\ (r = << >> <=> Len(r) = 0)
  BY <1>1, EmptySeq, LenProperties
<1> HIDE DEF r
<1>3. \A n \in 1 .. Len(d) - 1 : EsAviso(d[n])
  BY DEF Hilo
<1>4. ASSUME EsAviso(Head(d))
      PROVE  Vuelta(r) <=> Vuelta(d)
  <2>1. CASE Len(d) = 1
    BY <1>1, <1>2, <1>4, <2>1 DEF Vuelta
  <2>2. CASE Len(d) # 1
    <3>1. r # << >> /\ Len(r) \in 1 .. Len(r) /\ Len(r) + 1 = Len(d)
      BY <1>1, <1>2, <2>2
    <3>2. r[Len(r)] = d[Len(d)]
      BY <1>1, <3>1
    <3> QED
      BY <3>1, <3>2 DEF Vuelta
  <2> QED
    BY <2>1, <2>2
<1>5. ASSUME EsAviso(Head(d))
      PROVE  Hilo(s, c, pe, en, it, r)
  <2>1. ASSUME NEW n \in 1 .. Len(r) - 1
        PROVE  EsAviso(r[n])
    <3>1. n + 1 \in 1 .. Len(d) - 1 /\ n \in 1 .. Len(r)
      BY <1>1, <1>2, <2>1
    <3> QED
      BY <1>1, <1>3, <3>1
  <2>2. EnVuelo(s, pe, en, it, r) = EnVuelo(s, pe, en, it, d)
    BY <1>4, <1>5 DEF EnVuelo
  <2>3. Vuelta(r) => r[Len(r)] = d[Len(d)] /\ Vuelta(d)
    <3>1. HAVE Vuelta(r)
    <3>2. Len(r) \in 1 .. Len(r) /\ Len(r) + 1 = Len(d)
      BY <1>1, <1>2, <3>1 DEF Vuelta
    <3> QED
      BY <1>1, <1>4, <1>5, <3>1, <3>2
  <2> QED
    BY <2>1, <2>2, <2>3 DEF Hilo
<1>6. ASSUME ~ EsAviso(Head(d))
      PROVE  /\ Head(d).pid = s.cola["EXEC"][1] /\ Len(s.cola["EXEC"]) = 1
             /\ s.a_cpu = << >> /\ pe = << >> /\ en = << >> /\ it = << >>
             /\ r = << >>
  <2>1. Len(d) = 1
    <3>1. 1 \notin 1 .. Len(d) - 1
      BY <1>1, <1>3, <1>6
    <3> QED
      BY <1>1, <3>1
  <2>2. Vuelta(d) /\ d[Len(d)] = Head(d)
    BY <1>1, <1>6, <2>1 DEF Vuelta
  <2>3. r = << >>
    BY <1>1, <1>2, <2>1
  <2>4. d[Len(d)].pid = s.cola["EXEC"][1]
    BY <2>2 DEF Hilo
  <2>5. /\ Vuelta(d) => s.a_cpu = << >> /\ pe = << >> /\ en = << >> /\ it = << >>
        /\ Vuelta(d) => Len(s.cola["EXEC"]) = 1
    BY UnLugar
  <2> QED
    BY <2>2, <2>3, <2>4, <2>5
<1> QED
  BY <1>4, <1>5, <1>6 DEF r

\* Nothing carries the turn.
LEMMA SinTurno ==
    ASSUME NEW s, NEW c, NEW d, EnTurno(s), s.a_cpu = << >>, ~ Vuelta(d),
           \A n \in 1 .. Len(d) - 1 : EsAviso(d[n])
    PROVE  Hilo(s, c, << >>, << >>, << >>, d) /\ EnVuelo(s, << >>, << >>, << >>, d) = 0
<1>1. EnVuelo(s, << >>, << >>, << >>, d) = 0
  BY DEF EnVuelo
<1>2. Len(s.cola["EXEC"]) \in Nat
  BY ColaTipo, ExecEsCola DEF EnTurno
<1> QED
  BY <1>1, <1>2 DEF Hilo

-----------------------------------------------------------------------------
(* What each action of the kernel does to the turn.                        *)

\* The actions that have nothing to do with it.
LEMMA AccionAparte ==
    ASSUME Inductivo, Orden(k, {}),
           \/ IniciarProceso \/ DetenerPlanificacion \/ IniciarPlanificacion
           \/ \E g \in Grados : Multiprogramacion(g)
           \/ AtenderMemoria \/ \E i \in Interfaces : AtenderCompletado(i)
    PROVE  Aparte(k, k') /\ ~ k.caido /\ UNCHANGED <<dispatch, interrupt>>
<1>1. /\ k \in EstadoKernel /\ respuestas \in Seq([pid : Pids, leido : BOOLEAN])
      /\ completados \in [Interfaces -> Seq(Pids)]
  BY DEF Inductivo, TypeOK
<1>2. ~ k.caido /\ UNCHANGED <<dispatch, interrupt>>
  BY DEF IniciarProceso, DetenerPlanificacion, IniciarPlanificacion, Multiprogramacion,
         AtenderMemoria, AtenderCompletado, entradas
<1>3. CASE IniciarProceso
  <2> DEFINE p == k.pid + 1
  <2>1. p \in Pids /\ k' = NuevoProceso(k, p)
    BY <1>3 DEF IniciarProceso
  <2> HIDE DEF p
  <2> QED
    BY <1>1, <1>2, <2>1, AltaAparte
<1>4. ASSUME /\ k'.cola = k.cola /\ k'.timer = k.timer
             /\ k'.a_cpu = k.a_cpu /\ k'.a_interrupt = k.a_interrupt
      PROVE  Aparte(k, k')
  BY <1>4 DEF Aparte, SinEnvios
<1>5. CASE DetenerPlanificacion \/ IniciarPlanificacion \/ \E g \in Grados : Multiprogramacion(g)
  <2>1. CASE DetenerPlanificacion
    BY <1>1, <1>2, <1>4, <2>1, Zenon DEF DetenerPlanificacion, EstadoKernel
  <2>2. CASE IniciarPlanificacion
    BY <1>1, <1>2, <1>4, <2>2, Zenon DEF IniciarPlanificacion, Avisar, EstadoKernel
  <2>3. CASE \E g \in Grados : Multiprogramacion(g)
    BY <1>1, <1>2, <1>4, <2>3, Zenon DEF Multiprogramacion, EstadoKernel
  <2> QED
    BY <1>5, <2>1, <2>2, <2>3
<1>7. CASE AtenderMemoria
  <2>1. Head(respuestas) \in [pid : Pids, leido : BOOLEAN]
    BY <1>1, <1>7, HeadTailProperties DEF AtenderMemoria
  <2>2. Head(respuestas).pid \in Pids
    BY <2>1
  <2> QED
    BY <1>1, <1>2, <1>7, <2>2, AltaAparte DEF AtenderMemoria
<1>8. CASE \E i \in Interfaces : AtenderCompletado(i)
  <2>1. PICK i \in Interfaces : AtenderCompletado(i)
    BY <1>8
  <2>2. Head(completados[i]) \in Pids
    BY <1>1, <2>1, HeadTailProperties DEF AtenderCompletado
  <2>3. PICK registrada \in Interfaces :
           k' = CompletarIoGenSleep(k, i, Head(completados[i]), registrada)
    BY <2>1 DEF AtenderCompletado, InterfacesDe
  <2> DEFINE p == Head(completados[i])
  <2> HIDE DEF p
  <2>4. Aparte(k, CompletarIoGenSleep(k, i, p, registrada))
    BY <2>2, IoTurno DEF p
  <2> QED
    BY <1>2, <2>3, <2>4 DEF p
<1> QED
  BY <1>3, <1>5, <1>7, <1>8

\* The packets of the dispatch socket.
LEMMA AccionDispatch ==
    ASSUME Inductivo, Orden(k, {}),
           DispatchProceso \/ DispatchResize \/ DispatchWait \/ DispatchSignal
    PROVE  /\ ~ k.caido /\ dispatch # << >> /\ dispatch' = Tail(dispatch) /\ UNCHANGED interrupt
           /\ Head(dispatch) \in Mensaje
           /\ Esta(k, "EXEC", Head(dispatch).pid) =>
                 IF EsAviso(Head(dispatch)) THEN Aparte(k, k')
                 ELSE \/ Suelta(k, k')
                      \/ k'.caido /\ Aparte(k, k')
                      \/ /\ Vacia(k, k')
                         /\ Head(dispatch).op = "SIGNAL"
                         /\ Head(dispatch).dato \notin Recursos
           /\ ~ Esta(k, "EXEC", Head(dispatch).pid) => Aparte(k, k') \/ Frena(k, k')
<1> DEFINE m == Head(dispatch)
<1>1. /\ ~ k.caido /\ dispatch # << >> /\ dispatch' = Tail(dispatch) /\ UNCHANGED interrupt
  BY DEF DispatchProceso, DispatchResize, DispatchWait, DispatchSignal, RecibirDispatch
<1>2. m \in Mensaje /\ k \in EstadoKernel
  BY <1>1, HeadTailProperties DEF Inductivo, TypeOK
<1>3. /\ DispatchProceso => m.op = "PROCESO"
      /\ DispatchResize => m.op = "RESIZE"
      /\ DispatchWait => m.op = "WAIT"
      /\ DispatchSignal => m.op = "SIGNAL"
  BY DEF DispatchProceso, DispatchResize, DispatchWait, DispatchSignal, RecibirDispatch
<1>4. /\ DispatchProceso => \E resto \in BOOLEAN : k' = AtenderProceso(k, m, resto)
      /\ DispatchResize => \E resto \in BOOLEAN : k' = AtenderResize(k, m, resto)
      /\ DispatchWait => \E resto \in BOOLEAN : k' = AtenderWait(k, m, resto)
      /\ DispatchSignal => \E resto \in BOOLEAN, cabeza \in 0 .. MaxPid :
                               k' = AtenderSignal(k, m, resto, cabeza)
  BY <1>2, RestosTipo, CabezasTipo DEF DispatchProceso, DispatchResize, DispatchWait,
                                       DispatchSignal
<1> HIDE DEF m
<1>5. CASE DispatchProceso
  <2>1. PICK resto \in BOOLEAN : k' = AtenderProceso(k, m, resto)
    BY <1>4, <1>5
  <2>2. ~ EsAviso(m)
    BY <1>3, <1>5 DEF EsAviso
  <2>3. /\ Esta(k, "EXEC", m.pid) => Suelta(k, k')
        /\ ~ Esta(k, "EXEC", m.pid) => Aparte(k, k')
    BY <1>2, <2>1, DispatchTurno
  <2> QED
    BY <1>1, <1>2, <2>2, <2>3 DEF m
<1>6. CASE DispatchResize
  <2>1. PICK resto \in BOOLEAN : k' = AtenderResize(k, m, resto)
    BY <1>4, <1>6
  <2>2. EsAviso(m) <=> m.dato = "OK"
    BY <1>3, <1>6 DEF EsAviso
  <2>3. /\ Esta(k, "EXEC", m.pid) => IF m.dato = "OK" THEN Aparte(k, k') ELSE Suelta(k, k')
        /\ ~ Esta(k, "EXEC", m.pid) => Frena(k, k')
    BY <1>2, <2>1, DispatchTurno
  <2> QED
    BY <1>1, <1>2, <2>2, <2>3 DEF m
<1>7. CASE DispatchWait
  <2>1. PICK resto \in BOOLEAN : k' = AtenderWait(k, m, resto)
    BY <1>4, <1>7
  <2>2. ~ EsAviso(m)
    BY <1>3, <1>7 DEF EsAviso
  <2>3. /\ Esta(k, "EXEC", m.pid) => Suelta(k, k')
        /\ ~ Esta(k, "EXEC", m.pid) => Aparte(k, k')
    BY <1>2, <2>1, DispatchTurno
  <2> QED
    BY <1>1, <1>2, <2>2, <2>3 DEF m
<1>8. CASE DispatchSignal
  <2>1. PICK resto \in BOOLEAN, cabeza \in 0 .. MaxPid : k' = AtenderSignal(k, m, resto, cabeza)
    BY <1>4, <1>8
  <2>2. ~ EsAviso(m)
    BY <1>3, <1>8 DEF EsAviso
  <2>3. /\ Esta(k, "EXEC", m.pid) =>
              IF m.dato \in Recursos THEN Suelta(k, k') \/ (k'.caido /\ Aparte(k, k'))
              ELSE Vacia(k, k')
        /\ ~ Esta(k, "EXEC", m.pid) => Aparte(k, k')
    BY <1>2, <2>1, DispatchTurno
  <2> QED
    BY <1>1, <1>2, <1>3, <1>8, <2>2, <2>3 DEF m
<1> QED
  BY <1>5, <1>6, <1>7, <1>8

\* A packet of the interrupt socket.
LEMMA AccionInterrupt ==
    ASSUME Inductivo, Orden(k, {}), InterruptIoGenSleep
    PROVE  /\ ~ k.caido /\ interrupt # << >> /\ interrupt' = Tail(interrupt)
           /\ UNCHANGED dispatch /\ Head(interrupt) \in Mensaje
           /\ IF Esta(k, "EXEC", Head(interrupt).pid) THEN Suelta(k, k') ELSE k' = k
<1> DEFINE m == Head(interrupt)
<1>1. /\ ~ k.caido /\ interrupt # << >> /\ interrupt' = Tail(interrupt) /\ UNCHANGED dispatch
  BY DEF InterruptIoGenSleep
<1>2. m \in Mensaje
  BY <1>1, HeadTailProperties DEF Inductivo, TypeOK
<1>3. PICK resto \in BOOLEAN : k' = PedirIoGenSleep(k, m.pid, m.pc, m.dato, resto)
  BY RestosTipo DEF InterruptIoGenSleep
<1> HIDE DEF m
<1>4. m.pid \in Pids /\ m.pc \in 0 .. MaxPc
  BY <1>2, MensajeTipo
<1>5. IF Esta(k, "EXEC", m.pid) THEN Suelta(k, k') ELSE k' = k
  BY <1>3, <1>4, IoTurno
<1> QED
  BY <1>1, <1>2, <1>5 DEF m

\* The quantum timers, and the reads of the other processes.
LEMMA AccionAjena ==
    ASSUME Inductivo,
           \/ TemporizadorVence \/ FinQuantum \/ CpuInterrupcion \/ MemoriaKernel
           \/ \E i \in Interfaces : InterfazRecibe(i)
    PROVE  k'.cola = k.cola /\ k'.a_cpu = k.a_cpu /\ k'.caido = k.caido
<1>1. k \in EstadoKernel
  BY DEF Inductivo, TypeOK
<1>2. CASE TemporizadorVence
  BY <1>1, <1>2, Zenon DEF TemporizadorVence, EstadoKernel
<1>3. CASE FinQuantum
  BY <1>1, <1>3, Zenon DEF FinQuantum, InterrumpirCpu, EstadoKernel
<1>4. CASE CpuInterrupcion
  BY <1>1, <1>4, Zenon DEF CpuInterrupcion, EstadoKernel
<1>5. CASE MemoriaKernel
  BY <1>1, <1>5, Zenon DEF MemoriaKernel, EstadoKernel
<1>6. CASE \E i \in Interfaces : InterfazRecibe(i)
  BY <1>1, <1>6, Zenon DEF InterfazRecibe, EstadoKernel
<1> QED
  BY <1>2, <1>3, <1>4, <1>5, <1>6

-----------------------------------------------------------------------------
(* The thread of control, action by action.                                *)

\* No script has an instruction that the CPU answers nothing to.
Validas == \A p \in Pids : \A n \in DOMAIN Programa[p] : Programa[p][n].op # "INVALIDA"

\* The invariant: the turn is carried by one message at most; and by exactly
\* one, while kernel and memoria run, unless a script has such an instruction.
Control ==
    /\ Hilo(k, cpu, pedidos, entregas, interrupt, dispatch)
    /\ Validas =>
          /\ \A n \in DOMAIN entregas :
                entregas[n].op = "PROXIMA_INSTRUCCION" => entregas[n].instruccion.op # "INVALIDA"
          /\ ~ k.caido /\ ~ memoria.caida =>
                EnVuelo(k, pedidos, entregas, interrupt, dispatch) = Len(k.cola["EXEC"])

\* The state of the invariant has its types.
LEMMA SocketsTipo ==
    ASSUME Inductivo
    PROVE  Sockets(k, pedidos, entregas, interrupt, dispatch)
BY DEF Inductivo, TypeOK, ExecUnico, EnTurno, Sockets

\* A step that leaves alone everything that carries the turn.
LEMMA ControlQuieto ==
    ASSUME Control, k'.cola["EXEC"] = k.cola["EXEC"], k'.a_cpu = k.a_cpu,
           k.caido => k'.caido, memoria'.caida = memoria.caida,
           cpu'.pid = cpu.pid, cpu'.pc = cpu.pc,
           UNCHANGED <<pedidos, entregas, interrupt, dispatch>>
    PROVE  Control'
<1>1. EnVuelo(k', pedidos', entregas', interrupt', dispatch')
      = EnVuelo(k, pedidos, entregas, interrupt, dispatch)
  BY DEF EnVuelo
<1>2. Hilo(k', cpu', pedidos', entregas', interrupt', dispatch')
  BY <1>1 DEF Control, Hilo
<1> QED
  BY <1>1, <1>2 DEF Control

\* A step after which nothing carries the turn, and EXEC is empty unless the
\* kernel fell.
LEMMA ControlSinTurno ==
    ASSUME Inductivo', pedidos' = << >>, entregas' = << >>, interrupt' = << >>,
           k'.a_cpu = << >>, ~ Vuelta(dispatch'),
           \A n \in 1 .. Len(dispatch') - 1 : EsAviso(dispatch'[n]),
           k'.cola["EXEC"] = << >> \/ k'.caido
    PROVE  Control'
<1>1. EnTurno(k')
  BY SocketsTipo DEF Inductivo, TypeOK, ExecUnico, EnTurno
<1>2. /\ Hilo(k', cpu', << >>, << >>, << >>, dispatch')
      /\ EnVuelo(k', << >>, << >>, << >>, dispatch') = 0
  BY <1>1, SinTurno
<1>3. Len(<< >>) = 0 /\ DOMAIN << >> = {}
  OBVIOUS
<1> QED
  BY <1>2, <1>3 DEF Control

\* The actions of the kernel, when nobody is killed.
LEMMA KernelControl ==
    ASSUME "FINALIZAR_PROCESO" \notin Comandos, Inductivo, Inductivo', Orden(k, {}),
           Control, PasoKernel
    PROVE  Control'
<1>1. /\ UNCHANGED <<cpu, pedidos, entregas, memoria>>
      /\ Sockets(k, pedidos, entregas, interrupt, dispatch)
      /\ Hilo(k, cpu, pedidos, entregas, interrupt, dispatch)
  BY SocketsTipo DEF PasoKernel, SoloKernel, Control
<1>2. ASSUME Aparte(k, k'), ~ k.caido, UNCHANGED <<dispatch, interrupt>>
      PROVE  Control'
  BY <1>1, <1>2, ControlQuieto DEF Aparte, SinEnvios
<1>3. CASE \/ IniciarProceso \/ DetenerPlanificacion \/ IniciarPlanificacion
           \/ \E g \in Grados : Multiprogramacion(g)
           \/ AtenderMemoria \/ \E i \in Interfaces : AtenderCompletado(i)
  BY <1>2, <1>3, AccionAparte
<1>4. CASE TemporizadorVence \/ FinQuantum
  <2>1. UNCHANGED <<dispatch, interrupt>>
    BY <1>4 DEF TemporizadorVence, FinQuantum, entradas
  <2>2. k'.cola = k.cola /\ k'.a_cpu = k.a_cpu /\ k'.caido = k.caido
    BY <1>4, AccionAjena
  <2> QED
    BY <1>1, <2>1, <2>2, ControlQuieto
<1>5. CASE HiloPlanificador
  <2>1. UNCHANGED <<dispatch, interrupt>> /\ ~ k.caido
    BY <1>5 DEF HiloPlanificador, entradas
  <2>2. CASE Aparte(k, k')
    BY <1>2, <2>1, <2>2
  <2>3. CASE Despacho(k, k')
    <3>1. k.cola["EXEC"] = << >>
      BY <2>3 DEF Despacho
    <3>2. /\ k.a_cpu = << >> /\ pedidos = << >> /\ entregas = << >> /\ interrupt = << >>
          /\ ~ Vuelta(dispatch)
      BY <1>1, <3>1, UnLugar
    <3>3. PICK h \in Pids, pc \in 0 .. MaxPc :
             /\ k'.cola["EXEC"] = <<h>>
             /\ k'.a_cpu = Append(k.a_cpu, [pid |-> h, pc |-> pc])
      BY <2>3 DEF Despacho
    <3>4. k'.a_cpu = <<[pid |-> h, pc |-> pc]>>
      BY <3>2, <3>3
    <3>5. /\ Len(k'.a_cpu) = 1 /\ k'.a_cpu[1].pid = h
          /\ Len(k'.cola["EXEC"]) = 1 /\ k'.cola["EXEC"][1] = h
      BY <3>3, <3>4
    <3>6. EnVuelo(k', pedidos', entregas', interrupt', dispatch') = 1
      BY <1>1, <2>1, <3>2, <3>5 DEF EnVuelo
    <3>7. Hilo(k', cpu', pedidos', entregas', interrupt', dispatch')
      BY <1>1, <2>1, <3>2, <3>5, <3>6 DEF Hilo
    <3>8. \A n \in DOMAIN entregas' : FALSE
      BY <1>1, <3>2
    <3> QED
      BY <3>5, <3>6, <3>7, <3>8 DEF Control
  <2> QED
    BY <1>5, <2>2, <2>3, PlanificadorTurno
<1>6. CASE DispatchProceso \/ DispatchResize \/ DispatchWait \/ DispatchSignal
  <2> DEFINE m == Head(dispatch)
  <2>1. /\ ~ k.caido /\ dispatch # << >> /\ dispatch' = Tail(dispatch) /\ UNCHANGED interrupt
        /\ m \in Mensaje
        /\ Esta(k, "EXEC", m.pid) =>
              IF EsAviso(m) THEN Aparte(k, k')
              ELSE Suelta(k, k') \/ (k'.caido /\ Aparte(k, k')) \/ Vacia(k, k')
        /\ ~ Esta(k, "EXEC", m.pid) => Aparte(k, k') \/ Frena(k, k')
    BY <1>6, AccionDispatch
  <2>2. /\ EsAviso(m) =>
              /\ Vuelta(Tail(dispatch)) <=> Vuelta(dispatch)
              /\ Hilo(k, cpu, pedidos, entregas, interrupt, Tail(dispatch))
        /\ ~ EsAviso(m) =>
              /\ m.pid = k.cola["EXEC"][1] /\ Len(k.cola["EXEC"]) = 1
              /\ k.a_cpu = << >> /\ pedidos = << >> /\ entregas = << >> /\ interrupt = << >>
              /\ Tail(dispatch) = << >>
    BY <1>1, <2>1, Leido
  <2> HIDE DEF m
  <2>3. CASE EsAviso(m)
    <3>1. k'.cola["EXEC"] = k.cola["EXEC"] /\ k'.a_cpu = k.a_cpu
      BY <2>1, <2>3 DEF Aparte, Frena, SinEnvios
    <3>2. EnVuelo(k', pedidos', entregas', interrupt', dispatch')
          = EnVuelo(k, pedidos, entregas, interrupt, dispatch)
      BY <1>1, <2>1, <2>2, <2>3, <3>1 DEF EnVuelo
    <3>3. Hilo(k', cpu', pedidos', entregas', interrupt', dispatch')
      <4>1. Hilo(k, cpu, pedidos, entregas, interrupt, dispatch')
        BY <2>1, <2>2, <2>3
      <4>2. EnVuelo(k', pedidos', entregas', interrupt', dispatch')
            = EnVuelo(k, pedidos, entregas, interrupt, dispatch')
        BY <1>1, <2>1, <3>1 DEF EnVuelo
      <4> QED
        BY <1>1, <2>1, <3>1, <4>1, <4>2 DEF Hilo
    <3> QED
      BY <1>1, <2>1, <3>1, <3>2, <3>3 DEF Control
  <2>4. CASE ~ EsAviso(m)
    <3>1. Esta(k, "EXEC", m.pid)
      <4>1. k.cola["EXEC"] \in Seq(Pids)
        BY <1>1, SocketsLargo
      <4> QED
        BY <2>2, <2>4, <4>1, DeUno DEF Esta
    <3>2. k'.a_cpu = << >> /\ (k'.cola["EXEC"] = << >> \/ k'.caido)
      BY <2>1, <2>2, <2>4, <3>1 DEF Suelta, Vacia, Aparte, SinEnvios
    <3>3. dispatch' = << >> /\ pedidos' = << >> /\ entregas' = << >> /\ interrupt' = << >>
      BY <1>1, <2>1, <2>2, <2>4
    <3>4. ~ Vuelta(dispatch') /\ \A n \in 1 .. Len(dispatch') - 1 : EsAviso(dispatch'[n])
      BY <3>3 DEF Vuelta
    <3> QED
      BY <3>2, <3>3, <3>4, ControlSinTurno
  <2> QED
    BY <2>3, <2>4
<1>7. CASE InterruptIoGenSleep
  <2> DEFINE m == Head(interrupt)
  <2>1. /\ interrupt # << >> /\ interrupt' = Tail(interrupt) /\ UNCHANGED dispatch
        /\ IF Esta(k, "EXEC", m.pid) THEN Suelta(k, k') ELSE k' = k
    BY <1>7, AccionInterrupt
  <2> HIDE DEF m
  <2>2. /\ Len(interrupt) = 1 /\ k.a_cpu = << >> /\ pedidos = << >> /\ entregas = << >>
        /\ ~ Vuelta(dispatch) /\ Len(k.cola["EXEC"]) = 1
    BY <1>1, <2>1, UnLugar
  <2>3. m = interrupt[1] /\ Tail(interrupt) = << >>
    BY <1>1, <2>2, DeUno DEF Sockets, m
  <2>4. m.pid = k.cola["EXEC"][1]
    BY <1>1, <2>1, <2>3 DEF Hilo
  <2>5. Esta(k, "EXEC", m.pid)
    <3>1. k.cola["EXEC"] \in Seq(Pids)
      BY <1>1, SocketsLargo
    <3> QED
      BY <2>2, <2>4, <3>1, DeUno DEF Esta
  <2>6. k'.cola["EXEC"] = << >> /\ k'.a_cpu = << >>
    BY <2>1, <2>2, <2>5 DEF Suelta, SinEnvios
  <2>7. \A n \in 1 .. Len(dispatch') - 1 : EsAviso(dispatch'[n])
    BY <1>1, <2>1 DEF Hilo
  <2> QED
    BY <1>1, <2>1, <2>2, <2>3, <2>6, <2>7, ControlSinTurno
<1>8. ASSUME NEW p \in Pids
      PROVE  ~ FinalizarProceso(p)
  BY DEF FinalizarProceso
<1> QED
  BY <1>3, <1>4, <1>5, <1>6, <1>7, <1>8 DEF PasoKernel, NextKernel

\* The end of an instruction cycle: the next fetch, or the return of the
\* process.
LEMMA SeguirCicloPide ==
    ASSUME Inductivo, NEW c \in TiposCpu, c.pid \in Pids, SeguirCiclo(c)
    PROVE  /\ cpu'.pid = c.pid /\ UNCHANGED interrupt
           /\ \/ /\ cpu' = c /\ UNCHANGED dispatch
                 /\ \E x \in Pedido : /\ pedidos' = Append(pedidos, x)
                                      /\ x.op = "PROXIMA_INSTRUCCION"
                                      /\ x.pid = c.pid /\ x.pc = c.pc
              \/ /\ UNCHANGED pedidos
                 /\ \E m \in Mensaje : /\ dispatch' = Append(dispatch, m)
                                       /\ m.pid = c.pid /\ m.op = "PROCESO"
<1>1. CASE c.flag_interrupt
  <2>1. /\ Paquete(c, "PROCESO", "PARCIAL") \in Mensaje
        /\ Paquete(c, "PROCESO", "PARCIAL").pid = c.pid
        /\ Paquete(c, "PROCESO", "PARCIAL").op = "PROCESO"
    BY PaqueteTipo DEF Paquete, Datos
  <2>2. cpu'.pid = c.pid
    BY <1>1, CpuCampos DEF SeguirCiclo
  <2> QED
    BY <1>1, <2>1, <2>2 DEF SeguirCiclo, AlDispatch
<1>2. CASE ~ c.flag_interrupt
  <2> DEFINE x == [op |-> "PROXIMA_INSTRUCCION", pid |-> c.pid, pc |-> c.pc]
  <2>1. x \in Pedido /\ x.op = "PROXIMA_INSTRUCCION" /\ x.pid = c.pid /\ x.pc = c.pc
    BY CpuCampos DEF Pedido
  <2>2. pedidos' = Append(pedidos, x)
    BY <1>2 DEF SeguirCiclo, Solicitar
  <2> HIDE DEF x
  <2> QED
    BY <1>2, <2>1, <2>2 DEF SeguirCiclo
<1> QED
  BY <1>1, <1>2

\* An instruction cycle ends in one message: a request to memoria, a packet of
\* either socket of the kernel, or none if the CPU cannot parse the line.
LEMMA CicloTurno ==
    ASSUME Inductivo, InstruccionCiclo
    PROVE  /\ entregas # << >> /\ Head(entregas).op = "PROXIMA_INSTRUCCION"
           /\ entregas' = Tail(entregas) /\ UNCHANGED <<k, memoria>>
           /\ cpu'.pid = cpu.pid
           /\ LET i == Head(entregas).instruccion IN
              \/ /\ UNCHANGED <<dispatch, interrupt>>
                 /\ cpu'.flag_interrupt = cpu.flag_interrupt
                 /\ \E x \in Pedido : /\ pedidos' = Append(pedidos, x) /\ x.pid = cpu.pid
                                      /\ x.op = "PROXIMA_INSTRUCCION" => x.pc = cpu'.pc
                                      /\ x.op = "RESIZE" => i.op = "RESIZE"
              \/ /\ UNCHANGED <<pedidos, interrupt>>
                 /\ \E m \in Mensaje : /\ dispatch' = Append(dispatch, m) /\ m.pid = cpu.pid
                                       /\ m.op # "RESIZE"
                                       /\ m.op = "SIGNAL" => i.op = "SIGNAL" /\ m.dato = i.dato
              \/ /\ UNCHANGED <<pedidos, dispatch>>
                 /\ i.op = "IO_GEN_SLEEP"
                 /\ \E m \in Mensaje : interrupt' = Append(interrupt, m) /\ m.pid = cpu.pid
              \/ i.op = "INVALIDA" /\ UNCHANGED <<pedidos, dispatch, interrupt>>
<1> DEFINE c == [cpu EXCEPT !.pc = @ + 1]
           i == Head(entregas).instruccion
<1>1. /\ entregas \in Seq(Entrega) /\ entregas # << >> /\ cpu.pid \in Pids
      /\ Head(entregas).op = "PROXIMA_INSTRUCCION" /\ entregas' = Tail(entregas)
      /\ UNCHANGED <<k, memoria>> /\ cpu \in TiposCpu /\ cpu.pc < MaxPc
  BY DEF Inductivo, TypeOK, InstruccionCiclo
<1>2. i \in Instruccion
  <2>1. Head(entregas) \in Entrega
    BY <1>1, HeadTailProperties
  <2> QED
    BY <1>1, <2>1 DEF Entrega
<1>3. \/ RecibirDesconocida(i) \/ EjecutarSet(c, i) \/ EjecutarJnz(c, i)
      \/ EjecutarResize(c, i) \/ EjecutarRecurso(c, i) \/ EjecutarIoGenSleep(c, i)
      \/ EjecutarExit(c, i) \/ EjecutarInvalida(c, i)
  BY DEF InstruccionCiclo
<1>4. cpu.pc + 1 \in 0 .. MaxPc /\ 0 \in 0 .. MaxPc
  BY <1>1, CpuCampos, LimitesAssumption
<1>5. c \in TiposCpu /\ c.pid = cpu.pid /\ c.flag_interrupt = cpu.flag_interrupt
  <2>1. c.flag_interrupt = cpu.flag_interrupt
    BY <1>1 DEF TiposCpu
  <2> QED
    BY <1>1, <1>4, <2>1, CpuCampos
<1>6. i.dato \in Datos /\ {"PARCIAL", "ERROR", "EJECUTANDO"} \subseteq Datos
  BY <1>2 DEF Instruccion, Datos
<1> HIDE DEF i, c
<1> DEFINE Pide == /\ UNCHANGED <<dispatch, interrupt>>
                   /\ cpu'.flag_interrupt = cpu.flag_interrupt
                   /\ \E x \in Pedido : /\ pedidos' = Append(pedidos, x) /\ x.pid = cpu.pid
                                        /\ x.op = "PROXIMA_INSTRUCCION" => x.pc = cpu'.pc
                                        /\ x.op = "RESIZE" => i.op = "RESIZE"
           Devuelve == /\ UNCHANGED <<pedidos, interrupt>>
                       /\ \E m \in Mensaje :
                             /\ dispatch' = Append(dispatch, m) /\ m.pid = cpu.pid
                             /\ m.op # "RESIZE"
                             /\ m.op = "SIGNAL" => i.op = "SIGNAL" /\ m.dato = i.dato
           Duerme == /\ UNCHANGED <<pedidos, dispatch>>
                     /\ i.op = "IO_GEN_SLEEP"
                     /\ \E m \in Mensaje : interrupt' = Append(interrupt, m) /\ m.pid = cpu.pid
           Calla == i.op = "INVALIDA" /\ UNCHANGED <<pedidos, dispatch, interrupt>>
<1>7. ASSUME NEW f \in TiposCpu, f.pid = cpu.pid, f.flag_interrupt = cpu.flag_interrupt,
             SeguirCiclo(f)
      PROVE  cpu'.pid = cpu.pid /\ (Pide \/ Devuelve)
  BY <1>1, <1>7, SeguirCicloPide
<1>8. ASSUME NEW f \in TiposCpu, f.pid = cpu.pid, NEW dato \in Datos,
             NEW op \in {"PROCESO", "WAIT", "SIGNAL"}, AlDispatch(f, op, dato),
             op = "SIGNAL" => i.op = "SIGNAL" /\ dato = i.dato,
             UNCHANGED <<pedidos, interrupt>>
      PROVE  Devuelve
  <2>1. /\ Paquete(f, op, dato) \in Mensaje /\ Paquete(f, op, dato).pid = cpu.pid
        /\ Paquete(f, op, dato).op = op /\ Paquete(f, op, dato).dato = dato
    BY <1>1, <1>8, PaqueteTipo DEF Paquete
  <2>2. dispatch' = Append(dispatch, Paquete(f, op, dato))
    BY <1>8 DEF AlDispatch
  <2> QED
    BY <1>8, <2>1, <2>2
<1>9. CASE RecibirDesconocida(i)
  <2>1. Devuelve
    BY <1>1, <1>6, <1>8, <1>9 DEF RecibirDesconocida
  <2> QED
    BY <1>1, <1>9, <2>1 DEF RecibirDesconocida, i
<1>10. CASE EjecutarSet(c, i)
  <2>1. cpu'.pid = cpu.pid /\ (Pide \/ Devuelve)
    BY <1>5, <1>7, <1>10 DEF EjecutarSet
  <2> QED
    BY <1>1, <2>1 DEF i
<1>11. CASE EjecutarJnz(c, i)
  <2>1. PICK destino \in {0, c.pc} : SeguirCiclo([c EXCEPT !.pc = destino])
    BY <1>11 DEF EjecutarJnz
  <2>2. destino \in 0 .. MaxPc
    BY <1>4, <1>5, CpuCampos
  <2>3. /\ [c EXCEPT !.pc = destino] \in TiposCpu /\ [c EXCEPT !.pc = destino].pid = cpu.pid
        /\ [c EXCEPT !.pc = destino].flag_interrupt = cpu.flag_interrupt
    BY <1>5, <2>2 DEF TiposCpu
  <2>4. cpu'.pid = cpu.pid /\ (Pide \/ Devuelve)
    BY <1>7, <2>1, <2>3
  <2> QED
    BY <1>1, <2>4 DEF i
<1>12. CASE EjecutarResize(c, i)
  <2> DEFINE x == [op |-> "RESIZE", pid |-> c.pid, pc |-> c.pc]
  <2>1. x \in Pedido /\ x.op = "RESIZE" /\ x.pid = cpu.pid
    BY <1>1, <1>5, CpuCampos DEF Pedido
  <2>2. /\ pedidos' = Append(pedidos, x) /\ cpu' = c /\ i.op = "RESIZE"
        /\ UNCHANGED <<dispatch, interrupt>>
    BY <1>12 DEF EjecutarResize
  <2> HIDE DEF x
  <2>3. Pide
    BY <1>5, <2>1, <2>2
  <2> QED
    BY <1>1, <1>5, <2>2, <2>3 DEF i
<1>13. CASE EjecutarRecurso(c, i)
  <2>1. i.op \in {"WAIT", "SIGNAL"} /\ AlDispatch(c, i.op, i.dato) /\ cpu' = c
        /\ UNCHANGED <<interrupt, pedidos>>
    BY <1>13 DEF EjecutarRecurso
  <2>2. Devuelve
    BY <1>5, <1>6, <1>8, <2>1
  <2> QED
    BY <1>1, <1>5, <2>1, <2>2 DEF i
<1>14. CASE EjecutarIoGenSleep(c, i)
  <2>1. /\ Paquete(c, "IO_GEN_SLEEP", i.dato) \in Mensaje
        /\ Paquete(c, "IO_GEN_SLEEP", i.dato).pid = cpu.pid
    BY <1>1, <1>5, <1>6, PaqueteTipo DEF Paquete
  <2>2. /\ interrupt' = Append(interrupt, Paquete(c, "IO_GEN_SLEEP", i.dato))
        /\ cpu' = c /\ i.op = "IO_GEN_SLEEP" /\ UNCHANGED <<dispatch, pedidos>>
    BY <1>14 DEF EjecutarIoGenSleep
  <2>3. Duerme
    BY <2>1, <2>2
  <2> QED
    BY <1>1, <1>5, <2>2, <2>3 DEF i
<1>15. CASE EjecutarExit(c, i)
  <2>1. Devuelve
    BY <1>5, <1>6, <1>8, <1>15 DEF EjecutarExit
  <2>2. cpu'.pid = cpu.pid
    BY <1>5, <1>15 DEF EjecutarExit
  <2> QED
    BY <1>1, <2>1, <2>2 DEF i
<1>16. CASE EjecutarInvalida(c, i)
  <2>1. Calla /\ cpu'.pid = cpu.pid
    BY <1>5, <1>16 DEF EjecutarInvalida
  <2> QED
    BY <1>1, <2>1 DEF i
<1> QED
  BY <1>3, <1>9, <1>10, <1>11, <1>12, <1>13, <1>14, <1>15, <1>16

\* The answer to a RESIZE: a packet that ends the turn if it failed; a notice
\* and, after it, the return of the process if it was interrupted; a notice and
\* the next fetch otherwise.
LEMMA CpuResizeTurno ==
    ASSUME Inductivo, CpuResize
    PROVE  /\ entregas # << >> /\ Head(entregas).op = "RESIZE"
           /\ entregas' = Tail(entregas) /\ UNCHANGED <<k, interrupt, memoria>>
           /\ cpu'.pid = cpu.pid /\ cpu'.pc = cpu.pc
           /\ \E a \in Mensaje :
                 /\ a.op = "RESIZE" /\ a.pid = Head(entregas).pid
                 /\ \/ /\ ~ EsAviso(a) /\ dispatch' = Append(dispatch, a)
                       /\ UNCHANGED pedidos
                    \/ /\ EsAviso(a) /\ UNCHANGED pedidos
                       /\ \E m \in Mensaje : /\ dispatch' = Append(Append(dispatch, a), m)
                                             /\ m.op = "PROCESO" /\ m.pid = cpu.pid
                    \/ /\ EsAviso(a) /\ dispatch' = Append(dispatch, a)
                       /\ UNCHANGED cpu
                       /\ \E x \in Pedido : /\ pedidos' = Append(pedidos, x)
                                            /\ x.op = "PROXIMA_INSTRUCCION"
                                            /\ x.pid = cpu.pid /\ x.pc = cpu.pc
<1> DEFINE m == Head(entregas)
           a == [op |-> "RESIZE", pid |-> m.pid, pc |-> 0, dato |-> m.dato]
           b == Paquete(cpu, "PROCESO", "PARCIAL")
           x == [op |-> "PROXIMA_INSTRUCCION", pid |-> cpu.pid, pc |-> cpu.pc]
<1>1. /\ entregas \in Seq(Entrega) /\ entregas # << >> /\ cpu.pid \in Pids
      /\ dispatch \in Seq(Mensaje) /\ cpu \in TiposCpu
      /\ m.op = "RESIZE" /\ entregas' = Tail(entregas) /\ UNCHANGED <<k, interrupt, memoria>>
  BY DEF Inductivo, TypeOK, CpuResize
<1>2. m.pid \in Pids /\ m.dato \in {"OK", "FALLO"}
  <2>1. m \in Entrega
    BY <1>1, HeadTailProperties
  <2> QED
    BY <1>1, <2>1 DEF Entrega
<1>3. a \in Mensaje /\ a.op = "RESIZE" /\ a.pid = m.pid /\ (EsAviso(a) <=> m.dato = "OK")
  BY <1>2, LimitesAssumption DEF Mensaje, Datos, EsAviso
<1>4. b \in Mensaje /\ b.op = "PROCESO" /\ b.pid = cpu.pid
  BY <1>1, PaqueteTipo DEF Paquete, Datos
<1>5. x \in Pedido /\ x.op = "PROXIMA_INSTRUCCION" /\ x.pid = cpu.pid /\ x.pc = cpu.pc
  BY <1>1, CpuCampos DEF Pedido
<1>6. \/ m.dato = "FALLO" /\ dispatch' = Append(dispatch, a) /\ UNCHANGED <<cpu, pedidos>>
      \/ /\ m.dato = "OK" /\ dispatch' = dispatch \o <<a, b>>
         /\ cpu' = [cpu EXCEPT !.flag_interrupt = FALSE] /\ UNCHANGED pedidos
      \/ /\ m.dato = "OK" /\ dispatch' = Append(dispatch, a)
         /\ pedidos' = Append(pedidos, x) /\ UNCHANGED cpu
  BY <1>2 DEF CpuResize, Solicitar
<1> HIDE DEF a, b, x
<1>7. dispatch \o <<a, b>> = Append(Append(dispatch, a), b)
  BY <1>1, <1>3, <1>4
<1>8. cpu'.pid = cpu.pid /\ cpu'.pc = cpu.pc
  BY <1>1, <1>6 DEF TiposCpu
<1> HIDE DEF m
<1>9. CASE m.dato = "FALLO" /\ dispatch' = Append(dispatch, a) /\ UNCHANGED <<cpu, pedidos>>
  BY <1>1, <1>3, <1>8, <1>9 DEF m
<1>10. CASE /\ m.dato = "OK" /\ dispatch' = dispatch \o <<a, b>> /\ UNCHANGED pedidos
  BY <1>1, <1>3, <1>4, <1>7, <1>8, <1>10 DEF m
<1>11. CASE /\ m.dato = "OK" /\ dispatch' = Append(dispatch, a)
            /\ pedidos' = Append(pedidos, x) /\ UNCHANGED cpu
  BY <1>1, <1>3, <1>5, <1>8, <1>11 DEF m
<1> QED
  BY <1>6, <1>9, <1>10, <1>11

\* The turn passes to the requests of the CPU.
LEMMA ControlPide ==
    ASSUME Len(k'.cola["EXEC"]) = 1, k'.a_cpu = << >>,
           entregas' = << >>, interrupt' = << >>, ~ Vuelta(dispatch'),
           \A n \in 1 .. Len(dispatch') - 1 : EsAviso(dispatch'[n]),
           NEW x, pedidos' = <<x>>, x.pid = k'.cola["EXEC"][1], cpu'.pid = k'.cola["EXEC"][1],
           x.op = "PROXIMA_INSTRUCCION" => x.pc = cpu'.pc
    PROVE  Control'
<1>1. EnVuelo(k', pedidos', entregas', interrupt', dispatch') = 1
  BY DEF EnVuelo
<1>2. \A n \in DOMAIN entregas' : FALSE
  OBVIOUS
<1> QED
  BY <1>1, <1>2 DEF Control, Hilo

\* The turn passes to the last packet of the dispatch socket.
LEMMA ControlDevuelve ==
    ASSUME Len(k'.cola["EXEC"]) = 1, k'.a_cpu = << >>,
           pedidos' = << >>, entregas' = << >>, interrupt' = << >>,
           \A n \in 1 .. Len(dispatch') - 1 : EsAviso(dispatch'[n]),
           Vuelta(dispatch'), dispatch'[Len(dispatch')].pid = k'.cola["EXEC"][1]
    PROVE  Control'
<1>1. EnVuelo(k', pedidos', entregas', interrupt', dispatch') = 1
  BY DEF EnVuelo
<1>2. \A n \in DOMAIN entregas' : FALSE
  OBVIOUS
<1> QED
  BY <1>1, <1>2 DEF Control, Hilo

\* The turn passes to the interrupt socket.
LEMMA ControlDuerme ==
    ASSUME Len(k'.cola["EXEC"]) = 1, k'.a_cpu = << >>,
           pedidos' = << >>, entregas' = << >>, ~ Vuelta(dispatch'),
           \A n \in 1 .. Len(dispatch') - 1 : EsAviso(dispatch'[n]),
           NEW x, interrupt' = <<x>>, x.pid = k'.cola["EXEC"][1]
    PROVE  Control'
<1>1. EnVuelo(k', pedidos', entregas', interrupt', dispatch') = 1
  BY DEF EnVuelo
<1>2. \A n \in DOMAIN entregas' : FALSE
  OBVIOUS
<1> QED
  BY <1>1, <1>2 DEF Control, Hilo

\* The actions of the CPU.
LEMMA CpuControl ==
    ASSUME Inductivo, Inductivo', Control, PasoCpu
    PROVE  Control'
<1>1. /\ Sockets(k, pedidos, entregas, interrupt, dispatch)
      /\ Hilo(k, cpu, pedidos, entregas, interrupt, dispatch)
      /\ dispatch \in Seq(Mensaje) /\ k \in EstadoKernel
      /\ \A n \in 1 .. Len(dispatch) - 1 : EsAviso(dispatch[n])
  BY SocketsTipo DEF Control, Hilo, Inductivo, TypeOK
<1>2. CASE CpuEjecutarProceso
  <2> DEFINE m == Head(k.a_cpu)
             x == [op |-> "PROXIMA_INSTRUCCION", pid |-> m.pid, pc |-> m.pc]
  <2>1. /\ k.a_cpu # << >> /\ pedidos' = Append(pedidos, x)
        /\ cpu' = [pid |-> m.pid, pc |-> m.pc, flag_interrupt |-> FALSE]
        /\ k' = [k EXCEPT !.a_cpu = Tail(@)]
        /\ UNCHANGED <<dispatch, interrupt, entregas>>
    BY <1>2 DEF CpuEjecutarProceso, Solicitar
  <2>2. /\ Len(k.a_cpu) = 1 /\ pedidos = << >> /\ entregas = << >> /\ interrupt = << >>
        /\ ~ Vuelta(dispatch) /\ Len(k.cola["EXEC"]) = 1
    BY <1>1, <2>1, UnLugar
  <2>3. m = k.a_cpu[1] /\ Tail(k.a_cpu) = << >>
    <3> DEFINE A == [pid : Pids, pc : 0 .. MaxPc]
    <3>1. k.a_cpu \in Seq(A)
      BY <1>1, RelojTipo
    <3> HIDE DEF A
    <3> QED
      BY <2>2, <3>1, DeUno
  <2>4. m.pid = k.cola["EXEC"][1]
    BY <1>1, <2>1, <2>3 DEF Hilo
  <2>5. k'.cola = k.cola /\ k'.a_cpu = Tail(k.a_cpu)
    BY <1>1, <2>1, Zenon DEF EstadoKernel
  <2> HIDE DEF m
  <2>6. /\ pedidos' = <<x>> /\ x.pid = k'.cola["EXEC"][1] /\ cpu'.pid = k'.cola["EXEC"][1]
        /\ x.pc = cpu'.pc
    BY <2>1, <2>2, <2>4, <2>5
  <2> HIDE DEF x
  <2> QED
    BY <1>1, <2>1, <2>2, <2>3, <2>5, <2>6, ControlPide
<1>3. CASE CpuInterrupcion
  <2>1. k'.cola = k.cola /\ k'.a_cpu = k.a_cpu /\ k'.caido = k.caido
    BY <1>3, AccionAjena
  <2>2. cpu'.pid = cpu.pid /\ cpu'.pc = cpu.pc
    BY <1>3 DEF CpuInterrupcion, Inductivo, TypeOK, TiposCpu
  <2>3. UNCHANGED <<pedidos, entregas, interrupt, dispatch, memoria>>
    BY <1>3 DEF CpuInterrupcion
  <2> QED
    BY <2>1, <2>2, <2>3, ControlQuieto
<1>4. ASSUME entregas # << >>
      PROVE  /\ Len(entregas) = 1 /\ k.a_cpu = << >> /\ pedidos = << >> /\ interrupt = << >>
             /\ ~ Vuelta(dispatch) /\ Len(k.cola["EXEC"]) = 1
             /\ Head(entregas) = entregas[1] /\ Tail(entregas) = << >>
             /\ entregas[1].pid = k.cola["EXEC"][1] /\ cpu.pid = k.cola["EXEC"][1]
  <2>1. /\ Len(entregas) = 1 /\ k.a_cpu = << >> /\ pedidos = << >> /\ interrupt = << >>
        /\ ~ Vuelta(dispatch) /\ Len(k.cola["EXEC"]) = 1
    BY <1>1, <1>4, UnLugar
  <2>2. Head(entregas) = entregas[1] /\ Tail(entregas) = << >>
    BY <1>1, <2>1, DeUno DEF Sockets
  <2>3. entregas[1].pid = k.cola["EXEC"][1] /\ cpu.pid = k.cola["EXEC"][1]
    BY <1>1, <1>4 DEF Hilo
  <2> QED
    BY <2>1, <2>2, <2>3
<1>5. ASSUME NEW m \in Mensaje, ~ Vuelta(dispatch), dispatch' = Append(dispatch, m)
      PROVE  /\ \A n \in 1 .. Len(dispatch') - 1 : EsAviso(dispatch'[n])
             /\ Vuelta(dispatch') <=> ~ EsAviso(m)
             /\ dispatch'[Len(dispatch')] = m
  BY <1>1, <1>5, Encolado
<1>6. CASE InstruccionCiclo
  <2> DEFINE i == Head(entregas).instruccion
  <2>1. /\ entregas # << >> /\ Head(entregas).op = "PROXIMA_INSTRUCCION"
        /\ entregas' = Tail(entregas) /\ UNCHANGED <<k, memoria>>
        /\ cpu'.pid = cpu.pid
    BY <1>6, CicloTurno
  <2>2. \/ /\ UNCHANGED <<dispatch, interrupt>>
           /\ \E x \in Pedido : /\ pedidos' = Append(pedidos, x) /\ x.pid = cpu.pid
                                /\ x.op = "PROXIMA_INSTRUCCION" => x.pc = cpu'.pc
        \/ /\ UNCHANGED <<pedidos, interrupt>>
           /\ \E m \in Mensaje : /\ dispatch' = Append(dispatch, m) /\ m.pid = cpu.pid
                                 /\ m.op # "RESIZE"
        \/ /\ UNCHANGED <<pedidos, dispatch>>
           /\ \E m \in Mensaje : interrupt' = Append(interrupt, m) /\ m.pid = cpu.pid
        \/ i.op = "INVALIDA" /\ UNCHANGED <<pedidos, dispatch, interrupt>>
    BY <1>6, CicloTurno
  <2>3. /\ k.a_cpu = << >> /\ pedidos = << >> /\ interrupt = << >> /\ entregas' = << >>
        /\ ~ Vuelta(dispatch) /\ Len(k.cola["EXEC"]) = 1 /\ cpu.pid = k.cola["EXEC"][1]
    BY <1>4, <2>1
  <2>4. CASE /\ UNCHANGED <<dispatch, interrupt>>
             /\ \E x \in Pedido : /\ pedidos' = Append(pedidos, x) /\ x.pid = cpu.pid
                                  /\ x.op = "PROXIMA_INSTRUCCION" => x.pc = cpu'.pc
    <3>1. PICK x \in Pedido : /\ pedidos' = Append(pedidos, x) /\ x.pid = cpu.pid
                              /\ x.op = "PROXIMA_INSTRUCCION" => x.pc = cpu'.pc
      BY <2>4
    <3>2. pedidos' = <<x>>
      BY <2>3, <3>1
    <3> QED
      BY <1>1, <2>1, <2>3, <2>4, <3>1, <3>2, ControlPide
  <2>5. CASE /\ UNCHANGED <<pedidos, interrupt>>
             /\ \E m \in Mensaje : /\ dispatch' = Append(dispatch, m) /\ m.pid = cpu.pid
                                   /\ m.op # "RESIZE"
    <3>1. PICK m \in Mensaje : dispatch' = Append(dispatch, m) /\ m.pid = cpu.pid
                               /\ m.op # "RESIZE"
      BY <2>5
    <3>2. ~ EsAviso(m)
      BY <3>1 DEF EsAviso
    <3>3. /\ \A n \in 1 .. Len(dispatch') - 1 : EsAviso(dispatch'[n])
          /\ Vuelta(dispatch') /\ dispatch'[Len(dispatch')] = m
      BY <1>5, <2>3, <3>1, <3>2
    <3> QED
      BY <2>1, <2>3, <2>5, <3>1, <3>3, ControlDevuelve
  <2>6. CASE /\ UNCHANGED <<pedidos, dispatch>>
             /\ \E m \in Mensaje : interrupt' = Append(interrupt, m) /\ m.pid = cpu.pid
    <3>1. PICK m \in Mensaje : interrupt' = Append(interrupt, m) /\ m.pid = cpu.pid
      BY <2>6
    <3>2. interrupt' = <<m>>
      BY <2>3, <3>1
    <3> QED
      BY <1>1, <2>1, <2>3, <2>6, <3>1, <3>2, ControlDuerme
  <2>7. CASE i.op = "INVALIDA" /\ UNCHANGED <<pedidos, dispatch, interrupt>>
    <3>1. ~ Validas
      <4>1. Head(entregas) = entregas[1] /\ 1 \in DOMAIN entregas
        BY <1>1, <1>4, <2>1, LenProperties DEF Sockets
      <4> QED
        BY <2>1, <2>7, <4>1 DEF Control
    <3>2. EnTurno(k)
      BY <1>1 DEF Sockets
    <3>3. Hilo(k, cpu', << >>, << >>, << >>, dispatch)
      BY <1>1, <2>3, <3>2, SinTurno
    <3>4. Hilo(k', cpu', pedidos', entregas', interrupt', dispatch')
      BY <2>1, <2>3, <2>7, <3>3
    <3> QED
      BY <3>1, <3>4 DEF Control
  <2> QED
    BY <2>2, <2>4, <2>5, <2>6, <2>7
<1>7. CASE CpuResize
  <2>1. /\ entregas # << >> /\ entregas' = Tail(entregas)
        /\ UNCHANGED <<k, interrupt, memoria>>
        /\ cpu'.pid = cpu.pid /\ cpu'.pc = cpu.pc
    BY <1>7, CpuResizeTurno
  <2>2. PICK a \in Mensaje :
                 /\ a.pid = Head(entregas).pid
                 /\ \/ /\ ~ EsAviso(a) /\ dispatch' = Append(dispatch, a)
                       /\ UNCHANGED pedidos
                    \/ /\ EsAviso(a) /\ UNCHANGED pedidos
                       /\ \E m \in Mensaje : /\ dispatch' = Append(Append(dispatch, a), m)
                                             /\ m.op = "PROCESO" /\ m.pid = cpu.pid
                    \/ /\ EsAviso(a) /\ dispatch' = Append(dispatch, a)
                       /\ \E x \in Pedido : /\ pedidos' = Append(pedidos, x)
                                            /\ x.op = "PROXIMA_INSTRUCCION"
                                            /\ x.pid = cpu.pid /\ x.pc = cpu.pc
    BY <1>7, CpuResizeTurno
  <2>3. /\ k.a_cpu = << >> /\ pedidos = << >> /\ interrupt = << >> /\ entregas' = << >>
        /\ ~ Vuelta(dispatch) /\ Len(k.cola["EXEC"]) = 1 /\ cpu.pid = k.cola["EXEC"][1]
        /\ Head(entregas).pid = k.cola["EXEC"][1]
    BY <1>4, <2>1
  <2>4. CASE ~ EsAviso(a) /\ dispatch' = Append(dispatch, a) /\ UNCHANGED pedidos
    <3>1. /\ \A n \in 1 .. Len(dispatch') - 1 : EsAviso(dispatch'[n])
          /\ Vuelta(dispatch') /\ dispatch'[Len(dispatch')] = a
      BY <1>5, <2>3, <2>4
    <3> QED
      BY <2>1, <2>2, <2>3, <2>4, <3>1, ControlDevuelve
  <2>5. CASE /\ EsAviso(a) /\ UNCHANGED pedidos
             /\ \E m \in Mensaje : /\ dispatch' = Append(Append(dispatch, a), m)
                                   /\ m.op = "PROCESO" /\ m.pid = cpu.pid
    <3>1. PICK m \in Mensaje : /\ dispatch' = Append(Append(dispatch, a), m)
                               /\ m.op = "PROCESO" /\ m.pid = cpu.pid
      BY <2>5
    <3> DEFINE f == Append(dispatch, a)
    <3>2. f \in Seq(Mensaje) /\ ~ Vuelta(f) /\ \A n \in 1 .. Len(f) - 1 : EsAviso(f[n])
      BY <1>1, <2>3, <2>5, Encolado
    <3>3. dispatch' = Append(f, m) /\ ~ EsAviso(m)
      BY <3>1 DEF EsAviso
    <3> HIDE DEF f
    <3>4. /\ \A n \in 1 .. Len(dispatch') - 1 : EsAviso(dispatch'[n])
          /\ Vuelta(dispatch') /\ dispatch'[Len(dispatch')] = m
      BY <3>2, <3>3, Encolado
    <3> QED
      BY <2>1, <2>3, <2>5, <3>1, <3>4, ControlDevuelve
  <2>6. CASE /\ EsAviso(a) /\ dispatch' = Append(dispatch, a)
             /\ \E x \in Pedido : /\ pedidos' = Append(pedidos, x)
                                  /\ x.op = "PROXIMA_INSTRUCCION"
                                  /\ x.pid = cpu.pid /\ x.pc = cpu.pc
    <3>1. PICK x \in Pedido : pedidos' = Append(pedidos, x) /\ x.pid = cpu.pid /\ x.pc = cpu.pc
      BY <2>6
    <3>2. pedidos' = <<x>>
      BY <2>3, <3>1
    <3>3. /\ \A n \in 1 .. Len(dispatch') - 1 : EsAviso(dispatch'[n])
          /\ ~ Vuelta(dispatch')
      BY <1>5, <2>3, <2>6
    <3> QED
      BY <2>1, <2>3, <3>1, <3>2, <3>3, ControlPide
  <2> QED
    BY <2>2, <2>4, <2>5, <2>6
<1> QED
  BY <1>2, <1>3, <1>6, <1>7 DEF PasoCpu

\* The turn passes to the answer of memoria.
LEMMA ControlRecibe ==
    ASSUME Len(k'.cola["EXEC"]) = 1, k'.a_cpu = << >>,
           pedidos' = << >>, interrupt' = << >>, ~ Vuelta(dispatch'),
           \A n \in 1 .. Len(dispatch') - 1 : EsAviso(dispatch'[n]),
           NEW y, entregas' = <<y>>, y.pid = k'.cola["EXEC"][1], cpu'.pid = k'.cola["EXEC"][1],
           y.op = "PROXIMA_INSTRUCCION" =>
              y.pc = cpu'.pc /\ (Validas => y.instruccion.op # "INVALIDA")
    PROVE  Control'
<1>1. EnVuelo(k', pedidos', entregas', interrupt', dispatch') = 1
  BY DEF EnVuelo
<1>2. \A n \in DOMAIN entregas' : entregas'[n] = y
  OBVIOUS
<1> QED
  BY <1>1, <1>2 DEF Control, Hilo

\* What memoria answers to a fetch is an instruction of the script or EXIT.
LEMMA InstruccionLeida ==
    ASSUME NEW p \in Pids, NEW pc \in Nat
    PROVE  \/ InstruccionEn(p, pc).op = "EXIT"
           \/ pc + 1 \in DOMAIN Programa[p] /\ InstruccionEn(p, pc) = Programa[p][pc + 1]
<1>1. Programa[p] \in Seq(Instruccion)
  BY ProgramaAssumption
<1>2. CASE pc < Len(Programa[p])
  <2>1. pc + 1 \in 1 .. Len(Programa[p])
    BY <1>1, <1>2, LenProperties
  <2>2. pc + 1 \in DOMAIN Programa[p]
    BY <1>1, <2>1, LenProperties
  <2> QED
    BY <1>2, <2>2 DEF InstruccionEn
<1>3. CASE ~ (pc < Len(Programa[p]))
  BY <1>3 DEF InstruccionEn
<1> QED
  BY <1>2, <1>3

\* While the kernel runs, memoria holds the script of the process in EXEC.
LEMMA ExecEnMemoria ==
    ASSUME Inductivo, Coherencia, ~ k.caido, Len(k.cola["EXEC"]) = 1
    PROVE  k.cola["EXEC"][1] \in memoria.procesos
<1> DEFINE p == k.cola["EXEC"][1]
<1>1. k.cola["EXEC"] \in Seq(Pids)
  BY SocketsTipo, SocketsLargo
<1>2. p \in Pids /\ Esta(k, "EXEC", p)
  BY <1>1, DeUno DEF Esta
<1> HIDE DEF p
<1>3. /\ k.procesos[p] = "EXEC"
      /\ k.procesos[p] = "EXEC" => k.pcb[p].memoria_aceptado
      /\ AlDiaDe(k, respuestas, memoria.procesos, p)
  <2>1. k.procesos[p] = "EXEC"
    BY <1>2 DEF Coherencia, Coherente, Orden, Colas
  <2>2. k.procesos[p] = "EXEC" => k.pcb[p].memoria_aceptado
    BY <1>2 DEF Coherencia, Coherente, Creacion
  <2>3. AlDiaDe(k, respuestas, memoria.procesos, p)
    BY <1>2 DEF Coherencia, Coherente, AlDia
  <2> QED
    BY <2>1, <2>2, <2>3
<1>4. p \in memoria.procesos
  BY <1>3 DEF AlDiaDe, Colas
<1> QED
  BY <1>4 DEF p

\* The actions of memoria.
LEMMA MemoriaControl ==
    ASSUME Inductivo, Inductivo', Coherencia, Control, PasoMemoria
    PROVE  Control'
<1>1. /\ Sockets(k, pedidos, entregas, interrupt, dispatch)
      /\ Hilo(k, cpu, pedidos, entregas, interrupt, dispatch)
      /\ \A n \in 1 .. Len(dispatch) - 1 : EsAviso(dispatch[n])
      /\ memoria \in [procesos : SUBSET Pids, caida : BOOLEAN]
      /\ pedidos \in Seq(Pedido)
  BY SocketsTipo DEF Control, Hilo, Inductivo, TypeOK
<1>2. CASE MemoriaKernel
  <2>1. k'.cola = k.cola /\ k'.a_cpu = k.a_cpu /\ k'.caido = k.caido
    BY <1>2, AccionAjena
  <2>2. memoria'.caida = memoria.caida
    BY <1>1, <1>2 DEF MemoriaKernel
  <2>3. UNCHANGED <<cpu, pedidos, entregas, interrupt, dispatch>>
    BY <1>2 DEF MemoriaKernel
  <2> QED
    BY <2>1, <2>2, <2>3, ControlQuieto
<1>3. ASSUME pedidos # << >>
      PROVE  /\ Len(pedidos) = 1 /\ k.a_cpu = << >> /\ entregas = << >> /\ interrupt = << >>
             /\ ~ Vuelta(dispatch) /\ Len(k.cola["EXEC"]) = 1
             /\ Head(pedidos) = pedidos[1] /\ Tail(pedidos) = << >>
             /\ Head(pedidos) \in Pedido
             /\ pedidos[1].pid = k.cola["EXEC"][1] /\ cpu.pid = k.cola["EXEC"][1]
             /\ pedidos[1].op = "PROXIMA_INSTRUCCION" => pedidos[1].pc = cpu.pc
  <2>1. /\ Len(pedidos) = 1 /\ k.a_cpu = << >> /\ entregas = << >> /\ interrupt = << >>
        /\ ~ Vuelta(dispatch) /\ Len(k.cola["EXEC"]) = 1
    BY <1>1, <1>3, UnLugar
  <2>2. Head(pedidos) = pedidos[1] /\ Tail(pedidos) = << >> /\ pedidos[1] \in Pedido
    BY <1>1, <2>1, DeUno
  <2>3. /\ pedidos[1].pid = k.cola["EXEC"][1] /\ cpu.pid = k.cola["EXEC"][1]
        /\ pedidos[1].op = "PROXIMA_INSTRUCCION" => pedidos[1].pc = cpu.pc
    BY <1>1, <1>3 DEF Hilo
  <2> QED
    BY <2>1, <2>2, <2>3
<1>4. CASE MemoriaProximaInstruccion
  <2> DEFINE m == Head(pedidos)
             y == [op |-> "PROXIMA_INSTRUCCION", pid |-> m.pid, pc |-> m.pc,
                   instruccion |-> InstruccionEn(m.pid, m.pc)]
  <2>1. /\ pedidos # << >> /\ m.op = "PROXIMA_INSTRUCCION" /\ pedidos' = Tail(pedidos)
        /\ UNCHANGED <<k, dispatch, interrupt, cpu>>
        /\ \/ m.pid \notin memoria.procesos /\ UNCHANGED <<entregas, memoria>>
           \/ memoria' = [memoria EXCEPT !.caida = TRUE] /\ UNCHANGED entregas
           \/ entregas' = Append(entregas, y) /\ UNCHANGED memoria
    BY <1>4 DEF MemoriaProximaInstruccion
  <2>2. /\ k.a_cpu = << >> /\ entregas = << >> /\ interrupt = << >> /\ pedidos' = << >>
        /\ ~ Vuelta(dispatch) /\ Len(k.cola["EXEC"]) = 1
        /\ m.pid = k.cola["EXEC"][1] /\ cpu.pid = k.cola["EXEC"][1] /\ m.pc = cpu.pc
        /\ m.pid \in Pids /\ m.pc \in Nat
    BY <1>3, <2>1, LimitesAssumption DEF Pedido
  <2> HIDE DEF m
  <2>3. CASE UNCHANGED entregas /\ (k.caido \/ memoria'.caida)
    <3>1. EnTurno(k)
      BY <1>1 DEF Sockets
    <3>2. Hilo(k, cpu', << >>, << >>, << >>, dispatch)
      BY <1>1, <2>2, <3>1, SinTurno
    <3>3. Hilo(k', cpu', pedidos', entregas', interrupt', dispatch')
      BY <2>1, <2>2, <2>3, <3>2
    <3>4. \A n \in DOMAIN entregas' : FALSE
      BY <2>2, <2>3
    <3> QED
      BY <2>1, <2>3, <3>3, <3>4 DEF Control
  <2>4. CASE m.pid \notin memoria.procesos /\ UNCHANGED <<entregas, memoria>>
    BY <2>2, <2>3, <2>4, ExecEnMemoria
  <2>5. CASE memoria' = [memoria EXCEPT !.caida = TRUE] /\ UNCHANGED entregas
    BY <1>1, <2>3, <2>5
  <2>6. CASE entregas' = Append(entregas, y) /\ UNCHANGED memoria
    <3>1. Validas => InstruccionEn(m.pid, m.pc).op # "INVALIDA"
      BY <2>2, InstruccionLeida DEF Validas
    <3>2. /\ entregas' = <<y>> /\ y.pid = k.cola["EXEC"][1] /\ y.pc = cpu.pc
          /\ Validas => y.instruccion.op # "INVALIDA"
      BY <2>2, <2>6, <3>1
    <3> HIDE DEF y
    <3> QED
      BY <1>1, <2>1, <2>2, <3>2, ControlRecibe
  <2> QED
    BY <2>1, <2>4, <2>5, <2>6
<1>5. CASE MemoriaResize
  <2> DEFINE m == Head(pedidos)
  <2>1. /\ pedidos # << >> /\ pedidos' = Tail(pedidos)
        /\ UNCHANGED <<k, dispatch, interrupt, cpu, memoria>>
    BY <1>5 DEF MemoriaResize
  <2>2. PICK dato \in {"OK", "FALLO"} :
           entregas' = Append(entregas, [op |-> "RESIZE", pid |-> m.pid, dato |-> dato])
    BY <1>5 DEF MemoriaResize
  <2>3. /\ k.a_cpu = << >> /\ entregas = << >> /\ interrupt = << >> /\ pedidos' = << >>
        /\ ~ Vuelta(dispatch) /\ Len(k.cola["EXEC"]) = 1
        /\ m.pid = k.cola["EXEC"][1] /\ cpu.pid = k.cola["EXEC"][1]
    BY <1>3, <2>1
  <2> DEFINE y == [op |-> "RESIZE", pid |-> m.pid, dato |-> dato]
  <2>4. entregas' = <<y>> /\ y.pid = k.cola["EXEC"][1] /\ y.op # "PROXIMA_INSTRUCCION"
    BY <2>2, <2>3
  <2> HIDE DEF m, y
  <2> QED
    BY <1>1, <2>1, <2>3, <2>4, ControlRecibe
<1> QED
  BY <1>2, <1>4, <1>5 DEF PasoMemoria

\* Every step of the system.
LEMMA PasoControl ==
    ASSUME "FINALIZAR_PROCESO" \notin Comandos, Inductivo, Inductivo', Coherencia, Control,
           [Next]_vars
    PROVE  Control'
<1>1. CASE PasoKernel
  BY <1>1, KernelControl DEF Coherencia, Coherente
<1>2. CASE PasoCpu
  BY <1>2, CpuControl
<1>3. CASE PasoMemoria
  BY <1>3, MemoriaControl
<1>4. CASE PasoInterfaz \/ UNCHANGED vars
  <2>1. UNCHANGED <<cpu, pedidos, entregas, interrupt, dispatch, memoria>>
    BY <1>4 DEF PasoInterfaz, InterfazRecibe, InterfazVence, InterfazAvisa, vars
  <2>2. k'.cola = k.cola /\ k'.a_cpu = k.a_cpu /\ k'.caido = k.caido
    <3>1. CASE \E i \in Interfaces : InterfazRecibe(i)
      BY <3>1, AccionAjena
    <3>2. CASE (\E i \in Interfaces : InterfazVence(i) \/ InterfazAvisa(i)) \/ UNCHANGED vars
      BY <3>2 DEF InterfazVence, InterfazAvisa, vars
    <3> QED
      BY <1>4, <3>1, <3>2 DEF PasoInterfaz
  <2> QED
    BY <2>1, <2>2, ControlQuieto
<1> QED
  BY <1>1, <1>2, <1>3, <1>4 DEF Next

\* Nothing carries a turn when the kernel starts.
LEMMA InicioControl == Init => Control
<1> SUFFICES ASSUME Init
             PROVE  Control
  OBVIOUS
<1>1. EnTurno(k) /\ k = KernelInicial /\ dispatch = << >> /\ interrupt = << >>
      /\ pedidos = << >> /\ entregas = << >>
  BY InicialTipo DEF Init, InitKernel
<1>2. k.a_cpu = << >> /\ k.cola["EXEC"] = << >>
  BY <1>1 DEF KernelInicial, Colas
<1>3. ~ Vuelta(dispatch) /\ \A n \in 1 .. Len(dispatch) - 1 : EsAviso(dispatch[n])
  BY <1>1 DEF Vuelta
<1>4. /\ Hilo(k, cpu, << >>, << >>, << >>, dispatch)
      /\ EnVuelo(k, << >>, << >>, << >>, dispatch) = 0
  BY <1>1, <1>2, <1>3, SinTurno
<1>5. Len(k.cola["EXEC"]) = 0
  BY <1>2
<1>6. DOMAIN entregas = {}
  BY <1>1
<1> QED
  BY <1>1, <1>4, <1>5, <1>6 DEF Control

-----------------------------------------------------------------------------
\* The inductive invariant of the two theorems that follow.
InductivoControl == InductivoCoherente /\ Control

\* Every step preserves it.
LEMMA PasoInductivoControl ==
    ASSUME OperadorEspera = TRUE, "FINALIZAR_PROCESO" \notin Comandos
    PROVE  InductivoControl /\ [Next]_vars => InductivoControl'
<1> SUFFICES ASSUME InductivoControl, [Next]_vars
             PROVE  InductivoControl'
  OBVIOUS
<1>1. InductivoCoherente'
  BY PasoCoherencia DEF InductivoControl
<1>2. Control'
  BY <1>1, PasoControl DEF InductivoControl, InductivoCoherente
<1> QED
  BY <1>1, <1>2 DEF InductivoControl

\* The answer that memoria sends is for the registers of the CPU.
LEMMA ControlPropio == InductivoControl => InstruccionPropia
<1> SUFFICES ASSUME InductivoControl, NEW n \in DOMAIN entregas
             PROVE  /\ entregas[n].pid = cpu.pid
                    /\ entregas[n].op = "PROXIMA_INSTRUCCION" => entregas[n].pc = cpu.pc
                    /\ k.cola["EXEC"] = <<cpu.pid>>
  BY DEF InstruccionPropia
<1>1. /\ Sockets(k, pedidos, entregas, interrupt, dispatch)
      /\ Hilo(k, cpu, pedidos, entregas, interrupt, dispatch)
  BY SocketsTipo DEF InductivoControl, InductivoCoherente, Control
<1>2. entregas # << >> /\ entregas \in Seq(Entrega)
  BY <1>1 DEF Sockets
<1>3. Len(entregas) = 1 /\ Len(k.cola["EXEC"]) = 1
  BY <1>1, <1>2, UnLugar
<1>4. n = 1
  BY <1>2, <1>3, LenProperties
<1>5. k.cola["EXEC"] \in Seq(Pids)
  BY <1>1, SocketsLargo
<1>6. k.cola["EXEC"] = <<k.cola["EXEC"][1]>>
  BY <1>3, <1>5
<1> QED
  BY <1>1, <1>2, <1>4, <1>6 DEF Hilo

\* The packets of the dispatch socket that end a turn are its last one or none.
LEMMA DevolucionesUna ==
    ASSUME Inductivo, Control
    PROVE  Devoluciones(dispatch) = IF Vuelta(dispatch) THEN 1 ELSE 0
<1>1. /\ dispatch \in Seq(Mensaje)
      /\ Hilo(k, cpu, pedidos, entregas, interrupt, dispatch)
  BY DEF Inductivo, TypeOK, Control
<1> DEFINE N == {n \in DOMAIN dispatch : ~ EsAviso(dispatch[n])}
<1>2. DOMAIN dispatch = 1 .. Len(dispatch) /\ Len(dispatch) \in Nat
      /\ (dispatch = << >> <=> Len(dispatch) = 0)
  BY <1>1, EmptySeq, LenProperties
<1>3. CASE Vuelta(dispatch)
  <2>1. N = {Len(dispatch)}
    BY <1>1, <1>2, <1>3 DEF Hilo, Vuelta
  <2>2. Cardinality(N) = 1
    BY <2>1, FS_Singleton
  <2> QED
    BY <1>3, <2>2 DEF Devoluciones
<1>4. CASE ~ Vuelta(dispatch)
  <2>1. N = {}
    BY <1>1, <1>2, <1>4 DEF Hilo, Vuelta
  <2>2. Cardinality(N) = 0
    BY <2>1, FS_EmptySet
  <2> QED
    BY <1>4, <2>2 DEF Devoluciones
<1> QED
  BY <1>3, <1>4

\* One message carries the turn of the process in EXEC.
LEMMA ControlCuenta ==
    ASSUME Validas
    PROVE  InductivoControl => ControlUnico
<1> SUFFICES ASSUME InductivoControl, ~ k.caido, ~ memoria.caida
             PROVE  Len(k.cola["EXEC"]) =
                       Len(k.a_cpu) + Len(pedidos) + Len(entregas) + Len(interrupt)
                       + Devoluciones(dispatch)
  BY DEF ControlUnico
<1>1. EnVuelo(k, pedidos, entregas, interrupt, dispatch) = Len(k.cola["EXEC"])
  BY DEF InductivoControl, Control
<1>2. Devoluciones(dispatch) = IF Vuelta(dispatch) THEN 1 ELSE 0
  BY DevolucionesUna DEF InductivoControl, InductivoCoherente
<1> QED
  BY <1>1, <1>2 DEF EnVuelo

\* The CPU runs each instruction in the context it was fetched for, and for the
\* process in EXEC: instruccion_recibir takes the reply of memoria without
\* looking at its pid or its pc, and what makes that right is that nobody else
\* can move the turn while the reply travels.  A kill from the console can.
THEOREM Instruccion_Propia ==
    ASSUME OperadorEspera = TRUE, "FINALIZAR_PROCESO" \notin Comandos
    PROVE  Spec => []InstruccionPropia
<1>1. Init => InductivoControl
  BY InicioCoherencia, InicioControl DEF InductivoControl
<1>2. InductivoControl /\ [Next]_vars => InductivoControl'
  BY PasoInductivoControl
<1>3. InductivoControl => InstruccionPropia
  BY ControlPropio
<1> QED
  BY <1>1, <1>2, <1>3, PTL DEF Spec

\* There is one thread of control between kernel, CPU and memoria for the
\* process in EXEC and none when EXEC is empty, if also no script has an
\* instruction that fails: that one ends its cycle without telling anybody.
THEOREM Control_Unico ==
    ASSUME OperadorEspera = TRUE, "FINALIZAR_PROCESO" \notin Comandos, Validas
    PROVE  Spec => []ControlUnico
<1>1. Init => InductivoControl
  BY InicioCoherencia, InicioControl DEF InductivoControl
<1>2. InductivoControl /\ [Next]_vars => InductivoControl'
  BY PasoInductivoControl
<1>3. InductivoControl => ControlUnico
  BY ControlCuenta
<1> QED
  BY <1>1, <1>2, <1>3, PTL DEF Spec

-----------------------------------------------------------------------------
(* The quantum timer runs only during a turn.                              *)

\* Every SIGNAL of a script names a resource of the configuration.
SignalsValidos ==
    \A p \in Pids : \A n \in DOMAIN Programa[p] :
        Programa[p][n].op = "SIGNAL" => Programa[p][n].dato \in Recursos

\* What memoria sends is an instruction of the process, or the EXIT after it.
EntregaDelGuion ==
    {e \in Entrega : e.op = "PROXIMA_INSTRUCCION" =>
        \/ e.instruccion.op = "EXIT"
        \/ /\ e.pc + 1 \in DOMAIN Programa[e.pid]
           /\ e.instruccion = Programa[e.pid][e.pc + 1]}

MensajeConRecurso == {m \in Mensaje : m.op = "SIGNAL" => m.dato \in Recursos}

\* The invariant: the timer is the one that the planner armed for whoever is in
\* EXEC, and under FIFO there is none.
Reloj ==
    ~ k.caido => /\ Algoritmo = "FIFO" => ~ k.timer.armado
                 /\ k.timer.armado => k.cola["EXEC"] # << >>
                 /\ k.timer.huerfanos = 0

\* It needs that a SIGNAL of an unknown resource never comes: that one empties
\* EXEC and leaves the timer.
InductivoReloj ==
    /\ InductivoCoherente
    /\ entregas \in Seq(EntregaDelGuion)
    /\ dispatch \in Seq(MensajeConRecurso)
    /\ Reloj

\* Reading a queue and writing to it keep the set its messages belong to.
LEMMA SinPrimero ==
    ASSUME NEW S, NEW q \in Seq(S), q # << >>
    PROVE  Head(q) \in S /\ Tail(q) \in Seq(S)
BY HeadTailProperties, EmptySeq

\* The answers of memoria come from the scripts.
LEMMA GuionLeido ==
    ASSUME Inductivo, entregas \in Seq(EntregaDelGuion), [Next]_vars
    PROVE  entregas' \in Seq(EntregaDelGuion)
<1>1. CASE InstruccionCiclo \/ CpuResize
  BY <1>1, SinPrimero DEF InstruccionCiclo, CpuResize
<1>2. ASSUME pedidos # << >>
      PROVE  Head(pedidos) \in Pedido /\ Head(pedidos).pid \in Pids /\ Head(pedidos).pc \in 0 .. MaxPc
  <2>1. Head(pedidos) \in Pedido
    BY <1>2, SinPrimero DEF Inductivo, TypeOK
  <2> QED
    BY <2>1 DEF Pedido
<1>3. CASE MemoriaProximaInstruccion
  <2> DEFINE m == Head(pedidos)
             i == InstruccionEn(m.pid, m.pc)
             y == [op |-> "PROXIMA_INSTRUCCION", pid |-> m.pid, pc |-> m.pc, instruccion |-> i]
  <2>1. /\ pedidos # << >>
        /\ UNCHANGED entregas \/ entregas' = Append(entregas, y)
    BY <1>3 DEF MemoriaProximaInstruccion
  <2>2. m.pid \in Pids /\ m.pc \in 0 .. MaxPc /\ m.pc \in Nat
    BY <1>2, <2>1, LimitesAssumption
  <2> HIDE DEF m
  <2>3. \/ i.op = "EXIT"
        \/ m.pc + 1 \in DOMAIN Programa[m.pid] /\ i = Programa[m.pid][m.pc + 1]
    BY <2>2, InstruccionLeida
  <2>4. i \in Instruccion
    <3>1. CASE m.pc < Len(Programa[m.pid])
      <4>1. Programa[m.pid] \in Seq(Instruccion)
        BY <2>2, ProgramaAssumption
      <4>2. m.pc + 1 \in 1 .. Len(Programa[m.pid])
        BY <2>2, <3>1, <4>1, LenProperties
      <4>3. Programa[m.pid][m.pc + 1] \in Instruccion
        BY <4>1, <4>2, ElementOfSeq
      <4> QED
        BY <3>1, <4>3 DEF InstruccionEn
    <3>2. CASE ~ (m.pc < Len(Programa[m.pid]))
      BY <3>2 DEF InstruccionEn, Instruccion, Operaciones, Datos
    <3> QED
      BY <3>1, <3>2
  <2> HIDE DEF i
  <2>5. y \in Entrega
    BY <2>2, <2>4 DEF Entrega
  <2>6. y \in EntregaDelGuion
    BY <2>3, <2>5 DEF EntregaDelGuion
  <2> HIDE DEF y
  <2> QED
    BY <2>1, <2>6, AppendProperties
<1>4. CASE MemoriaResize
  <2>1. pedidos # << >>
    BY <1>4 DEF MemoriaResize
  <2>2. PICK dato \in {"OK", "FALLO"} :
           entregas' = Append(entregas, [op |-> "RESIZE", pid |-> Head(pedidos).pid,
                                         dato |-> dato])
    BY <1>4 DEF MemoriaResize
  <2> DEFINE y == [op |-> "RESIZE", pid |-> Head(pedidos).pid, dato |-> dato]
  <2>3. y \in EntregaDelGuion
    BY <1>2, <2>1 DEF Entrega, EntregaDelGuion
  <2> HIDE DEF y
  <2>4. entregas' = Append(entregas, y)
    BY <2>2 DEF y
  <2> QED
    BY <2>3, <2>4, AppendProperties
<1>5. CASE \/ PasoKernel \/ CpuEjecutarProceso \/ CpuInterrupcion \/ MemoriaKernel
           \/ PasoInterfaz \/ UNCHANGED vars
  BY <1>5 DEF PasoKernel, SoloKernel, CpuEjecutarProceso, CpuInterrupcion, MemoriaKernel,
              PasoInterfaz, InterfazRecibe, InterfazVence, InterfazAvisa, vars
<1> QED
  BY <1>1, <1>3, <1>4, <1>5 DEF Next, PasoCpu, PasoMemoria

\* The packets of the CPU name resources that exist.
LEMMA SignalsLeidos ==
    ASSUME SignalsValidos, Inductivo, Orden(k, {}), entregas \in Seq(EntregaDelGuion),
           dispatch \in Seq(MensajeConRecurso), [Next]_vars
    PROVE  dispatch' \in Seq(MensajeConRecurso)
<1>1. ASSUME UNCHANGED dispatch \/ (dispatch # << >> /\ dispatch' = Tail(dispatch))
      PROVE  dispatch' \in Seq(MensajeConRecurso)
  BY <1>1, SinPrimero
<1>2. CASE PasoKernel
  <2>1. CASE DispatchProceso \/ DispatchResize \/ DispatchWait \/ DispatchSignal
    BY <1>1, <2>1, AccionDispatch
  <2>2. CASE ~ (DispatchProceso \/ DispatchResize \/ DispatchWait \/ DispatchSignal)
    <3>1. UNCHANGED dispatch
      BY <1>2, <2>2 DEF PasoKernel, NextKernel, FinalizarProceso, IniciarProceso,
         DetenerPlanificacion, IniciarPlanificacion, Multiprogramacion, HiloPlanificador,
         TemporizadorVence, FinQuantum, AtenderMemoria, InterruptIoGenSleep,
         AtenderCompletado, entradas
    <3> QED
      BY <1>1, <3>1
  <2> QED
    BY <2>1, <2>2
<1>3. CASE InstruccionCiclo
  <2> DEFINE i == Head(entregas).instruccion
  <2>1. /\ entregas # << >> /\ Head(entregas).op = "PROXIMA_INSTRUCCION"
        /\ \/ UNCHANGED dispatch
           \/ \E m \in Mensaje : /\ dispatch' = Append(dispatch, m)
                                 /\ m.op = "SIGNAL" => i.op = "SIGNAL" /\ m.dato = i.dato
    BY <1>3, CicloTurno
  <2>2. i.op = "SIGNAL" => i.dato \in Recursos
    <3>1. Head(entregas) \in EntregaDelGuion
      BY <2>1, SinPrimero
    <3>2. Head(entregas).pid \in Pids
      BY <3>1 DEF EntregaDelGuion, Entrega
    <3> QED
      BY <2>1, <3>1, <3>2 DEF EntregaDelGuion, SignalsValidos
  <2> HIDE DEF i
  <2>3. CASE UNCHANGED dispatch
    BY <1>1, <2>3
  <2>4. ASSUME NEW m \in Mensaje, dispatch' = Append(dispatch, m),
               m.op = "SIGNAL" => i.op = "SIGNAL" /\ m.dato = i.dato
        PROVE  dispatch' \in Seq(MensajeConRecurso)
    <3>1. m \in MensajeConRecurso
      BY <2>2, <2>4 DEF MensajeConRecurso
    <3> QED
      BY <2>4, <3>1, AppendProperties
  <2> QED
    BY <2>1, <2>3, <2>4
<1>4. CASE CpuResize
  <2>1. \E a \in Mensaje :
           /\ a.op = "RESIZE"
           /\ \/ dispatch' = Append(dispatch, a)
              \/ \E m \in Mensaje : /\ dispatch' = Append(Append(dispatch, a), m)
                                    /\ m.op = "PROCESO"
    BY <1>4, CpuResizeTurno
  <2>2. PICK a \in Mensaje :
           /\ a.op = "RESIZE"
           /\ \/ dispatch' = Append(dispatch, a)
              \/ \E m \in Mensaje : /\ dispatch' = Append(Append(dispatch, a), m)
                                    /\ m.op = "PROCESO"
    BY <2>1
  <2> DEFINE f == Append(dispatch, a)
  <2>3. a \in MensajeConRecurso
    BY <2>2 DEF MensajeConRecurso
  <2>4. f \in Seq(MensajeConRecurso)
    BY <2>3, AppendProperties
  <2> HIDE DEF f
  <2>5. ASSUME NEW m \in Mensaje, m.op = "PROCESO"
        PROVE  Append(f, m) \in Seq(MensajeConRecurso)
    <3>1. m \in MensajeConRecurso
      BY <2>5 DEF MensajeConRecurso
    <3> QED
      BY <2>4, <3>1, AppendProperties
  <2> QED
    BY <2>2, <2>4, <2>5 DEF f
<1>5. CASE \/ CpuEjecutarProceso \/ CpuInterrupcion \/ PasoMemoria
           \/ PasoInterfaz \/ UNCHANGED vars
  <2>1. UNCHANGED dispatch
    BY <1>5 DEF CpuEjecutarProceso, CpuInterrupcion, PasoMemoria, MemoriaKernel,
         MemoriaProximaInstruccion, MemoriaResize, PasoInterfaz, InterfazRecibe,
         InterfazVence, InterfazAvisa, vars
  <2> QED
    BY <1>1, <2>1
<1> QED
  BY <1>2, <1>3, <1>4, <1>5 DEF Next, PasoCpu

\* What each way of treating the turn does to the timer.
LEMMA RelojTurno ==
    ASSUME Inductivo, Reloj, ~ k.caido,
           Aparte(k, k') \/ Frena(k, k') \/ Suelta(k, k') \/ Despacho(k, k')
    PROVE  Reloj'
<1>1. /\ k.timer \in Temporizador
      /\ Algoritmo = "FIFO" => ~ k.timer.armado
      /\ k.timer.armado => k.cola["EXEC"] # << >>
      /\ k.timer.huerfanos = 0
  BY RelojTipo DEF Inductivo, TypeOK, Reloj
<1>2. /\ Parado(k.timer).huerfanos = 0
      /\ ~ Parado(k.timer).armado
  BY <1>1, ParadoDosVeces
<1>3. CASE Aparte(k, k')
  BY <1>1, <1>3 DEF Reloj, Aparte
<1>4. CASE Frena(k, k') \/ Suelta(k, k')
  BY <1>2, <1>4 DEF Reloj, Frena, Suelta
<1>5. CASE Despacho(k, k')
  <2>1. k'.cola["EXEC"] # << >> /\ ~ k.timer.armado
    BY <1>1, <1>5 DEF Despacho
  <2>2. Armado(k.timer).huerfanos = k.timer.huerfanos
    BY <1>1, <2>1 DEF Armado, Temporizador
  <2>3. \/ Algoritmo = "FIFO" /\ k'.timer = k.timer
        \/ Algoritmo # "FIFO" /\ k'.timer = Armado(k.timer)
    BY <1>5 DEF Despacho
  <2> QED
    BY <1>1, <2>1, <2>2, <2>3 DEF Reloj
<1> QED
  BY <1>3, <1>4, <1>5

\* A kill.
LEMMA RelojFinalizar ==
    ASSUME Inductivo, Orden(k, {}), Reloj, NEW p \in Pids, FinalizarProceso(p)
    PROVE  Reloj'
<1>1. ~ k.caido
  BY DEF FinalizarProceso
<1>2. k.procesos[p] = "EXEC" <=> Esta(k, "EXEC", p)
  BY DEF Orden, Colas
<1>3. CASE k.procesos[p] = "EXEC"
  <2>1. k' = FinalizarEnExec(k, p)
    BY <1>3 DEF FinalizarProceso
  <2>2. k'.cola["EXEC"] = << >> /\ k'.timer = Parado(k.timer)
    BY <1>2, <1>3, <2>1, FinalizarUsuarioTurno
  <2>3. k.timer \in Temporizador /\ k.timer.huerfanos = 0
        /\ (Algoritmo = "FIFO" => ~ k.timer.armado)
    BY <1>1, RelojTipo DEF Inductivo, TypeOK, Reloj
  <2>4. Parado(k.timer).huerfanos = 0 /\ ~ Parado(k.timer).armado
    BY <2>3, ParadoDosVeces
  <2> QED
    BY <2>2, <2>4 DEF Reloj
<1>4. CASE k.procesos[p] # "EXEC"
  <2>1. /\ \A r \in Recursos, falla \in BOOLEAN :
             \A o \in OrdenesAlInterrumpir(k, p, r) :
                Aparte(k, FinalizarEnRecurso(k, p, r, o, falla))
        /\ \A i \in Interfaces : Aparte(k, FinalizarEnInterfaz(k, p, i))
        /\ Aparte(k, FinalizarEnEspera(k, p))
        /\ Aparte(k, FinalizarEnCola(k, p))
    BY <1>2, <1>4, FinalizarUsuarioTurno
  <2>2. \/ \E r \in RecursosDe(k, p), falla \in BOOLEAN :
              \E orden \in OrdenesAlInterrumpir(k, p, r) :
                  k' = FinalizarEnRecurso(k, p, r, orden, falla)
        \/ \E i \in InterfacesDe(k, p) : k' = FinalizarEnInterfaz(k, p, i)
        \/ k' = FinalizarEnEspera(k, p)
        \/ k' = FinalizarEnCola(k, p)
    BY <1>4 DEF FinalizarProceso
  <2>3. RecursosDe(k, p) \subseteq Recursos /\ InterfacesDe(k, p) \subseteq Interfaces
    BY DEF RecursosDe, InterfacesDe
  <2>4. Aparte(k, k')
    BY <2>1, <2>2, <2>3
  <2> QED
    BY <1>1, <2>4, RelojTurno
<1> QED
  BY <1>3, <1>4

\* Every step of the kernel.
LEMMA RelojKernel ==
    ASSUME Inductivo, Orden(k, {}), Reloj, dispatch \in Seq(MensajeConRecurso), NextKernel
    PROVE  Reloj'
<1>1. k.timer \in Temporizador /\ k \in EstadoKernel
  BY RelojTipo DEF Inductivo, TypeOK
<1>2. CASE \E p \in Pids : FinalizarProceso(p)
  BY <1>2, RelojFinalizar
<1>3. CASE \/ IniciarProceso \/ DetenerPlanificacion \/ IniciarPlanificacion
           \/ \E g \in Grados : Multiprogramacion(g)
           \/ AtenderMemoria \/ \E i \in Interfaces : AtenderCompletado(i)
  BY <1>3, AccionAparte, RelojTurno
<1>4. CASE HiloPlanificador
  <2>1. ~ k.caido
    BY <1>4 DEF HiloPlanificador
  <2> QED
    BY <1>4, <2>1, PlanificadorTurno, RelojTurno
<1>5. CASE TemporizadorVence
  <2>1. ~ k.caido /\ k'.cola = k.cola /\ k.timer.huerfanos = 0
    BY <1>5, AccionAjena DEF TemporizadorVence, Reloj
  <2>2. k'.timer = [k.timer EXCEPT !.armado = FALSE, !.avisos = @ + 1]
    <3>1. k' = [k EXCEPT !.timer.armado = FALSE, !.timer.avisos = @ + 1]
      BY <1>5, <2>1 DEF TemporizadorVence
    <3> QED
      BY <1>1, <3>1 DEF EstadoKernel
  <2>3. k'.timer.armado = FALSE /\ k'.timer.huerfanos = 0
    BY <1>1, <2>1, <2>2 DEF Temporizador
  <2> QED
    BY <2>3 DEF Reloj
<1>6. CASE FinQuantum
  <2>1. ~ k.caido /\ k'.cola = k.cola
    BY <1>6, AccionAjena DEF FinQuantum
  <2>2. k'.timer = [k.timer EXCEPT !.avisos = @ - 1]
    BY <1>1, <1>6, Zenon DEF FinQuantum, InterrumpirCpu, EstadoKernel
  <2>3. k'.timer.armado = k.timer.armado /\ k'.timer.huerfanos = k.timer.huerfanos
    BY <1>1, <2>2 DEF Temporizador
  <2> QED
    BY <2>1, <2>3 DEF Reloj
<1>7. CASE DispatchProceso \/ DispatchResize \/ DispatchWait \/ DispatchSignal
  <2> DEFINE m == Head(dispatch)
  <2>1. /\ ~ k.caido /\ dispatch # << >>
        /\ Esta(k, "EXEC", m.pid) =>
              IF EsAviso(m) THEN Aparte(k, k')
              ELSE Suelta(k, k') \/ k'.caido \/ (m.op = "SIGNAL" /\ m.dato \notin Recursos)
        /\ ~ Esta(k, "EXEC", m.pid) => Aparte(k, k') \/ Frena(k, k')
    BY <1>7, AccionDispatch
  <2>2. m \in MensajeConRecurso
    BY <2>1, SinPrimero
  <2>3. ~ (m.op = "SIGNAL" /\ m.dato \notin Recursos)
    BY <2>2 DEF MensajeConRecurso
  <2> HIDE DEF m
  <2>4. k'.caido => Reloj'
    BY DEF Reloj
  <2> QED
    BY <2>1, <2>3, <2>4, RelojTurno
<1>8. CASE InterruptIoGenSleep
  <2>1. Suelta(k, k') \/ k' = k
    BY <1>8, AccionInterrupt
  <2>2. ~ k.caido
    BY <1>8 DEF InterruptIoGenSleep
  <2>3. k' = k => Reloj'
    BY DEF Reloj
  <2> QED
    BY <2>1, <2>2, <2>3, RelojTurno
<1> QED
  BY <1>2, <1>3, <1>4, <1>5, <1>6, <1>7, <1>8 DEF NextKernel

\* Every step of the system.
LEMMA PasoReloj ==
    ASSUME OperadorEspera = TRUE, SignalsValidos
    PROVE  InductivoReloj /\ [Next]_vars => InductivoReloj'
<1> SUFFICES ASSUME InductivoReloj, [Next]_vars
             PROVE  InductivoReloj'
  OBVIOUS
<1>1. Inductivo /\ Orden(k, {}) /\ k \in EstadoKernel
  BY DEF InductivoReloj, InductivoCoherente, Coherencia, Coherente, Inductivo, TypeOK
<1>2. InductivoCoherente'
  BY PasoCoherencia DEF InductivoReloj
<1>3. entregas' \in Seq(EntregaDelGuion)
  BY <1>1, GuionLeido DEF InductivoReloj
<1>4. dispatch' \in Seq(MensajeConRecurso)
  BY <1>1, SignalsLeidos DEF InductivoReloj
<1>5. Reloj'
  <2>1. CASE PasoKernel
    BY <1>1, <2>1, RelojKernel DEF PasoKernel, InductivoReloj
  <2>2. CASE ~ PasoKernel
    <3>1. k'.cola = k.cola /\ k'.timer = k.timer /\ k'.caido = k.caido
      <4>1. CASE CpuEjecutarProceso
        BY <1>1, <4>1, Zenon DEF CpuEjecutarProceso, EstadoKernel
      <4>2. CASE CpuInterrupcion
        BY <1>1, <4>2, Zenon DEF CpuInterrupcion, EstadoKernel
      <4>3. CASE MemoriaKernel
        BY <1>1, <4>3, Zenon DEF MemoriaKernel, EstadoKernel
      <4>4. CASE \E i \in Interfaces : InterfazRecibe(i)
        BY <1>1, <4>4, Zenon DEF InterfazRecibe, EstadoKernel
      <4>5. CASE \/ InstruccionCiclo \/ CpuResize \/ MemoriaProximaInstruccion \/ MemoriaResize
                 \/ (\E i \in Interfaces : InterfazVence(i) \/ InterfazAvisa(i))
                 \/ UNCHANGED vars
        BY <4>5 DEF InstruccionCiclo, CpuResize, MemoriaProximaInstruccion, MemoriaResize,
                    InterfazVence, InterfazAvisa, vars
      <4> QED
        BY <2>2, <4>1, <4>2, <4>3, <4>4, <4>5 DEF Next, PasoCpu, PasoMemoria, PasoInterfaz
    <3> QED
      BY <3>1 DEF InductivoReloj, Reloj
  <2> QED
    BY <2>1, <2>2
<1> QED
  BY <1>2, <1>3, <1>4, <1>5 DEF InductivoReloj

\* No timer runs when the kernel starts.
LEMMA InicioReloj == Init => InductivoReloj
<1> SUFFICES ASSUME Init
             PROVE  InductivoReloj
  OBVIOUS
<1>1. k = KernelInicial /\ dispatch = << >> /\ entregas = << >> /\ InductivoCoherente
  BY InicioCoherencia DEF Init, InitKernel
<1>2. k.timer.armado = FALSE /\ k.timer.huerfanos = 0
  BY <1>1 DEF KernelInicial
<1>3. dispatch \in Seq(MensajeConRecurso) /\ entregas \in Seq(EntregaDelGuion)
  BY <1>1, EmptySeq
<1> QED
  BY <1>1, <1>2, <1>3 DEF InductivoReloj, Reloj

\* A quantum timer runs only while a process executes, and only one: every path
\* out of EXEC deletes the timer that the planner armed, kills included.  The
\* path that does not is a SIGNAL of a resource nobody configured, which
\* finishes the process before the timer is looked at: hence the hypothesis on
\* the scripts.
THEOREM Temporizador_Del_Turno ==
    ASSUME OperadorEspera = TRUE, SignalsValidos
    PROVE  Spec => []TemporizadorDelTurno
<1>1. Init => InductivoReloj
  BY InicioReloj
<1>2. InductivoReloj /\ [Next]_vars => InductivoReloj'
  BY PasoReloj
<1>3. InductivoReloj => TemporizadorDelTurno
  BY DEF InductivoReloj, Reloj, TemporizadorDelTurno
<1> QED
  BY <1>1, <1>2, <1>3, PTL DEF Spec

-----------------------------------------------------------------------------
(* The quantum timer runs whenever it is needed.  The danger is the notice *)
(* of a RESIZE: the CPU goes on without waiting for the kernel to read it, *)
(* and if its process leaves EXEC through the other socket, the notice is  *)
(* read late and deletes the timer of the next process.                    *)

\* The script of p may come back to an instruction it has run.
Salta(p) == \E n \in DOMAIN Programa[p] : Programa[p][n].op = "JNZ"

\* One of the first c instructions of p is a RESIZE, or any of them if p loops.
ResizeAntes(p, c) ==
    \E n \in DOMAIN Programa[p] : Programa[p][n].op = "RESIZE" /\ (n <= c \/ Salta(p))

\* No process sleeps in an interface after a RESIZE.
SinSleepTrasResize ==
    \A p \in Pids : \A n \in DOMAIN Programa[p] :
        Programa[p][n].op = "IO_GEN_SLEEP" => ~ ResizeAntes(p, n - 1)

\* The invariant on the notices: all packets of the dispatch socket are of the
\* process in EXEC, which has run a RESIZE if one is a notice; and there is
\* none when a turn starts or ends in a sleep.
Avisos ==
    /\ \A n \in DOMAIN dispatch :
          /\ k.cola["EXEC"] # << >> /\ dispatch[n].pid = k.cola["EXEC"][1]
          /\ EsAviso(dispatch[n]) => ResizeAntes(k.cola["EXEC"][1], cpu.pc)
    /\ k.a_cpu # << >> \/ interrupt # << >> => dispatch = << >>
    /\ pedidos # << >> /\ pedidos[1].op = "RESIZE" =>
          ResizeAntes(k.cola["EXEC"][1], cpu.pc)
    /\ entregas # << >> /\ entregas[1].op = "RESIZE" =>
          ResizeAntes(k.cola["EXEC"][1], cpu.pc)

\* The invariant on the timer: it runs when the turn starts, and something that
\* will end the turn is pending from then on.
Quantum ==
    Algoritmo # "FIFO" /\ ~ k.caido /\ k.cola["EXEC"] # << >> =>
        /\ k.a_cpu # << >> => k.timer.armado
        /\ \/ k.timer.armado \/ k.timer.huerfanos > 0 \/ k.timer.avisos > 0
           \/ k.a_interrupt # << >> \/ cpu.flag_interrupt
           \/ Vuelta(dispatch) \/ interrupt # << >>

InductivoAvisos ==
    InductivoControl /\ entregas \in Seq(EntregaDelGuion) /\ Avisos

InductivoQuantum == InductivoAvisos /\ Quantum

\* Who has run a RESIZE has run it further on too.
LEMMA AntesSigue ==
    ASSUME NEW p \in Pids, NEW c \in Int, NEW d \in Int, ResizeAntes(p, c), c <= d \/ Salta(p)
    PROVE  ResizeAntes(p, d)
<1>1. PICK n \in DOMAIN Programa[p] : Programa[p][n].op = "RESIZE" /\ (n <= c \/ Salta(p))
  BY DEF ResizeAntes
<1>2. n \in Int
  <2>1. Programa[p] \in Seq(Instruccion)
    BY ProgramaAssumption
  <2> QED
    BY <1>1, <2>1, LenProperties
<1>3. n <= d \/ Salta(p)
  BY <1>1, <1>2
<1> QED
  BY <1>1, <1>3 DEF ResizeAntes

\* What the instruction cycle does to the pc and to the interrupt flag.
LEMMA CicloPc ==
    ASSUME Inductivo, InstruccionCiclo
    PROVE  LET i == Head(entregas).instruccion
           IN  /\ cpu.pc \in Nat /\ cpu'.pc \in Int
               /\ cpu.pc <= cpu'.pc \/ i.op = "JNZ"
               /\ i.op = "RESIZE" => cpu'.pc = cpu.pc + 1
               /\ i.op = "INVALIDA" => cpu'.flag_interrupt = cpu.flag_interrupt
<1> DEFINE c == [cpu EXCEPT !.pc = @ + 1]
           i == Head(entregas).instruccion
<1>1. cpu \in TiposCpu /\ cpu.pc \in Nat
  BY CpuCampos, LimitesAssumption DEF Inductivo, TypeOK
<1>2. c.pc = cpu.pc + 1 /\ c.flag_interrupt = cpu.flag_interrupt
      /\ DOMAIN c = {"pid", "pc", "flag_interrupt"}
  BY <1>1 DEF TiposCpu
<1>3. \/ RecibirDesconocida(i) \/ EjecutarSet(c, i) \/ EjecutarJnz(c, i)
      \/ EjecutarResize(c, i) \/ EjecutarRecurso(c, i) \/ EjecutarIoGenSleep(c, i)
      \/ EjecutarExit(c, i) \/ EjecutarInvalida(c, i)
  BY DEF InstruccionCiclo
<1>4. \A d : SeguirCiclo(d) => cpu' = [d EXCEPT !.flag_interrupt = FALSE] \/ cpu' = d
  BY DEF SeguirCiclo
<1>5. [c EXCEPT !.flag_interrupt = FALSE].pc = c.pc
  BY <1>2
<1>6. CASE EjecutarSet(c, i)
  <2>1. cpu'.pc = c.pc /\ i.op = "SET"
    BY <1>4, <1>5, <1>6 DEF EjecutarSet
  <2> QED
    BY <1>1, <1>2, <2>1 DEF i
<1>7. CASE EjecutarJnz(c, i)
  <2>1. PICK destino \in {0, c.pc} : SeguirCiclo([c EXCEPT !.pc = destino])
    BY <1>7 DEF EjecutarJnz
  <2> DEFINE d == [c EXCEPT !.pc = destino]
  <2>2. d.pc \in Int /\ [d EXCEPT !.flag_interrupt = FALSE].pc = d.pc
    BY <1>1, <1>2
  <2>3. SeguirCiclo(d)
    BY <2>1
  <2> HIDE DEF d
  <2>4. cpu'.pc = d.pc
    BY <1>4, <2>2, <2>3
  <2>5. i.op = "JNZ"
    BY <1>7 DEF EjecutarJnz
  <2> QED
    BY <1>1, <2>2, <2>4, <2>5 DEF i
<1>8. CASE RecibirDesconocida(i)
  <2>1. cpu' = cpu /\ i.op = "DESCONOCIDA"
    BY <1>8 DEF RecibirDesconocida
  <2> QED
    BY <1>1, <2>1 DEF i
<1>9. CASE \/ EjecutarResize(c, i) \/ EjecutarRecurso(c, i) \/ EjecutarIoGenSleep(c, i)
           \/ EjecutarExit(c, i) \/ EjecutarInvalida(c, i)
  <2>1. cpu' = c
    BY <1>9 DEF EjecutarResize, EjecutarRecurso, EjecutarIoGenSleep, EjecutarExit,
                EjecutarInvalida
  <2>2. cpu'.pc = cpu.pc + 1 /\ cpu'.flag_interrupt = cpu.flag_interrupt
    BY <1>2, <2>1
  <2> HIDE DEF i, c
  <2> QED
    BY <1>1, <2>2 DEF i
<1> QED
  BY <1>3, <1>6, <1>7, <1>8, <1>9

\* No packet and no answer is on its way after the step.
LEMMA AvisosVacio ==
    ASSUME dispatch' = << >>, pedidos' = << >>, entregas' = << >>
    PROVE  Avisos'
<1>1. DOMAIN << >> = {}
  OBVIOUS
<1> QED
  BY <1>1 DEF Avisos

\* The step does not touch what Avisos is about.
LEMMA AvisosQuieto ==
    ASSUME Avisos, k'.cola["EXEC"] = k.cola["EXEC"], k'.a_cpu = k.a_cpu, cpu'.pc = cpu.pc,
           UNCHANGED <<pedidos, entregas, interrupt, dispatch>>
    PROVE  Avisos'
BY DEF Avisos

\* The packet the kernel reads is of the process in EXEC.
LEMMA AvisoEnExec ==
    ASSUME Inductivo, Avisos, dispatch # << >>
    PROVE  Esta(k, "EXEC", Head(dispatch).pid)
<1>1. /\ dispatch \in Seq(Mensaje) /\ Head(dispatch) = dispatch[1] /\ 1 \in DOMAIN dispatch
      /\ Sockets(k, pedidos, entregas, interrupt, dispatch)
  BY PrimeroLeido, SocketsTipo, LenProperties DEF Inductivo, TypeOK
<1>2. k.cola["EXEC"] # << >> /\ Head(dispatch).pid = k.cola["EXEC"][1]
  BY <1>1 DEF Avisos
<1>3. k.cola["EXEC"] \in Seq(Pids) /\ Len(k.cola["EXEC"]) = 1
  BY <1>1, <1>2, SocketsLargo
<1> QED
  BY <1>2, <1>3, DeUno DEF Esta

\* The actions of the kernel, when nobody is killed.
LEMMA KernelAvisos ==
    ASSUME "FINALIZAR_PROCESO" \notin Comandos, Inductivo, Orden(k, {}), Control, Avisos,
           PasoKernel
    PROVE  Avisos'
<1>1. /\ UNCHANGED <<cpu, pedidos, entregas, memoria>>
      /\ Sockets(k, pedidos, entregas, interrupt, dispatch)
      /\ Hilo(k, cpu, pedidos, entregas, interrupt, dispatch)
  BY SocketsTipo DEF PasoKernel, SoloKernel, Control
<1>2. ASSUME Aparte(k, k'), UNCHANGED <<dispatch, interrupt>>
      PROVE  Avisos'
  BY <1>1, <1>2, AvisosQuieto DEF Aparte, SinEnvios
<1>3. CASE \/ IniciarProceso \/ DetenerPlanificacion \/ IniciarPlanificacion
           \/ \E g \in Grados : Multiprogramacion(g)
           \/ AtenderMemoria \/ \E i \in Interfaces : AtenderCompletado(i)
  BY <1>2, <1>3, AccionAparte
<1>4. CASE TemporizadorVence \/ FinQuantum
  <2>1. UNCHANGED <<dispatch, interrupt>>
    BY <1>4 DEF TemporizadorVence, FinQuantum, entradas
  <2>2. k'.cola = k.cola /\ k'.a_cpu = k.a_cpu
    BY <1>4, AccionAjena
  <2> QED
    BY <1>1, <2>1, <2>2, AvisosQuieto
<1>5. CASE HiloPlanificador
  <2>1. UNCHANGED <<dispatch, interrupt>>
    BY <1>5 DEF HiloPlanificador, entradas
  <2>2. CASE Aparte(k, k')
    BY <1>2, <2>1, <2>2
  <2>3. CASE Despacho(k, k')
    <3>1. k.cola["EXEC"] = << >>
      BY <2>3 DEF Despacho
    <3>2. pedidos = << >> /\ entregas = << >>
      BY <1>1, <3>1, UnLugar
    <3>3. dispatch = << >>
      <4> SUFFICES ASSUME dispatch # << >>
                   PROVE  FALSE
        OBVIOUS
      <4>1. dispatch \in Seq(Mensaje) /\ 1 \in DOMAIN dispatch
        BY <1>1, PrimeroLeido, LenProperties DEF Sockets
      <4> QED
        BY <3>1, <4>1 DEF Avisos
    <3> QED
      BY <1>1, <2>1, <3>2, <3>3, AvisosVacio
  <2> QED
    BY <1>5, <2>2, <2>3, PlanificadorTurno
<1>6. CASE DispatchProceso \/ DispatchResize \/ DispatchWait \/ DispatchSignal
  <2> DEFINE m == Head(dispatch)
  <2>1. /\ dispatch # << >> /\ dispatch' = Tail(dispatch) /\ UNCHANGED interrupt
        /\ Esta(k, "EXEC", m.pid) /\ EsAviso(m) => Aparte(k, k')
    BY <1>6, AccionDispatch
  <2>2. Esta(k, "EXEC", m.pid)
    BY <2>1, AvisoEnExec
  <2>3. ~ EsAviso(m) => /\ k.a_cpu = << >> /\ pedidos = << >> /\ entregas = << >>
                        /\ interrupt = << >> /\ Tail(dispatch) = << >>
    BY <1>1, <2>1, Leido
  <2> HIDE DEF m
  <2>4. CASE EsAviso(m)
    <3>1. k'.cola["EXEC"] = k.cola["EXEC"] /\ k'.a_cpu = k.a_cpu
      BY <2>1, <2>2, <2>4 DEF Aparte, SinEnvios
    <3>2. \A n \in DOMAIN dispatch' : n + 1 \in DOMAIN dispatch /\ dispatch'[n] = dispatch[n + 1]
      <4>1. dispatch \in Seq(Mensaje) /\ Tail(dispatch) \in Seq(Mensaje)
        BY <1>1, <2>1, PrimeroLeido DEF Sockets
      <4>2. \A n \in 1 .. Len(Tail(dispatch)) : /\ n + 1 \in 1 .. Len(dispatch)
                                                /\ Tail(dispatch)[n] = dispatch[n + 1]
        BY <2>1, <4>1, PrimeroLeido
      <4> QED
        BY <2>1, <4>1, <4>2, LenProperties
    <3>3. k.a_cpu = << >> /\ interrupt = << >>
      BY <2>1 DEF Avisos
    <3> QED
      BY <1>1, <2>1, <3>1, <3>2, <3>3 DEF Avisos
  <2>5. CASE ~ EsAviso(m)
    BY <1>1, <2>1, <2>3, <2>5, AvisosVacio
  <2> QED
    BY <2>4, <2>5
<1>7. CASE InterruptIoGenSleep
  <2>1. interrupt # << >> /\ UNCHANGED dispatch
    BY <1>7, AccionInterrupt
  <2>2. dispatch = << >> /\ pedidos = << >> /\ entregas = << >>
    BY <1>1, <2>1, UnLugar DEF Avisos
  <2> QED
    BY <1>1, <2>1, <2>2, AvisosVacio
<1>8. ASSUME NEW p \in Pids
      PROVE  ~ FinalizarProceso(p)
  BY DEF FinalizarProceso
<1> QED
  BY <1>3, <1>4, <1>5, <1>6, <1>7, <1>8 DEF PasoKernel, NextKernel

\* While an answer of memoria is on its way nothing else carries the turn.
LEMMA Respondiendo ==
    ASSUME Inductivo, Control, entregas # << >>
    PROVE  /\ k.a_cpu = << >> /\ pedidos = << >> /\ interrupt = << >> /\ ~ Vuelta(dispatch)
           /\ \A n \in DOMAIN dispatch : EsAviso(dispatch[n])
           /\ Head(entregas) = entregas[1] /\ Tail(entregas) = << >>
           /\ entregas[1].pid = cpu.pid /\ cpu.pid = k.cola["EXEC"][1] /\ cpu.pid \in Pids
           /\ entregas[1].op = "PROXIMA_INSTRUCCION" => entregas[1].pc = cpu.pc
           /\ k.cola["EXEC"] # << >>
<1>1. /\ Sockets(k, pedidos, entregas, interrupt, dispatch)
      /\ Hilo(k, cpu, pedidos, entregas, interrupt, dispatch)
  BY SocketsTipo DEF Control
<1>2. /\ Len(entregas) = 1 /\ k.a_cpu = << >> /\ pedidos = << >> /\ interrupt = << >>
      /\ ~ Vuelta(dispatch) /\ Len(k.cola["EXEC"]) = 1
  BY <1>1, UnLugar
<1>3. Head(entregas) = entregas[1] /\ Tail(entregas) = << >>
  BY <1>1, <1>2, DeUno DEF Sockets
<1>4. /\ entregas[1].pid = k.cola["EXEC"][1] /\ cpu.pid = k.cola["EXEC"][1]
      /\ entregas[1].op = "PROXIMA_INSTRUCCION" => entregas[1].pc = cpu.pc
  BY <1>1 DEF Hilo
<1>5. k.cola["EXEC"] # << >> /\ cpu.pid \in Pids
  <2>1. k.cola["EXEC"] \in Seq(Pids)
    BY <1>1, SocketsLargo
  <2> QED
    BY <1>2, <1>4, <2>1, DeUno
<1>6. ASSUME NEW n \in DOMAIN dispatch
      PROVE  EsAviso(dispatch[n])
  <2>1. n \in 1 .. Len(dispatch) /\ Len(dispatch) \in Nat /\ dispatch # << >>
    BY <1>1, LenProperties DEF Sockets
  <2>2. n \in 1 .. Len(dispatch) - 1 \/ n = Len(dispatch)
    BY <2>1
  <2> QED
    BY <1>1, <1>2, <2>1, <2>2 DEF Hilo, Vuelta
<1> QED
  BY <1>2, <1>3, <1>4, <1>5, <1>6

\* The actions of the CPU.
LEMMA CpuAvisos ==
    ASSUME SinSleepTrasResize, Inductivo, Control, Avisos,
           entregas \in Seq(EntregaDelGuion), PasoCpu
    PROVE  Avisos'
<1>1. /\ Sockets(k, pedidos, entregas, interrupt, dispatch)
      /\ Hilo(k, cpu, pedidos, entregas, interrupt, dispatch)
      /\ dispatch \in Seq(Mensaje) /\ k \in EstadoKernel
  BY SocketsTipo DEF Control, Inductivo, TypeOK
<1> DEFINE p == k.cola["EXEC"][1]
<1>2. ASSUME NEW m \in Mensaje, NEW n \in DOMAIN Append(dispatch, m)
      PROVE  \/ Append(dispatch, m)[n] = m
             \/ n \in DOMAIN dispatch /\ Append(dispatch, m)[n] = dispatch[n]
  <2> DEFINE f == Append(dispatch, m)
  <2>1. /\ f \in Seq(Mensaje) /\ Len(dispatch) \in Nat /\ Len(f) = Len(dispatch) + 1
        /\ f[Len(dispatch) + 1] = m /\ \A j \in 1 .. Len(dispatch) : f[j] = dispatch[j]
    BY <1>1, UltimoEscrito
  <2> HIDE DEF f
  <2>2. n \in 1 .. Len(f) /\ DOMAIN dispatch = 1 .. Len(dispatch)
    BY <1>1, <1>2, <2>1, LenProperties DEF f
  <2>3. n \in 1 .. Len(dispatch) \/ n = Len(dispatch) + 1
    BY <2>1, <2>2
  <2>4. f[n] = m \/ (n \in DOMAIN dispatch /\ f[n] = dispatch[n])
    BY <2>1, <2>2, <2>3
  <2> QED
    BY <2>4 DEF f
<1>3. CASE CpuEjecutarProceso
  <2> DEFINE x == [op |-> "PROXIMA_INSTRUCCION", pid |-> Head(k.a_cpu).pid,
                   pc |-> Head(k.a_cpu).pc]
  <2>1. /\ k.a_cpu # << >> /\ pedidos' = Append(pedidos, x)
        /\ UNCHANGED <<dispatch, interrupt, entregas>>
    BY <1>3 DEF CpuEjecutarProceso, Solicitar
  <2>2. /\ dispatch = << >> /\ pedidos = << >> /\ entregas = << >> /\ interrupt = << >>
    BY <1>1, <2>1, UnLugar DEF Avisos
  <2>3. pedidos'[1].op = "PROXIMA_INSTRUCCION"
    BY <2>1, <2>2
  <2>4. DOMAIN dispatch' = {} /\ dispatch' = << >> /\ entregas' = << >>
    BY <2>1, <2>2
  <2> QED
    BY <2>3, <2>4 DEF Avisos
<1>4. CASE CpuInterrupcion
  <2>1. k'.cola = k.cola /\ k'.a_cpu = k.a_cpu
    BY <1>4, AccionAjena
  <2>2. cpu'.pc = cpu.pc /\ UNCHANGED <<pedidos, entregas, interrupt, dispatch>>
    BY <1>4 DEF CpuInterrupcion, Inductivo, TypeOK, TiposCpu
  <2> QED
    BY <2>1, <2>2, AvisosQuieto
<1>5. CASE InstruccionCiclo
  <2> DEFINE i == Head(entregas).instruccion
  <2>1. /\ entregas # << >> /\ Head(entregas).op = "PROXIMA_INSTRUCCION"
        /\ entregas' = Tail(entregas) /\ UNCHANGED <<k, memoria>>
    BY <1>5, CicloTurno
  <2>2. \/ /\ UNCHANGED <<dispatch, interrupt>>
           /\ \E x \in Pedido : /\ pedidos' = Append(pedidos, x)
                                /\ x.op = "RESIZE" => i.op = "RESIZE"
        \/ /\ UNCHANGED <<pedidos, interrupt>>
           /\ \E m \in Mensaje : /\ dispatch' = Append(dispatch, m) /\ m.pid = cpu.pid
                                 /\ m.op # "RESIZE"
        \/ /\ UNCHANGED <<pedidos, dispatch>> /\ i.op = "IO_GEN_SLEEP"
        \/ i.op = "INVALIDA" /\ UNCHANGED <<pedidos, dispatch, interrupt>>
    BY <1>5, CicloTurno
  <2>3. /\ k.a_cpu = << >> /\ pedidos = << >> /\ interrupt = << >> /\ entregas' = << >>
        /\ \A n \in DOMAIN dispatch : EsAviso(dispatch[n])
        /\ cpu.pid = p /\ p \in Pids /\ k.cola["EXEC"] # << >>
        /\ Head(entregas).pid = p /\ Head(entregas).pc = cpu.pc
    BY <2>1, Respondiendo
  <2>4. i.op = "EXIT" \/ (cpu.pc + 1 \in DOMAIN Programa[p] /\ i = Programa[p][cpu.pc + 1])
    <3>1. Head(entregas) \in EntregaDelGuion
      BY <2>1, SinPrimero
    <3> QED
      BY <2>1, <2>3, <3>1 DEF EntregaDelGuion
  <2>5. /\ cpu.pc \in Nat /\ cpu'.pc \in Int /\ (cpu.pc <= cpu'.pc \/ i.op = "JNZ")
        /\ i.op = "RESIZE" => cpu'.pc = cpu.pc + 1
    BY <1>5, CicloPc
  <2> HIDE DEF i, p
  <2>6. i.op = "JNZ" => Salta(p)
    BY <2>4 DEF Salta
  <2>7. ASSUME NEW n \in DOMAIN dispatch
        PROVE  /\ k.cola["EXEC"] # << >> /\ dispatch[n].pid = p
               /\ ResizeAntes(p, cpu.pc) /\ ResizeAntes(p, cpu'.pc)
    <3>1. dispatch[n].pid = p /\ ResizeAntes(p, cpu.pc)
      BY <2>3 DEF Avisos, p
    <3>2. cpu.pc \in Int /\ (cpu.pc <= cpu'.pc \/ Salta(p))
      BY <2>5, <2>6
    <3>3. ResizeAntes(p, cpu'.pc)
      BY <2>3, <2>5, <3>1, <3>2, AntesSigue
    <3> QED
      BY <2>3, <3>1, <3>3
  <2>8. CASE /\ UNCHANGED <<dispatch, interrupt>>
             /\ \E x \in Pedido : /\ pedidos' = Append(pedidos, x)
                                  /\ x.op = "RESIZE" => i.op = "RESIZE"
    <3>1. PICK x \in Pedido : /\ pedidos' = Append(pedidos, x)
                              /\ x.op = "RESIZE" => i.op = "RESIZE"
      BY <2>8
    <3>2. pedidos'[1] = x
      BY <2>3, <3>1
    <3>3. x.op = "RESIZE" => ResizeAntes(p, cpu'.pc)
      <4>1. cpu.pc + 1 <= cpu.pc + 1
        BY <2>5
      <4> QED
        BY <2>4, <2>5, <3>1, <4>1 DEF ResizeAntes
    <3> QED
      BY <2>1, <2>3, <2>7, <2>8, <3>2, <3>3 DEF Avisos, p
  <2>9. CASE /\ UNCHANGED <<pedidos, interrupt>>
             /\ \E m \in Mensaje : /\ dispatch' = Append(dispatch, m) /\ m.pid = cpu.pid
                                   /\ m.op # "RESIZE"
    <3>1. PICK m \in Mensaje : /\ dispatch' = Append(dispatch, m) /\ m.pid = cpu.pid
                               /\ m.op # "RESIZE"
      BY <2>9
    <3>2. ASSUME NEW n \in DOMAIN dispatch'
          PROVE  /\ dispatch'[n].pid = p
                 /\ EsAviso(dispatch'[n]) => ResizeAntes(p, cpu'.pc)
      <4>1. dispatch'[n] = m \/ (n \in DOMAIN dispatch /\ dispatch'[n] = dispatch[n])
        BY <1>2, <3>1, <3>2
      <4>2. ~ EsAviso(m) /\ m.pid = p
        BY <2>3, <3>1 DEF EsAviso
      <4> QED
        BY <2>7, <4>1, <4>2
    <3> QED
      BY <2>1, <2>3, <2>9, <3>2 DEF Avisos, p
  <2>10. CASE UNCHANGED <<pedidos, dispatch>> /\ i.op = "IO_GEN_SLEEP"
    <3>1. dispatch = << >>
      <4> SUFFICES ASSUME dispatch # << >>
                   PROVE  FALSE
        OBVIOUS
      <4>1. 1 \in DOMAIN dispatch
        BY <1>1, PrimeroLeido, LenProperties
      <4>2. ResizeAntes(p, cpu.pc)
        BY <2>7, <4>1
      <4>3. cpu.pc + 1 \in DOMAIN Programa[p] /\ Programa[p][cpu.pc + 1].op = "IO_GEN_SLEEP"
        BY <2>4, <2>10
      <4>4. (cpu.pc + 1) - 1 = cpu.pc
        BY <2>5
      <4> QED
        BY <2>3, <4>2, <4>3, <4>4 DEF SinSleepTrasResize
    <3> QED
      BY <2>3, <2>10, <3>1, AvisosVacio
  <2>11. CASE i.op = "INVALIDA" /\ UNCHANGED <<pedidos, dispatch, interrupt>>
    BY <2>1, <2>3, <2>7, <2>11 DEF Avisos, p
  <2> QED
    BY <2>2, <2>8, <2>9, <2>10, <2>11
<1>6. CASE CpuResize
  <2>1. /\ entregas # << >> /\ Head(entregas).op = "RESIZE"
        /\ entregas' = Tail(entregas) /\ UNCHANGED <<k, interrupt>> /\ cpu'.pc = cpu.pc
    BY <1>6, CpuResizeTurno
  <2>2. PICK a \in Mensaje :
                 /\ a.pid = Head(entregas).pid
                 /\ \/ dispatch' = Append(dispatch, a) /\ UNCHANGED pedidos
                    \/ /\ UNCHANGED pedidos
                       /\ \E m \in Mensaje : /\ dispatch' = Append(Append(dispatch, a), m)
                                             /\ m.op = "PROCESO" /\ m.pid = cpu.pid
                    \/ /\ dispatch' = Append(dispatch, a)
                       /\ \E x \in Pedido : /\ pedidos' = Append(pedidos, x)
                                            /\ x.op = "PROXIMA_INSTRUCCION"
    BY <1>6, CpuResizeTurno
  <2>3. /\ k.a_cpu = << >> /\ pedidos = << >> /\ interrupt = << >> /\ entregas' = << >>
        /\ cpu.pid = p /\ k.cola["EXEC"] # << >>
        /\ Head(entregas).pid = p /\ Head(entregas) = entregas[1]
    BY <2>1, Respondiendo
  <2>4. ResizeAntes(p, cpu.pc)
    BY <2>1, <2>3 DEF Avisos
  <2>5. \A n \in DOMAIN dispatch : dispatch[n].pid = p
    BY DEF Avisos
  <2> DEFINE f == Append(dispatch, a)
  <2>6. \A n \in DOMAIN f : f[n].pid = p
    BY <1>2, <2>2, <2>3, <2>5
  <2>7. f \in Seq(Mensaje)
    BY <1>1, AppendProperties
  <2> HIDE DEF f, p
  <2>8. ASSUME NEW m \in Mensaje, m.pid = p, NEW n \in DOMAIN Append(f, m)
        PROVE  Append(f, m)[n].pid = p
    <3> DEFINE g == Append(f, m)
    <3>1. /\ g \in Seq(Mensaje) /\ Len(f) \in Nat /\ Len(g) = Len(f) + 1
          /\ g[Len(f) + 1] = m /\ \A j \in 1 .. Len(f) : g[j] = f[j]
      BY <2>7, UltimoEscrito
    <3> HIDE DEF g
    <3>2. n \in 1 .. Len(g) /\ DOMAIN f = 1 .. Len(f)
      BY <2>7, <2>8, <3>1, LenProperties DEF g
    <3>3. n \in 1 .. Len(f) \/ n = Len(f) + 1
      BY <3>1, <3>2
    <3>4. g[n].pid = p
      BY <2>6, <2>8, <3>1, <3>2, <3>3
    <3> QED
      BY <3>4 DEF g
  <2>9. \A n \in DOMAIN dispatch' : dispatch'[n].pid = p
    BY <2>2, <2>3, <2>6, <2>8 DEF f
  <2>10. pedidos' # << >> => pedidos'[1].op # "RESIZE"
    BY <2>2, <2>3
  <2> QED
    BY <2>1, <2>3, <2>4, <2>9, <2>10 DEF Avisos, p
<1> QED
  BY <1>3, <1>4, <1>5, <1>6 DEF PasoCpu

\* The actions of memoria.
LEMMA MemoriaAvisos ==
    ASSUME Inductivo, Control, Avisos, PasoMemoria
    PROVE  Avisos'
<1>1. /\ Sockets(k, pedidos, entregas, interrupt, dispatch)
      /\ Hilo(k, cpu, pedidos, entregas, interrupt, dispatch)
  BY SocketsTipo DEF Control
<1>2. CASE MemoriaKernel
  <2>1. k'.cola = k.cola /\ k'.a_cpu = k.a_cpu
    BY <1>2, AccionAjena
  <2>2. UNCHANGED <<cpu, pedidos, entregas, interrupt, dispatch>>
    BY <1>2 DEF MemoriaKernel
  <2> QED
    BY <2>1, <2>2, AvisosQuieto
<1>3. CASE MemoriaProximaInstruccion \/ MemoriaResize
  <2> DEFINE m == Head(pedidos)
  <2>1. /\ pedidos # << >> /\ pedidos' = Tail(pedidos)
        /\ UNCHANGED <<k, cpu, interrupt, dispatch>>
        /\ \/ UNCHANGED entregas
           \/ \E y : /\ entregas' = Append(entregas, y)
                     /\ y.op = "RESIZE" => m.op = "RESIZE"
    <3>1. CASE MemoriaProximaInstruccion
      <4> DEFINE y == [op |-> "PROXIMA_INSTRUCCION", pid |-> m.pid, pc |-> m.pc,
                       instruccion |-> InstruccionEn(m.pid, m.pc)]
      <4>1. UNCHANGED entregas \/ entregas' = Append(entregas, y)
        BY <3>1 DEF MemoriaProximaInstruccion
      <4>2. y.op # "RESIZE"
        OBVIOUS
      <4> HIDE DEF y, m
      <4> QED
        BY <3>1, <4>1, <4>2 DEF MemoriaProximaInstruccion
    <3>2. CASE MemoriaResize
      <4>1. PICK y : entregas' = Append(entregas, y)
        BY <3>2 DEF MemoriaResize
      <4> QED
        BY <3>2, <4>1 DEF MemoriaResize
    <3> QED
      BY <1>3, <3>1, <3>2
  <2>2. Len(pedidos) = 1 /\ entregas = << >>
    BY <1>1, <2>1, UnLugar
  <2>3. m = pedidos[1] /\ Tail(pedidos) = << >>
    BY <1>1, <2>2, DeUno DEF Sockets
  <2>4. entregas' # << >> /\ entregas'[1].op = "RESIZE" => pedidos[1].op = "RESIZE"
    <3>1. CASE UNCHANGED entregas
      BY <2>2, <3>1
    <3>2. ASSUME NEW y, entregas' = Append(entregas, y), y.op = "RESIZE" => m.op = "RESIZE"
          PROVE  entregas'[1].op = "RESIZE" => pedidos[1].op = "RESIZE"
      BY <2>2, <2>3, <3>2
    <3> QED
      BY <2>1, <3>1, <3>2
  <2> QED
    BY <2>1, <2>3, <2>4 DEF Avisos
<1> QED
  BY <1>2, <1>3 DEF PasoMemoria

\* The actions of the kernel, when nobody is killed.
LEMMA KernelQuantum ==
    ASSUME "FINALIZAR_PROCESO" \notin Comandos, DespachoOportuno = TRUE,
           Inductivo, Orden(k, {}), Control, Avisos, Quantum, PasoKernel
    PROVE  Quantum'
<1>1. /\ UNCHANGED cpu /\ k.timer \in Temporizador /\ k \in EstadoKernel
      /\ Sockets(k, pedidos, entregas, interrupt, dispatch)
      /\ Hilo(k, cpu, pedidos, entregas, interrupt, dispatch)
  BY SocketsTipo, RelojTipo DEF PasoKernel, SoloKernel, Control, Inductivo, TypeOK
<1>2. ASSUME Aparte(k, k'), ~ k.caido, UNCHANGED <<dispatch, interrupt>>
      PROVE  Quantum'
  BY <1>1, <1>2 DEF Quantum, Aparte, SinEnvios
<1>3. CASE \/ IniciarProceso \/ DetenerPlanificacion \/ IniciarPlanificacion
           \/ \E g \in Grados : Multiprogramacion(g)
           \/ AtenderMemoria \/ \E i \in Interfaces : AtenderCompletado(i)
  BY <1>2, <1>3, AccionAparte
<1>4. CASE TemporizadorVence
  <2>1. /\ ~ k.caido /\ k'.cola = k.cola /\ k'.a_cpu = k.a_cpu
    BY <1>4, AccionAjena DEF TemporizadorVence
  <2>2. \/ /\ k.timer.armado /\ k.a_cpu = << >>
           /\ k'.timer = [k.timer EXCEPT !.armado = FALSE, !.avisos = @ + 1]
        \/ /\ k.timer.huerfanos > 0
           /\ k'.timer = [k.timer EXCEPT !.huerfanos = @ - 1, !.avisos = @ + 1]
    <3>1. \/ /\ k.timer.armado /\ k.a_cpu = << >>
             /\ k' = [k EXCEPT !.timer.armado = FALSE, !.timer.avisos = @ + 1]
          \/ /\ k.timer.huerfanos > 0
             /\ k' = [k EXCEPT !.timer.huerfanos = @ - 1, !.timer.avisos = @ + 1]
      BY <1>4 DEF TemporizadorVence
    <3>2. CASE /\ k.timer.armado /\ k.a_cpu = << >>
               /\ k' = [k EXCEPT !.timer.armado = FALSE, !.timer.avisos = @ + 1]
      BY <1>1, <3>2 DEF EstadoKernel
    <3>3. CASE /\ k.timer.huerfanos > 0
               /\ k' = [k EXCEPT !.timer.huerfanos = @ - 1, !.timer.avisos = @ + 1]
      BY <1>1, <3>3 DEF EstadoKernel
    <3> QED
      BY <3>1, <3>2, <3>3
  <2>3. k'.timer.avisos > 0
    <3>1. k.timer.avisos \in Nat
      BY <1>1, TemporizadorCampos
    <3>2. k'.timer.avisos = k.timer.avisos + 1
      BY <1>1, <2>2 DEF Temporizador
    <3> QED
      BY <3>1, <3>2
  <2>4. k.a_cpu # << >> => k'.timer.armado = k.timer.armado
    BY <1>1, <2>2 DEF Temporizador
  <2> QED
    BY <2>1, <2>3, <2>4 DEF Quantum
<1>5. CASE FinQuantum
  <2>1. /\ ~ k.caido /\ k'.cola = k.cola /\ k'.a_cpu = k.a_cpu
        /\ UNCHANGED <<dispatch, interrupt>>
    BY <1>5, AccionAjena DEF FinQuantum, entradas
  <2>2. k'.timer = [k.timer EXCEPT !.avisos = @ - 1]
    BY <1>1, <1>5, Zenon DEF FinQuantum, InterrumpirCpu, EstadoKernel
  <2>3. k'.timer.armado = k.timer.armado
    BY <1>1, <2>2 DEF Temporizador
  <2>4. k.cola["EXEC"] # << >> => k'.a_interrupt # << >>
    <3> DEFINE t == [k EXCEPT !.timer.avisos = @ - 1]
               h == Head(k.cola["EXEC"])
    <3> SUFFICES ASSUME k.cola["EXEC"] # << >>
                 PROVE  k'.a_interrupt # << >>
      OBVIOUS
    <3>1. k' = InterrumpirCpu(t, h)
      <4>1. t.cola = k.cola
        BY <1>1, Zenon DEF EstadoKernel
      <4> QED
        BY <1>5, <4>1 DEF FinQuantum
    <3>2. k'.a_interrupt = Append(k.a_interrupt, h)
      BY <1>1, <3>1, Zenon DEF InterrumpirCpu, EstadoKernel
    <3>3. h \in Pids /\ k.a_interrupt \in Seq(Pids)
      <4>1. k.cola["EXEC"] \in Seq(Pids)
        BY <1>1, SocketsLargo
      <4> QED
        BY <1>1, <4>1, SinPrimero, RelojTipo
    <3> HIDE DEF h
    <3> QED
      BY <3>2, <3>3
  <2> QED
    BY <2>1, <2>3, <2>4 DEF Quantum
<1>6. CASE HiloPlanificador
  <2>1. UNCHANGED <<dispatch, interrupt>> /\ ~ k.caido
    BY <1>6 DEF HiloPlanificador, entradas
  <2>2. CASE Aparte(k, k')
    BY <1>2, <2>1, <2>2
  <2>3. CASE Despacho(k, k')
    <3>1. Algoritmo # "FIFO" => k'.timer = Armado(k.timer)
      BY <2>3 DEF Despacho
    <3>2. Armado(k.timer).armado
      BY <1>1 DEF Armado, Temporizador
    <3> QED
      BY <3>1, <3>2 DEF Quantum
  <2> QED
    BY <1>6, <2>2, <2>3, PlanificadorTurno
<1>7. CASE DispatchProceso \/ DispatchResize \/ DispatchWait \/ DispatchSignal
  <2> DEFINE m == Head(dispatch)
  <2>1. /\ ~ k.caido /\ dispatch # << >> /\ dispatch' = Tail(dispatch) /\ UNCHANGED interrupt
        /\ Esta(k, "EXEC", m.pid) =>
              IF EsAviso(m) THEN Aparte(k, k')
              ELSE Suelta(k, k') \/ k'.caido \/ Vacia(k, k')
    BY <1>7, AccionDispatch
  <2>2. Esta(k, "EXEC", m.pid)
    BY <2>1, AvisoEnExec
  <2>3. EsAviso(m) => (Vuelta(Tail(dispatch)) <=> Vuelta(dispatch))
    BY <1>1, <2>1, Leido
  <2> HIDE DEF m
  <2>4. CASE EsAviso(m)
    BY <1>1, <2>1, <2>2, <2>3, <2>4 DEF Quantum, Aparte, SinEnvios
  <2>5. CASE ~ EsAviso(m)
    BY <2>1, <2>2, <2>5 DEF Quantum, Suelta, Vacia
  <2> QED
    BY <2>4, <2>5
<1>8. CASE InterruptIoGenSleep
  <2> DEFINE m == Head(interrupt)
  <2>1. /\ interrupt # << >>
        /\ IF Esta(k, "EXEC", m.pid) THEN Suelta(k, k') ELSE k' = k
    BY <1>8, AccionInterrupt
  <2> HIDE DEF m
  <2>2. Len(interrupt) = 1 /\ Len(k.cola["EXEC"]) = 1
    BY <1>1, <2>1, UnLugar
  <2>3. m = interrupt[1]
    BY <1>1, <2>2, DeUno DEF Sockets, m
  <2>4. m.pid = k.cola["EXEC"][1]
    BY <1>1, <2>1, <2>3 DEF Hilo
  <2>5. Esta(k, "EXEC", m.pid)
    <3>1. k.cola["EXEC"] \in Seq(Pids)
      BY <1>1, SocketsLargo
    <3> QED
      BY <2>2, <2>4, <3>1, DeUno DEF Esta
  <2> QED
    BY <2>1, <2>5 DEF Quantum, Suelta
<1>9. ASSUME NEW p \in Pids
      PROVE  ~ FinalizarProceso(p)
  BY DEF FinalizarProceso
<1> QED
  BY <1>3, <1>4, <1>5, <1>6, <1>7, <1>8, <1>9 DEF PasoKernel, NextKernel

\* The actions of the CPU.
LEMMA CpuQuantum ==
    ASSUME Inductivo, Control, Avisos, Quantum, PasoCpu
    PROVE  Quantum'
<1>1. /\ Sockets(k, pedidos, entregas, interrupt, dispatch)
      /\ dispatch \in Seq(Mensaje) /\ interrupt \in Seq(Mensaje) /\ k \in EstadoKernel
  BY SocketsTipo DEF Inductivo, TypeOK
<1>2. CASE CpuEjecutarProceso
  <2>1. /\ k.a_cpu # << >> /\ k'.cola = k.cola /\ k'.timer = k.timer /\ k'.caido = k.caido
    BY <1>1, <1>2, Zenon DEF CpuEjecutarProceso, EstadoKernel
  <2> QED
    BY <2>1 DEF Quantum
<1>3. CASE CpuInterrupcion
  <2>1. /\ k'.cola = k.cola /\ k'.timer = k.timer /\ k'.a_cpu = k.a_cpu /\ k'.caido = k.caido
    BY <1>1, <1>3, Zenon DEF CpuInterrupcion, EstadoKernel
  <2>2. cpu'.flag_interrupt
    BY <1>3 DEF CpuInterrupcion, Inductivo, TypeOK, TiposCpu
  <2> QED
    BY <2>1, <2>2 DEF Quantum
<1>4. ASSUME UNCHANGED k, entregas # << >>,
             \/ Vuelta(dispatch') \/ interrupt' # << >>
             \/ UNCHANGED interrupt /\ cpu'.flag_interrupt = cpu.flag_interrupt
      PROVE  Quantum'
  <2>1. ~ Vuelta(dispatch)
    BY <1>4, Respondiendo
  <2>2. k.a_cpu = << >> /\ interrupt = << >>
    BY <1>4, Respondiendo
  <2> QED
    BY <1>4, <2>1, <2>2 DEF Quantum
<1>5. ASSUME NEW m \in Mensaje, NEW f \in Seq(Mensaje), dispatch' = Append(f, m), ~ EsAviso(m)
      PROVE  Vuelta(dispatch')
  BY <1>5, Encolado
<1>6. CASE InstruccionCiclo
  <2> DEFINE i == Head(entregas).instruccion
  <2>1. /\ entregas # << >> /\ UNCHANGED k
        /\ \/ UNCHANGED interrupt /\ cpu'.flag_interrupt = cpu.flag_interrupt
           \/ \E m \in Mensaje : dispatch' = Append(dispatch, m) /\ m.op # "RESIZE"
           \/ \E m \in Mensaje : interrupt' = Append(interrupt, m)
           \/ i.op = "INVALIDA" /\ UNCHANGED interrupt
    BY <1>6, CicloTurno
  <2>2. i.op = "INVALIDA" => cpu'.flag_interrupt = cpu.flag_interrupt
    BY <1>6, CicloPc
  <2>3. ASSUME NEW m \in Mensaje, dispatch' = Append(dispatch, m), m.op # "RESIZE"
        PROVE  Vuelta(dispatch')
    BY <1>1, <1>5, <2>3 DEF EsAviso
  <2>4. ASSUME NEW m \in Mensaje, interrupt' = Append(interrupt, m)
        PROVE  interrupt' # << >>
    BY <1>1, <2>4
  <2> HIDE DEF i
  <2> QED
    BY <1>4, <2>1, <2>2, <2>3, <2>4
<1>7. CASE CpuResize
  <2>1. /\ entregas # << >> /\ UNCHANGED <<k, interrupt>>
        /\ \E a \in Mensaje :
              \/ ~ EsAviso(a) /\ dispatch' = Append(dispatch, a)
              \/ \E m \in Mensaje : /\ dispatch' = Append(Append(dispatch, a), m)
                                    /\ m.op = "PROCESO"
              \/ UNCHANGED cpu
    BY <1>7, CpuResizeTurno
  <2>2. PICK a \in Mensaje :
              \/ ~ EsAviso(a) /\ dispatch' = Append(dispatch, a)
              \/ \E m \in Mensaje : /\ dispatch' = Append(Append(dispatch, a), m)
                                    /\ m.op = "PROCESO"
              \/ UNCHANGED cpu
    BY <2>1
  <2>3. ~ EsAviso(a) /\ dispatch' = Append(dispatch, a) => Vuelta(dispatch')
    BY <1>1, <1>5
  <2>4. ASSUME NEW m \in Mensaje, dispatch' = Append(Append(dispatch, a), m), m.op = "PROCESO"
        PROVE  Vuelta(dispatch')
    <3>1. ~ EsAviso(m) /\ Append(dispatch, a) \in Seq(Mensaje)
      BY <1>1, <2>4, AppendProperties DEF EsAviso
    <3> QED
      BY <1>5, <2>4, <3>1
  <2> QED
    BY <1>4, <2>1, <2>2, <2>3, <2>4
<1> QED
  BY <1>2, <1>3, <1>6, <1>7 DEF PasoCpu

\* Every step of the system keeps the invariant on the notices.
LEMMA PasoAvisos ==
    ASSUME OperadorEspera = TRUE, "FINALIZAR_PROCESO" \notin Comandos, SinSleepTrasResize
    PROVE  InductivoAvisos /\ [Next]_vars => InductivoAvisos'
<1> SUFFICES ASSUME InductivoAvisos, [Next]_vars
             PROVE  InductivoAvisos'
  OBVIOUS
<1>1. /\ Inductivo /\ Orden(k, {})
      /\ Control /\ Avisos /\ entregas \in Seq(EntregaDelGuion)
  BY DEF InductivoAvisos, InductivoControl, InductivoCoherente, Coherencia, Coherente
<1>2. InductivoControl'
  BY PasoInductivoControl DEF InductivoAvisos
<1>3. entregas' \in Seq(EntregaDelGuion)
  BY <1>1, GuionLeido
<1>4. CASE PasoKernel
  BY <1>1, <1>2, <1>3, <1>4, KernelAvisos DEF InductivoAvisos
<1>5. CASE PasoCpu
  BY <1>1, <1>2, <1>3, <1>5, CpuAvisos DEF InductivoAvisos
<1>6. CASE PasoMemoria
  BY <1>1, <1>2, <1>3, <1>6, MemoriaAvisos DEF InductivoAvisos
<1>7. CASE PasoInterfaz \/ UNCHANGED vars
  <2>1. UNCHANGED <<cpu, pedidos, entregas, interrupt, dispatch>>
    BY <1>7 DEF PasoInterfaz, InterfazRecibe, InterfazVence, InterfazAvisa, vars
  <2>2. k'.cola = k.cola /\ k'.a_cpu = k.a_cpu
    <3>1. CASE \E i \in Interfaces : InterfazRecibe(i)
      BY <1>1, <3>1, AccionAjena
    <3>2. CASE (\E i \in Interfaces : InterfazVence(i) \/ InterfazAvisa(i)) \/ UNCHANGED vars
      BY <3>2 DEF InterfazVence, InterfazAvisa, vars
    <3> QED
      BY <1>7, <3>1, <3>2 DEF PasoInterfaz
  <2>3. Avisos'
    BY <1>1, <2>1, <2>2, AvisosQuieto
  <2> QED
    BY <1>2, <1>3, <2>3 DEF InductivoAvisos
<1> QED
  BY <1>4, <1>5, <1>6, <1>7 DEF Next

\* Every step of the system keeps the invariant on the timer.
LEMMA PasoQuantum ==
    ASSUME OperadorEspera = TRUE, "FINALIZAR_PROCESO" \notin Comandos,
           DespachoOportuno = TRUE, SinSleepTrasResize
    PROVE  InductivoQuantum /\ [Next]_vars => InductivoQuantum'
<1> SUFFICES ASSUME InductivoQuantum, [Next]_vars
             PROVE  Quantum'
  BY PasoAvisos DEF InductivoQuantum
<1>1. /\ Inductivo /\ Orden(k, {}) /\ k \in EstadoKernel
      /\ Control /\ Avisos /\ Quantum
  BY DEF InductivoQuantum, InductivoAvisos, InductivoControl, InductivoCoherente,
         Coherencia, Coherente, Inductivo, TypeOK
<1>2. CASE PasoKernel
  BY <1>1, <1>2, KernelQuantum
<1>3. CASE PasoCpu
  BY <1>1, <1>3, CpuQuantum
<1>4. CASE PasoMemoria \/ PasoInterfaz \/ UNCHANGED vars
  <2>1. UNCHANGED <<cpu, interrupt, dispatch>>
    BY <1>4 DEF PasoMemoria, MemoriaKernel, MemoriaProximaInstruccion, MemoriaResize,
         PasoInterfaz, InterfazRecibe, InterfazVence, InterfazAvisa, vars
  <2>2. /\ k'.cola = k.cola /\ k'.timer = k.timer /\ k'.caido = k.caido
        /\ k'.a_cpu = k.a_cpu /\ k'.a_interrupt = k.a_interrupt
    <3>1. CASE MemoriaKernel
      BY <1>1, <3>1, Zenon DEF MemoriaKernel, EstadoKernel
    <3>2. CASE \E i \in Interfaces : InterfazRecibe(i)
      BY <1>1, <3>2, Zenon DEF InterfazRecibe, EstadoKernel
    <3>3. CASE \/ MemoriaProximaInstruccion \/ MemoriaResize
               \/ (\E i \in Interfaces : InterfazVence(i) \/ InterfazAvisa(i))
               \/ UNCHANGED vars
      BY <3>3 DEF MemoriaProximaInstruccion, MemoriaResize, InterfazVence, InterfazAvisa, vars
    <3> QED
      BY <1>4, <3>1, <3>2, <3>3 DEF PasoMemoria, PasoInterfaz
  <2> QED
    BY <1>1, <2>1, <2>2 DEF Quantum
<1> QED
  BY <1>2, <1>3, <1>4 DEF Next

\* EXEC and the sockets are empty when the kernel starts.
LEMMA InicioQuantum == Init => InductivoQuantum
<1> SUFFICES ASSUME Init
             PROVE  InductivoQuantum
  OBVIOUS
<1>1. /\ k = KernelInicial /\ dispatch = << >> /\ interrupt = << >>
      /\ pedidos = << >> /\ entregas = << >> /\ InductivoControl
  BY InicioCoherencia, InicioControl DEF Init, InitKernel, InductivoControl
<1>2. k.cola["EXEC"] = << >>
  BY <1>1 DEF KernelInicial, Colas
<1>3. entregas \in Seq(EntregaDelGuion)
  BY <1>1, EmptySeq
<1>4. DOMAIN dispatch = {}
  BY <1>1
<1> QED
  BY <1>1, <1>2, <1>3, <1>4 DEF InductivoQuantum, InductivoAvisos, Quantum, Avisos

\* Under RR and VRR a process in EXEC always has something that will end its
\* turn, if nobody is killed, the CPU reads a dispatched process before its
\* quantum ends, and no script sleeps after a RESIZE.  Without the last, the
\* notice of the RESIZE may be read when its process has left EXEC, and
\* CPU_KERNEL_RESIZE deletes the timer of whoever is there.
THEOREM Con_Quantum ==
    ASSUME OperadorEspera = TRUE, "FINALIZAR_PROCESO" \notin Comandos,
           DespachoOportuno = TRUE, SinSleepTrasResize
    PROVE  Spec => []ConQuantum
<1>1. Init => InductivoQuantum
  BY InicioQuantum
<1>2. InductivoQuantum /\ [Next]_vars => InductivoQuantum'
  BY PasoQuantum
<1>3. InductivoQuantum => ConQuantum
  <2> SUFFICES ASSUME InductivoQuantum, Algoritmo # "FIFO", ~ k.caido, k.cola["EXEC"] # << >>
               PROVE  FinDeTurnoPendiente
    BY DEF ConQuantum
  <2>1. Vuelta(dispatch) => Devoluciones(dispatch) > 0
    BY DevolucionesUna DEF InductivoQuantum, InductivoAvisos, InductivoControl, InductivoCoherente
  <2> QED
    BY <2>1 DEF InductivoQuantum, Quantum, FinDeTurnoPendiente
<1> QED
  BY <1>1, <1>2, <1>3, PTL DEF Spec
=============================================================================
