---------------------------- MODULE OrdenPruebas ----------------------------
EXTENDS KernelPruebas

\* What every handler of the kernel does to the table of processes: the lists
\* and the dictionary stay in agreement, a process that ended stays so, and
\* memoria is told of whoever ends.  SistemaPruebas applies these lemmas to
\* the actions.

\* Between two functions of a handler the lists and the dictionary agree, but
\* for the processes of X, which exec_exit or block_exit has put in EXIT and
\* proceso_matar has not taken out yet.
Orden(s, X) ==
    /\ EnTurno(s)
    /\ \A e \in Colas : IsInjective(s.cola[e])
    /\ \A e \in Colas \ {"EXIT"}, q \in Pids : Esta(s, e, q) <=> s.procesos[q] = e
    /\ Range(s.cola["EXIT"]) = X
    /\ \A q \in X : s.procesos[q] = "EXIT"
    /\ Algoritmo # "VRR" => s.cola["READY_PRIORIDAD"] = << >>

\* A function that leaves alone the lists, the dictionary and what memoria is
\* told.
Quieto(s, t) ==
    /\ t.cola = s.cola /\ t.procesos = s.procesos /\ t.a_memoria = s.a_memoria
    /\ t.pid = s.pid /\ t.detener = s.detener
    /\ s.caido => t.caido
    /\ t.planificador_iniciar >= s.planificador_iniciar
    /\ \A q \in Pids : t.pcb[q].memoria_aceptado = s.pcb[q].memoria_aceptado

\* The functions that only touch the semaphore, the timer, the sockets, the
\* resources or the interfaces.
LEMMA QuietoSimple ==
    ASSUME NEW s \in EstadoKernel, NEW p \in Pids
    PROVE  /\ Quieto(s, s)
           /\ Quieto(s, Caer(s))
           /\ Quieto(s, Avisar(s))
           /\ Quieto(s, EnviarEjecutar(s, p))
           /\ Quieto(s, InterrumpirCpu(s, p))
           /\ Quieto(s, IniciarTemporizador(s))
           /\ Quieto(s, InterrumpirTemporizador(s))
<1>1. s.planificador_iniciar \in Nat
  BY Zenon DEF EstadoKernel
<1>2. Quieto(s, s)
  BY <1>1 DEF Quieto
<1>3. Quieto(s, Caer(s))
  <2> DEFINE t == Caer(s)
  <2>1. /\ t.cola = s.cola /\ t.procesos = s.procesos /\ t.a_memoria = s.a_memoria
        /\ t.pid = s.pid /\ t.detener = s.detener /\ t.caido = TRUE /\ t.pcb = s.pcb
        /\ t.planificador_iniciar = s.planificador_iniciar
    BY Zenon DEF EstadoKernel, Caer
  <2> QED
    BY <2>1, <1>1 DEF Quieto
<1>4. Quieto(s, Avisar(s))
  <2> DEFINE t == Avisar(s)
  <2>1. /\ t.cola = s.cola /\ t.procesos = s.procesos /\ t.a_memoria = s.a_memoria
        /\ t.pid = s.pid /\ t.detener = s.detener /\ t.caido = s.caido /\ t.pcb = s.pcb
        /\ t.planificador_iniciar = s.planificador_iniciar + 1
    BY Zenon DEF EstadoKernel, Avisar
  <2> QED
    BY <2>1, <1>1 DEF Quieto
<1>5. Quieto(s, EnviarEjecutar(s, p))
  <2> DEFINE t == EnviarEjecutar(s, p)
  <2>1. /\ t.cola = s.cola /\ t.procesos = s.procesos /\ t.a_memoria = s.a_memoria
        /\ t.pid = s.pid /\ t.detener = s.detener /\ t.caido = s.caido /\ t.pcb = s.pcb
        /\ t.planificador_iniciar = s.planificador_iniciar
    BY Zenon DEF EstadoKernel, EnviarEjecutar
  <2> QED
    BY <2>1, <1>1 DEF Quieto
<1>6. Quieto(s, InterrumpirCpu(s, p))
  <2> DEFINE t == InterrumpirCpu(s, p)
  <2>1. /\ t.cola = s.cola /\ t.procesos = s.procesos /\ t.a_memoria = s.a_memoria
        /\ t.pid = s.pid /\ t.detener = s.detener /\ t.caido = s.caido /\ t.pcb = s.pcb
        /\ t.planificador_iniciar = s.planificador_iniciar
    BY Zenon DEF EstadoKernel, InterrumpirCpu
  <2> QED
    BY <2>1, <1>1 DEF Quieto
<1>7. Quieto(s, IniciarTemporizador(s))
  <2> DEFINE t == IniciarTemporizador(s)
  <2>1. /\ t.cola = s.cola /\ t.procesos = s.procesos /\ t.a_memoria = s.a_memoria
        /\ t.pid = s.pid /\ t.detener = s.detener /\ t.caido = s.caido /\ t.pcb = s.pcb
        /\ t.planificador_iniciar = s.planificador_iniciar
    BY Zenon DEF EstadoKernel, IniciarTemporizador
  <2> QED
    BY <2>1, <1>1 DEF Quieto
<1>8. Quieto(s, InterrumpirTemporizador(s))
  <2> DEFINE t == [s EXCEPT !.timer.armado = FALSE]
  <2>1. /\ t.cola = s.cola /\ t.procesos = s.procesos /\ t.a_memoria = s.a_memoria
        /\ t.pid = s.pid /\ t.detener = s.detener /\ t.caido = s.caido /\ t.pcb = s.pcb
        /\ t.planificador_iniciar = s.planificador_iniciar
    BY Zenon DEF EstadoKernel
  <2>2. Quieto(s, t)
    BY <2>1, <1>1 DEF Quieto
  <2>3. InterrumpirTemporizador(s) = s \/ InterrumpirTemporizador(s) = t
    BY DEF InterrumpirTemporizador
  <2> QED
    BY <2>2, <2>3, <1>2
<1> QED
  BY <1>2, <1>3, <1>4, <1>5, <1>6, <1>7, <1>8

\* Two quiet functions one after the other.
LEMMA QuietoTransitivo ==
    ASSUME NEW s \in EstadoKernel, NEW t \in EstadoKernel, NEW u \in EstadoKernel,
           Quieto(s, t), Quieto(t, u)
    PROVE  Quieto(s, u)
<1>1. /\ s.planificador_iniciar \in Nat /\ t.planificador_iniciar \in Nat
      /\ u.planificador_iniciar \in Nat
  BY Zenon DEF EstadoKernel
<1> QED
  BY <1>1 DEF Quieto

\* Writing anything in a PCB but memoria_aceptado.
LEMMA QuietoPcb ==
    ASSUME NEW s \in EstadoKernel, NEW p \in Pids, NEW x,
           x.memoria_aceptado = s.pcb[p].memoria_aceptado
    PROVE  Quieto(s, [s EXCEPT !.pcb[p] = x])
<1> DEFINE t == [s EXCEPT !.pcb[p] = x]
<1>1. /\ t.cola = s.cola /\ t.procesos = s.procesos /\ t.a_memoria = s.a_memoria
      /\ t.pid = s.pid /\ t.detener = s.detener /\ t.caido = s.caido
      /\ t.planificador_iniciar = s.planificador_iniciar
      /\ t.pcb = [s.pcb EXCEPT ![p] = x]
      /\ s.pcb \in [Pids -> Pcb] /\ s.planificador_iniciar \in Nat
  BY Zenon DEF EstadoKernel
<1> HIDE DEF t
<1>2. \A q \in Pids : t.pcb[q].memoria_aceptado = s.pcb[q].memoria_aceptado
  BY <1>1
<1>3. Quieto(s, t)
  BY <1>1, <1>2 DEF Quieto
<1> QED
  BY <1>3 DEF t

\* Writing the resources, the interfaces or the sockets of the interfaces.
LEMMA QuietoRecursos ==
    ASSUME NEW s \in EstadoKernel, NEW x
    PROVE  /\ Quieto(s, [s EXCEPT !.recursos = x])
           /\ Quieto(s, [s EXCEPT !.io = x])
           /\ Quieto(s, [s EXCEPT !.a_io = x])
<1>1. Quieto(s, [s EXCEPT !.recursos = x])
  <2> DEFINE t == [s EXCEPT !.recursos = x]
  <2>1. /\ t.cola = s.cola /\ t.procesos = s.procesos /\ t.a_memoria = s.a_memoria
        /\ t.pid = s.pid /\ t.detener = s.detener /\ t.caido = s.caido
        /\ t.planificador_iniciar = s.planificador_iniciar
        /\ t.pcb = s.pcb /\ s.planificador_iniciar \in Nat
    BY Zenon DEF EstadoKernel
  <2> QED
    BY <2>1 DEF Quieto
<1>2. Quieto(s, [s EXCEPT !.io = x])
  <2> DEFINE t == [s EXCEPT !.io = x]
  <2>1. /\ t.cola = s.cola /\ t.procesos = s.procesos /\ t.a_memoria = s.a_memoria
        /\ t.pid = s.pid /\ t.detener = s.detener /\ t.caido = s.caido
        /\ t.planificador_iniciar = s.planificador_iniciar
        /\ t.pcb = s.pcb /\ s.planificador_iniciar \in Nat
    BY Zenon DEF EstadoKernel
  <2> QED
    BY <2>1 DEF Quieto
<1>3. Quieto(s, [s EXCEPT !.a_io = x])
  <2> DEFINE t == [s EXCEPT !.a_io = x]
  <2>1. /\ t.cola = s.cola /\ t.procesos = s.procesos /\ t.a_memoria = s.a_memoria
        /\ t.pid = s.pid /\ t.detener = s.detener /\ t.caido = s.caido
        /\ t.planificador_iniciar = s.planificador_iniciar
        /\ t.pcb = s.pcb /\ s.planificador_iniciar \in Nat
    BY Zenon DEF EstadoKernel
  <2> QED
    BY <2>1 DEF Quieto
<1> QED
  BY <1>1, <1>2, <1>3

\* What the handlers write in the PCB of the process they attend.
LEMMA QuietoCampos ==
    ASSUME NEW s \in EstadoKernel, NEW p \in Pids, NEW v
    PROVE  /\ Quieto(s, [s EXCEPT !.pcb[p].pc = v])
           /\ Quieto(s, [s EXCEPT !.pcb[p].quantum_largo = v])
           /\ Quieto(s, [s EXCEPT !.pcb[p].proxima_io = v])
           /\ Quieto(s, [s EXCEPT !.pcb[p].claves_tomados = v])
           /\ Quieto(s, [s EXCEPT !.pcb[p].recursos_tomados = v])
<1>1. s.pcb[p] \in Pcb
  BY PcbTipo
<1> DEFINE x == s.pcb[p]
<1>2. /\ [x EXCEPT !.pc = v].memoria_aceptado = x.memoria_aceptado
      /\ [x EXCEPT !.quantum_largo = v].memoria_aceptado = x.memoria_aceptado
      /\ [x EXCEPT !.proxima_io = v].memoria_aceptado = x.memoria_aceptado
      /\ [x EXCEPT !.claves_tomados = v].memoria_aceptado = x.memoria_aceptado
      /\ [x EXCEPT !.recursos_tomados = v].memoria_aceptado = x.memoria_aceptado
  BY <1>1 DEF Pcb
<1>3. Quieto(s, [s EXCEPT !.pcb[p].pc = v])
  <2>1. [s EXCEPT !.pcb[p].pc = v] = [s EXCEPT !.pcb[p] = [x EXCEPT !.pc = v]]
    OBVIOUS
  <2> QED
    BY <2>1, <1>2, QuietoPcb
<1>4. Quieto(s, [s EXCEPT !.pcb[p].quantum_largo = v])
  <2>1. [s EXCEPT !.pcb[p].quantum_largo = v] = [s EXCEPT !.pcb[p] = [x EXCEPT !.quantum_largo = v]]
    OBVIOUS
  <2> QED
    BY <2>1, <1>2, QuietoPcb
<1>5. Quieto(s, [s EXCEPT !.pcb[p].proxima_io = v])
  <2>1. [s EXCEPT !.pcb[p].proxima_io = v] = [s EXCEPT !.pcb[p] = [x EXCEPT !.proxima_io = v]]
    OBVIOUS
  <2> QED
    BY <2>1, <1>2, QuietoPcb
<1>6. Quieto(s, [s EXCEPT !.pcb[p].claves_tomados = v])
  <2>1. [s EXCEPT !.pcb[p].claves_tomados = v] = [s EXCEPT !.pcb[p] = [x EXCEPT !.claves_tomados = v]]
    OBVIOUS
  <2> QED
    BY <2>1, <1>2, QuietoPcb
<1>7. Quieto(s, [s EXCEPT !.pcb[p].recursos_tomados = v])
  <2>1. [s EXCEPT !.pcb[p].recursos_tomados = v] = [s EXCEPT !.pcb[p] = [x EXCEPT !.recursos_tomados = v]]
    OBVIOUS
  <2> QED
    BY <2>1, <1>2, QuietoPcb
<1> QED
  BY <1>3, <1>4, <1>5, <1>6, <1>7

\* WAIT and SIGNAL count instances in the PCB and in the resource.
LEMMA QuietoTomar ==
    ASSUME NEW s \in EstadoKernel, NEW p \in Pids, NEW r \in Recursos
    PROVE  /\ Quieto(s, Tomar(s, p, r))
           /\ Quieto(s, Devolver(s, p, r))
           /\ Quieto(s, Liberar(s, p, r))
           /\ Quieto(s, SinCabeza(s, r))
<1>1. s.pcb[p] \in Pcb
  BY PcbTipo
<1>2. Quieto(s, Tomar(s, p, r))
  <2> DEFINE claves == s.pcb[p].claves_tomados \cup {r}
             tomados == [s.pcb[p].recursos_tomados EXCEPT ![r] = @ + 1]
             t == [s EXCEPT !.pcb[p].claves_tomados = claves]
             u == [t EXCEPT !.pcb[p].recursos_tomados = tomados]
  <2>1. Quieto(s, t)
    BY QuietoCampos
  <2>2. t \in EstadoKernel
    <3>1. claves \in SUBSET Recursos
      BY <1>1 DEF Pcb
    <3>2. [s.pcb[p] EXCEPT !.claves_tomados = claves] \in Pcb
      BY <1>1, <3>1, PcbCampos
    <3>3. t = [s EXCEPT !.pcb[p] = [s.pcb[p] EXCEPT !.claves_tomados = claves]]
      OBVIOUS
    <3> QED
      BY <3>2, <3>3, ConPcb, Tipado
  <2> HIDE DEF tomados
  <2>3. Quieto(t, u)
    BY <2>2, QuietoCampos
  <2>4. Tomar(s, p, r) = u
    <3>1. s.pcb \in [Pids -> Pcb]
      BY Zenon DEF EstadoKernel
    <3> QED
      BY <1>1, <3>1 DEF Tomar, EstadoKernel, Pcb, tomados
  <2>5. u \in EstadoKernel
    BY <2>4, TomarConserva, Tipado
  <2> QED
    BY <2>1, <2>2, <2>3, <2>4, <2>5, QuietoTransitivo
<1>3. Quieto(s, Devolver(s, p, r))
  <2>1. Quieto(s, [s EXCEPT !.pcb[p].recursos_tomados =
                              [s.pcb[p].recursos_tomados EXCEPT ![r] = @ - 1]])
    BY QuietoCampos
  <2>2. Quieto(s, s)
    BY QuietoSimple
  <2> QED
    BY <2>1, <2>2 DEF Devolver
<1>4. Quieto(s, Liberar(s, p, r))
  <2> DEFINE t == Devolver(s, p, r)
             u == [t EXCEPT !.recursos = [t.recursos EXCEPT ![r].instancias = @ + 1]]
  <2>1. t \in EstadoKernel
    BY DevolverConserva, Tipado
  <2> HIDE DEF t
  <2>2. Quieto(t, u)
    BY <2>1, QuietoRecursos
  <2>3. Liberar(s, p, r) = u
    BY DEF Liberar, t
  <2>4. u \in EstadoKernel
    BY <2>3, LiberarConserva, Tipado
  <2> QED
    BY <1>3, <2>1, <2>2, <2>3, <2>4, QuietoTransitivo DEF t
<1>5. Quieto(s, SinCabeza(s, r))
  <2>1. SinCabeza(s, r) = [s EXCEPT !.recursos =
                              [s.recursos EXCEPT ![r].bloqueados = Tail(@)]]
    BY DEF SinCabeza
  <2> QED
    BY <2>1, QuietoRecursos
<1> QED
  BY <1>2, <1>3, <1>4, <1>5

\* Saving the registers and the quantum, and arming the timer of a turn.
LEMMA QuietoGuardar ==
    ASSUME NEW s \in EstadoKernel, NEW p \in Pids
    PROVE  /\ \A pc : Quieto(s, ActualizarRegistros(s, p, pc))
           /\ \A resto \in BOOLEAN : Quieto(s, GuardarQuantum(s, p, resto))
           /\ \A q : Quieto(s, Desalojar(s, q))
<1>1. ASSUME NEW resto \in BOOLEAN
      PROVE  Quieto(s, GuardarQuantum(s, p, resto))
  <2> DEFINE t == InterrumpirTemporizador(s)
             u == [t EXCEPT !.pcb[p].quantum_largo = QuantumRestante(s, resto)]
  <2>1. t \in EstadoKernel /\ Quieto(s, t)
    BY InterrumpirTemporizadorConserva, Tipado, QuietoSimple
  <2> HIDE DEF t
  <2>2. Quieto(t, u)
    BY <2>1, QuietoCampos
  <2>3. GuardarQuantum(s, p, resto) = u
    BY DEF GuardarQuantum, t
  <2>4. u \in EstadoKernel
    BY <2>3, GuardarQuantumConserva, Tipado
  <2> QED
    BY <2>1, <2>2, <2>3, <2>4, QuietoTransitivo
<1>2. \A pc : Quieto(s, ActualizarRegistros(s, p, pc))
  BY QuietoCampos DEF ActualizarRegistros
<1>3. \A q : Quieto(s, Desalojar(s, q))
  BY QuietoSimple DEF Desalojar
<1> QED
  BY <1>1, <1>2, <1>3

\* The requests of the interfaces: the one that is sent, and those that the
\* end of another lets go.
LEMMA QuietoIo ==
    ASSUME NEW s \in EstadoKernel, NEW i \in Interfaces
    PROVE  /\ \A op, p : Quieto(s, EnviarIo(s, i, op, p))
           /\ \A x : Quieto(s, [s EXCEPT !.io[i] = x])
           /\ Quieto(s, ProximoIoGeneric(s, i))
<1>1. ASSUME NEW op, NEW p
      PROVE  Quieto(s, EnviarIo(s, i, op, p))
  <2>1. EnviarIo(s, i, op, p) =
          [s EXCEPT !.a_io = [s.a_io EXCEPT ![i] = Append(@, [op |-> op, pid |-> p])]]
    BY DEF EnviarIo
  <2> QED
    BY <2>1, QuietoRecursos
<1>2. ASSUME NEW x
      PROVE  Quieto(s, [s EXCEPT !.io[i] = x])
  <2>1. [s EXCEPT !.io[i] = x] = [s EXCEPT !.io = [s.io EXCEPT ![i] = x]]
    OBVIOUS
  <2> QED
    BY <2>1, QuietoRecursos
<1>3. Quieto(s, ProximoIoGeneric(s, i))
  <2> DEFINE t == ProximoIoGeneric(s, i)
             E == EsperanInterfaz(s, i)
             pcbs == [p \in Pids |-> IF p \in E THEN [s.pcb[p] EXCEPT !.proxima_io = SinIo]
                                     ELSE s.pcb[p]]
  <2>1. CASE t = s
    BY <2>1, QuietoSimple, LimitesAssumption DEF Quieto, EstadoKernel
  <2>2. CASE t # s
    <3>1. /\ t.cola = s.cola /\ t.procesos = s.procesos /\ t.a_memoria = s.a_memoria
          /\ t.pid = s.pid /\ t.detener = s.detener /\ t.caido = s.caido
          /\ t.planificador_iniciar = s.planificador_iniciar
          /\ t.pcb = pcbs
      BY <2>2, Zenon DEF EstadoKernel, ProximoIoGeneric
    <3> HIDE DEF E, t
    <3>2. ASSUME NEW q \in Pids
          PROVE  t.pcb[q].memoria_aceptado = s.pcb[q].memoria_aceptado
      <4>1. s.pcb[q] \in Pcb
        BY PcbTipo
      <4>2. [s.pcb[q] EXCEPT !.proxima_io = SinIo].memoria_aceptado = s.pcb[q].memoria_aceptado
        BY <4>1 DEF Pcb
      <4> QED
        BY <3>1, <4>2
    <3>3. s.planificador_iniciar \in Nat
      BY Zenon DEF EstadoKernel
    <3>4. Quieto(s, t)
      BY <3>1, <3>2, <3>3 DEF Quieto
    <3> QED
      BY <3>4 DEF t
  <2> QED
    BY <2>1, <2>2
<1> QED
  BY <1>1, <1>2, <1>3

-----------------------------------------------------------------------------

\* The notice of the end of process p.
Fin(p) == [op |-> "FINALIZAR_PROCESO", pid |-> p]

\* What a handler may do to the life of the processes, when it may end those of
\* P: none is created or reverted, none that ended comes back, only what
\* memoria accepted leaves NEW, memoria is told of ends of P, and no token of the
\* planner is taken.
Sigue(s, t, P) ==
    /\ t.pid = s.pid /\ t.detener = s.detener
    /\ s.caido => t.caido
    /\ t.planificador_iniciar >= s.planificador_iniciar
    /\ \A q \in Pids :
          /\ t.procesos[q] = SinEstado <=> s.procesos[q] = SinEstado
          /\ s.procesos[q] = "EXIT" => t.procesos[q] = "EXIT"
          /\ t.procesos[q] = "NEW" => s.procesos[q] = "NEW"
          /\ s.procesos[q] = "NEW" =>
                t.procesos[q] \in {"NEW", "EXIT"} \/ s.pcb[q].memoria_aceptado
          /\ t.procesos[q] = "EXIT" => s.procesos[q] = "EXIT" \/ q \in P
          /\ t.procesos[q] # "EXIT" =>
                t.pcb[q].memoria_aceptado = s.pcb[q].memoria_aceptado
    /\ Len(t.a_memoria) >= Len(s.a_memoria)
    /\ \A n \in 1 .. Len(s.a_memoria) : t.a_memoria[n] = s.a_memoria[n]
    /\ \A n \in 1 .. Len(t.a_memoria) :
          n > Len(s.a_memoria) => \E q \in P : t.a_memoria[n] = Fin(q)

\* The messages to memoria have a length.
LEMMA AMemoriaLargo ==
    ASSUME NEW s \in EstadoKernel
    PROVE  Len(s.a_memoria) \in Nat /\ DOMAIN s.a_memoria = 1 .. Len(s.a_memoria)
<1>1. s.a_memoria \in Seq([op : {"NUEVO_PROCESO", "FINALIZAR_PROCESO"}, pid : Pids])
  BY Zenon DEF EstadoKernel
<1> QED
  BY <1>1, LenProperties

\* The value of the semaphore of the planner.
LEMMA SemaforoTipo ==
    ASSUME NEW s \in EstadoKernel
    PROVE  s.planificador_iniciar \in Nat
BY Zenon DEF EstadoKernel

\* A quiet function ends nobody, and keeps the agreement.
LEMMA QuietoSigue ==
    ASSUME NEW s \in EstadoKernel, NEW t \in EstadoKernel, Quieto(s, t), NEW P
    PROVE  /\ Sigue(s, t, P)
           /\ \A X : Orden(s, X) => Orden(t, X)
<1>1. Len(s.a_memoria) \in Nat
  BY AMemoriaLargo
<1>2. Sigue(s, t, P)
  BY <1>1 DEF Quieto, Sigue
<1>3. ASSUME NEW X, Orden(s, X)
      PROVE  Orden(t, X)
  <2>1. t.cola = s.cola /\ t.procesos = s.procesos
    BY DEF Quieto
  <2>2. EnTurno(t)
    BY <2>1, <1>3 DEF Orden, EnTurno
  <2> QED
    BY <2>1, <2>2, <1>3 DEF Orden, Esta
<1> QED
  BY <1>2, <1>3

\* Two steps of a handler, one after the other.
LEMMA SigueTransitivo ==
    ASSUME NEW s \in EstadoKernel, NEW t \in EstadoKernel, NEW u \in EstadoKernel,
           NEW P, Sigue(s, t, P), Sigue(t, u, P)
    PROVE  Sigue(s, u, P)
<1>1. /\ Len(s.a_memoria) \in Nat /\ Len(t.a_memoria) \in Nat /\ Len(u.a_memoria) \in Nat
  BY AMemoriaLargo
<1>2. ASSUME NEW q \in Pids
      PROVE  /\ u.procesos[q] = SinEstado <=> s.procesos[q] = SinEstado
             /\ s.procesos[q] = "EXIT" => u.procesos[q] = "EXIT"
             /\ u.procesos[q] = "NEW" => s.procesos[q] = "NEW"
             /\ s.procesos[q] = "NEW" =>
                   u.procesos[q] \in {"NEW", "EXIT"} \/ s.pcb[q].memoria_aceptado
             /\ u.procesos[q] = "EXIT" => s.procesos[q] = "EXIT" \/ q \in P
             /\ u.procesos[q] # "EXIT" =>
                   u.pcb[q].memoria_aceptado = s.pcb[q].memoria_aceptado
  BY DEF Sigue
<1>3. /\ Len(u.a_memoria) >= Len(s.a_memoria)
      /\ \A n \in 1 .. Len(s.a_memoria) : u.a_memoria[n] = s.a_memoria[n]
  BY <1>1 DEF Sigue
<1>4. ASSUME NEW n \in 1 .. Len(u.a_memoria), n > Len(s.a_memoria)
      PROVE  \E q \in P : u.a_memoria[n] = Fin(q)
  <2>1. CASE n > Len(t.a_memoria)
    BY <2>1 DEF Sigue
  <2>2. CASE ~ (n > Len(t.a_memoria))
    <3>1. n \in 1 .. Len(t.a_memoria)
      BY <2>2, <1>1
    <3> QED
      BY <3>1, <1>4 DEF Sigue
  <2> QED
    BY <2>1, <2>2
<1>5. /\ u.pid = s.pid /\ u.detener = s.detener /\ (s.caido => u.caido)
      /\ u.planificador_iniciar >= s.planificador_iniciar
  BY SemaforoTipo DEF Sigue
<1> QED
  BY <1>2, <1>3, <1>4, <1>5 DEF Sigue

\* Whoever may end fewer may end more.
LEMMA SigueMas ==
    ASSUME NEW s, NEW t, NEW P, NEW Q, P \subseteq Q, Sigue(s, t, P)
    PROVE  Sigue(s, t, Q)
BY DEF Sigue

-----------------------------------------------------------------------------

\* Process p goes from list e to the end of list f, and nothing else changes.
Traslado(s, t, p, e, f) ==
    /\ e \in Colas \ {"NEW", "EXIT"} /\ f \in Colas \ {"NEW"} /\ e # f
    /\ p \in Range(s.cola[e])
    /\ \A g \in Colas \ {e, f} : t.cola[g] = s.cola[g]
    /\ Range(t.cola[e]) = Range(s.cola[e]) \ {p} /\ IsInjective(t.cola[e])
    /\ t.cola[f] = Append(s.cola[f], p)
    /\ t.procesos = [s.procesos EXCEPT ![p] = f]
    /\ t.a_memoria = s.a_memoria /\ t.pid = s.pid /\ t.detener = s.detener
    /\ t.caido = s.caido /\ t.pcb = s.pcb
    /\ t.planificador_iniciar = s.planificador_iniciar

\* The processes in EXIT while p is also there, if that is where it went.
Salidos(X, p, f) == IF f = "EXIT" THEN X \cup {p} ELSE X

\* A move from a list to another keeps the agreement, and ends a process only
\* when it goes to EXIT.
LEMMA TrasladoOrden ==
    ASSUME NEW s, NEW X, Orden(s, X), NEW t, EnTurno(t), NEW p, NEW e, NEW f,
           Traslado(s, t, p, e, f),
           f = "READY_PRIORIDAD" => Algoritmo = "VRR"
    PROVE  /\ Orden(t, Salidos(X, p, f))
           /\ Sigue(s, t, Salidos({}, p, f))
<1>1. s \in EstadoKernel /\ t \in EstadoKernel
  BY DEF Orden, EnTurno
<1>2. e \in Colas /\ f \in Colas /\ p \in Pids
  BY <1>1, ColaTipo, RangoTipo DEF Traslado
<1>3. s.procesos[p] = e
  BY <1>2 DEF Traslado, Orden, Esta
<1>4. \A g \in Colas : p \in Range(s.cola[g]) => g = e
  <2>1. ASSUME NEW g \in Colas, g # "EXIT", p \in Range(s.cola[g])
        PROVE  g = e
    BY <2>1, <1>2, <1>3 DEF Orden, Esta
  <2>2. p \notin Range(s.cola["EXIT"])
    BY <1>3 DEF Orden, Traslado
  <2> QED
    BY <2>1, <2>2
<1>5. /\ Range(t.cola[f]) = Range(s.cola[f]) \cup {p}
      /\ IsInjective(t.cola[f])
  BY <1>1, <1>2, <1>4, ColaTipo, RangoAppend DEF Traslado, Orden
<1>6. /\ t.procesos[p] = f
      /\ \A q \in Pids : q # p => t.procesos[q] = s.procesos[q]
  <2>1. s.procesos \in [Pids -> Colas \cup {SinEstado}]
    BY <1>1, Zenon DEF EstadoKernel
  <2> QED
    BY <2>1, <1>2 DEF Traslado
<1>7. \A g \in Colas : IsInjective(t.cola[g])
  BY <1>5 DEF Traslado, Orden
<1>8. ASSUME NEW g \in Colas \ {"EXIT"}, NEW q \in Pids
      PROVE  Esta(t, g, q) <=> t.procesos[q] = g
  <2>1. Esta(s, g, q) <=> s.procesos[q] = g
    BY DEF Orden
  <2>2. CASE g = e
    BY <2>1, <2>2, <1>3, <1>6 DEF Traslado, Esta
  <2>3. CASE g = f
    BY <2>1, <2>3, <1>3, <1>5, <1>6 DEF Traslado, Esta
  <2>4. CASE g \notin {e, f}
    BY <2>1, <2>4, <1>3, <1>6 DEF Traslado, Esta
  <2> QED
    BY <2>2, <2>3, <2>4
<1>9. Range(t.cola["EXIT"]) = Salidos(X, p, f)
  <2>1. CASE f = "EXIT"
    BY <2>1, <1>5 DEF Orden, Salidos
  <2>2. CASE f # "EXIT"
    <3>1. "EXIT" \in Colas \ {e, f}
      BY <2>2 DEF Traslado, Colas
    <3> QED
      BY <2>2, <3>1 DEF Traslado, Orden, Salidos
  <2> QED
    BY <2>1, <2>2
<1>10. \A q \in Salidos(X, p, f) : t.procesos[q] = "EXIT"
  <2>1. \A q \in X : q # p /\ q \in Pids /\ s.procesos[q] = "EXIT"
    <3>1. Range(s.cola["EXIT"]) \subseteq Pids
      BY <1>1, ColaTipo, RangoTipo DEF Colas
    <3> QED
      BY <3>1, <1>3 DEF Orden, Traslado
  <2> QED
    BY <2>1, <1>6 DEF Salidos
<1>11. Algoritmo # "VRR" => t.cola["READY_PRIORIDAD"] = << >>
  <2> SUFFICES ASSUME Algoritmo # "VRR"
               PROVE  t.cola["READY_PRIORIDAD"] = << >>
    OBVIOUS
  <2>1. s.cola["READY_PRIORIDAD"] = << >>
    BY DEF Orden
  <2>2. Range(s.cola["READY_PRIORIDAD"]) = {}
    BY <2>1 DEF Range
  <2>3. "READY_PRIORIDAD" \in Colas \ {e, f}
    BY <2>2 DEF Traslado, Colas
  <2> QED
    BY <2>1, <2>3 DEF Traslado
<1>12. Orden(t, Salidos(X, p, f))
  BY <1>7, <1>8, <1>9, <1>10, <1>11 DEF Orden
<1>13. Sigue(s, t, Salidos({}, p, f))
  <2>1. Len(s.a_memoria) \in Nat
    BY <1>1, AMemoriaLargo
  <2>2. e \notin {"NEW", "EXIT", SinEstado} /\ f \notin {"NEW", SinEstado}
    BY DEF Traslado, Colas, SinEstado
  <2>3. f = "EXIT" => p \in Salidos({}, p, f)
    BY DEF Salidos
  <2>4. s.planificador_iniciar \in Nat
    BY <1>1, SemaforoTipo
  <2> QED
    BY <1>2, <1>3, <1>6, <2>1, <2>2, <2>3, <2>4 DEF Sigue, Traslado
<1> QED
  BY <1>12, <1>13

\* proceso_remover_* of p out of list e, and proceso_push_* to list f.
LEMMA EmpujarTraslado ==
    ASSUME NEW s \in EstadoKernel, NEW e \in Colas \ {"NEW", "EXIT"},
           NEW f \in Colas \ {"NEW"}, e # f, NEW p \in Range(s.cola[e]), NEW q,
           Range(q) = Range(s.cola[e]) \ {p}, IsInjective(q)
    PROVE  Traslado(s, Push([s EXCEPT !.cola[e] = q], f, p), p, e, f)
<1> DEFINE t == Push([s EXCEPT !.cola[e] = q], f, p)
<1>1. s.cola \in [Colas -> Seq(Pids)]
  BY Zenon DEF EstadoKernel
<1>2. /\ t.cola = [[s.cola EXCEPT ![e] = q] EXCEPT ![f] = Append(@, p)]
      /\ t.procesos = [s.procesos EXCEPT ![p] = f]
      /\ t.a_memoria = s.a_memoria /\ t.pid = s.pid /\ t.detener = s.detener
      /\ t.caido = s.caido /\ t.pcb = s.pcb
      /\ t.planificador_iniciar = s.planificador_iniciar
  BY Zenon DEF EstadoKernel, Push
<1> HIDE DEF t
<1>3. /\ t.cola[e] = q
      /\ t.cola[f] = Append(s.cola[f], p)
      /\ \A g \in Colas \ {e, f} : t.cola[g] = s.cola[g]
  BY <1>1, <1>2
<1>4. Traslado(s, t, p, e, f)
  BY <1>2, <1>3 DEF Traslado
<1> QED
  BY <1>4 DEF t

\* A transition of transiciones.c from the head of a list.
LEMMA MoverTraslado ==
    ASSUME NEW s \in EstadoKernel, NEW de \in Colas \ {"NEW", "EXIT"},
           NEW a \in Colas \ {"NEW"}, de # a, s.cola[de] # << >>,
           IsInjective(s.cola[de])
    PROVE  /\ Traslado(s, Mover(s, de, a), Head(s.cola[de]), de, a)
           /\ Head(s.cola[de]) \in Range(s.cola[de])
<1>1. s.cola[de] \in Seq(Pids)
  BY ColaTipo
<1>2. /\ Range(Tail(s.cola[de])) = Range(s.cola[de]) \ {Head(s.cola[de])}
      /\ IsInjective(Tail(s.cola[de]))
  BY <1>1, RangoTail
<1>3. Head(s.cola[de]) \in Range(s.cola[de])
  <2>1. Head(s.cola[de]) = s.cola[de][1] /\ 1 \in DOMAIN s.cola[de]
    BY <1>1, EmptySeq, LenProperties
  <2> QED
    BY <2>1 DEF Range
<1> DEFINE q == Tail(s.cola[de])
           p == Head(s.cola[de])
<1>4. Mover(s, de, a) = Push([s EXCEPT !.cola[de] = q], a, p)
  BY DEF Mover, Pop
<1> HIDE DEF q, p
<1>5. Range(q) = Range(s.cola[de]) \ {p} /\ IsInjective(q) /\ p \in Range(s.cola[de])
  BY <1>2, <1>3 DEF q, p
<1>6. Traslado(s, Push([s EXCEPT !.cola[de] = q], a, p), p, de, a)
  BY <1>5, EmpujarTraslado
<1> QED
  BY <1>3, <1>4, <1>6 DEF p

\* A transition out of the middle of BLOCK.
LEMMA BlockTraslado ==
    ASSUME NEW s \in EstadoKernel, NEW p \in Pids, Esta(s, "BLOCK", p),
           NEW a \in Colas \ {"NEW", "BLOCK"}, IsInjective(s.cola["BLOCK"])
    PROVE  Traslado(s, SacarDeBlock(s, p, a), p, "BLOCK", a)
<1>1. "BLOCK" \in Colas \ {"NEW", "EXIT"}
  BY DEF Colas
<1>2. s.cola["BLOCK"] \in Seq(Pids)
  BY <1>1, ColaTipo
<1> DEFINE q == Quitar(s.cola["BLOCK"], p)
<1>3. Range(q) = Range(s.cola["BLOCK"]) \ {p} /\ IsInjective(q)
  BY <1>2, RangoQuitar DEF Esta
<1>4. SacarDeBlock(s, p, a) = Push([s EXCEPT !.cola["BLOCK"] = q], a, p)
  BY DEF SacarDeBlock
<1> HIDE DEF q
<1> QED
  BY <1>1, <1>3, <1>4, EmpujarTraslado DEF Esta

-----------------------------------------------------------------------------

\* A step of a handler that ends nobody.
Continua(s, t, X) == Orden(t, X) /\ Sigue(s, t, {})

\* The agreement includes the type.
LEMMA OrdenTipo ==
    ASSUME NEW s, NEW X, Orden(s, X)
    PROVE  s \in EstadoKernel /\ \A e \in Colas : IsInjective(s.cola[e])
BY DEF Orden, EnTurno

\* A quiet function ends nobody.
LEMMA QuietoContinua ==
    ASSUME NEW s, NEW X, Orden(s, X), NEW t \in EstadoKernel, Quieto(s, t)
    PROVE  Continua(s, t, X)
BY OrdenTipo, QuietoSigue DEF Continua

\* Nothing done ends nobody.
LEMMA MismoContinua ==
    ASSUME NEW s, NEW X, Orden(s, X)
    PROVE  Continua(s, s, X)
<1>1. s \in EstadoKernel /\ 1 \in Pids
  BY OrdenTipo, LimitesAssumption DEF Pids
<1> QED
  BY <1>1, QuietoSimple, QuietoContinua

\* Two steps that end nobody.
LEMMA ContinuaTransitivo ==
    ASSUME NEW s, NEW X, Orden(s, X), NEW t, Continua(s, t, X), NEW u, Continua(t, u, X)
    PROVE  Continua(s, u, X)
BY OrdenTipo, SigueTransitivo DEF Continua

\* The transitions that leave EXEC for READY, READY_PRIORIDAD or BLOCK.
LEMMA MoverContinua ==
    ASSUME NEW s, NEW X, Orden(s, X), NEW a \in {"READY", "READY_PRIORIDAD", "BLOCK"},
           a = "READY_PRIORIDAD" => Algoritmo = "VRR"
    PROVE  Continua(s, Mover(s, "EXEC", a), X)
<1> DEFINE t == Mover(s, "EXEC", a)
<1>1. s \in EstadoKernel /\ a \in Colas \ {"NEW"} /\ "EXEC" \in Colas \ {"NEW", "EXIT"}
  BY OrdenTipo DEF Colas
<1>2. CASE s.cola["EXEC"] = << >>
  BY <1>2, MismoContinua DEF Mover
<1>3. CASE s.cola["EXEC"] # << >>
  <2>1. Traslado(s, t, Head(s.cola["EXEC"]), "EXEC", a)
    BY <1>1, <1>3, OrdenTipo, MoverTraslado
  <2>2. EnTurno(t)
    BY <1>1, MoverConserva, EnTurnoConserva DEF Orden
  <2> HIDE DEF t
  <2>3. \A Y, p : Salidos(Y, p, a) = Y
    BY DEF Salidos
  <2>4. /\ Orden(t, Salidos(X, Head(s.cola["EXEC"]), a))
        /\ Sigue(s, t, Salidos({}, Head(s.cola["EXEC"]), a))
    BY <2>1, <2>2, TrasladoOrden, Zenon
  <2> QED
    BY <2>3, <2>4 DEF Continua, t
<1> QED
  BY <1>2, <1>3

\* A transition out of BLOCK to one of the READY lists.
LEMMA BlockContinua ==
    ASSUME NEW s, NEW X, Orden(s, X), NEW p \in Pids, NEW a \in {"READY", "READY_PRIORIDAD"},
           a = "READY_PRIORIDAD" => Algoritmo = "VRR"
    PROVE  Continua(s, SacarDeBlock(s, p, a), X)
<1> DEFINE t == SacarDeBlock(s, p, a)
<1>1. s \in EstadoKernel /\ a \in Colas \ {"NEW", "BLOCK"} /\ "BLOCK" \in Colas
  BY OrdenTipo DEF Colas
<1>2. CASE ~ Esta(s, "BLOCK", p)
  BY <1>2, MismoContinua DEF SacarDeBlock
<1>3. CASE Esta(s, "BLOCK", p)
  <2>1. Traslado(s, t, p, "BLOCK", a)
    BY <1>1, <1>3, OrdenTipo, BlockTraslado
  <2>2. EnTurno(t)
    BY <1>1, SacarDeBlockConserva, EnTurnoConserva DEF Orden
  <2> HIDE DEF t
  <2>3. \A Y : Salidos(Y, p, a) = Y
    BY DEF Salidos
  <2>4. Orden(t, Salidos(X, p, a)) /\ Sigue(s, t, Salidos({}, p, a))
    BY <2>1, <2>2, TrasladoOrden, Zenon
  <2> QED
    BY <2>3, <2>4 DEF Continua, t
<1> QED
  BY <1>2, <1>3

\* kernel_manejar_ready with EXEC_READY and with BLOCK_READY.
LEMMA ManejarContinua ==
    ASSUME NEW s, NEW X, Orden(s, X), NEW p \in Pids
    PROVE  /\ \A resto \in BOOLEAN : Continua(s, ManejarExecReady(s, p, resto), X)
           /\ Continua(s, ManejarBlockReady(s, p), X)
<1>1. s \in EstadoKernel
  BY OrdenTipo
<1>2. ASSUME NEW resto \in BOOLEAN
      PROVE  Continua(s, ManejarExecReady(s, p, resto), X)
  <2> DEFINE t == InterrumpirTemporizador(s)
             u == [t EXCEPT !.pcb[p].quantum_largo = TRUE]
  <2>1. t \in EstadoKernel /\ Quieto(s, t)
    BY <1>1, InterrumpirTemporizadorConserva, Tipado, QuietoSimple
  <2>2. Continua(s, t, X)
    BY <2>1, QuietoContinua
  <2>3. Continua(t, ExecReady(t), X)
    BY <2>2, MoverContinua DEF ExecReady, Continua
  <2>4. Continua(s, ExecReady(t), X)
    BY <2>2, <2>3, ContinuaTransitivo
  <2>5. Continua(s, ExecReady(s), X)
    BY MoverContinua DEF ExecReady
  <2>6. Continua(s, s, X)
    BY <1>1, QuietoSimple, QuietoContinua
  <2>7. ASSUME Algoritmo = "VRR"
        PROVE  Continua(s, ExecReadyMayorPrioridad(u), X)
    <3> HIDE DEF t
    <3>1. Quieto(t, u)
      BY <2>1, QuietoCampos
    <3>2. u \in EstadoKernel
      <4>1. [t.pcb[p] EXCEPT !.quantum_largo = TRUE] \in Pcb
        BY <2>1, PcbTipo, PcbCampos
      <4>2. u = [t EXCEPT !.pcb[p] = [t.pcb[p] EXCEPT !.quantum_largo = TRUE]]
        OBVIOUS
      <4> QED
        BY <2>1, <4>1, <4>2, ConPcb, Tipado
    <3>3. Continua(t, u, X)
      BY <2>2, <3>1, <3>2, QuietoContinua DEF Continua
    <3> HIDE DEF u
    <3>4. Continua(u, ExecReadyMayorPrioridad(u), X)
      BY <3>3, <2>7, MoverContinua DEF ExecReadyMayorPrioridad, Continua
    <3>5. Continua(t, ExecReadyMayorPrioridad(u), X)
      BY <2>2, <3>3, <3>4, ContinuaTransitivo DEF Continua
    <3> QED
      BY <2>2, <3>5, ContinuaTransitivo
  <2>8. \/ ManejarExecReady(s, p, resto) = s
        \/ ManejarExecReady(s, p, resto) = ExecReady(s)
        \/ ManejarExecReady(s, p, resto) = ExecReady(t)
        \/ Algoritmo = "VRR" /\ ManejarExecReady(s, p, resto) = ExecReadyMayorPrioridad(u)
    BY DEF ManejarExecReady, TienePrioridad
  <2> QED
    BY <2>4, <2>5, <2>6, <2>7, <2>8
<1>3. Continua(s, ManejarBlockReady(s, p), X)
  BY BlockContinua DEF ManejarBlockReady, TienePrioridad, BlockReady, BlockReadyMayorPrioridad
<1> QED
  BY <1>2, <1>3

-----------------------------------------------------------------------------

\* proceso_matar takes the process out of wherever it is, EXIT included, or the
\* kernel falls.
LEMMA MatarOrden ==
    ASSUME NEW s, NEW X, Orden(s, X), NEW p \in Pids
    PROVE  LET t == Matar(s, p)
           IN  /\ Orden(t, X \ {p})
               /\ Sigue(s, t, {p})
               /\ t.a_memoria = s.a_memoria
               /\ t.caido \/ t.procesos[p] = "EXIT"
<1> DEFINE t == Matar(s, p)
           e == s.procesos[p]
<1>1. s \in EstadoKernel /\ t \in EstadoKernel /\ EnTurno(t)
  BY OrdenTipo, MatarConserva, Tipado, EnTurnoConserva DEF Orden
<1>2. Len(s.a_memoria) \in Nat /\ e \in Colas \cup {SinEstado}
  BY <1>1, AMemoriaLargo, PcbTipo
<1>3. e # "EXIT" => p \notin X
  BY DEF Orden
<1>4. CASE e \in {"READY_PRIORIDAD", SinEstado}
  <2>1. t = Caer(s)
    BY <1>4 DEF Matar
  <2>2. Quieto(s, t) /\ t.caido = TRUE
    <3>1. Caer(s).caido = TRUE
      BY <1>1, Zenon DEF EstadoKernel, Caer
    <3> QED
      BY <1>1, <2>1, <3>1, QuietoSimple
  <2>3. X \ {p} = X
    BY <1>3, <1>4 DEF SinEstado
  <2> QED
    BY <1>1, <2>2, <2>3, QuietoSigue DEF Quieto
<1>5. CASE e \notin {"READY_PRIORIDAD", SinEstado} /\ ~ Esta(s, e, p)
  <2>1. t = s
    BY <1>5 DEF Matar
  <2>2. e = "EXIT"
    BY <1>2, <1>5 DEF Orden
  <2>3. X \ {p} = X
    BY <1>5, <2>2 DEF Orden, Esta
  <2> QED
    BY <2>1, <2>2, <2>3, MismoContinua, SigueMas DEF Continua
<1>6. CASE e \notin {"READY_PRIORIDAD", SinEstado} /\ Esta(s, e, p)
  <2> DEFINE q == Quitar(s.cola[e], p)
  <2>1. e \in Colas
    BY <1>2, <1>6
  <2>2. Range(q) = Range(s.cola[e]) \ {p} /\ IsInjective(q)
    BY <1>1, <1>6, <2>1, ColaTipo, RangoQuitar DEF Orden, Esta
  <2> HIDE DEF q
  <2>3. /\ t.cola = [s.cola EXCEPT ![e] = q]
        /\ t.procesos = [s.procesos EXCEPT ![p] = "EXIT"]
        /\ t.pcb = [s.pcb EXCEPT ![p] = PcbCrear]
        /\ t.a_memoria = s.a_memoria /\ t.pid = s.pid /\ t.caido = s.caido
        /\ t.detener = s.detener /\ t.planificador_iniciar = s.planificador_iniciar
    <3>1. t = [s EXCEPT !.cola[e] = q, !.pcb[p] = PcbCrear, !.procesos[p] = "EXIT"]
      BY <1>6 DEF Matar, q
    <3> HIDE DEF t
    <3> QED
      BY <1>1, <3>1, Zenon DEF EstadoKernel
  <2>4. /\ s.cola \in [Colas -> Seq(Pids)]
        /\ s.procesos \in [Pids -> Colas \cup {SinEstado}]
        /\ s.pcb \in [Pids -> Pcb]
    BY <1>1, Zenon DEF EstadoKernel
  <2> HIDE DEF t
  <2>5. /\ t.cola[e] = q
        /\ \A g \in Colas : g # e => t.cola[g] = s.cola[g]
        /\ t.procesos[p] = "EXIT"
        /\ \A x \in Pids : x # p => t.procesos[x] = s.procesos[x] /\ t.pcb[x] = s.pcb[x]
    BY <2>1, <2>3, <2>4
  <2>6. \A g \in Colas : IsInjective(t.cola[g])
    BY <2>2, <2>5 DEF Orden
  <2>7. ASSUME NEW g \in Colas \ {"EXIT"}, NEW x \in Pids
        PROVE  Esta(t, g, x) <=> t.procesos[x] = g
    <3>1. Esta(s, g, x) <=> s.procesos[x] = g
      BY DEF Orden
    <3>2. CASE g = e
      BY <3>1, <3>2, <2>2, <2>5 DEF Esta
    <3>3. CASE g # e
      BY <3>1, <3>3, <2>5 DEF Esta
    <3> QED
      BY <3>2, <3>3
  <2>8. Range(t.cola["EXIT"]) = X \ {p}
    <3>1. "EXIT" \in Colas
      BY DEF Colas
    <3>2. CASE e = "EXIT"
      BY <3>2, <2>2, <2>5 DEF Orden
    <3>3. CASE e # "EXIT"
      BY <3>1, <3>3, <1>3, <2>5 DEF Orden
    <3> QED
      BY <3>2, <3>3
  <2>9. \A x \in X \ {p} : t.procesos[x] = "EXIT"
    <3>1. X \subseteq Pids
      BY <1>1, ColaTipo, RangoTipo DEF Orden, Colas
    <3> QED
      BY <3>1, <2>5 DEF Orden
  <2>10. Algoritmo # "VRR" => t.cola["READY_PRIORIDAD"] = << >>
    BY <1>6, <2>5 DEF Orden, Colas
  <2>11. Orden(t, X \ {p})
    BY <1>1, <2>6, <2>7, <2>8, <2>9, <2>10 DEF Orden
  <2>12. Sigue(s, t, {p})
    <3>1. s.procesos[p] # SinEstado /\ "EXIT" # SinEstado
      BY <1>6 DEF SinEstado
    <3>2. s.planificador_iniciar \in Nat
      BY <1>1, SemaforoTipo
    <3> QED
      BY <1>2, <2>3, <2>5, <3>1, <3>2 DEF Sigue
  <2> QED
    BY <2>3, <2>5, <2>11, <2>12 DEF t
<1> QED
  BY <1>4, <1>5, <1>6

\* The notice to memoria goes after those that are there.
LEMMA AvisarMemoriaOrden ==
    ASSUME NEW s, NEW X, Orden(s, X), NEW p \in Pids
    PROVE  LET t == AvisarMemoriaFinalizacion(s, p)
           IN  /\ Orden(t, X)
               /\ Sigue(s, t, {p})
               /\ Len(t.a_memoria) = Len(s.a_memoria) + 1
               /\ t.procesos = s.procesos /\ t.caido = s.caido /\ t.cola = s.cola
<1> DEFINE t == AvisarMemoriaFinalizacion(s, p)
           n == Len(s.a_memoria)
           M == [op : {"NUEVO_PROCESO", "FINALIZAR_PROCESO"}, pid : Pids]
<1>1. s \in EstadoKernel /\ t \in EstadoKernel
  BY OrdenTipo, AvisarMemoriaConserva, Tipado
<1>2. /\ t.cola = s.cola /\ t.procesos = s.procesos /\ t.pid = s.pid /\ t.caido = s.caido
      /\ t.pcb = s.pcb /\ t.a_memoria = Append(s.a_memoria, Fin(p))
      /\ t.detener = s.detener /\ t.planificador_iniciar = s.planificador_iniciar
      /\ s.a_memoria \in Seq(M) /\ s.planificador_iniciar \in Nat
  BY <1>1, Zenon DEF EstadoKernel, AvisarMemoriaFinalizacion, Fin
<1>3. Fin(p) \in M
  BY DEF Fin
<1>4. /\ n \in Nat
      /\ Len(t.a_memoria) = n + 1
      /\ \A i \in 1 .. n : t.a_memoria[i] = s.a_memoria[i]
      /\ t.a_memoria[n + 1] = Fin(p)
  BY <1>2, <1>3, AppendProperties, LenProperties
<1> HIDE DEF t, M
<1>5. Orden(t, X)
  <2>1. EnTurno(t)
    BY <1>1, <1>2 DEF Orden, EnTurno
  <2> QED
    BY <1>2, <2>1 DEF Orden, Esta
<1>6. Sigue(s, t, {p})
  BY <1>2, <1>4 DEF Sigue
<1> QED
  BY <1>2, <1>4, <1>5, <1>6 DEF t

\* What a handler that may end process p leaves: if it does, the process has
\* left every list and memoria will be told, and it is not told of anybody else.
Paso(s, t, p) ==
    /\ Orden(t, {})
    /\ Sigue(s, t, {p})
    /\ ~ t.caido =>
          /\ Len(t.a_memoria) > Len(s.a_memoria) => t.procesos[p] = "EXIT"
          /\ t.procesos[p] = "EXIT" /\ s.procesos[p] # "EXIT" =>
                Len(t.a_memoria) > Len(s.a_memoria)

\* A step that ends nobody, alone, before and after one that may.
LEMMA ContinuaPaso ==
    ASSUME NEW s, Orden(s, {}), NEW p \in Pids, NEW t
    PROVE  /\ Continua(s, t, {}) => Paso(s, t, p)
           /\ \A u : Continua(s, t, {}) /\ Paso(t, u, p) => Paso(s, u, p)
           /\ \A u : Paso(s, t, p) /\ Continua(t, u, {}) => Paso(s, u, p)
<1>1. s \in EstadoKernel /\ Len(s.a_memoria) \in Nat
  BY OrdenTipo, AMemoriaLargo
<1>2. ASSUME NEW x \in EstadoKernel, NEW y \in EstadoKernel, Sigue(x, y, {})
      PROVE  /\ Sigue(x, y, {p})
             /\ Len(y.a_memoria) = Len(x.a_memoria)
             /\ y.procesos[p] = "EXIT" <=> x.procesos[p] = "EXIT"
             /\ x.caido => y.caido
  <2>1. Len(x.a_memoria) \in Nat /\ Len(y.a_memoria) \in Nat
    BY AMemoriaLargo
  <2>2. Len(y.a_memoria) = Len(x.a_memoria)
    <3>1. Len(y.a_memoria) >= Len(x.a_memoria)
      BY <1>2 DEF Sigue
    <3>2. ~ (Len(y.a_memoria) > Len(x.a_memoria))
      <4> SUFFICES ASSUME Len(y.a_memoria) > Len(x.a_memoria)
                   PROVE  FALSE
        OBVIOUS
      <4>1. Len(y.a_memoria) \in 1 .. Len(y.a_memoria)
        BY <2>1
      <4> QED
        BY <4>1, <1>2 DEF Sigue
    <3> QED
      BY <2>1, <3>1, <3>2
  <2>3. Sigue(x, y, {p})
    BY <1>2, SigueMas
  <2> QED
    BY <2>2, <2>3, <1>2 DEF Sigue
<1>3. ASSUME Continua(s, t, {})
      PROVE  Paso(s, t, p)
  <2>1. t \in EstadoKernel /\ Orden(t, {}) /\ Sigue(s, t, {})
    BY <1>3, OrdenTipo DEF Continua
  <2>2. /\ Sigue(s, t, {p}) /\ Len(t.a_memoria) = Len(s.a_memoria)
        /\ t.procesos[p] = "EXIT" <=> s.procesos[p] = "EXIT"
    BY <1>1, <1>2, <2>1
  <2> QED
    BY <1>1, <2>1, <2>2 DEF Paso
<1>4. ASSUME NEW u, Continua(s, t, {}), Paso(t, u, p)
      PROVE  Paso(s, u, p)
  <2>1. t \in EstadoKernel /\ u \in EstadoKernel
    BY <1>4, OrdenTipo DEF Continua, Paso
  <2>2. Sigue(s, u, {p})
    BY <1>1, <1>2, <1>4, <2>1, SigueTransitivo DEF Continua, Paso
  <2> QED
    BY <1>1, <1>2, <1>4, <2>1, <2>2 DEF Continua, Paso
<1>5. ASSUME NEW u, Paso(s, t, p), Continua(t, u, {})
      PROVE  Paso(s, u, p)
  <2>1. t \in EstadoKernel /\ u \in EstadoKernel
    BY <1>5, OrdenTipo DEF Continua, Paso
  <2>2. Sigue(s, u, {p})
    BY <1>1, <1>2, <1>5, <2>1, SigueTransitivo DEF Continua, Paso
  <2> QED
    BY <1>1, <1>2, <1>5, <2>1, <2>2 DEF Continua, Paso
<1> QED
  BY <1>3, <1>4, <1>5

\* The end that most motives share, after a step that left p in EXIT or where it
\* was.
LEMMA MatarPaso ==
    ASSUME NEW s, Orden(s, {}), NEW p \in Pids, NEW t, NEW X \in SUBSET {p},
           Orden(t, X), Sigue(s, t, {p})
    PROVE  Paso(s, MatarEnMemoria(t, p), p)
<1> DEFINE u == AvisarMemoriaFinalizacion(t, p)
           v == Matar(u, p)
<1>1. /\ Orden(u, X) /\ Sigue(t, u, {p})
      /\ Len(u.a_memoria) = Len(t.a_memoria) + 1
  BY AvisarMemoriaOrden
<1> HIDE DEF u
<1>2. /\ Orden(v, X \ {p}) /\ Sigue(u, v, {p}) /\ v.a_memoria = u.a_memoria
      /\ v.caido \/ v.procesos[p] = "EXIT"
  BY <1>1, MatarOrden
<1> HIDE DEF v
<1>3. /\ s \in EstadoKernel /\ t \in EstadoKernel
      /\ u \in EstadoKernel /\ v \in EstadoKernel
  BY <1>1, <1>2, OrdenTipo
<1>4. Sigue(s, v, {p})
  BY <1>1, <1>2, <1>3, SigueTransitivo
<1>5. Len(v.a_memoria) > Len(s.a_memoria)
  <2>1. Len(t.a_memoria) >= Len(s.a_memoria)
    BY DEF Sigue
  <2> QED
    BY <1>1, <1>2, <1>3, <2>1, AMemoriaLargo
<1>6. X \ {p} = {}
  OBVIOUS
<1>7. Paso(s, v, p)
  BY <1>2, <1>4, <1>5, <1>6 DEF Paso
<1> QED
  BY <1>7 DEF MatarEnMemoria, u, v

-----------------------------------------------------------------------------
(* The ends of a process.                                                  *)

\* A list of one element at most whose elements are known.
LEMMA UnicoEnExec ==
    ASSUME NEW s, EnTurno(s), NEW p, Esta(s, "EXEC", p)
    PROVE  s.cola["EXEC"] # << >> /\ Head(s.cola["EXEC"]) = p
<1>1. s.cola["EXEC"] \in Seq(Pids) /\ Len(s.cola["EXEC"]) \in Nat
  BY ColaTipo, ExecEsCola DEF EnTurno
<1>2. PICK n \in DOMAIN s.cola["EXEC"] : s.cola["EXEC"][n] = p
  BY DEF Esta, Range
<1>3. n = 1
  BY <1>1, <1>2, LenProperties DEF EnTurno
<1> QED
  BY <1>1, <1>2, <1>3, EmptySeq, HeadTailProperties

\* exec_exit and block_exit put in EXIT the process they find, which may be none.
LEMMA SalirOrden ==
    ASSUME NEW s, Orden(s, {}), NEW p \in Pids
    PROVE  /\ Esta(s, "EXEC", p) => Orden(ExecExit(s), {p}) /\ Sigue(s, ExecExit(s), {p})
           /\ \E X \in SUBSET {p} :
                 Orden(BlockExit(s, p), X) /\ Sigue(s, BlockExit(s, p), {p})
<1>1. s \in EstadoKernel /\ \A e \in Colas : IsInjective(s.cola[e])
  BY OrdenTipo
<1>2. {"EXEC", "BLOCK"} \subseteq Colas \ {"NEW", "EXIT"} /\ "EXIT" \in Colas \ {"NEW"}
  BY DEF Colas
<1>3. Salidos({}, p, "EXIT") = {p}
  BY DEF Salidos
<1>4. ASSUME Esta(s, "EXEC", p)
      PROVE  Orden(ExecExit(s), {p}) /\ Sigue(s, ExecExit(s), {p})
  <2> DEFINE t == Mover(s, "EXEC", "EXIT")
  <2>1. s.cola["EXEC"] # << >> /\ Head(s.cola["EXEC"]) = p
    BY <1>4, UnicoEnExec DEF Orden
  <2>2. ExecExit(s) = Avisar(t)
    BY <2>1 DEF ExecExit
  <2>3. Traslado(s, t, p, "EXEC", "EXIT")
    BY <1>1, <1>2, <2>1, MoverTraslado
  <2>4. EnTurno(t)
    BY <1>1, <1>2, MoverConserva, EnTurnoConserva DEF Orden
  <2> HIDE DEF t
  <2>5. Orden(t, Salidos({}, p, "EXIT")) /\ Sigue(s, t, Salidos({}, p, "EXIT"))
    BY <2>3, <2>4, TrasladoOrden, Zenon
  <2>6. Orden(t, {p}) /\ Sigue(s, t, {p}) /\ t \in EstadoKernel
    BY <1>3, <2>4, <2>5 DEF EnTurno
  <2>7. Avisar(t) \in EstadoKernel /\ Quieto(t, Avisar(t))
    BY <2>6, AvisarConserva, Tipado, QuietoSimple
  <2>8. Orden(Avisar(t), {p}) /\ Sigue(t, Avisar(t), {p})
    BY <2>6, <2>7, QuietoSigue
  <2> QED
    BY <1>1, <2>2, <2>6, <2>7, <2>8, SigueTransitivo
<1>5. \E X \in SUBSET {p} : Orden(BlockExit(s, p), X) /\ Sigue(s, BlockExit(s, p), {p})
  <2> DEFINE t == SacarDeBlock(s, p, "EXIT")
  <2>1. CASE ~ Esta(s, "BLOCK", p)
    BY <2>1, MismoContinua, SigueMas DEF BlockExit, SacarDeBlock, Continua
  <2>2. CASE Esta(s, "BLOCK", p)
    <3>1. Traslado(s, t, p, "BLOCK", "EXIT")
      BY <1>1, <1>2, <2>2, BlockTraslado DEF Colas
    <3>2. EnTurno(t)
      BY <1>1, <1>2, SacarDeBlockConserva, EnTurnoConserva DEF Orden
    <3> HIDE DEF t
    <3>3. Orden(t, Salidos({}, p, "EXIT")) /\ Sigue(s, t, Salidos({}, p, "EXIT"))
      BY <3>1, <3>2, TrasladoOrden, Zenon
    <3> QED
      BY <1>3, <3>3 DEF BlockExit, t
  <2> QED
    BY <2>1, <2>2
<1> QED
  BY <1>4, <1>5

\* The ends that the kernel decides: each leaves the process out of every list
\* and memoria told.
LEMMA FinalizarPaso ==
    ASSUME NEW s, Orden(s, {}), NEW p \in Pids
    PROVE  /\ Paso(s, FinalizarExito(s, p), p)
           /\ Paso(s, FinalizarSinMemoria(s, p), p)
           /\ Paso(s, FinalizarRecursoInvalido(s, p), p)
           /\ Esta(s, "EXEC", p) => Paso(s, FinalizarInterfazInvalida(s, p), p)
<1>1. s \in EstadoKernel
  BY OrdenTipo
<1>2. Paso(s, s, p)
  BY MismoContinua, ContinuaPaso
<1>3. \A q \in {p} : s.procesos[q] = "EXEC" => Esta(s, "EXEC", q)
  BY DEF Orden, Colas
<1>4. Sigue(s, s, {p})
  BY <1>2 DEF Paso
<1>5. Paso(s, FinalizarExito(s, p), p)
  <2> DEFINE t == SalirDeExec(s, p)
  <2>1. \E X \in SUBSET {p} : Orden(t, X) /\ Sigue(s, t, {p})
    <3>1. CASE s.procesos[p] = "EXEC"
      BY <3>1, <1>3, SalirOrden DEF SalirDeExec
    <3>2. CASE s.procesos[p] # "EXEC"
      <4>1. t = s
        BY <3>2 DEF SalirDeExec
      <4> QED
        BY <4>1, <1>4
    <3> QED
      BY <3>1, <3>2
  <2> HIDE DEF t
  <2>2. Paso(s, MatarEnMemoria(t, p), p)
    BY <2>1, MatarPaso
  <2> QED
    BY <1>2, <2>2 DEF FinalizarExito, t
<1>6. Paso(s, FinalizarRecursoInvalido(s, p), p)
  <2> DEFINE t == IF s.procesos[p] = "EXEC" THEN ExecExit(s) ELSE BlockExit(s, p)
             u == Matar(t, p)
  <2>1. PICK X \in SUBSET {p} : Orden(t, X) /\ Sigue(s, t, {p})
    BY <1>3, SalirOrden
  <2> HIDE DEF t
  <2>2. Orden(u, X \ {p}) /\ Sigue(t, u, {p})
    BY <2>1, MatarOrden
  <2> HIDE DEF u
  <2>3. Sigue(s, u, {p})
    BY <1>1, <2>1, <2>2, OrdenTipo, SigueTransitivo
  <2>4. Paso(s, MatarEnMemoria(u, p), p)
    BY <2>2, <2>3, MatarPaso
  <2> QED
    BY <1>2, <2>4 DEF FinalizarRecursoInvalido, t, u
<1>7. ASSUME Esta(s, "EXEC", p)
      PROVE  Paso(s, FinalizarInterfazInvalida(s, p), p)
  <2>1. s.cola["EXEC"] # << >> /\ Head(s.cola["EXEC"]) = p
    BY <1>7, UnicoEnExec DEF Orden
  <2>2. Orden(ExecExit(s), {p}) /\ Sigue(s, ExecExit(s), {p})
    BY <1>7, SalirOrden
  <2>3. Paso(s, MatarEnMemoria(ExecExit(s), p), p)
    BY <2>2, MatarPaso
  <2> QED
    BY <1>2, <2>1, <2>3 DEF FinalizarInterfazInvalida, MatarEnMemoria
<1> QED
  BY <1>5, <1>6, <1>7 DEF FinalizarSinMemoria

-----------------------------------------------------------------------------
(* kernel_signal when a blocked process is killed.                         *)

\* The only list without elements.
LEMMA RangoVacio ==
    ASSUME NEW q \in Seq(Pids)
    PROVE  Range(q) = {} <=> q = << >>
<1>1. ASSUME q # << >>
      PROVE  q[1] \in Range(q)
  <2>1. 1 \in DOMAIN q
    BY <1>1, EmptySeq, LenProperties
  <2> QED
    BY <2>1 DEF Range
<1>2. Range(<< >>) = {}
  BY DEF Range
<1> QED
  BY <1>1, <1>2

\* Unblocking every process of a list of blocked processes moves each to the
\* READY list of its quantum.
LEMMA DesbloquearContinua ==
    ASSUME NEW s, NEW X, Orden(s, X), NEW o \in Seq(Pids),
           Range(o) \subseteq Range(s.cola["BLOCK"])
    PROVE  Continua(s, DesbloquearTodos(s, o), X)
<1> DEFINE prioritarios == {p \in Range(o) : TienePrioridad(s.pcb[p].quantum_largo)}
           comunes == Range(o) \ prioritarios
           block == Filtrar(s.cola["BLOCK"], Pids \ Range(o))
           ready == s.cola["READY"] \o Filtrar(o, comunes)
           prioridad == s.cola["READY_PRIORIDAD"] \o Filtrar(o, prioritarios)
           t == DesbloquearTodos(s, o)
<1>1. s \in EstadoKernel /\ t \in EstadoKernel /\ EnTurno(t)
  BY OrdenTipo, DesbloquearConserva, Tipado, EnTurnoConserva DEF Orden
<1>2. {"BLOCK", "READY", "READY_PRIORIDAD"} \subseteq Colas /\ "EXIT" \in Colas
  BY DEF Colas
<1>3. \A e \in Colas : s.cola[e] \in Seq(Pids) /\ IsInjective(s.cola[e])
  BY <1>1, ColaTipo DEF Orden
<1>4. Range(o) \subseteq Pids /\ \A e \in Colas : Range(s.cola[e]) \subseteq Pids
  BY <1>3, RangoTipo
<1>5. \A q \in Range(o) : s.procesos[q] = "BLOCK"
  BY <1>2, <1>4 DEF Orden, Esta
<1>6. \A e \in Colas \ {"BLOCK"} : Range(s.cola[e]) \cap Range(o) = {}
  <2> SUFFICES ASSUME NEW e \in Colas \ {"BLOCK"}, NEW q \in Range(o), q \in Range(s.cola[e])
               PROVE  FALSE
    OBVIOUS
  <2>1. s.procesos[q] = e
    BY <1>4 DEF Orden, Esta
  <2> QED
    BY <2>1, <1>5
<1>7. \A S : /\ Filtrar(o, S) \in Seq(Pids)
             /\ Range(Filtrar(o, S)) = S \cap Range(o)
             /\ IsInjective(Filtrar(o, S))
  BY FiltrarTipo
<1>8. Range(block) = Range(s.cola["BLOCK"]) \ Range(o) /\ IsInjective(block)
  <2>1. /\ Range(block) = (Pids \ Range(o)) \cap Range(s.cola["BLOCK"])
        /\ IsInjective(block)
    BY <1>2, <1>3, FiltrarTipo
  <2> HIDE DEF block
  <2> QED
    BY <2>1, <1>2, <1>4
<1>9. Range(ready) = Range(s.cola["READY"]) \cup comunes /\ IsInjective(ready)
  <2> DEFINE f == Filtrar(o, comunes)
  <2>1. f \in Seq(Pids) /\ Range(f) = comunes \cap Range(o) /\ IsInjective(f)
    BY <1>7
  <2> HIDE DEF f, prioritarios
  <2>2. Range(s.cola["READY"]) \cap Range(f) = {} /\ Range(f) = comunes
    BY <1>2, <1>6, <2>1
  <2>3. s.cola["READY"] \in Seq(Pids) /\ IsInjective(s.cola["READY"])
    BY <1>2, <1>3
  <2>4. /\ Range(s.cola["READY"] \o f) = Range(s.cola["READY"]) \cup Range(f)
        /\ IsInjective(s.cola["READY"] \o f)
    BY <2>1, <2>2, <2>3, RangoConcat
  <2> QED
    BY <2>2, <2>4 DEF f
<1>10. /\ Range(prioridad) = Range(s.cola["READY_PRIORIDAD"]) \cup prioritarios
       /\ IsInjective(prioridad)
  <2> DEFINE f == Filtrar(o, prioritarios)
  <2>1. f \in Seq(Pids) /\ Range(f) = prioritarios \cap Range(o) /\ IsInjective(f)
    BY <1>7
  <2>2. prioritarios \subseteq Range(o)
    OBVIOUS
  <2> HIDE DEF f, prioritarios
  <2>3. Range(s.cola["READY_PRIORIDAD"]) \cap Range(f) = {} /\ Range(f) = prioritarios
    BY <1>2, <1>6, <2>1, <2>2
  <2>4. s.cola["READY_PRIORIDAD"] \in Seq(Pids) /\ IsInjective(s.cola["READY_PRIORIDAD"])
    BY <1>2, <1>3
  <2>5. /\ Range(s.cola["READY_PRIORIDAD"] \o f) = Range(s.cola["READY_PRIORIDAD"]) \cup Range(f)
        /\ IsInjective(s.cola["READY_PRIORIDAD"] \o f)
    BY <2>1, <2>3, <2>4, RangoConcat
  <2> QED
    BY <2>3, <2>5 DEF f
<1>11. /\ t.cola = [s.cola EXCEPT !["BLOCK"] = block, !["READY"] = ready,
                                  !["READY_PRIORIDAD"] = prioridad]
       /\ t.procesos = [p \in Pids |-> IF p \in prioritarios THEN "READY_PRIORIDAD"
                                       ELSE IF p \in comunes THEN "READY"
                                       ELSE s.procesos[p]]
       /\ t.pid = s.pid /\ t.a_memoria = s.a_memoria /\ t.caido = s.caido
       /\ t.pcb = s.pcb /\ t.detener = s.detener
       /\ t.planificador_iniciar = s.planificador_iniciar
  <2>1. s.cola \in [Colas -> Seq(Pids)]
    BY <1>1, Zenon DEF EstadoKernel
  <2> QED
    BY <1>1, <1>2, <2>1 DEF DesbloquearTodos, EstadoKernel
<1>12. s.cola \in [Colas -> Seq(Pids)]
  BY <1>1, Zenon DEF EstadoKernel
<1> HIDE DEF t, block, ready, prioridad
<1>13. /\ t.cola["BLOCK"] = block /\ t.cola["READY"] = ready
       /\ t.cola["READY_PRIORIDAD"] = prioridad
       /\ \A e \in Colas \ {"BLOCK", "READY", "READY_PRIORIDAD"} : t.cola[e] = s.cola[e]
  BY <1>2, <1>11, <1>12
<1>14. /\ prioritarios \subseteq Range(o) /\ comunes \subseteq Range(o)
       /\ prioritarios \cup comunes = Range(o) /\ prioritarios \cap comunes = {}
       /\ Algoritmo # "VRR" => prioritarios = {}
  BY DEF TienePrioridad
<1>15. /\ \A q \in prioritarios : t.procesos[q] = "READY_PRIORIDAD"
       /\ \A q \in comunes : t.procesos[q] = "READY"
       /\ \A q \in Pids \ Range(o) : t.procesos[q] = s.procesos[q]
  BY <1>4, <1>11, <1>14
<1> HIDE DEF prioritarios, comunes
<1>16. \A e \in Colas : IsInjective(t.cola[e])
  BY <1>3, <1>8, <1>9, <1>10, <1>13
<1>17. ASSUME NEW e \in Colas \ {"EXIT"}, NEW q \in Pids
       PROVE  Esta(t, e, q) <=> t.procesos[q] = e
  <2>1. Esta(s, e, q) <=> s.procesos[q] = e
    BY DEF Orden
  <2>2. CASE e = "BLOCK"
    BY <2>1, <2>2, <1>8, <1>13, <1>14, <1>15 DEF Esta
  <2>3. CASE e = "READY"
    BY <2>1, <2>3, <1>5, <1>9, <1>13, <1>14, <1>15 DEF Esta
  <2>4. CASE e = "READY_PRIORIDAD"
    BY <2>1, <2>4, <1>5, <1>10, <1>13, <1>14, <1>15 DEF Esta
  <2>5. CASE e \notin {"BLOCK", "READY", "READY_PRIORIDAD"}
    <3>1. t.cola[e] = s.cola[e]
      BY <2>5, <1>13
    <3>2. t.procesos[q] = e <=> s.procesos[q] = e
      BY <2>5, <1>5, <1>14, <1>15
    <3> QED
      BY <2>1, <3>1, <3>2 DEF Esta
  <2> QED
    BY <2>2, <2>3, <2>4, <2>5
<1>18. Range(t.cola["EXIT"]) = X
  BY <1>2, <1>13 DEF Orden
<1>19. \A q \in X : t.procesos[q] = "EXIT"
  <2>1. X \subseteq Pids
    BY <1>2, <1>4 DEF Orden
  <2> QED
    BY <2>1, <1>5, <1>15 DEF Orden
<1>20. Algoritmo # "VRR" => t.cola["READY_PRIORIDAD"] = << >>
  <2> SUFFICES ASSUME Algoritmo # "VRR"
               PROVE  prioridad = << >>
    BY <1>13
  <2>1. Range(prioridad) = {}
    <3>1. s.cola["READY_PRIORIDAD"] = << >>
      BY DEF Orden
    <3>2. Range(s.cola["READY_PRIORIDAD"]) = {}
      BY <3>1 DEF Range
    <3> QED
      BY <3>2, <1>10, <1>14
  <2>2. prioridad \in Seq(Pids)
    BY <1>1, <1>2, <1>13, ColaTipo
  <2> QED
    BY <2>1, <2>2, RangoVacio
<1>21. Orden(t, X)
  BY <1>1, <1>16, <1>17, <1>18, <1>19, <1>20 DEF Orden
<1>22. Sigue(s, t, {})
  <2>1. Len(s.a_memoria) \in Nat /\ s.planificador_iniciar \in Nat
    BY <1>1, AMemoriaLargo, SemaforoTipo
  <2>2. ASSUME NEW q \in Pids
        PROVE  /\ t.procesos[q] = SinEstado <=> s.procesos[q] = SinEstado
               /\ s.procesos[q] = "EXIT" => t.procesos[q] = "EXIT"
               /\ t.procesos[q] = "NEW" => s.procesos[q] = "NEW"
               /\ s.procesos[q] = "NEW" => t.procesos[q] = "NEW"
               /\ t.procesos[q] = "EXIT" => s.procesos[q] = "EXIT"
    BY <1>5, <1>14, <1>15 DEF SinEstado
  <2> QED
    BY <2>1, <2>2, <1>11 DEF Sigue
<1> QED
  BY <1>21, <1>22 DEF Continua, t

\* What the head of the list had taken is given back, with a token per entry.
LEMMA DevolverContinua ==
    ASSUME NEW s, NEW X, Orden(s, X), NEW c \in Pids, NEW o \in Seq(Pids),
           Range(o) \subseteq Range(s.cola["BLOCK"])
    PROVE  Continua(s, DevolverTomados(s, c, o), X)
<1> DEFINE t == DesbloquearTodos(s, o)
           n == Cardinality(EntradasRecorridas(s, RecursosDevueltos(s, c)))
           u == DevolverTomados(s, c, o)
<1>1. s \in EstadoKernel /\ t \in EstadoKernel /\ u \in EstadoKernel
  BY OrdenTipo, DesbloquearConserva, DevolverTomadosConserva, Tipado
<1>2. Continua(s, t, X)
  BY DesbloquearContinua
<1>3. n \in Nat
  <2>1. RecursosDevueltos(s, c) \in SUBSET Recursos
    BY <1>1, PcbTipo DEF Pcb, RecursosDevueltos
  <2> QED
    BY <1>1, <2>1, EntradasFinitas
<1>4. /\ u.cola = t.cola /\ u.procesos = t.procesos /\ u.a_memoria = t.a_memoria
      /\ u.pid = t.pid /\ u.detener = t.detener /\ u.caido = t.caido /\ u.pcb = t.pcb
      /\ u.planificador_iniciar = t.planificador_iniciar + n
  <2> HIDE DEF n
  <2> DEFINE recursos == [r \in Recursos |->
                [s.recursos[r] EXCEPT !.instancias = @ + s.pcb[c].recursos_tomados[r]]]
  <2>1. u = [t EXCEPT !.recursos = recursos, !.planificador_iniciar = @ + n]
    BY DEF DevolverTomados, n
  <2> HIDE DEF recursos, t, u
  <2> QED
    BY <1>1, <2>1, Zenon DEF EstadoKernel
<1>5. t.planificador_iniciar \in Nat
  BY <1>1, Zenon DEF EstadoKernel
<1> HIDE DEF t, u, n
<1>6. Quieto(t, u)
  BY <1>3, <1>4, <1>5 DEF Quieto
<1>7. Continua(t, u, X)
  BY <1>1, <1>2, <1>6, QuietoContinua DEF Continua
<1> QED
  BY <1>2, <1>7, ContinuaTransitivo DEF u

\* What the killed process releases unblocks only processes of BLOCK.
LEMMA SignalInterrupcionContinua ==
    ASSUME NEW s, NEW X, Orden(s, X), NEW p \in Pids, NEW r \in Recursos,
           NEW o \in Seq(Pids), Range(o) \subseteq Range(s.cola["BLOCK"]),
           NEW falla \in BOOLEAN
    PROVE  Continua(s, SignalInterrupcion(s, p, r, o, falla), X)
<1> DEFINE t == Liberar(s, p, r)
           cabeza == Head(t.recursos[r].bloqueados)
           u == SinCabeza(t, r)
<1>1. s \in EstadoKernel /\ t \in EstadoKernel /\ Quieto(s, t)
  BY OrdenTipo, LiberarConserva, Tipado, QuietoTomar
<1>2. Continua(s, t, X)
  BY <1>1, QuietoContinua
<1>3. SignalInterrupcion(s, p, r, o, falla) =
        IF ~ HayQueDesbloquear(t, r) THEN t
        ELSE IF Buscar(t, cabeza) THEN DevolverTomados(u, cabeza, o)
        ELSE IF falla THEN Caer(u) ELSE u
  BY DEF SignalInterrupcion
<1> HIDE DEF t
<1>4. CASE ~ HayQueDesbloquear(t, r)
  BY <1>2, <1>3, <1>4
<1>5. CASE HayQueDesbloquear(t, r)
  <2>1. u \in EstadoKernel /\ cabeza \in Pids
    BY <1>1, <1>5, Tipado, SinCabezaConserva DEF HayQueDesbloquear
  <2>2. Quieto(t, u)
    BY <1>1, QuietoTomar
  <2>3. Continua(t, u, X)
    BY <1>2, <2>1, <2>2, QuietoContinua DEF Continua
  <2>4. Continua(s, u, X) /\ u.cola = s.cola
    BY <1>1, <1>2, <2>2, <2>3, ContinuaTransitivo DEF Quieto
  <2> HIDE DEF u, cabeza
  <2>5. Continua(s, DevolverTomados(u, cabeza, o), X)
    <3>1. Continua(u, DevolverTomados(u, cabeza, o), X)
      BY <2>1, <2>4, DevolverContinua DEF Continua
    <3> QED
      BY <2>4, <3>1, ContinuaTransitivo
  <2>6. Continua(s, Caer(u), X)
    <3>1. Continua(u, Caer(u), X)
      BY <2>1, <2>4, CaerConserva, Tipado, QuietoSimple, QuietoContinua DEF Continua
    <3> QED
      BY <2>4, <3>1, ContinuaTransitivo
  <2> QED
    BY <1>3, <1>5, <2>4, <2>5, <2>6
<1> QED
  BY <1>4, <1>5

\* The orders of the walk hold processes of BLOCK.
LEMMA OrdenesBloqueados ==
    ASSUME NEW s \in EstadoKernel, NEW p \in Pids, NEW r \in Recursos,
           NEW o \in OrdenesAlInterrumpir(s, p, r)
    PROVE  Range(o) \subseteq Range(BlockExit(s, p).cola["BLOCK"])
<1> DEFINE b == BlockExit(s, p)
           t == Liberar(b, p, r)
           u == SinCabeza(t, r)
           K == RecursosDevueltos(u, Head(t.recursos[r].bloqueados))
           D == Desbloqueables(u, K)
<1>1. CASE HayQueDesbloquear(t, r) /\ Buscar(t, Head(t.recursos[r].bloqueados))
  <2>1. b \in EstadoKernel /\ t \in EstadoKernel
    BY BlockConserva, LiberarConserva, Tipado
  <2>2. u.cola = b.cola
    BY <2>1, QuietoTomar DEF Quieto
  <2>3. D \subseteq Range(b.cola["BLOCK"])
    <3>1. D \subseteq Range(u.cola["BLOCK"])
      BY DEF Desbloqueables
    <3> QED
      BY <2>2, <3>1
  <2>4. o \in [1 .. Cardinality(D) -> D]
    BY <1>1 DEF OrdenesAlInterrumpir, OrdenesDeDesbloqueo
  <2> HIDE DEF D, b
  <2>5. Range(o) \subseteq D
    BY <2>4 DEF Range
  <2> QED
    BY <2>3, <2>5 DEF b
<1>2. CASE ~ (HayQueDesbloquear(t, r) /\ Buscar(t, Head(t.recursos[r].bloqueados)))
  <2>1. o = << >>
    BY <1>2 DEF OrdenesAlInterrumpir
  <2>2. Range(o) = {}
    BY <2>1 DEF Range
  <2> QED
    BY <2>2
<1> QED
  BY <1>1, <1>2

-----------------------------------------------------------------------------
(* FINALIZAR_PROCESO                                                       *)

\* What continues after p left EXEC or BLOCK, and p killed.
LEMMA SeguirMatar ==
    ASSUME NEW s, Orden(s, {}), NEW p \in Pids, NEW X \in SUBSET {p}, NEW t,
           Orden(t, X), Sigue(s, t, {p}), NEW u, Continua(t, u, X)
    PROVE  Paso(s, MatarEnMemoria(u, p), p)
<1>1. s \in EstadoKernel /\ t \in EstadoKernel /\ u \in EstadoKernel
  BY OrdenTipo DEF Continua
<1>2. Sigue(s, u, {p})
  BY <1>1, SigueMas, SigueTransitivo DEF Continua
<1> QED
  BY <1>2, MatarPaso DEF Continua

\* The end of a process by the console, in each of its five states.
LEMMA FinalizarUsuarioPaso ==
    ASSUME NEW s, Orden(s, {}), NEW p \in Pids
    PROVE  /\ Esta(s, "EXEC", p) => Paso(s, FinalizarEnExec(s, p), p)
           /\ \A r \in Recursos, falla \in BOOLEAN :
                 \A o \in OrdenesAlInterrumpir(s, p, r) :
                    Paso(s, FinalizarEnRecurso(s, p, r, o, falla), p)
           /\ \A i \in Interfaces : Paso(s, FinalizarEnInterfaz(s, p, i), p)
           /\ Paso(s, FinalizarEnEspera(s, p), p)
           /\ Paso(s, FinalizarEnCola(s, p), p)
<1> DEFINE b == BlockExit(s, p)
<1>1. s \in EstadoKernel /\ b \in EstadoKernel
  BY OrdenTipo, BlockConserva, Tipado
<1>2. PICK X \in SUBSET {p} : Orden(b, X) /\ Sigue(s, b, {p})
  BY SalirOrden
<1>3. ASSUME Esta(s, "EXEC", p)
      PROVE  Paso(s, FinalizarEnExec(s, p), p)
  <2> DEFINE i == InterrumpirTemporizador(s)
             t == InterrumpirCpu(i, p)
             u == AvisarMemoriaFinalizacion(t, p)
             v == ExecExit(u)
             w == Matar(v, p)
  <2>1. i \in EstadoKernel /\ Quieto(s, i)
    BY <1>1, InterrumpirTemporizadorConserva, Tipado, QuietoSimple
  <2>2. t \in EstadoKernel /\ Quieto(i, t)
    BY <2>1, InterrumpirCpuConserva, Tipado, QuietoSimple
  <2>3. Quieto(s, t)
    BY <1>1, <2>1, <2>2, QuietoTransitivo
  <2>4. Orden(t, {}) /\ Sigue(s, t, {p}) /\ t.cola = s.cola
    BY <1>1, <2>2, <2>3, QuietoSigue DEF Quieto
  <2>5. FinalizarEnExec(s, p) = Avisar(w)
    BY DEF FinalizarEnExec
  <2> HIDE DEF t
  <2>6. /\ Orden(u, {}) /\ Sigue(t, u, {p}) /\ u.cola = t.cola
        /\ Len(u.a_memoria) = Len(t.a_memoria) + 1
    BY <2>4, AvisarMemoriaOrden
  <2> HIDE DEF u
  <2>7. Esta(u, "EXEC", p)
    BY <1>3, <2>4, <2>6 DEF Esta
  <2>8. Orden(v, {p}) /\ Sigue(u, v, {p})
    BY <2>6, <2>7, SalirOrden
  <2> HIDE DEF v
  <2>9. /\ Orden(w, {p} \ {p}) /\ Sigue(v, w, {p}) /\ w.a_memoria = v.a_memoria
        /\ w.caido \/ w.procesos[p] = "EXIT"
    BY <2>8, MatarOrden
  <2> HIDE DEF w
  <2>10. {p} \ {p} = {}
    OBVIOUS
  <2>11. t \in EstadoKernel /\ u \in EstadoKernel /\ v \in EstadoKernel /\ w \in EstadoKernel
    BY <2>4, <2>6, <2>8, <2>9, OrdenTipo
  <2>12. Sigue(s, w, {p})
    <3>1. Sigue(s, u, {p})
      BY <1>1, <2>4, <2>6, <2>11, SigueTransitivo
    <3>2. Sigue(s, v, {p})
      BY <1>1, <3>1, <2>8, <2>11, SigueTransitivo
    <3> QED
      BY <1>1, <3>2, <2>9, <2>11, SigueTransitivo
  <2>13. Len(w.a_memoria) > Len(s.a_memoria)
    <3>1. Len(t.a_memoria) >= Len(s.a_memoria) /\ Len(v.a_memoria) >= Len(u.a_memoria)
      BY <2>4, <2>8 DEF Sigue
    <3> QED
      BY <1>1, <2>6, <2>9, <2>11, <3>1, AMemoriaLargo
  <2>14. Paso(s, w, p)
    BY <2>9, <2>10, <2>12, <2>13 DEF Paso
  <2>15. Continua(w, Avisar(w), {})
    BY <2>9, <2>10, <2>11, AvisarConserva, Tipado, QuietoSimple, QuietoContinua
  <2> QED
    BY <2>5, <2>14, <2>15, ContinuaPaso
<1>4. ASSUME NEW r \in Recursos, NEW falla \in BOOLEAN, NEW o \in OrdenesAlInterrumpir(s, p, r)
      PROVE  Paso(s, FinalizarEnRecurso(s, p, r, o, falla), p)
  <2> DEFINE t == SignalInterrupcion(b, p, r, o, falla)
  <2>1. o \in Seq(Pids) /\ Range(o) \subseteq Range(b.cola["BLOCK"])
    BY <1>1, OrdenesTipo, OrdenesBloqueados
  <2>2. FinalizarEnRecurso(s, p, r, o, falla) = MatarEnMemoria(t, p)
    BY DEF FinalizarEnRecurso
  <2> HIDE DEF b
  <2>3. Continua(b, t, X)
    BY <1>2, <2>1, SignalInterrupcionContinua
  <2> HIDE DEF t
  <2> QED
    BY <1>2, <2>2, <2>3, SeguirMatar
<1>5. ASSUME NEW i \in Interfaces
      PROVE  Paso(s, FinalizarEnInterfaz(s, p, i), p)
  <2> DEFINE u == [b EXCEPT !.io[i] = [ocupado |-> FALSE, pid |-> 0]]
             v == EnviarIo(u, i, "IO_INTERRUPCION", p)
             w == ProximoIoGeneric(v, i)
  <2>1. FinalizarEnInterfaz(s, p, i) = MatarEnMemoria(w, p)
    BY DEF FinalizarEnInterfaz
  <2> HIDE DEF b
  <2>2. u \in EstadoKernel /\ Quieto(b, u)
    BY <1>1, InterfazTipo, ConIo, Tipado, QuietoIo
  <2> HIDE DEF u
  <2>3. v \in EstadoKernel /\ Quieto(u, v)
    BY <2>2, EnviarIoConserva, Tipado, QuietoIo
  <2> HIDE DEF v
  <2>4. w \in EstadoKernel /\ Quieto(v, w)
    BY <2>3, ProximoIoConserva, Tipado, QuietoIo
  <2> HIDE DEF w
  <2>5. Quieto(b, v)
    BY <1>1, <2>2, <2>3, QuietoTransitivo
  <2>6. Quieto(b, w)
    BY <1>1, <2>3, <2>4, <2>5, QuietoTransitivo
  <2>7. Continua(b, w, X)
    BY <1>2, <2>4, <2>6, QuietoContinua
  <2> QED
    BY <1>2, <2>1, <2>7, SeguirMatar
<1>6. Paso(s, FinalizarEnEspera(s, p), p)
  BY <1>2, MatarPaso DEF FinalizarEnEspera
<1>7. Paso(s, FinalizarEnCola(s, p), p)
  <2> DEFINE t == MatarEnMemoria(s, p)
             u == AvisarMemoriaFinalizacion(t, p)
  <2>1. Paso(s, s, p)
    BY MismoContinua, ContinuaPaso
  <2>2. Paso(s, t, p)
    BY <2>1, MatarPaso DEF Paso
  <2>3. FinalizarEnCola(s, p) = IF t.caido THEN t ELSE u
    BY DEF FinalizarEnCola
  <2>4. t.caido \/ t.procesos[p] = "EXIT"
    <3>1. Orden(AvisarMemoriaFinalizacion(s, p), {})
      BY AvisarMemoriaOrden
    <3> QED
      BY <3>1, MatarOrden DEF MatarEnMemoria
  <2> HIDE DEF t
  <2>5. /\ Orden(u, {}) /\ Sigue(t, u, {p}) /\ u.procesos = t.procesos /\ u.caido = t.caido
        /\ Len(u.a_memoria) = Len(t.a_memoria) + 1
    BY <2>2, AvisarMemoriaOrden DEF Paso
  <2> HIDE DEF u
  <2>6. t \in EstadoKernel /\ u \in EstadoKernel
    BY <2>2, <2>5, OrdenTipo DEF Paso
  <2>7. Sigue(s, u, {p})
    BY <1>1, <2>2, <2>5, <2>6, SigueTransitivo DEF Paso
  <2>8. Len(u.a_memoria) > Len(s.a_memoria)
    <3>1. Len(t.a_memoria) >= Len(s.a_memoria)
      BY <2>2 DEF Paso, Sigue
    <3> QED
      BY <1>1, <2>5, <2>6, <3>1, AMemoriaLargo
  <2>9. ~ t.caido => Paso(s, u, p)
    BY <2>4, <2>5, <2>7, <2>8 DEF Paso
  <2> QED
    BY <2>2, <2>3, <2>9
<1> QED
  BY <1>3, <1>4, <1>5, <1>6, <1>7

-----------------------------------------------------------------------------
(* The handlers of the packets.                                            *)

\* A quiet function before or after another step, and the token at the end.
LEMMA QuietoLuego ==
    ASSUME NEW s, Orden(s, {}), NEW p \in Pids, NEW t
    PROVE  /\ \A u \in EstadoKernel :
                 Continua(s, t, {}) /\ Quieto(t, u) => Continua(s, u, {})
           /\ \A u : t \in EstadoKernel /\ Quieto(s, t) /\ Continua(t, u, {})
                        => Continua(s, u, {})
           /\ \A u : t \in EstadoKernel /\ Quieto(s, t) /\ Paso(t, u, p) => Paso(s, u, p)
           /\ Continua(s, t, {}) => Continua(s, Avisar(t), {})
           /\ Paso(s, t, p) => Paso(s, Avisar(t), p)
<1>1. ASSUME NEW x, Orden(x, {})
      PROVE  Continua(x, Avisar(x), {})
  <2>1. x \in EstadoKernel
    BY <1>1, OrdenTipo
  <2> QED
    BY <1>1, <2>1, AvisarConserva, Tipado, QuietoSimple, QuietoContinua
<1>2. ASSUME t \in EstadoKernel, Quieto(s, t)
      PROVE  Continua(s, t, {})
  BY <1>2, QuietoContinua
<1>3. ASSUME NEW u \in EstadoKernel, Continua(s, t, {}), Quieto(t, u)
      PROVE  Continua(s, u, {})
  <2>1. Continua(t, u, {})
    BY <1>3, QuietoContinua DEF Continua
  <2> QED
    BY <1>3, <2>1, ContinuaTransitivo
<1>4. ASSUME NEW u, t \in EstadoKernel, Quieto(s, t), Continua(t, u, {})
      PROVE  Continua(s, u, {})
  BY <1>2, <1>4, ContinuaTransitivo
<1>5. ASSUME NEW u, t \in EstadoKernel, Quieto(s, t), Paso(t, u, p)
      PROVE  Paso(s, u, p)
  BY <1>2, <1>5, ContinuaPaso
<1>6. ASSUME Continua(s, t, {})
      PROVE  Continua(s, Avisar(t), {})
  BY <1>1, <1>6, ContinuaTransitivo DEF Continua
<1>7. ASSUME Paso(s, t, p)
      PROVE  Paso(s, Avisar(t), p)
  BY <1>1, <1>7, ContinuaPaso DEF Paso
<1> QED
  BY <1>3, <1>4, <1>5, <1>6, <1>7

\* kernel_wait and kernel_signal end the process or leave it in READY or BLOCK.
LEMMA RecursosPaso ==
    ASSUME NEW s, Orden(s, {}), NEW p \in Pids, NEW r, NEW resto \in BOOLEAN
    PROVE  /\ Paso(s, Wait(s, p, r, resto), p)
           /\ \A cabeza \in 0 .. MaxPid : Paso(s, Signal(s, p, r, resto, cabeza), p)
<1>1. s \in EstadoKernel
  BY OrdenTipo
<1>2. ASSUME r \notin Recursos
      PROVE  /\ Paso(s, Wait(s, p, r, resto), p)
             /\ \A cabeza \in 0 .. MaxPid : Paso(s, Signal(s, p, r, resto, cabeza), p)
  <2> DEFINE t == GuardarQuantum(s, p, resto)
  <2>1. t \in EstadoKernel /\ Quieto(s, t)
    BY <1>1, GuardarQuantumConserva, Tipado, QuietoGuardar
  <2>2. Wait(s, p, r, resto) = FinalizarRecursoInvalido(t, p)
    BY <1>2 DEF Wait
  <2> HIDE DEF t
  <2>3. Orden(t, {})
    BY <2>1, QuietoContinua DEF Continua
  <2>4. Paso(t, FinalizarRecursoInvalido(t, p), p)
    BY <2>3, FinalizarPaso
  <2>5. Paso(s, Wait(s, p, r, resto), p)
    BY <2>1, <2>2, <2>4, QuietoLuego
  <2>6. \A cabeza : Signal(s, p, r, resto, cabeza) = FinalizarRecursoInvalido(s, p)
    BY <1>2 DEF Signal
  <2> QED
    BY <2>5, <2>6, FinalizarPaso
<1>3. ASSUME r \in Recursos, NEW t \in EstadoKernel, Quieto(s, t)
      PROVE  /\ Paso(s, BloquearEnRecurso(t, p, r, resto), p)
             /\ Paso(s, ManejarExecReady(t, p, resto), p)
  <2> DEFINE g == GuardarQuantum(t, p, resto)
             x == [g.recursos[r] EXCEPT !.bloqueados = Append(@, p)]
             u == [g EXCEPT !.recursos[r] = x]
  <2>1. g \in EstadoKernel /\ Quieto(t, g)
    BY <1>3, GuardarQuantumConserva, Tipado, QuietoGuardar
  <2>2. BloquearEnRecurso(t, p, r, resto) = ExecBlock(u)
    BY DEF BloquearEnRecurso
  <2> HIDE DEF g
  <2>3. x \in Recurso
    BY <1>3, <2>1, RecursoTipo, RecursoCampos, AppendProperties
  <2>4. u \in EstadoKernel
    BY <1>3, <2>1, <2>3, ConRecurso, Tipado
  <2>5. Quieto(g, u)
    <3>1. u = [g EXCEPT !.recursos = [g.recursos EXCEPT ![r] = x]]
      OBVIOUS
    <3> HIDE DEF u, x
    <3> QED
      BY <2>1, <3>1, QuietoRecursos
  <2> HIDE DEF u, x
  <2>6. Quieto(s, u)
    <3>1. Quieto(s, g)
      BY <1>1, <1>3, <2>1, QuietoTransitivo
    <3> QED
      BY <1>1, <2>1, <2>4, <2>5, <3>1, QuietoTransitivo
  <2>7. Orden(t, {}) /\ Orden(u, {})
    BY <1>3, <2>4, <2>6, QuietoContinua DEF Continua
  <2>8. Continua(u, ExecBlock(u), {})
    BY <2>7, MoverContinua DEF ExecBlock
  <2>9. Continua(s, ExecBlock(u), {})
    BY <2>4, <2>6, <2>8, QuietoLuego
  <2>10. Continua(s, ManejarExecReady(t, p, resto), {})
    <3>1. Continua(t, ManejarExecReady(t, p, resto), {})
      BY <2>7, ManejarContinua
    <3> QED
      BY <1>3, <3>1, QuietoLuego
  <2> QED
    BY <2>2, <2>9, <2>10, ContinuaPaso
<1>4. ASSUME r \in Recursos
      PROVE  Paso(s, Wait(s, p, r, resto), p)
  <2> DEFINE t == Tomar(s, p, r)
             x == [t.recursos[r] EXCEPT !.instancias = @ - 1]
             u == [t EXCEPT !.recursos[r] = x]
  <2>1. t \in EstadoKernel /\ Quieto(s, t)
    BY <1>1, <1>4, TomarConserva, Tipado, QuietoTomar
  <2>2. Wait(s, p, r, resto) =
            IF t.recursos[r].instancias < 0 THEN BloquearEnRecurso(t, p, r, resto)
            ELSE IF u.recursos[r].instancias < 0 THEN BloquearEnRecurso(u, p, r, resto)
            ELSE ManejarExecReady(u, p, resto)
    BY <1>4 DEF Wait
  <2> HIDE DEF t
  <2>3. x \in Recurso
    <3>1. t.recursos[r] \in Recurso /\ t.recursos[r].instancias \in Int
      BY <1>4, <2>1, RecursoTipo
    <3>2. t.recursos[r].instancias - 1 \in Int
      BY <3>1
    <3> QED
      BY <3>1, <3>2, RecursoCampos, Zenon
  <2>4. u \in EstadoKernel
    BY <1>4, <2>1, <2>3, ConRecurso, Tipado
  <2>5. Quieto(t, u)
    <3>1. u = [t EXCEPT !.recursos = [t.recursos EXCEPT ![r] = x]]
      OBVIOUS
    <3> HIDE DEF u, x
    <3> QED
      BY <2>1, <3>1, QuietoRecursos
  <2> HIDE DEF u, x
  <2>6. Quieto(s, u)
    BY <1>1, <2>1, <2>4, <2>5, QuietoTransitivo
  <2> QED
    BY <1>3, <1>4, <2>1, <2>2, <2>4, <2>6
<1>5. ASSUME r \in Recursos, NEW cabeza \in 0 .. MaxPid
      PROVE  Paso(s, Signal(s, p, r, resto, cabeza), p)
  <2> DEFINE t == Liberar(s, p, r)
             u == SinCabeza(t, r)
             v == IF u.procesos[cabeza] = "BLOCK" THEN ManejarBlockReady(u, cabeza) ELSE u
  <2>1. t \in EstadoKernel /\ Quieto(s, t)
    BY <1>1, <1>5, LiberarConserva, Tipado, QuietoTomar
  <2>2. Signal(s, p, r, resto, cabeza) =
            IF ~ HayQueDesbloquear(t, r) THEN ManejarExecReady(t, p, resto)
            ELSE IF cabeza = 0 \/ t.procesos[cabeza] = SinEstado THEN Caer(t)
            ELSE ManejarExecReady(v, p, resto)
    BY <1>5 DEF Signal, SinCabeza
  <2> HIDE DEF t
  <2>3. Paso(s, Caer(t), p)
    <3>1. Caer(t) \in EstadoKernel /\ Quieto(t, Caer(t))
      BY <2>1, CaerConserva, Tipado, QuietoSimple
    <3>2. Quieto(s, Caer(t))
      BY <1>1, <2>1, <3>1, QuietoTransitivo
    <3> QED
      BY <3>1, <3>2, QuietoContinua, ContinuaPaso
  <2>4. CASE HayQueDesbloquear(t, r) /\ ~ (cabeza = 0 \/ t.procesos[cabeza] = SinEstado)
    <3>1. cabeza \in Pids
      BY <2>4, LimitesAssumption DEF Pids
    <3>2. u \in EstadoKernel /\ Quieto(t, u)
      BY <1>5, <2>1, <2>4, SinCabezaConserva, Tipado, QuietoTomar DEF HayQueDesbloquear
    <3> HIDE DEF u
    <3>3. Quieto(s, u)
      BY <1>1, <2>1, <3>2, QuietoTransitivo
    <3>4. Continua(s, u, {})
      BY <3>2, <3>3, QuietoContinua
    <3>5. Continua(u, v, {})
      BY <3>1, <3>4, ManejarContinua, MismoContinua DEF Continua
    <3> HIDE DEF v
    <3>6. Continua(v, ManejarExecReady(v, p, resto), {})
      BY <3>5, ManejarContinua DEF Continua
    <3>7. Continua(s, v, {})
      BY <3>4, <3>5, ContinuaTransitivo
    <3>8. Continua(s, ManejarExecReady(v, p, resto), {})
      BY <3>6, <3>7, ContinuaTransitivo
    <3> QED
      BY <2>2, <2>4, <3>8, ContinuaPaso
  <2> QED
    BY <1>3, <1>5, <2>1, <2>2, <2>3, <2>4
<1> QED
  BY <1>2, <1>4, <1>5

\* A request to a GENERIC interface, and its end.
LEMMA IoPaso ==
    ASSUME NEW s, Orden(s, {}), NEW p \in Pids
    PROVE  /\ \A pc \in 0 .. MaxPc, resto \in BOOLEAN : \A i :
                 Paso(s, PedirIoGenSleep(s, p, pc, i, resto), p)
           /\ \A i \in Interfaces, registrada \in Interfaces :
                 Continua(s, CompletarIoGenSleep(s, i, p, registrada), {})
<1>1. s \in EstadoKernel
  BY OrdenTipo
<1>2. ASSUME NEW pc \in 0 .. MaxPc, NEW i, NEW resto \in BOOLEAN
      PROVE  Paso(s, PedirIoGenSleep(s, p, pc, i, resto), p)
  <2> DEFINE t == GuardarQuantum(s, p, resto)
             a == ActualizarRegistros(t, p, pc)
             u == ExecBlock(a)
             v == [u EXCEPT !.pcb[p].proxima_io = i]
             w == [u EXCEPT !.io[i] = [ocupado |-> TRUE, pid |-> p]]
  <2>1. t \in EstadoKernel /\ Quieto(s, t)
    BY <1>1, GuardarQuantumConserva, Tipado, QuietoGuardar
  <2>2. \/ PedirIoGenSleep(s, p, pc, i, resto) = s
        \/ /\ Esta(s, "EXEC", p)
           /\ PedirIoGenSleep(s, p, pc, i, resto) = FinalizarInterfazInvalida(t, p)
        \/ /\ i \in Interfaces
           /\ \/ PedirIoGenSleep(s, p, pc, i, resto) = Avisar(v)
              \/ PedirIoGenSleep(s, p, pc, i, resto)
                   = Avisar(EnviarIo(w, i, "IO_GEN_SLEEP", p))
    BY DEF PedirIoGenSleep
  <2> HIDE DEF t
  <2>3. ASSUME Esta(s, "EXEC", p)
        PROVE  Paso(s, FinalizarInterfazInvalida(t, p), p)
    <3>1. Orden(t, {}) /\ Esta(t, "EXEC", p)
      BY <2>1, <2>3, QuietoContinua DEF Continua, Quieto, Esta
    <3> QED
      BY <2>1, <3>1, FinalizarPaso, QuietoLuego
  <2>4. a \in EstadoKernel /\ Quieto(t, a)
    BY <1>2, <2>1, ActualizarConserva, Tipado, QuietoGuardar
  <2> HIDE DEF a
  <2>5. Quieto(s, a)
    BY <1>1, <2>1, <2>4, QuietoTransitivo
  <2>6. Continua(a, u, {})
    BY <2>4, <2>5, QuietoContinua, MoverContinua DEF ExecBlock, Continua
  <2>7. Continua(s, u, {}) /\ u \in EstadoKernel
    BY <2>4, <2>5, <2>6, QuietoLuego, OrdenTipo DEF Continua
  <2> HIDE DEF u
  <2>8. ASSUME i \in Interfaces
        PROVE  Continua(s, Avisar(v), {}) /\ Continua(s, Avisar(EnviarIo(w, i, "IO_GEN_SLEEP", p)), {})
    <3>1. v \in EstadoKernel /\ Quieto(u, v)
      <4>1. [u.pcb[p] EXCEPT !.proxima_io = i] \in Pcb
        BY <2>7, <2>8, PcbTipo, PcbCampos
      <4>2. v = [u EXCEPT !.pcb[p] = [u.pcb[p] EXCEPT !.proxima_io = i]]
        OBVIOUS
      <4>3. v \in EstadoKernel
        BY <2>7, <4>1, <4>2, ConPcb, Tipado
      <4> QED
        BY <2>7, <4>3, QuietoCampos
    <3> HIDE DEF v
    <3>2. w \in EstadoKernel /\ Quieto(u, w)
      BY <2>7, <2>8, InterfazTipo, ConIo, Tipado, QuietoIo
    <3> HIDE DEF w
    <3>3. /\ EnviarIo(w, i, "IO_GEN_SLEEP", p) \in EstadoKernel
          /\ Quieto(w, EnviarIo(w, i, "IO_GEN_SLEEP", p))
      BY <2>8, <3>2, EnviarIoConserva, Tipado, QuietoIo
    <3>4. Continua(s, v, {}) /\ Continua(s, w, {})
      BY <2>7, <3>1, <3>2, QuietoLuego
    <3>5. Continua(s, EnviarIo(w, i, "IO_GEN_SLEEP", p), {})
      BY <3>3, <3>4, QuietoLuego
    <3> QED
      BY <3>4, <3>5, QuietoLuego
  <2> QED
    BY <2>2, <2>3, <2>8, MismoContinua, ContinuaPaso
<1>3. ASSUME NEW i \in Interfaces, NEW registrada \in Interfaces
      PROVE  Continua(s, CompletarIoGenSleep(s, i, p, registrada), {})
  <2> DEFINE t == ManejarBlockReady(s, p)
             u == [t EXCEPT !.io[i] = [ocupado |-> FALSE, pid |-> 0]]
             v == ProximoIoGeneric(u, registrada)
  <2>1. ~ Esta(s, "EXIT", p)
    BY DEF Orden, Esta
  <2>2. \/ CompletarIoGenSleep(s, i, p, registrada) = Avisar(s)
        \/ CompletarIoGenSleep(s, i, p, registrada) = Avisar(v)
    BY <2>1 DEF CompletarIoGenSleep
  <2>3. Continua(s, t, {}) /\ t \in EstadoKernel
    BY ManejarContinua, OrdenTipo DEF Continua
  <2> HIDE DEF t
  <2>4. u \in EstadoKernel /\ Quieto(t, u)
    BY <1>3, <2>3, InterfazTipo, ConIo, Tipado, QuietoIo
  <2> HIDE DEF u
  <2>5. v \in EstadoKernel /\ Quieto(u, v)
    BY <1>3, <2>4, ProximoIoConserva, Tipado, QuietoIo
  <2> HIDE DEF v
  <2>6. Continua(s, u, {})
    BY <2>3, <2>4, QuietoLuego
  <2>7. Continua(s, v, {})
    BY <2>5, <2>6, QuietoLuego
  <2> QED
    BY <2>2, <2>7, MismoContinua, QuietoLuego
<1> QED
  BY <1>2, <1>3

\* The packets of the CPU on dispatch end at most the process they name.
LEMMA DispatchOrden ==
    ASSUME NEW s, Orden(s, {}), NEW m \in Mensaje, NEW resto \in BOOLEAN
    PROVE  /\ Paso(s, AtenderProceso(s, m, resto), m.pid)
           /\ Paso(s, AtenderResize(s, m, resto), m.pid)
           /\ Paso(s, AtenderWait(s, m, resto), m.pid)
           /\ \A cabeza \in 0 .. MaxPid : Paso(s, AtenderSignal(s, m, resto, cabeza), m.pid)
<1> DEFINE p == m.pid
           i == InterrumpirTemporizador(s)
           g == GuardarQuantum(s, p, resto)
           a == ActualizarRegistros(s, p, m.pc)
<1>1. s \in EstadoKernel /\ p \in Pids /\ m.pc \in 0 .. MaxPc
  BY OrdenTipo, MensajeTipo
<1>2. /\ i \in EstadoKernel /\ Quieto(s, i)
      /\ g \in EstadoKernel /\ Quieto(s, g)
      /\ a \in EstadoKernel /\ Quieto(s, a)
  BY <1>1, InterrumpirTemporizadorConserva, GuardarQuantumConserva, ActualizarConserva,
     Tipado, QuietoSimple, QuietoGuardar
<1>3. /\ AtenderProceso(s, m, resto) \in
            {Caer(s), Avisar(s), Avisar(FinalizarExito(i, p)), s,
             Avisar(ManejarExecReady(a, p, resto))}
      /\ AtenderResize(s, m, resto) \in
            {FinalizarSinMemoria(i, p), Avisar(s), Avisar(FinalizarSinMemoria(g, p))}
      /\ AtenderWait(s, m, resto) \in {Caer(s), Avisar(Wait(a, p, m.dato, resto))}
      /\ \A cabeza : AtenderSignal(s, m, resto, cabeza) \in
            {Caer(s), Avisar(Signal(a, p, m.dato, resto, cabeza))}
  BY DEF AtenderProceso, AtenderResize, AtenderWait, AtenderSignal
<1> HIDE DEF i, g, a, p
<1>4. Orden(i, {}) /\ Orden(g, {}) /\ Orden(a, {})
  BY <1>2, QuietoContinua DEF Continua
<1>5. Continua(s, s, {}) /\ Continua(s, Caer(s), {}) /\ Continua(s, Avisar(s), {})
  <2>1. Continua(s, Caer(s), {})
    BY <1>1, CaerConserva, Tipado, QuietoSimple, QuietoContinua
  <2> QED
    BY <1>1, <2>1, MismoContinua, QuietoLuego
<1>6. Paso(s, s, p) /\ Paso(s, Caer(s), p) /\ Paso(s, Avisar(s), p)
  BY <1>1, <1>5, ContinuaPaso
<1>7. /\ Paso(s, FinalizarExito(i, p), p)
      /\ Paso(s, FinalizarSinMemoria(i, p), p)
      /\ Paso(s, FinalizarSinMemoria(g, p), p)
  <2>1. /\ Paso(i, FinalizarExito(i, p), p)
        /\ Paso(i, FinalizarSinMemoria(i, p), p)
        /\ Paso(g, FinalizarSinMemoria(g, p), p)
    BY <1>1, <1>4, FinalizarPaso
  <2> QED
    BY <1>1, <1>2, <2>1, QuietoLuego
<1>8. Paso(s, ManejarExecReady(a, p, resto), p)
  <2>1. Continua(a, ManejarExecReady(a, p, resto), {})
    BY <1>1, <1>4, ManejarContinua
  <2>2. Continua(s, ManejarExecReady(a, p, resto), {})
    BY <1>1, <1>2, <2>1, QuietoLuego
  <2> QED
    BY <1>1, <2>2, ContinuaPaso
<1>9. /\ Paso(s, Wait(a, p, m.dato, resto), p)
      /\ \A cabeza \in 0 .. MaxPid : Paso(s, Signal(a, p, m.dato, resto, cabeza), p)
  <2>1. /\ Paso(a, Wait(a, p, m.dato, resto), p)
        /\ \A cabeza \in 0 .. MaxPid : Paso(a, Signal(a, p, m.dato, resto, cabeza), p)
    BY <1>1, <1>4, RecursosPaso
  <2> QED
    BY <1>1, <1>2, <2>1, QuietoLuego
<1>10. /\ Paso(s, Avisar(FinalizarExito(i, p)), p)
       /\ Paso(s, Avisar(FinalizarSinMemoria(g, p)), p)
       /\ Paso(s, Avisar(ManejarExecReady(a, p, resto)), p)
       /\ Paso(s, Avisar(Wait(a, p, m.dato, resto)), p)
       /\ \A cabeza \in 0 .. MaxPid : Paso(s, Avisar(Signal(a, p, m.dato, resto, cabeza)), p)
  BY <1>1, <1>7, <1>8, <1>9, QuietoLuego
<1> QED
  <2>1. Paso(s, AtenderProceso(s, m, resto), p)
    BY <1>3, <1>6, <1>10
  <2>2. Paso(s, AtenderResize(s, m, resto), p)
    BY <1>3, <1>6, <1>7, <1>10
  <2>3. Paso(s, AtenderWait(s, m, resto), p)
    BY <1>3, <1>6, <1>10
  <2>4. \A cabeza \in 0 .. MaxPid : Paso(s, AtenderSignal(s, m, resto, cabeza), p)
    BY <1>3, <1>6, <1>10
  <2> QED
    BY <2>1, <2>2, <2>3, <2>4 DEF p

-----------------------------------------------------------------------------
(* The planner.                                                            *)

\* The loop of planificacion_largo_plazo admits only what memoria accepted, and
\* stops at the degree of multiprogramming.
LEMMA AdmitidosAceptados ==
    ASSUME NEW s \in EstadoKernel
    PROVE  /\ \A i \in 1 .. Admitidos(s) : s.pcb[s.cola["NEW"][i]].memoria_aceptado
           /\ Admitidos(s) > 0 => Concurrentes(s) + Admitidos(s) <= s.grado
<1> DEFINE nuevos == s.cola["NEW"]
           T == {n \in 0 .. Len(nuevos) :
                    \/ n = Len(nuevos)
                    \/ Concurrentes(s) + n >= s.grado
                    \/ ~ s.pcb[nuevos[n + 1]].memoria_aceptado}
           n == Admitidos(s)
<1>1. Len(nuevos) \in Nat /\ s.grado \in Nat /\ Concurrentes(s) \in Nat
  <2>1. s.grado \in Nat
    BY Zenon DEF EstadoKernel
  <2>2. \A e \in Colas : Len(s.cola[e]) \in Nat
    BY ColaTipo
  <2> HIDE DEF n, T
  <2>3. /\ Len(nuevos) \in Nat /\ Len(s.cola["READY"]) \in Nat
        /\ Len(s.cola["EXEC"]) \in Nat /\ Len(s.cola["BLOCK"]) \in Nat
        /\ Len(s.cola["READY_PRIORIDAD"]) \in Nat
    BY <2>2 DEF Colas
  <2>4. \A a, b, c, d \in Nat : a + b + c + d \in Nat
    OBVIOUS
  <2>5. Concurrentes(s) \in Nat
    BY <2>3, <2>4, Zenon DEF Concurrentes
  <2> QED
    BY <2>1, <2>3, <2>5
<1>2. T \in SUBSET Nat /\ T # {}
  BY <1>1
<1>3. n \in T /\ \A j \in T : n <= j
  BY <1>2, MinimoNat DEF Admitidos
<1> HIDE DEF nuevos
<1>4. ASSUME NEW j \in 0 .. n - 1
      PROVE  Concurrentes(s) + j < s.grado /\ s.pcb[nuevos[j + 1]].memoria_aceptado
  <2>1. n \in 0 .. Len(nuevos)
    BY <1>3
  <2>2. j \notin T /\ j \in 0 .. Len(nuevos) /\ j # Len(nuevos)
    BY <1>1, <1>3, <2>1
  <2> HIDE DEF n
  <2> QED
    BY <1>1, <2>2
<1>5. n \in Nat
  BY <1>2, <1>3
<1> HIDE DEF n, T
<1>6. ASSUME NEW i \in 1 .. n
      PROVE  s.pcb[nuevos[i]].memoria_aceptado
  <2>1. i - 1 \in 0 .. n - 1 /\ (i - 1) + 1 = i
    BY <1>5
  <2> QED
    BY <1>4, <2>1
<1>7. n > 0 => Concurrentes(s) + n <= s.grado
  <2> SUFFICES ASSUME n > 0
               PROVE  Concurrentes(s) + n <= s.grado
    OBVIOUS
  <2> DEFINE c == Concurrentes(s)
             g == s.grado
  <2>1. n - 1 \in 0 .. n - 1
    BY <1>5
  <2>2. c + (n - 1) < g /\ c \in Nat /\ g \in Nat
    BY <1>1, <1>4, <2>1
  <2> HIDE DEF c, g
  <2>3. c + n <= g
    BY <1>5, <2>2
  <2> QED
    BY <2>3 DEF c, g
<1> QED
  BY <1>6, <1>7 DEF n, nuevos

\* What planificacion_largo_plazo writes.
LEMMA LargoPlazoCampos ==
    ASSUME NEW s \in EstadoKernel
    PROVE  LET t == LargoPlazo(s)
               n == Admitidos(s)
               nuevos == s.cola["NEW"]
               listos == SubSeq(nuevos, 1, n)
           IN  /\ t.cola["NEW"] = SubSeq(nuevos, n + 1, Len(nuevos))
               /\ t.cola["READY"] = s.cola["READY"] \o listos
               /\ \A e \in Colas \ {"NEW", "READY"} : t.cola[e] = s.cola[e]
               /\ \A q \in Pids : t.procesos[q] = IF q \in Range(listos) THEN "READY"
                                                  ELSE s.procesos[q]
               /\ t.pid = s.pid /\ t.a_memoria = s.a_memoria /\ t.caido = s.caido
               /\ t.pcb = s.pcb /\ t.detener = s.detener /\ t.grado = s.grado
               /\ t.planificador_iniciar = s.planificador_iniciar
<1> DEFINE t == LargoPlazo(s)
           n == Admitidos(s)
           nuevos == s.cola["NEW"]
           listos == SubSeq(nuevos, 1, n)
           resto == SubSeq(nuevos, n + 1, Len(nuevos))
           ready == s.cola["READY"] \o listos
           estados == [p \in Pids |-> IF p \in Range(listos) THEN "READY" ELSE s.procesos[p]]
<1>1. s.cola \in [Colas -> Seq(Pids)] /\ {"NEW", "READY"} \subseteq Colas
  BY Zenon DEF EstadoKernel, Colas
<1>2. t = [s EXCEPT !.cola = [s.cola EXCEPT !["NEW"] = resto, !["READY"] = ready],
                    !.procesos = estados]
  BY <1>1 DEF LargoPlazo, NewReady, EstadoKernel
<1> HIDE DEF resto, ready, estados, t
<1>3. /\ t.cola = [s.cola EXCEPT !["NEW"] = resto, !["READY"] = ready]
      /\ t.procesos = estados
      /\ t.pid = s.pid /\ t.a_memoria = s.a_memoria /\ t.caido = s.caido
      /\ t.pcb = s.pcb /\ t.detener = s.detener /\ t.grado = s.grado
      /\ t.planificador_iniciar = s.planificador_iniciar
  BY <1>2, Zenon DEF EstadoKernel
<1>4. /\ t.cola["NEW"] = resto /\ t.cola["READY"] = ready
      /\ \A e \in Colas \ {"NEW", "READY"} : t.cola[e] = s.cola[e]
  BY <1>1, <1>3
<1>5. \A q \in Pids : t.procesos[q] = IF q \in Range(listos) THEN "READY" ELSE s.procesos[q]
  BY <1>3 DEF estados
<1> QED
  BY <1>3, <1>4, <1>5 DEF t, resto, ready

\* planificacion_largo_plazo takes the heads of NEW to the end of READY.
LEMMA LargoPlazoContinua ==
    ASSUME NEW s, Orden(s, {})
    PROVE  Continua(s, LargoPlazo(s), {})
<1> DEFINE t == LargoPlazo(s)
           n == Admitidos(s)
           nuevos == s.cola["NEW"]
           listos == SubSeq(nuevos, 1, n)
           resto == SubSeq(nuevos, n + 1, Len(nuevos))
<1>1. s \in EstadoKernel /\ t \in EstadoKernel /\ EnTurno(t)
  BY OrdenTipo, LargoPlazoConserva, Tipado, EnTurnoConserva DEF Orden
<1>2. {"NEW", "READY"} \subseteq Colas /\ "EXIT" \in Colas /\ "READY_PRIORIDAD" \in Colas
  BY DEF Colas
<1>3. \A e \in Colas : s.cola[e] \in Seq(Pids) /\ IsInjective(s.cola[e])
  BY <1>1, ColaTipo DEF Orden
<1>4. /\ t.cola["NEW"] = resto
      /\ t.cola["READY"] = s.cola["READY"] \o listos
      /\ \A e \in Colas \ {"NEW", "READY"} : t.cola[e] = s.cola[e]
      /\ \A q \in Pids : t.procesos[q] = IF q \in Range(listos) THEN "READY"
                                         ELSE s.procesos[q]
      /\ t.pid = s.pid /\ t.a_memoria = s.a_memoria /\ t.caido = s.caido
      /\ t.pcb = s.pcb /\ t.detener = s.detener
      /\ t.planificador_iniciar = s.planificador_iniciar
  BY <1>1, LargoPlazoCampos
<1>5. /\ listos \in Seq(Pids) /\ resto \in Seq(Pids)
      /\ Len(listos) = n /\ \A i \in 1 .. n : listos[i] = nuevos[i]
      /\ IsInjective(listos) /\ IsInjective(resto)
      /\ Range(listos) \cap Range(resto) = {}
      /\ Range(listos) \cup Range(resto) = Range(nuevos)
  <2>1. n \in 0 .. Len(nuevos) /\ nuevos \in Seq(Pids) /\ IsInjective(nuevos)
    BY <1>1, <1>2, <1>3, AdmitidosTipo
  <2> HIDE DEF n, nuevos
  <2> QED
    BY <2>1, RangoSubSeq
<1>6. ASSUME NEW q \in Range(listos)
      PROVE  s.pcb[q].memoria_aceptado /\ s.procesos[q] = "NEW" /\ q \in Pids
  <2>1. DOMAIN listos = 1 .. n
    <3> HIDE DEF listos, n
    <3> QED
      BY <1>5, LenProperties
  <2>2. PICK i \in 1 .. n : q = listos[i]
    <3> HIDE DEF listos, n
    <3> QED
      BY <2>1, <1>6 DEF Range
  <2>3. s.pcb[nuevos[i]].memoria_aceptado
    BY <1>1, AdmitidosAceptados
  <2>4. q = nuevos[i]
    BY <1>5, <2>2
  <2>5. q \in Pids
    <3> HIDE DEF listos
    <3> QED
      BY <1>5, RangoTipo
  <2>6. q \in Range(s.cola["NEW"])
    <3> HIDE DEF listos, resto
    <3> QED
      BY <1>5
  <2> HIDE DEF listos, nuevos
  <2>7. s.procesos[q] = "NEW"
    BY <1>2, <2>5, <2>6 DEF Orden, Esta
  <2> QED
    BY <2>3, <2>4, <2>5, <2>7
<1> HIDE DEF t, n, listos, resto
<1>7. Range(s.cola["READY"]) \cap Range(listos) = {}
  <2> SUFFICES ASSUME NEW q \in Range(listos), q \in Range(s.cola["READY"])
               PROVE  FALSE
    OBVIOUS
  <2> QED
    BY <1>2, <1>6 DEF Orden, Esta
<1>8. /\ Range(t.cola["READY"]) = Range(s.cola["READY"]) \cup Range(listos)
      /\ IsInjective(t.cola["READY"])
  BY <1>2, <1>3, <1>4, <1>5, <1>7, RangoConcat
<1>9. \A e \in Colas : IsInjective(t.cola[e])
  BY <1>3, <1>4, <1>5, <1>8
<1>10. ASSUME NEW e \in Colas \ {"EXIT"}, NEW q \in Pids
       PROVE  Esta(t, e, q) <=> t.procesos[q] = e
  <2>1. Esta(s, e, q) <=> s.procesos[q] = e
    BY DEF Orden
  <2>2. CASE e = "NEW"
    BY <2>1, <2>2, <1>4, <1>5 DEF Esta
  <2>3. CASE e = "READY"
    BY <2>1, <2>3, <1>4, <1>6, <1>8 DEF Esta
  <2>4. CASE e \notin {"NEW", "READY"}
    BY <2>1, <2>4, <1>4, <1>6 DEF Esta
  <2> QED
    BY <2>2, <2>3, <2>4
<1>11. Orden(t, {})
  <2>1. Range(t.cola["EXIT"]) = {}
    BY <1>2, <1>4 DEF Orden
  <2>2. Algoritmo # "VRR" => t.cola["READY_PRIORIDAD"] = << >>
    BY <1>2, <1>4 DEF Orden
  <2> QED
    BY <1>1, <1>9, <1>10, <2>1, <2>2 DEF Orden
<1>12. Sigue(s, t, {})
  <2>1. Len(s.a_memoria) \in Nat /\ s.planificador_iniciar \in Nat
    BY <1>1, AMemoriaLargo, SemaforoTipo
  <2>2. ASSUME NEW q \in Pids
        PROVE  /\ t.procesos[q] = SinEstado <=> s.procesos[q] = SinEstado
               /\ s.procesos[q] = "EXIT" => t.procesos[q] = "EXIT"
               /\ t.procesos[q] = "NEW" => s.procesos[q] = "NEW"
               /\ s.procesos[q] = "NEW" =>
                     t.procesos[q] \in {"NEW", "EXIT"} \/ s.pcb[q].memoria_aceptado
               /\ t.procesos[q] = "EXIT" => s.procesos[q] = "EXIT"
    BY <1>4, <1>6 DEF SinEstado
  <2> QED
    BY <2>1, <2>2, <1>4 DEF Sigue
<1> QED
  BY <1>11, <1>12 DEF Continua, t

\* ready_a_exec on an empty EXEC, and the timer of the turn.
LEMMA ReadyExecContinua ==
    ASSUME NEW s, Orden(s, {}), s.cola["EXEC"] = << >>,
           NEW de \in {"READY", "READY_PRIORIDAD"}, s.cola[de] # << >>
    PROVE  LET t == EnviarEjecutar(Mover(s, de, "EXEC"), Head(s.cola[de]))
           IN  /\ Continua(s, t, {})
               /\ \A q : Continua(s, Desalojar(t, q), {})
<1> DEFINE m == Mover(s, de, "EXEC")
           h == Head(s.cola[de])
           t == EnviarEjecutar(m, h)
<1>1. /\ s \in EstadoKernel /\ IsInjective(s.cola[de])
      /\ de \in Colas \ {"NEW", "EXIT"} /\ de # "EXEC" /\ "EXEC" \in Colas \ {"NEW"}
  BY OrdenTipo DEF Colas
<1>2. Traslado(s, m, h, de, "EXEC")
  BY <1>1, MoverTraslado
<1>3. EnTurno(m) /\ h \in Pids
  BY <1>1, MoverAExec
<1> HIDE DEF m, h
<1>4. \A Y, p : Salidos(Y, p, "EXEC") = Y
  BY DEF Salidos
<1>5. Orden(m, Salidos({}, h, "EXEC")) /\ Sigue(s, m, Salidos({}, h, "EXEC"))
  BY <1>2, <1>3, TrasladoOrden, Zenon
<1>6. Continua(s, m, {}) /\ m \in EstadoKernel
  BY <1>3, <1>4, <1>5 DEF Continua, EnTurno
<1>7. t \in EstadoKernel /\ Quieto(m, t)
  BY <1>3, <1>6, EnviarEjecutarConserva, Tipado, QuietoSimple
<1>8. Continua(s, t, {})
  BY <1>3, <1>6, <1>7, QuietoLuego
<1> HIDE DEF t
<1>9. ASSUME NEW q
      PROVE  Continua(s, Desalojar(t, q), {})
  <2>1. Desalojar(t, q) \in EstadoKernel /\ Quieto(t, Desalojar(t, q))
    BY <1>3, <1>7, DesalojarConserva, Tipado, QuietoGuardar
  <2> QED
    BY <1>3, <1>8, <2>1, QuietoLuego
<1> QED
  BY <1>8, <1>9 DEF t, m, h

\* The short term planner gives the turn to a ready process or to none.
LEMMA CortoPlazoContinua ==
    ASSUME NEW s, Orden(s, {})
    PROVE  Continua(s, CortoPlazo(s), {})
<1>1. Continua(s, s, {})
  BY MismoContinua
<1>2. ASSUME s.cola["EXEC"] = << >>, s.cola["READY"] # << >>
      PROVE  /\ Continua(s, ReadyExec(s), {})
             /\ Continua(s, Desalojar(ReadyExec(s), Head(s.cola["READY"])), {})
  BY <1>2, ReadyExecContinua DEF ReadyExec
<1>3. ASSUME s.cola["EXEC"] = << >>, s.cola["READY_PRIORIDAD"] # << >>
      PROVE  Continua(s, Desalojar(ReadyExecMayorPrioridad(s), Head(s.cola["READY_PRIORIDAD"])), {})
  BY <1>3, ReadyExecContinua DEF ReadyExecMayorPrioridad
<1>4. Continua(s, Fifo(s), {})
  BY <1>1, <1>2 DEF Fifo, ReadyExec
<1>5. Continua(s, RoundRobin(s), {})
  BY <1>1, <1>2 DEF RoundRobin
<1>6. Continua(s, VirtualRoundRobin(s), {})
  BY <1>1, <1>3, <1>5 DEF VirtualRoundRobin
<1> QED
  BY <1>4, <1>5, <1>6, AlgoritmoAssumption DEF CortoPlazo

-----------------------------------------------------------------------------
\* INICIAR_PROCESO puts a pid without a state in NEW and sends its creation.
LEMMA NuevoProcesoOrden ==
    ASSUME NEW s, Orden(s, {}), NEW p \in Pids, s.procesos[p] = SinEstado
    PROVE  LET t == NuevoProceso(s, p)
           IN  /\ Orden(t, {})
               /\ t.pid = p /\ t.caido = s.caido /\ t.detener = s.detener
               /\ t.planificador_iniciar = s.planificador_iniciar
               /\ t.procesos = [s.procesos EXCEPT ![p] = "NEW"]
               /\ t.pcb = [s.pcb EXCEPT ![p] = PcbCrear]
               /\ t.a_memoria = Append(s.a_memoria, [op |-> "NUEVO_PROCESO", pid |-> p])
               /\ t.cola = [s.cola EXCEPT !["NEW"] = Append(s.cola["NEW"], p)]
<1> DEFINE t == NuevoProceso(s, p)
           q == s.cola["NEW"]
<1>1. /\ s \in EstadoKernel /\ EnTurno(t) /\ "NEW" \in Colas /\ "EXIT" \in Colas
      /\ "READY_PRIORIDAD" \in Colas
  BY OrdenTipo, NuevoProcesoConserva, EnTurnoConserva DEF Orden, Colas
<1>2. s.cola \in [Colas -> Seq(Pids)] /\ s.procesos \in [Pids -> Colas \cup {SinEstado}]
  BY <1>1, Zenon DEF EstadoKernel
<1>3. /\ t.pid = p /\ t.caido = s.caido /\ t.detener = s.detener
      /\ t.planificador_iniciar = s.planificador_iniciar
      /\ t.procesos = [s.procesos EXCEPT ![p] = "NEW"]
      /\ t.pcb = [s.pcb EXCEPT ![p] = PcbCrear]
      /\ t.a_memoria = Append(s.a_memoria, [op |-> "NUEVO_PROCESO", pid |-> p])
      /\ t.cola = [s.cola EXCEPT !["NEW"] = Append(s.cola["NEW"], p)]
  BY <1>1, Zenon DEF EstadoKernel, NuevoProceso, Push
<1> HIDE DEF t
<1>4. q \in Seq(Pids) /\ IsInjective(q) /\ p \notin Range(q)
  BY <1>1, <1>2 DEF Orden, Esta, SinEstado
<1>5. Range(Append(q, p)) = Range(q) \cup {p} /\ IsInjective(Append(q, p))
  BY <1>4, RangoAppend
<1>6. /\ t.cola["NEW"] = Append(q, p)
      /\ \A e \in Colas \ {"NEW"} : t.cola[e] = s.cola[e]
  BY <1>1, <1>2, <1>3
<1>7. \A e \in Colas : IsInjective(t.cola[e])
  BY <1>5, <1>6 DEF Orden
<1>8. ASSUME NEW e \in Colas \ {"EXIT"}, NEW x \in Pids
      PROVE  Esta(t, e, x) <=> t.procesos[x] = e
  <2>1. Esta(s, e, x) <=> s.procesos[x] = e
    BY DEF Orden
  <2>2. t.procesos[x] = IF x = p THEN "NEW" ELSE s.procesos[x]
    BY <1>2, <1>3
  <2>3. e # SinEstado
    BY DEF Colas, SinEstado
  <2>4. CASE e = "NEW"
    BY <1>5, <1>6, <2>1, <2>2, <2>4 DEF Esta
  <2>5. CASE e # "NEW"
    BY <1>6, <2>1, <2>2, <2>3, <2>5 DEF Esta
  <2> QED
    BY <2>4, <2>5
<1>9. /\ Range(t.cola["EXIT"]) = {}
      /\ Algoritmo # "VRR" => t.cola["READY_PRIORIDAD"] = << >>
  BY <1>1, <1>6 DEF Orden
<1>10. Orden(t, {})
  BY <1>1, <1>7, <1>8, <1>9 DEF Orden
<1> QED
  BY <1>3, <1>10 DEF t

\* A creation that memoria rejects takes its process out of NEW and gives the
\* last pid back.
LEMMA RevertirOrden ==
    ASSUME NEW s, Orden(s, {}), NEW p \in Pids, s.procesos[p] = "NEW"
    PROVE  LET t == Revertir(s, p)
           IN  /\ Orden(t, {})
               /\ t.pid = s.pid - 1 /\ t.caido = s.caido /\ t.detener = s.detener
               /\ t.planificador_iniciar = s.planificador_iniciar
               /\ t.procesos = [s.procesos EXCEPT ![p] = SinEstado]
               /\ t.pcb = s.pcb /\ t.a_memoria = s.a_memoria
               /\ \A e \in Colas \ {"NEW"} : t.cola[e] = s.cola[e]
<1> DEFINE t == Revertir(s, p)
           q == s.cola["NEW"]
           x == IF q = << >> THEN q ELSE IF p \in Range(q) THEN Quitar(q, p) ELSE Tail(q)
<1>1. /\ s \in EstadoKernel /\ EnTurno(t) /\ "NEW" \in Colas /\ "EXIT" \in Colas
      /\ "READY_PRIORIDAD" \in Colas
  BY OrdenTipo, RevertirConserva, EnTurnoConserva DEF Orden, Colas
<1>2. s.cola \in [Colas -> Seq(Pids)] /\ s.procesos \in [Pids -> Colas \cup {SinEstado}]
  BY <1>1, Zenon DEF EstadoKernel
<1>3. /\ t.pid = s.pid - 1 /\ t.caido = s.caido /\ t.detener = s.detener
      /\ t.planificador_iniciar = s.planificador_iniciar
      /\ t.procesos = [s.procesos EXCEPT ![p] = SinEstado]
      /\ t.pcb = s.pcb /\ t.a_memoria = s.a_memoria
      /\ t.cola = [s.cola EXCEPT !["NEW"] = x]
  BY <1>1, Zenon DEF EstadoKernel, Revertir
<1> HIDE DEF t
<1>4. q \in Seq(Pids) /\ IsInjective(q) /\ p \in Range(q)
  BY <1>1, <1>2 DEF Orden, Esta
<1>5. x = Quitar(q, p)
  BY <1>4, RangoVacio
<1> HIDE DEF x
<1>6. Range(x) = Range(q) \ {p} /\ IsInjective(x)
  BY <1>4, <1>5, RangoQuitar
<1>7. t.cola["NEW"] = x /\ \A e \in Colas \ {"NEW"} : t.cola[e] = s.cola[e]
  BY <1>1, <1>2, <1>3
<1>8. \A e \in Colas : IsInjective(t.cola[e])
  BY <1>6, <1>7 DEF Orden
<1>9. ASSUME NEW e \in Colas \ {"EXIT"}, NEW y \in Pids
      PROVE  Esta(t, e, y) <=> t.procesos[y] = e
  <2>1. Esta(s, e, y) <=> s.procesos[y] = e
    BY DEF Orden
  <2>2. t.procesos[y] = IF y = p THEN SinEstado ELSE s.procesos[y]
    BY <1>2, <1>3
  <2>3. e # SinEstado
    BY DEF Colas, SinEstado
  <2>4. CASE e = "NEW"
    BY <1>6, <1>7, <2>1, <2>2, <2>3, <2>4 DEF Esta
  <2>5. CASE e # "NEW"
    BY <1>7, <2>1, <2>2, <2>3, <2>5 DEF Esta
  <2> QED
    BY <2>4, <2>5
<1>10. /\ Range(t.cola["EXIT"]) = {}
       /\ Algoritmo # "VRR" => t.cola["READY_PRIORIDAD"] = << >>
  BY <1>1, <1>7 DEF Orden
<1>11. Orden(t, {})
  BY <1>1, <1>8, <1>9, <1>10 DEF Orden
<1> QED
  BY <1>3, <1>7, <1>11 DEF t
=============================================================================
