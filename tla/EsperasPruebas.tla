---------------------------- MODULE EsperasPruebas ----------------------------
EXTENDS HiloPruebas

\* Proofs about what the blocked processes wait for: the lists of the resources,
\* the interfaces, and the requests the interfaces have in course.

-----------------------------------------------------------------------------
(* Conditions on the scripts.                                              *)

\* The processes whose script has one of the operations ops on x.
Usuarios(ops, x) ==
    {p \in Pids : \E n \in DOMAIN Programa[p] :
        Programa[p][n].op \in ops /\ Programa[p][n].dato = x}

Duermen(i) == Usuarios({"IO_GEN_SLEEP"}, i)

Usan(r) == Usuarios({"WAIT", "SIGNAL"}, r)

\* No interface is used by three processes: kernel_proximo_io_generic sends
\* every process that waits, and with two users only one can be waiting.
DosPorInterfaz == \A i \in Interfaces : Cardinality(Duermen(i)) <= 2

\* No resource is used by three processes: with two, who posts leaves nobody
\* else in the list.
DosPorRecurso == \A r \in Recursos : Cardinality(Usan(r)) <= 2

\* Of three members of a set of at most two, two are the same.
LEMMA TresDeDos ==
    ASSUME NEW S \in SUBSET Pids, Cardinality(S) <= 2, NEW a \in S, NEW b \in S, NEW c \in S
    PROVE  a = b \/ b = c \/ a = c
<1> SUFFICES ASSUME a # b, b # c, a # c
             PROVE  FALSE
  OBVIOUS
<1>1. IsFiniteSet(S)
  BY PidsFinito, FS_Subset
<1> DEFINE A == {a}
           B == A \cup {b}
           C == B \cup {c}
<1>2. IsFiniteSet(A) /\ Cardinality(A) = 1 /\ b \notin A
  BY FS_Singleton
<1>3. b \notin A /\ c \notin B /\ C \in SUBSET S
  OBVIOUS
<1> HIDE DEF A
<1>4. IsFiniteSet(B) /\ Cardinality(B) = Cardinality(A) + 1
  BY <1>2, <1>3, FS_AddElement
<1> HIDE DEF B
<1>5. Cardinality(C) = Cardinality(B) + 1
  BY <1>3, <1>4, FS_AddElement
<1> HIDE DEF C
<1>6. Cardinality(C) <= Cardinality(S) /\ Cardinality(S) \in Nat
  BY <1>1, <1>3, FS_Subset, FS_CardinalityType
<1> QED
  BY <1>2, <1>4, <1>5, <1>6

-----------------------------------------------------------------------------
(* The invariant on the kernel's memory.                                   *)

\* What p waits for: a resource that holds it, the interface it is registered
\* in, or its turn in the interface it remembers.
Motivos(s, p) == {<<"recurso", r>> : r \in RecursosDe(s, p)}
                 \cup {<<"interfaz", i>> : i \in InterfacesDe(s, p)}
                 \cup {<<"turno", i>> : i \in {j \in Interfaces : s.pcb[p].proxima_io = j}}

\* A process is in BLOCK exactly while it waits for something, and for one
\* thing only.
UnMotivo(s, p) ==
    /\ s.procesos[p] = "BLOCK" <=> Motivos(s, p) # {}
    /\ \A x, y \in Motivos(s, p) : x = y

\* A list holds each of its processes once, only those that use the resource,
\* and only while no instance is left.
EnRecurso(s, r) ==
    /\ IsInjective(s.recursos[r].bloqueados)
    /\ Range(s.recursos[r].bloqueados) \subseteq Usan(r)
    /\ DosPorRecurso /\ s.recursos[r].bloqueados # << >> => s.recursos[r].instancias < 0

\* An interface is busy exactly while a process is registered in it, and only
\* a busy interface is waited for.
EnInterfaz(s, i) ==
    /\ s.io[i].ocupado <=> s.io[i].pid # 0
    /\ s.io[i].pid # 0 => s.io[i].pid \in Duermen(i)
    /\ \A p \in Pids : s.pcb[p].proxima_io = i => p \in Duermen(i) /\ s.io[i].ocupado

\* No pc that the kernel keeps or sends is past the end of the script.
Acotado(s) ==
    /\ \A p \in Pids : s.pcb[p].pc <= Len(Programa[p])
    /\ \A n \in DOMAIN s.a_cpu : s.a_cpu[n].pc <= Len(Programa[s.a_cpu[n].pid])

Esperas(s) ==
    /\ ~ s.caido
    /\ \A p \in Pids : UnMotivo(s, p)
    /\ \A r \in Recursos : EnRecurso(s, r)
    /\ \A i \in Interfaces : EnInterfaz(s, i)
    /\ Acotado(s)

\* A function that keeps the invariant and leaves the interfaces alone.
Sereno(s, t) == Esperas(t) /\ t.io = s.io /\ t.a_io = s.a_io

\* A function that blocks nobody and unblocks nobody.
MismaEspera(s, t) ==
    /\ t.recursos = s.recursos /\ t.io = s.io /\ t.a_io = s.a_io /\ t.caido = s.caido
    /\ \A q \in Pids : /\ t.pcb[q].proxima_io = s.pcb[q].proxima_io
                       /\ t.procesos[q] = "BLOCK" <=> s.procesos[q] = "BLOCK"
    /\ Acotado(s) => Acotado(t)

\* What a process waits for is in the resources, the interfaces and its PCB.
LEMMA MotivosIguales ==
    ASSUME NEW s, NEW t, NEW q,
           \A r \in Recursos : q \in Range(t.recursos[r].bloqueados)
                               <=> q \in Range(s.recursos[r].bloqueados),
           \A i \in Interfaces : t.io[i].pid = q <=> s.io[i].pid = q,
           t.pcb[q].proxima_io = s.pcb[q].proxima_io
    PROVE  Motivos(t, q) = Motivos(s, q)
<1>1. RecursosDe(t, q) = RecursosDe(s, q)
  BY DEF RecursosDe
<1>2. InterfacesDe(t, q) = InterfacesDe(s, q)
  BY DEF InterfacesDe
<1> QED
  BY <1>1, <1>2 DEF Motivos

\* Such a function keeps the invariant.
LEMMA MismaEsperaSereno ==
    ASSUME NEW s, NEW t, Esperas(s), MismaEspera(s, t)
    PROVE  Sereno(s, t)
<1>1. ASSUME NEW q \in Pids
      PROVE  UnMotivo(t, q)
  <2>1. Motivos(t, q) = Motivos(s, q)
    BY MotivosIguales DEF MismaEspera
  <2> QED
    BY <2>1 DEF UnMotivo, MismaEspera, Esperas
<1>2. ASSUME NEW r \in Recursos
      PROVE  EnRecurso(t, r)
  BY DEF EnRecurso, MismaEspera, Esperas
<1>3. ASSUME NEW i \in Interfaces
      PROVE  EnInterfaz(t, i)
  BY DEF EnInterfaz, MismaEspera, Esperas
<1> QED
  BY <1>1, <1>2, <1>3 DEF Sereno, Esperas, MismaEspera

\* Who waits for nothing: not in BLOCK, in no list, in no interface, and
\* without an interface to remember.
LEMMA SinMotivo ==
    ASSUME NEW s \in EstadoKernel, NEW p \in Pids, Esperas(s), s.procesos[p] # "BLOCK"
    PROVE  /\ Motivos(s, p) = {} /\ s.pcb[p].proxima_io = SinIo
           /\ \A r \in Recursos : p \notin Range(s.recursos[r].bloqueados)
           /\ \A i \in Interfaces : s.io[i].pid # p
<1>1. Motivos(s, p) = {}
  BY DEF Esperas, UnMotivo
<1>2. s.pcb[p].proxima_io \in Interfaces \cup {SinIo}
  BY PcbTipo DEF Pcb
<1>3. RecursosDe(s, p) = {} /\ InterfacesDe(s, p) = {}
      /\ {j \in Interfaces : s.pcb[p].proxima_io = j} = {}
  BY <1>1 DEF Motivos
<1> QED
  BY <1>1, <1>2, <1>3 DEF RecursosDe, InterfacesDe

-----------------------------------------------------------------------------
(* Functions that block nobody and unblock nobody.                         *)

\* One that leaves alone every field the invariant is about.
LEMMA MismosCampos ==
    ASSUME NEW s, NEW t,
           t.recursos = s.recursos, t.io = s.io, t.a_io = s.a_io, t.caido = s.caido,
           t.procesos = s.procesos, t.a_cpu = s.a_cpu,
           \A q \in Pids : /\ t.pcb[q].proxima_io = s.pcb[q].proxima_io
                           /\ t.pcb[q].pc = s.pcb[q].pc
    PROVE  MismaEspera(s, t)
BY DEF MismaEspera, Acotado

\* The semaphore, the timer, the sockets of the CPU and of memoria.
LEMMA EsperaSimple ==
    ASSUME NEW s \in EstadoKernel, Esperas(s), NEW p \in Pids
    PROVE  /\ Sereno(s, s) /\ Sereno(s, Avisar(s)) /\ Sereno(s, InterrumpirCpu(s, p))
           /\ Sereno(s, AvisarMemoriaFinalizacion(s, p))
           /\ Sereno(s, IniciarTemporizador(s)) /\ Sereno(s, InterrumpirTemporizador(s))
           /\ \A resto \in BOOLEAN : Sereno(s, GuardarQuantum(s, p, resto))
           /\ \A q : Sereno(s, Desalojar(s, q))
           /\ \A v \in BOOLEAN : [s EXCEPT !.pcb[p].quantum_largo = v] \in EstadoKernel
                                 /\ Sereno(s, [s EXCEPT !.pcb[p].quantum_largo = v])
<1> DEFINE Ajena(u, t) ==
             /\ t.recursos = u.recursos /\ t.io = u.io /\ t.a_io = u.a_io
             /\ t.caido = u.caido /\ t.procesos = u.procesos /\ t.a_cpu = u.a_cpu
<1>1. ASSUME NEW u, Esperas(u), NEW t, Ajena(u, t), t.pcb = u.pcb
      PROVE  Sereno(u, t)
  BY <1>1, MismosCampos, MismaEsperaSereno
<1>2. Sereno(s, s)
  BY <1>1
<1>3. Sereno(s, Avisar(s))
  <2>1. Ajena(s, Avisar(s)) /\ Avisar(s).pcb = s.pcb
    BY Zenon DEF EstadoKernel, Avisar
  <2> QED
    BY <1>1, <2>1
<1>4. Sereno(s, InterrumpirCpu(s, p))
  <2>1. Ajena(s, InterrumpirCpu(s, p)) /\ InterrumpirCpu(s, p).pcb = s.pcb
    BY Zenon DEF EstadoKernel, InterrumpirCpu
  <2> QED
    BY <1>1, <2>1
<1>5. Sereno(s, AvisarMemoriaFinalizacion(s, p))
  <2>1. /\ Ajena(s, AvisarMemoriaFinalizacion(s, p))
        /\ AvisarMemoriaFinalizacion(s, p).pcb = s.pcb
    BY Zenon DEF EstadoKernel, AvisarMemoriaFinalizacion
  <2> QED
    BY <1>1, <2>1
<1>6. Sereno(s, IniciarTemporizador(s))
  <2>1. Ajena(s, IniciarTemporizador(s)) /\ IniciarTemporizador(s).pcb = s.pcb
    BY Zenon DEF EstadoKernel, IniciarTemporizador
  <2> QED
    BY <1>1, <2>1
<1>7. Sereno(s, InterrumpirTemporizador(s))
  <2> DEFINE t == [s EXCEPT !.timer.armado = FALSE]
  <2>1. Ajena(s, t) /\ t.pcb = s.pcb
    BY Zenon DEF EstadoKernel
  <2> HIDE DEF t
  <2>2. Sereno(s, t)
    BY <1>1, <2>1
  <2> QED
    BY <1>2, <2>2 DEF InterrumpirTemporizador, t
<1>8. ASSUME NEW u \in EstadoKernel, Esperas(u), NEW v \in BOOLEAN
      PROVE  /\ [u EXCEPT !.pcb[p].quantum_largo = v] \in EstadoKernel
             /\ Sereno(u, [u EXCEPT !.pcb[p].quantum_largo = v])
  <2> DEFINE x == [u.pcb[p] EXCEPT !.quantum_largo = v]
             t == [u EXCEPT !.pcb[p] = x]
  <2>1. x \in Pcb /\ x.proxima_io = u.pcb[p].proxima_io /\ x.pc = u.pcb[p].pc
    <3>1. u.pcb[p] \in Pcb
      BY <1>8, PcbTipo
    <3> QED
      BY <3>1, PcbCampos DEF Pcb
  <2>2. t = [u EXCEPT !.pcb[p].quantum_largo = v]
    OBVIOUS
  <2> HIDE DEF x
  <2>3. Ajena(u, t) /\ t.pcb = [u.pcb EXCEPT ![p] = x] /\ u.pcb \in [Pids -> Pcb]
    BY <1>8, Zenon DEF EstadoKernel
  <2>4. t \in EstadoKernel
    BY <1>8, <2>1, ConPcb, Tipado
  <2> HIDE DEF t
  <2>5. \A q \in Pids : /\ t.pcb[q].proxima_io = u.pcb[q].proxima_io
                        /\ t.pcb[q].pc = u.pcb[q].pc
    BY <2>1, <2>3
  <2>6. MismaEspera(u, t)
    BY <2>3, <2>5, MismosCampos
  <2> QED
    BY <1>8, <2>2, <2>4, <2>6, MismaEsperaSereno
<1>9. ASSUME NEW resto \in BOOLEAN
      PROVE  Sereno(s, GuardarQuantum(s, p, resto))
  <2> DEFINE t == InterrumpirTemporizador(s)
             v == QuantumRestante(s, resto)
  <2>1. t \in EstadoKernel
    BY InterrumpirTemporizadorConserva, Tipado
  <2>2. v \in BOOLEAN
    <3>1. s.timer \in Temporizador
      BY RelojTipo
    <3> QED
      BY <3>1 DEF QuantumRestante, Temporizador
  <2> HIDE DEF t, v
  <2>3. Sereno(t, [t EXCEPT !.pcb[p].quantum_largo = v])
    BY <1>7, <1>8, <2>1, <2>2 DEF Sereno, t
  <2> QED
    BY <1>7, <2>3 DEF GuardarQuantum, Sereno, t, v
<1>10. \A q : Sereno(s, Desalojar(s, q))
  BY <1>2, <1>6 DEF Desalojar
<1> QED
  BY <1>2, <1>3, <1>4, <1>5, <1>6, <1>7, <1>8, <1>9, <1>10

\* One function after another.
LEMMA SerenoLuego ==
    ASSUME NEW s, NEW t, NEW u, Sereno(s, t), Sereno(t, u)
    PROVE  Sereno(s, u)
BY DEF Sereno

\* Process p goes from one list to another, neither of them BLOCK.
LEMMA EsperaMover ==
    ASSUME NEW s, Orden(s, {}), Esperas(s),
           NEW de \in {"EXEC", "READY", "READY_PRIORIDAD"},
           NEW a \in {"READY", "READY_PRIORIDAD", "EXEC", "EXIT"}, de # a
    PROVE  Sereno(s, Mover(s, de, a))
<1>1. s \in EstadoKernel /\ de \in Colas \ {"EXIT"} /\ a \in Colas
  BY OrdenTipo DEF Colas
<1>2. CASE s.cola[de] = << >>
  <2>1. 1 \in Pids
    BY LimitesAssumption DEF Pids
  <2> QED
    BY <1>1, <1>2, <2>1, EsperaSimple DEF Mover
<1>3. CASE s.cola[de] # << >>
  <2> DEFINE p == Head(s.cola[de])
             q == Tail(s.cola[de])
             t == Push([s EXCEPT !.cola[de] = q], a, p)
  <2>1. p \in Pids /\ s.procesos[p] = de
    <3>1. s.cola[de] \in Seq(Pids)
      BY <1>1, ColaTipo
    <3>2. p \in Pids /\ p \in Range(s.cola[de])
      BY <1>3, <3>1, PrimeroLeido, LenProperties DEF Range
    <3> QED
      BY <1>1, <3>2 DEF Orden, Esta
  <2>2. Mover(s, de, a) = t
    BY <1>3 DEF Mover, Pop
  <2> HIDE DEF p, q
  <2>3. /\ t.recursos = s.recursos /\ t.io = s.io /\ t.a_io = s.a_io /\ t.caido = s.caido
        /\ t.procesos = [s.procesos EXCEPT ![p] = a] /\ t.a_cpu = s.a_cpu /\ t.pcb = s.pcb
        /\ s.procesos \in [Pids -> Colas \cup {SinEstado}]
    BY <1>1, Zenon DEF EstadoKernel, Push
  <2> HIDE DEF t
  <2>4. MismaEspera(s, t)
    BY <2>1, <2>3 DEF MismaEspera, Acotado
  <2> QED
    BY <2>2, <2>4, MismaEsperaSereno
<1> QED
  BY <1>2, <1>3

\* kernel_manejar_ready with EXEC_READY.
LEMMA EsperaManejar ==
    ASSUME NEW s, Orden(s, {}), Esperas(s), NEW p \in Pids, NEW resto \in BOOLEAN
    PROVE  Sereno(s, ManejarExecReady(s, p, resto))
<1> DEFINE t == InterrumpirTemporizador(s)
           u == [t EXCEPT !.pcb[p].quantum_largo = TRUE]
<1>1. s \in EstadoKernel
  BY OrdenTipo
<1>2. t \in EstadoKernel /\ Sereno(s, t) /\ Orden(t, {})
  BY <1>1, EsperaSimple, InterrumpirTemporizadorConserva, Tipado, QuietoSimple, QuietoOrden
<1>3. ManejarExecReady(s, p, resto) \in
         {s, Mover(s, "EXEC", "READY"), Mover(t, "EXEC", "READY"),
          Mover(u, "EXEC", "READY_PRIORIDAD")}
  BY DEF ManejarExecReady, ExecReady, ExecReadyMayorPrioridad
<1> HIDE DEF t
<1>4. u \in EstadoKernel /\ Sereno(t, u)
  BY <1>2, EsperaSimple DEF Sereno
<1>5. Orden(u, {})
  <2>1. Quieto(t, u)
    BY <1>2, <1>4, QuietoCampos
  <2> QED
    BY <1>2, <1>4, <2>1, QuietoOrden
<1> HIDE DEF u
<1>6. /\ Sereno(s, Mover(s, "EXEC", "READY")) /\ Sereno(t, Mover(t, "EXEC", "READY"))
      /\ Sereno(u, Mover(u, "EXEC", "READY_PRIORIDAD"))
  BY <1>2, <1>4, <1>5, EsperaMover DEF Sereno
<1> QED
  BY <1>1, <1>2, <1>3, <1>4, <1>6, EsperaSimple, SerenoLuego

\* proceso_matar of a process that left EXEC.
LEMMA EsperaMatar ==
    ASSUME NEW s \in EstadoKernel, Esperas(s), NEW p \in Pids, s.procesos[p] = "EXIT"
    PROVE  Sereno(s, Matar(s, p)) /\ Sereno(s, MatarEnMemoria(s, p))
<1>1. ASSUME NEW u \in EstadoKernel, Esperas(u), u.procesos[p] = "EXIT"
      PROVE  Sereno(u, Matar(u, p))
  <2> DEFINE q == Quitar(u.cola["EXIT"], p)
             t == [u EXCEPT !.cola["EXIT"] = q, !.pcb[p] = PcbCrear, !.procesos[p] = "EXIT"]
  <2>1. Matar(u, p) \in {u, t}
    BY <1>1 DEF Matar, SinEstado
  <2> HIDE DEF q
  <2>2. /\ t.recursos = u.recursos /\ t.io = u.io /\ t.a_io = u.a_io /\ t.caido = u.caido
        /\ t.procesos = [u.procesos EXCEPT ![p] = "EXIT"] /\ t.a_cpu = u.a_cpu
        /\ t.pcb = [u.pcb EXCEPT ![p] = PcbCrear]
        /\ u.procesos \in [Pids -> Colas \cup {SinEstado}] /\ u.pcb \in [Pids -> Pcb]
    BY <1>1, Zenon DEF EstadoKernel
  <2> HIDE DEF t
  <2>3. u.pcb[p].proxima_io = SinIo
    BY <1>1, SinMotivo
  <2>4. PcbCrear.pc = 0 /\ PcbCrear.proxima_io = SinIo
    BY DEF PcbCrear
  <2>5. 0 <= Len(Programa[p])
    <3>1. Programa[p] \in Seq(Instruccion)
      BY ProgramaAssumption
    <3> QED
      BY <3>1, LenProperties
  <2>6. MismaEspera(u, t)
    BY <1>1, <2>2, <2>3, <2>4, <2>5 DEF MismaEspera, Acotado
  <2>7. Sereno(u, t) /\ Sereno(u, u)
    BY <1>1, <2>6, MismaEsperaSereno DEF Sereno
  <2> QED
    BY <2>1, <2>7
<1> DEFINE t == AvisarMemoriaFinalizacion(s, p)
<1>2. t \in EstadoKernel /\ Sereno(s, t)
  BY AvisarMemoriaConserva, Tipado, EsperaSimple
<1>3. t.procesos[p] = "EXIT"
  BY Zenon DEF AvisarMemoriaFinalizacion, EstadoKernel
<1> HIDE DEF t
<1>4. Sereno(t, Matar(t, p))
  BY <1>1, <1>2, <1>3 DEF Sereno
<1> QED
  BY <1>1, <1>2, <1>4, SerenoLuego DEF MatarEnMemoria, t

\* The ends of the process in EXEC.
LEMMA EsperaFinalizar ==
    ASSUME NEW s, Orden(s, {}), Esperas(s), NEW p \in Pids, Esta(s, "EXEC", p)
    PROVE  /\ Sereno(s, FinalizarExito(s, p))
           /\ Sereno(s, FinalizarRecursoInvalido(s, p))
           /\ Sereno(s, FinalizarInterfazInvalida(s, p))
<1> DEFINE m == Mover(s, "EXEC", "EXIT")
           t == ExecExit(s)
           u == Matar(t, p)
<1>1. s \in EstadoKernel /\ s.procesos[p] = "EXEC"
  BY OrdenTipo DEF Orden, Colas
<1>2. s.cola["EXEC"] # << >> /\ Head(s.cola["EXEC"]) = p /\ Finalizable(s, p)
  BY <1>1, UnicoEnExec DEF Finalizable, SinEstado, Orden
<1>3. m \in EstadoKernel /\ Sereno(s, m) /\ t = Avisar(m)
  BY <1>1, <1>2, MoverConserva, Tipado, EsperaMover DEF ExecExit, Colas
<1>4. t \in EstadoKernel /\ t.procesos[p] = "EXIT"
  <2>1. Orden(t, {p})
    BY SalirOrden
  <2> HIDE DEF t
  <2> QED
    BY <2>1, OrdenTipo DEF Orden
<1>5. /\ FinalizarExito(s, p) = MatarEnMemoria(t, p)
      /\ FinalizarRecursoInvalido(s, p) = MatarEnMemoria(u, p)
      /\ FinalizarInterfazInvalida(s, p) = MatarEnMemoria(t, p)
  BY <1>1, <1>2 DEF FinalizarExito, SalirDeExec, FinalizarRecursoInvalido,
                    FinalizarInterfazInvalida, MatarEnMemoria
<1> HIDE DEF m
<1>6. Sereno(m, t)
  BY <1>3, <1>1, EsperaSimple DEF Sereno
<1> HIDE DEF t
<1>7. Sereno(s, t)
  BY <1>3, <1>6, SerenoLuego
<1>8. Sereno(t, u) /\ Sereno(t, MatarEnMemoria(t, p))
  BY <1>4, <1>7, EsperaMatar DEF Sereno
<1>9. u \in EstadoKernel /\ u.procesos[p] = "EXIT"
  <2>1. u \in EstadoKernel
    BY <1>4, MatarConserva, Tipado
  <2>2. u.procesos[p] = "EXIT"
    BY <1>4, Zenon DEF Matar, SinEstado, EstadoKernel
  <2> QED
    BY <2>1, <2>2
<1> HIDE DEF u
<1>10. Sereno(u, MatarEnMemoria(u, p))
  BY <1>8, <1>9, EsperaMatar DEF Sereno
<1> QED
  BY <1>5, <1>7, <1>8, <1>10, SerenoLuego

-----------------------------------------------------------------------------
(* The planner, and the creation of a process.                             *)

\* planificacion_largo_plazo.
LEMMA EsperaLargoPlazo ==
    ASSUME NEW s, Orden(s, {}), Esperas(s)
    PROVE  Sereno(s, LargoPlazo(s))
<1> DEFINE n == Admitidos(s)
           q == s.cola["NEW"]
           listos == SubSeq(q, 1, n)
           t == LargoPlazo(s)
           nuevos == SubSeq(q, n + 1, Len(q))
           ready == s.cola["READY"] \o listos
           estados == [p \in Pids |-> IF p \in Range(listos) THEN "READY" ELSE s.procesos[p]]
<1>1. s \in EstadoKernel /\ q \in Seq(Pids)
  BY OrdenTipo, ColaTipo DEF Colas
<1>2. \A p \in Pids : t.procesos[p] = IF p \in Range(listos) THEN "READY" ELSE s.procesos[p]
  BY <1>1, LargoPlazoCampos
<1>3. \A p \in Pids : p \in Range(listos) => s.procesos[p] = "NEW"
  <2> SUFFICES ASSUME NEW p \in Pids, p \in Range(listos)
               PROVE  s.procesos[p] = "NEW"
    OBVIOUS
  <2>1. n \in 0 .. Len(q)
    BY <1>1, AdmitidosTipo
  <2>2. p \in Range(q)
    <3>1. IsInjective(q)
      BY OrdenTipo DEF Orden, Colas
    <3> HIDE DEF n, q
    <3>2. Range(listos) \cup Range(nuevos) = Range(q)
      BY <1>1, <2>1, <3>1, RangoSubSeq
    <3> QED
      BY <3>2
  <2> QED
    BY <1>1, <2>2 DEF Orden, Esta, Colas
<1>4. /\ t.recursos = s.recursos /\ t.io = s.io /\ t.a_io = s.a_io /\ t.caido = s.caido
      /\ t.a_cpu = s.a_cpu /\ t.pcb = s.pcb
  BY <1>1, Zenon DEF LargoPlazo, NewReady, EstadoKernel
<1> HIDE DEF t, listos
<1>5. MismaEspera(s, t)
  BY <1>2, <1>3, <1>4 DEF MismaEspera, Acotado
<1>6. Sereno(s, t)
  BY <1>5, MismaEsperaSereno
<1> QED
  BY <1>6 DEF t

\* The dispatch of the first of a list of ready processes.
LEMMA EsperaReadyExec ==
    ASSUME NEW s, Orden(s, {}), Esperas(s), NEW de \in {"READY", "READY_PRIORIDAD"},
           s.cola["EXEC"] = << >>, s.cola[de] # << >>
    PROVE  LET t == EnviarEjecutar(Mover(s, de, "EXEC"), Head(s.cola[de]))
           IN  Sereno(s, t) /\ \A q : Sereno(s, Desalojar(t, q))
<1> DEFINE h == Head(s.cola[de])
           m == Mover(s, de, "EXEC")
           x == [pid |-> h, pc |-> m.pcb[h].pc]
           t == EnviarEjecutar(m, h)
<1>1. s \in EstadoKernel /\ de \in Colas \ {"NEW", "EXIT"} /\ de # "EXEC"
  BY OrdenTipo DEF Colas
<1>2. Sereno(s, m)
  BY <1>1, EsperaMover
<1>3. m \in EstadoKernel /\ h \in Pids
  BY <1>1, MoverAExec DEF EnTurno, Orden
<1> HIDE DEF m, h
<1>4. t \in EstadoKernel
  BY <1>3, EnviarEjecutarConserva, Tipado
<1>5. /\ t.recursos = m.recursos /\ t.io = m.io /\ t.a_io = m.a_io /\ t.caido = m.caido
      /\ t.procesos = m.procesos /\ t.pcb = m.pcb /\ t.a_cpu = Append(m.a_cpu, x)
      /\ m.a_cpu \in Seq([pid : Pids, pc : 0 .. MaxPc]) /\ m.pcb \in [Pids -> Pcb]
  BY <1>3, Zenon DEF EstadoKernel, EnviarEjecutar
<1> HIDE DEF t
<1>6. Acotado(t)
  <2>1. Acotado(m)
    BY <1>2 DEF Sereno, Esperas
  <2>2. x.pc <= Len(Programa[x.pid])
    BY <1>3, <2>1 DEF Acotado
  <2>3. x \in [pid : Pids, pc : 0 .. MaxPc]
    <3>1. m.pcb[h] \in Pcb
      BY <1>3, PcbTipo
    <3> QED
      BY <1>3, <3>1 DEF Pcb
  <2> HIDE DEF x
  <2>4. \A n \in DOMAIN t.a_cpu : t.a_cpu[n] = x \/ (n \in DOMAIN m.a_cpu /\ t.a_cpu[n] = m.a_cpu[n])
    BY <1>5, <2>3, UltimoEscrito, LenProperties
  <2> QED
    BY <1>5, <2>1, <2>2, <2>4 DEF Acotado
<1>7. MismaEspera(m, t)
  BY <1>5, <1>6 DEF MismaEspera
<1>8. Sereno(s, t)
  BY <1>2, <1>7, MismaEsperaSereno, SerenoLuego DEF Sereno
<1>9. \A q : Sereno(s, Desalojar(t, q))
  BY <1>3, <1>4, <1>8, EsperaSimple, SerenoLuego DEF Sereno
<1> QED
  BY <1>8, <1>9 DEF t, m, h

\* planificacion_corto_plazo.
LEMMA EsperaCortoPlazo ==
    ASSUME NEW s, Orden(s, {}), Esperas(s)
    PROVE  Sereno(s, CortoPlazo(s))
<1>1. Sereno(s, s)
  BY DEF Sereno
<1>2. ASSUME s.cola["EXEC"] = << >>, s.cola["READY"] # << >>
      PROVE  /\ Sereno(s, ReadyExec(s))
             /\ Sereno(s, Desalojar(ReadyExec(s), Head(s.cola["READY"])))
  BY <1>2, EsperaReadyExec DEF ReadyExec
<1>3. ASSUME s.cola["EXEC"] = << >>, s.cola["READY_PRIORIDAD"] # << >>
      PROVE  Sereno(s, Desalojar(ReadyExecMayorPrioridad(s), Head(s.cola["READY_PRIORIDAD"])))
  BY <1>3, EsperaReadyExec DEF ReadyExecMayorPrioridad
<1>4. Sereno(s, Fifo(s))
  BY <1>1, <1>2 DEF Fifo, ReadyExec
<1>5. Sereno(s, RoundRobin(s))
  BY <1>1, <1>2 DEF RoundRobin
<1>6. Sereno(s, VirtualRoundRobin(s))
  BY <1>1, <1>3, <1>5 DEF VirtualRoundRobin
<1> QED
  BY <1>4, <1>5, <1>6, AlgoritmoAssumption DEF CortoPlazo

\* INICIAR_PROCESO.
LEMMA EsperaNuevo ==
    ASSUME NEW s, Orden(s, {}), Esperas(s), NEW p \in Pids, s.procesos[p] = SinEstado
    PROVE  Sereno(s, NuevoProceso(s, p))
<1> DEFINE t == NuevoProceso(s, p)
<1>1. s \in EstadoKernel
  BY OrdenTipo
<1>2. /\ t.procesos = [s.procesos EXCEPT ![p] = "NEW"]
      /\ t.pcb = [s.pcb EXCEPT ![p] = PcbCrear] /\ t.caido = s.caido
  BY NuevoProcesoOrden
<1>3. /\ t.recursos = s.recursos /\ t.io = s.io /\ t.a_io = s.a_io /\ t.a_cpu = s.a_cpu
      /\ s.procesos \in [Pids -> Colas \cup {SinEstado}] /\ s.pcb \in [Pids -> Pcb]
  BY <1>1, Zenon DEF NuevoProceso, Push, EstadoKernel
<1> HIDE DEF t
<1>4. s.pcb[p].proxima_io = SinIo /\ s.procesos[p] # "BLOCK"
  BY <1>1, SinMotivo DEF SinEstado
<1>5. PcbCrear.pc = 0 /\ PcbCrear.proxima_io = SinIo
  BY DEF PcbCrear
<1>6. 0 <= Len(Programa[p])
  <2>1. Programa[p] \in Seq(Instruccion)
    BY ProgramaAssumption
  <2> QED
    BY <2>1, LenProperties
<1>7. MismaEspera(s, t)
  BY <1>2, <1>3, <1>4, <1>5, <1>6 DEF MismaEspera, Acotado
<1>8. Sereno(s, t)
  BY <1>7, MismaEsperaSereno
<1> QED
  BY <1>8 DEF t

\* The answer of memoria to a creation.
LEMMA EsperaResponder ==
    ASSUME NEW s, Orden(s, {}), Esperas(s), NEW p \in Pids, NEW leido \in BOOLEAN,
           EnCreacion(s, p)
    PROVE  Sereno(s, ResponderNuevoProceso(s, p, leido))
<1> DEFINE q == s.cola["NEW"]
           y == IF q = << >> THEN q ELSE IF p \in Range(q) THEN Quitar(q, p) ELSE Tail(q)
           z == s.pid - 1
           u == Revertir(s, p)
           x == [s.pcb[p] EXCEPT !.memoria_aceptado = TRUE]
           v == [s EXCEPT !.pcb[p] = x]
<1>1. s \in EstadoKernel /\ Sereno(s, s)
  BY OrdenTipo DEF Sereno
<1>2. CASE s.procesos[p] = "EXIT"
  BY <1>1, <1>2 DEF ResponderNuevoProceso, SinEstado
<1>3. CASE s.procesos[p] = "NEW"
  <2>1. Sereno(s, u)
    <3>1. /\ u.recursos = s.recursos /\ u.io = s.io /\ u.a_io = s.a_io /\ u.a_cpu = s.a_cpu
          /\ u.pcb = s.pcb /\ u.caido = s.caido
          /\ u.procesos = [s.procesos EXCEPT ![p] = SinEstado]
          /\ s.procesos \in [Pids -> Colas \cup {SinEstado}]
      <4>1. u = [s EXCEPT !.cola["NEW"] = y, !.procesos[p] = SinEstado, !.pid = z]
        BY DEF Revertir
      <4> HIDE DEF u, y, z
      <4> QED
        BY <1>1, <4>1, Zenon DEF EstadoKernel
    <3> HIDE DEF u
    <3>2. MismaEspera(s, u)
      BY <1>3, <3>1 DEF MismaEspera, Acotado, SinEstado
    <3> QED
      BY <3>2, MismaEsperaSereno
  <2>2. v \in EstadoKernel /\ Sereno(s, v)
    <3>1. x \in Pcb /\ x.proxima_io = s.pcb[p].proxima_io /\ x.pc = s.pcb[p].pc
      <4>1. s.pcb[p] \in Pcb
        BY <1>1, PcbTipo
      <4> QED
        BY <4>1, PcbCampos DEF Pcb
    <3> HIDE DEF x
    <3>2. v \in EstadoKernel
      BY <1>1, <3>1, ConPcb, Tipado
    <3>3. /\ v.recursos = s.recursos /\ v.io = s.io /\ v.a_io = s.a_io /\ v.a_cpu = s.a_cpu
          /\ v.procesos = s.procesos /\ v.caido = s.caido
          /\ v.pcb = [s.pcb EXCEPT ![p] = x] /\ s.pcb \in [Pids -> Pcb]
      BY <1>1, Zenon DEF EstadoKernel
    <3> HIDE DEF v
    <3>4. MismaEspera(s, v)
      BY <3>1, <3>3, MismosCampos
    <3> QED
      BY <3>2, <3>4, MismaEsperaSereno
  <2>3. v = [s EXCEPT !.pcb[p].memoria_aceptado = TRUE]
    OBVIOUS
  <2>4. ResponderNuevoProceso(s, p, leido) \in {u, s, Avisar(v)}
    BY <1>3, <2>3 DEF ResponderNuevoProceso, SinEstado
  <2> HIDE DEF u, v
  <2>5. Sereno(v, Avisar(v))
    <3>1. 1 \in Pids
      BY LimitesAssumption DEF Pids
    <3> QED
      BY <2>2, <3>1, EsperaSimple DEF Sereno
  <2> QED
    BY <1>1, <2>1, <2>2, <2>4, <2>5, SerenoLuego
<1> QED
  BY <1>2, <1>3 DEF EnCreacion

-----------------------------------------------------------------------------
(* What one process waits for changes.                                     *)

\* Nobody but p changes what it waits for, and what p waits for is right.
LEMMA EsperaCambio ==
    ASSUME NEW s, Esperas(s), NEW t, NEW p \in Pids,
           \A q \in Pids \ {p} : /\ Motivos(t, q) = Motivos(s, q)
                                 /\ t.procesos[q] = "BLOCK" <=> s.procesos[q] = "BLOCK",
           UnMotivo(t, p), t.caido = s.caido, Acotado(s) => Acotado(t),
           \A r \in Recursos : EnRecurso(t, r),
           \A i \in Interfaces : EnInterfaz(t, i)
    PROVE  Esperas(t)
<1>1. \A q \in Pids : UnMotivo(t, q)
  BY DEF Esperas, UnMotivo
<1> QED
  BY <1>1 DEF Esperas

\* The fields of the PCB that say nothing of a wait.
LEMMA EsperaPcb ==
    ASSUME NEW s \in EstadoKernel, Esperas(s), NEW p \in Pids, NEW x \in Pcb,
           x.proxima_io = s.pcb[p].proxima_io, x.pc <= Len(Programa[p])
    PROVE  [s EXCEPT !.pcb[p] = x] \in EstadoKernel /\ Sereno(s, [s EXCEPT !.pcb[p] = x])
<1> DEFINE t == [s EXCEPT !.pcb[p] = x]
<1>1. t \in EstadoKernel
  BY ConPcb, Tipado
<1>2. /\ t.recursos = s.recursos /\ t.io = s.io /\ t.a_io = s.a_io /\ t.caido = s.caido
      /\ t.procesos = s.procesos /\ t.a_cpu = s.a_cpu
      /\ t.pcb = [s.pcb EXCEPT ![p] = x] /\ s.pcb \in [Pids -> Pcb]
  BY Zenon DEF EstadoKernel
<1> HIDE DEF t
<1>3. MismaEspera(s, t)
  BY <1>2 DEF MismaEspera, Acotado
<1>4. Sereno(s, t)
  BY <1>3, MismaEsperaSereno
<1> QED
  BY <1>1, <1>4 DEF t

\* proceso_actualizar_registros, with a pc of the script.
LEMMA EsperaActualizar ==
    ASSUME NEW s \in EstadoKernel, Esperas(s), NEW p \in Pids, NEW pc \in 0 .. MaxPc,
           pc <= Len(Programa[p])
    PROVE  /\ ActualizarRegistros(s, p, pc) \in EstadoKernel
           /\ Sereno(s, ActualizarRegistros(s, p, pc))
<1> DEFINE x == [s.pcb[p] EXCEPT !.pc = pc]
<1>1. x \in Pcb /\ x.proxima_io = s.pcb[p].proxima_io /\ x.pc = pc
  <2>1. s.pcb[p] \in Pcb
    BY PcbTipo
  <2> QED
    BY <2>1, PcbCampos DEF Pcb
<1>2. ActualizarRegistros(s, p, pc) = [s EXCEPT !.pcb[p] = x]
  BY DEF ActualizarRegistros
<1> HIDE DEF x
<1> QED
  BY <1>1, <1>2, EsperaPcb

\* The count of the instances, while it leaves no idle wait behind.
LEMMA EsperaInstancias ==
    ASSUME NEW s \in EstadoKernel, Esperas(s), NEW r \in Recursos, NEW n \in Int,
           DosPorRecurso /\ s.recursos[r].bloqueados # << >> => n < 0
    PROVE  /\ [s EXCEPT !.recursos[r].instancias = n] \in EstadoKernel
           /\ Sereno(s, [s EXCEPT !.recursos[r].instancias = n])
<1> DEFINE x == [s.recursos[r] EXCEPT !.instancias = n]
           t == [s EXCEPT !.recursos[r] = x]
<1>1. x \in Recurso /\ x.bloqueados = s.recursos[r].bloqueados /\ x.instancias = n
  <2>1. s.recursos[r] \in Recurso
    BY RecursoTipo
  <2> QED
    BY <2>1, RecursoCampos DEF Recurso
<1>2. t = [s EXCEPT !.recursos[r].instancias = n]
  OBVIOUS
<1> HIDE DEF x
<1>3. t \in EstadoKernel
  BY <1>1, ConRecurso, Tipado
<1>4. /\ t.recursos = [s.recursos EXCEPT ![r] = x] /\ t.io = s.io /\ t.a_io = s.a_io
      /\ t.caido = s.caido /\ t.procesos = s.procesos /\ t.a_cpu = s.a_cpu /\ t.pcb = s.pcb
      /\ s.recursos \in [Recursos -> Recurso]
  BY Zenon DEF EstadoKernel
<1> HIDE DEF t
<1>5. \A a \in Recursos : t.recursos[a].bloqueados = s.recursos[a].bloqueados
  BY <1>1, <1>4
<1>6. \A q \in Pids : Motivos(t, q) = Motivos(s, q)
  BY <1>4, <1>5, MotivosIguales
<1>7. \A a \in Recursos : EnRecurso(t, a)
  <2> SUFFICES ASSUME NEW a \in Recursos
               PROVE  EnRecurso(t, a)
    OBVIOUS
  <2>1. EnRecurso(s, a)
    BY DEF Esperas
  <2>2. t.recursos[a].instancias = IF a = r THEN n ELSE s.recursos[a].instancias
    BY <1>1, <1>4
  <2> QED
    BY <1>5, <2>1, <2>2 DEF EnRecurso
<1>8. Esperas(t)
  BY <1>4, <1>6, <1>7 DEF Esperas, UnMotivo, EnInterfaz, Acotado
<1> QED
  BY <1>2, <1>3, <1>4, <1>8 DEF Sereno

\* What kernel_wait and kernel_signal write in the PCB of who calls them.
LEMMA EsperaTomar ==
    ASSUME NEW s \in EstadoKernel, Esperas(s), NEW p \in Pids, NEW r \in Recursos
    PROVE  Sereno(s, Tomar(s, p, r)) /\ Sereno(s, Devolver(s, p, r))
<1> DEFINE claves == s.pcb[p].claves_tomados \cup {r}
           mas == [s.pcb[p].recursos_tomados EXCEPT ![r] = @ + 1]
           menos == [s.pcb[p].recursos_tomados EXCEPT ![r] = @ - 1]
           x == [s.pcb[p] EXCEPT !.claves_tomados = claves]
           y == [x EXCEPT !.recursos_tomados = mas]
           z == [s.pcb[p] EXCEPT !.recursos_tomados = menos]
<1>1. s.pcb[p] \in Pcb /\ s.pcb[p].pc <= Len(Programa[p])
  BY PcbTipo DEF Esperas, Acotado
<1>2. claves \in SUBSET Recursos /\ mas \in [Recursos -> Int] /\ menos \in [Recursos -> Int]
  BY <1>1 DEF Pcb
<1> HIDE DEF claves, mas, menos
<1>3. x \in Pcb
  BY <1>1, <1>2, PcbCampos
<1>4. y \in Pcb
  BY <1>2, <1>3, PcbCampos
<1>5. z \in Pcb
  BY <1>1, <1>2, PcbCampos
<1>6. /\ y.proxima_io = s.pcb[p].proxima_io /\ y.pc = s.pcb[p].pc
      /\ z.proxima_io = s.pcb[p].proxima_io /\ z.pc = s.pcb[p].pc
  BY <1>1 DEF Pcb
<1>7. Tomar(s, p, r) = [s EXCEPT !.pcb[p] = y]
  BY <1>1 DEF Tomar, mas, claves, Pcb
<1>8. Devolver(s, p, r) \in {s, [s EXCEPT !.pcb[p] = z]}
  BY DEF Devolver, menos
<1> HIDE DEF x, y, z
<1>9. Sereno(s, [s EXCEPT !.pcb[p] = y]) /\ Sereno(s, [s EXCEPT !.pcb[p] = z])
  BY <1>1, <1>4, <1>5, <1>6, EsperaPcb
<1>10. Sereno(s, s)
  BY DEF Sereno
<1> QED
  BY <1>7, <1>8, <1>9, <1>10

\* The process in EXEC goes to BLOCK, and nothing but the lists and the
\* dictionary changes.
LEMMA BloquearCampos ==
    ASSUME NEW s, Orden(s, {}), NEW p \in Pids, Esta(s, "EXEC", p)
    PROVE  LET t == ExecBlock(s)
           IN  /\ Orden(t, {}) /\ t.procesos = [s.procesos EXCEPT ![p] = "BLOCK"]
               /\ t.recursos = s.recursos /\ t.io = s.io /\ t.a_io = s.a_io
               /\ t.caido = s.caido /\ t.pcb = s.pcb /\ t.a_cpu = s.a_cpu
<1> DEFINE t == ExecBlock(s)
           h == Head(s.cola["EXEC"])
           q == Tail(s.cola["EXEC"])
           u == Push([s EXCEPT !.cola["EXEC"] = q], "BLOCK", h)
<1>1. s \in EstadoKernel /\ s.procesos[p] = "EXEC"
  BY OrdenTipo DEF Orden, Colas
<1>2. s.cola["EXEC"] # << >> /\ h = p
  BY <1>1, UnicoEnExec DEF Orden
<1>3. t = u
  BY <1>2 DEF ExecBlock, Mover, Pop
<1>4. Orden(t, {})
  BY MoverContinua DEF ExecBlock, Continua
<1> HIDE DEF t, h, q
<1>5. /\ u.procesos = [s.procesos EXCEPT ![h] = "BLOCK"]
      /\ u.recursos = s.recursos /\ u.io = s.io /\ u.a_io = s.a_io
      /\ u.caido = s.caido /\ u.pcb = s.pcb /\ u.a_cpu = s.a_cpu
  BY <1>1, Zenon DEF EstadoKernel, Push
<1> HIDE DEF u
<1>6. /\ Orden(t, {}) /\ t.procesos = [s.procesos EXCEPT ![p] = "BLOCK"]
      /\ t.recursos = s.recursos /\ t.io = s.io /\ t.a_io = s.a_io
      /\ t.caido = s.caido /\ t.pcb = s.pcb /\ t.a_cpu = s.a_cpu
  BY <1>2, <1>3, <1>4, <1>5
<1> QED
  BY <1>6 DEF t

\* A process in BLOCK goes to one of the lists of ready processes, and
\* nothing but the lists and the dictionary changes.
LEMMA DesbloquearCampos ==
    ASSUME NEW s, Orden(s, {}), NEW p \in Pids, s.procesos[p] = "BLOCK"
    PROVE  LET t == ManejarBlockReady(s, p)
           IN  /\ Orden(t, {})
               /\ \E e \in {"READY", "READY_PRIORIDAD"} :
                     t.procesos = [s.procesos EXCEPT ![p] = e]
               /\ t.recursos = s.recursos /\ t.io = s.io /\ t.a_io = s.a_io
               /\ t.caido = s.caido /\ t.pcb = s.pcb /\ t.a_cpu = s.a_cpu
<1> DEFINE t == ManejarBlockReady(s, p)
           q == Quitar(s.cola["BLOCK"], p)
           u(e) == Push([s EXCEPT !.cola["BLOCK"] = q], e, p)
<1>1. s \in EstadoKernel /\ Esta(s, "BLOCK", p)
  BY OrdenTipo DEF Orden, Colas
<1>2. PICK e \in {"READY", "READY_PRIORIDAD"} : t = u(e)
  BY <1>1 DEF ManejarBlockReady, BlockReady, BlockReadyMayorPrioridad, SacarDeBlock
<1>3. Orden(t, {})
  BY ManejarContinua DEF Continua
<1> HIDE DEF t, q
<1>4. /\ u(e).procesos = [s.procesos EXCEPT ![p] = e]
      /\ u(e).recursos = s.recursos /\ u(e).io = s.io /\ u(e).a_io = s.a_io
      /\ u(e).caido = s.caido /\ u(e).pcb = s.pcb /\ u(e).a_cpu = s.a_cpu
  BY <1>1, Zenon DEF EstadoKernel, Push
<1> HIDE DEF u
<1> QED
  BY <1>2, <1>3, <1>4 DEF t

\* Process p is blocked on resource r, which has no instance left.
LEMMA EsperaBloquear ==
    ASSUME NEW s, Orden(s, {}), Esperas(s), NEW p \in Pids, Esta(s, "EXEC", p),
           NEW r \in Recursos, p \in Usan(r), s.recursos[r].instancias < 0,
           NEW resto \in BOOLEAN
    PROVE  Sereno(s, BloquearEnRecurso(s, p, r, resto))
<1> DEFINE g == GuardarQuantum(s, p, resto)
           l == Append(g.recursos[r].bloqueados, p)
           x == [g.recursos[r] EXCEPT !.bloqueados = l]
           u == [g EXCEPT !.recursos[r] = x]
           v == ExecBlock(u)
<1>1. s \in EstadoKernel
  BY OrdenTipo
<1>2. g \in EstadoKernel /\ Quieto(s, g) /\ Sereno(s, g)
  BY <1>1, GuardarQuantumConserva, Tipado, QuietoGuardar, EsperaSimple
<1>3. g.recursos[r].instancias = s.recursos[r].instancias
  <2>1. /\ InterrumpirTemporizador(s) \in EstadoKernel
        /\ InterrumpirTemporizador(s).recursos = s.recursos
    <3>1. [s EXCEPT !.timer.armado = FALSE].recursos = s.recursos
      BY <1>1, Zenon DEF EstadoKernel
    <3> QED
      BY <1>1, <3>1, InterrumpirTemporizadorConserva, Tipado DEF InterrumpirTemporizador
  <2> HIDE DEF g
  <2>2. g.recursos = InterrumpirTemporizador(s).recursos
    BY <2>1, Zenon DEF g, GuardarQuantum, EstadoKernel
  <2> QED
    BY <2>1, <2>2
<1>4. BloquearEnRecurso(s, p, r, resto) = v
  BY DEF BloquearEnRecurso
<1> HIDE DEF g
<1>5. Orden(g, {}) /\ Esta(g, "EXEC", p) /\ Esperas(g)
  BY <1>2, QuietoOrden DEF Quieto, Esta, Sereno
<1>6. g.procesos[p] = "EXEC" /\ g.recursos[r].bloqueados \in Seq(Pids) /\ g.recursos[r] \in Recurso
  BY <1>2, <1>5, RecursoTipo DEF Orden, Colas
<1>7. Motivos(g, p) = {} /\ g.pcb[p].proxima_io = SinIo
      /\ \A a \in Recursos : p \notin Range(g.recursos[a].bloqueados)
      /\ \A i \in Interfaces : g.io[i].pid # p
  BY <1>2, <1>5, <1>6, SinMotivo
<1>8. /\ l \in Seq(Pids) /\ Range(l) = Range(g.recursos[r].bloqueados) \cup {p}
      /\ IsInjective(l)
  <2>1. IsInjective(g.recursos[r].bloqueados)
    BY <1>5 DEF Esperas, EnRecurso
  <2> QED
    BY <1>6, <1>7, <2>1, RangoAppend, AppendProperties
<1> HIDE DEF l
<1>9. x \in Recurso /\ x.bloqueados = l /\ x.instancias < 0
  BY <1>3, <1>6, <1>8, RecursoCampos DEF Recurso
<1> HIDE DEF x
<1>10. u \in EstadoKernel
  BY <1>2, <1>9, ConRecurso, Tipado
<1>11. Quieto(g, u)
  <2>1. u = [g EXCEPT !.recursos = [g.recursos EXCEPT ![r] = x]]
    OBVIOUS
  <2> HIDE DEF u
  <2> QED
    BY <1>2, <2>1, QuietoRecursos
<1>12. /\ u.recursos = [g.recursos EXCEPT ![r] = x] /\ u.io = g.io /\ u.a_io = g.a_io
       /\ u.caido = g.caido /\ u.pcb = g.pcb /\ u.a_cpu = g.a_cpu /\ u.procesos = g.procesos
       /\ g.recursos \in [Recursos -> Recurso]
       /\ g.procesos \in [Pids -> Colas \cup {SinEstado}]
  BY <1>2, Zenon DEF EstadoKernel
<1> HIDE DEF u
<1>13. Orden(u, {}) /\ Esta(u, "EXEC", p)
  BY <1>5, <1>10, <1>11, QuietoOrden DEF Quieto, Esta
<1>14. /\ v.procesos = [u.procesos EXCEPT ![p] = "BLOCK"]
       /\ v.recursos = u.recursos /\ v.io = u.io /\ v.a_io = u.a_io
       /\ v.caido = u.caido /\ v.pcb = u.pcb /\ v.a_cpu = u.a_cpu
  BY <1>13, BloquearCampos
<1> HIDE DEF v
<1>15. /\ v.recursos[r].bloqueados = l /\ v.recursos[r].instancias < 0
       /\ \A a \in Recursos \ {r} : v.recursos[a] = g.recursos[a]
       /\ v.procesos[p] = "BLOCK" /\ \A q \in Pids \ {p} : v.procesos[q] = g.procesos[q]
  BY <1>9, <1>12, <1>14
<1>16. ASSUME NEW q \in Pids \ {p}
       PROVE  Motivos(v, q) = Motivos(g, q)
  <2>1. \A a \in Recursos : q \in Range(v.recursos[a].bloqueados)
                            <=> q \in Range(g.recursos[a].bloqueados)
    BY <1>8, <1>15
  <2> QED
    BY <1>12, <1>14, <2>1, MotivosIguales
<1>17. UnMotivo(v, p)
  <2>1. RecursosDe(v, p) = {r}
    BY <1>7, <1>8, <1>15 DEF RecursosDe
  <2>2. InterfacesDe(v, p) = {} /\ {j \in Interfaces : v.pcb[p].proxima_io = j} = {}
    BY <1>7, <1>12, <1>14, InterfacesAssumption DEF InterfacesDe
  <2>3. Motivos(v, p) = {<<"recurso", r>>}
    BY <2>1, <2>2 DEF Motivos
  <2> QED
    BY <1>15, <2>3 DEF UnMotivo
<1>18. ASSUME NEW a \in Recursos
       PROVE  EnRecurso(v, a)
  <2>1. EnRecurso(g, a)
    BY <1>5 DEF Esperas
  <2> QED
    BY <1>8, <1>15, <2>1 DEF EnRecurso
<1>19. \A i \in Interfaces : EnInterfaz(v, i)
  BY <1>5, <1>12, <1>14 DEF Esperas, EnInterfaz
<1>20. Acotado(g) => Acotado(v)
  BY <1>12, <1>14 DEF Acotado
<1>21. Esperas(v)
  BY <1>5, <1>12, <1>14, <1>15, <1>16, <1>17, <1>18, <1>19, <1>20, EsperaCambio
<1>22. Sereno(s, v)
  BY <1>2, <1>12, <1>14, <1>21 DEF Sereno
<1> QED
  BY <1>4, <1>22

\* kernel_wait.
LEMMA EsperaWait ==
    ASSUME NEW s, Orden(s, {}), Esperas(s), NEW p \in Pids, Esta(s, "EXEC", p), NEW r,
           r \in Recursos => p \in Usan(r), NEW resto \in BOOLEAN
    PROVE  Sereno(s, Wait(s, p, r, resto))
<1>1. s \in EstadoKernel
  BY OrdenTipo
<1>2. CASE r \notin Recursos
  <2> DEFINE t == GuardarQuantum(s, p, resto)
  <2>1. t \in EstadoKernel /\ Quieto(s, t) /\ Sereno(s, t)
    BY <1>1, GuardarQuantumConserva, Tipado, QuietoGuardar, EsperaSimple
  <2>2. Wait(s, p, r, resto) = FinalizarRecursoInvalido(t, p)
    BY <1>2 DEF Wait
  <2> HIDE DEF t
  <2>3. Orden(t, {}) /\ Esta(t, "EXEC", p) /\ Esperas(t)
    BY <2>1, QuietoOrden DEF Quieto, Esta, Sereno
  <2>4. Sereno(t, FinalizarRecursoInvalido(t, p))
    BY <2>3, EsperaFinalizar
  <2> QED
    BY <2>1, <2>2, <2>4, SerenoLuego
<1>3. CASE r \in Recursos
  <2> DEFINE t == Tomar(s, p, r)
             n == t.recursos[r].instancias - 1
             u == [t EXCEPT !.recursos[r].instancias = n]
  <2>1. t \in EstadoKernel /\ Quieto(s, t) /\ Sereno(s, t)
    BY <1>1, <1>3, TomarConserva, Tipado, QuietoTomar, EsperaTomar
  <2>2. Wait(s, p, r, resto) =
            IF t.recursos[r].instancias < 0 THEN BloquearEnRecurso(t, p, r, resto)
            ELSE IF u.recursos[r].instancias < 0 THEN BloquearEnRecurso(u, p, r, resto)
            ELSE ManejarExecReady(u, p, resto)
    BY <1>3 DEF Wait
  <2> HIDE DEF t
  <2>3. Orden(t, {}) /\ Esta(t, "EXEC", p) /\ Esperas(t)
    BY <2>1, QuietoOrden DEF Quieto, Esta, Sereno
  <2>4. CASE t.recursos[r].instancias < 0
    BY <1>3, <2>1, <2>2, <2>3, <2>4, EsperaBloquear, SerenoLuego
  <2>5. CASE ~ (t.recursos[r].instancias < 0)
    <3>1. t.recursos[r].instancias \in Int
      BY <1>3, <2>1, RecursoTipo
    <3>2. n \in Int /\ (DosPorRecurso /\ t.recursos[r].bloqueados # << >> => n < 0)
      BY <1>3, <2>3, <2>5, <3>1 DEF Esperas, EnRecurso
    <3> HIDE DEF n
    <3>3. u \in EstadoKernel /\ Sereno(t, u)
      BY <1>3, <2>1, <2>3, <3>2, EsperaInstancias
    <3>4. Quieto(t, u)
      <4>1. u = [t EXCEPT !.recursos = [t.recursos EXCEPT ![r].instancias = n]]
        OBVIOUS
      <4> HIDE DEF u
      <4> QED
        BY <2>1, <4>1, QuietoRecursos
    <3> HIDE DEF u
    <3>5. Orden(u, {}) /\ Esta(u, "EXEC", p) /\ Esperas(u)
      BY <2>3, <3>3, <3>4, QuietoOrden DEF Quieto, Esta, Sereno
    <3>6. u.recursos[r].instancias < 0 => Sereno(u, BloquearEnRecurso(u, p, r, resto))
      BY <1>3, <3>5, EsperaBloquear
    <3>7. Sereno(u, ManejarExecReady(u, p, resto))
      BY <3>5, EsperaManejar
    <3> QED
      BY <2>1, <2>2, <2>5, <3>3, <3>6, <3>7, SerenoLuego
  <2> QED
    BY <2>4, <2>5
<1> QED
  BY <1>2, <1>3

\* The head of the list of r is taken out of it and made ready.
LEMMA EsperaDespertar ==
    ASSUME NEW g, Orden(g, {}), Esperas(g), NEW r \in Recursos,
           g.recursos[r].bloqueados # << >>,
           NEW u, Orden(u, {}), NEW x, x.bloqueados = Tail(g.recursos[r].bloqueados),
           u.recursos = [g.recursos EXCEPT ![r] = x], u.io = g.io, u.a_io = g.a_io,
           u.caido = g.caido, u.pcb = g.pcb, u.a_cpu = g.a_cpu, u.procesos = g.procesos,
           DosPorRecurso => x.bloqueados = << >>
    PROVE  LET h == Head(g.recursos[r].bloqueados)
           IN  /\ h \in Pids /\ g.procesos[h] = "BLOCK"
               /\ Sereno(g, ManejarBlockReady(u, h)) /\ Orden(ManejarBlockReady(u, h), {})
<1> DEFINE h == Head(g.recursos[r].bloqueados)
           l == g.recursos[r].bloqueados
           resto == Tail(l)
           v == ManejarBlockReady(u, h)
<1>1. /\ g \in EstadoKernel /\ l \in Seq(Pids) /\ IsInjective(l)
      /\ Range(l) \subseteq Usan(r)
  BY OrdenTipo, RecursoTipo DEF Esperas, EnRecurso
<1>2. h \in Pids /\ h \in Range(l)
  BY <1>1, PrimeroLeido, LenProperties DEF Range
<1>3. Range(resto) = Range(l) \ {h} /\ IsInjective(resto)
      /\ (DosPorRecurso => resto = << >>)
  BY <1>1, RangoTail
<1> HIDE DEF h, l, resto
<1>4. <<"recurso", r>> \in Motivos(g, h)
  BY <1>2 DEF Motivos, RecursosDe, l
<1>5. /\ g.procesos[h] = "BLOCK"
      /\ \A y \in Motivos(g, h) : y = <<"recurso", r>>
  BY <1>2, <1>4 DEF Esperas, UnMotivo
<1>6. /\ g.recursos \in [Recursos -> Recurso]
      /\ g.procesos \in [Pids -> Colas \cup {SinEstado}]
  BY <1>1, Zenon DEF EstadoKernel
<1>7. /\ Orden(v, {})
      /\ \E e \in {"READY", "READY_PRIORIDAD"} : v.procesos = [u.procesos EXCEPT ![h] = e]
      /\ v.recursos = u.recursos /\ v.io = u.io /\ v.a_io = u.a_io
      /\ v.caido = u.caido /\ v.pcb = u.pcb /\ v.a_cpu = u.a_cpu
  BY <1>2, <1>5, DesbloquearCampos
<1> HIDE DEF v
<1>8. /\ v.recursos[r].bloqueados = resto
      /\ \A a \in Recursos \ {r} : v.recursos[a] = g.recursos[a]
      /\ v.procesos[h] # "BLOCK" /\ \A q \in Pids \ {h} : v.procesos[q] = g.procesos[q]
  BY <1>6, <1>7, <1>2 DEF l, resto
<1>9. ASSUME NEW q \in Pids \ {h}
      PROVE  Motivos(v, q) = Motivos(g, q)
  <2>1. \A a \in Recursos : q \in Range(v.recursos[a].bloqueados)
                            <=> q \in Range(g.recursos[a].bloqueados)
    BY <1>3, <1>8 DEF l
  <2>2. /\ \A i \in Interfaces : v.io[i].pid = q <=> g.io[i].pid = q
        /\ v.pcb[q].proxima_io = g.pcb[q].proxima_io
    BY <1>7
  <2> QED
    BY ONLY <2>1, <2>2, MotivosIguales
<1>10. UnMotivo(v, h)
  <2>1. RecursosDe(g, h) = {r} /\ InterfacesDe(g, h) = {}
        /\ {j \in Interfaces : g.pcb[h].proxima_io = j} = {}
    <3>1. ASSUME NEW a \in RecursosDe(g, h)
          PROVE  a = r
      <4>1. <<"recurso", a>> \in Motivos(g, h)
        BY DEF Motivos
      <4> QED
        BY <1>5, <4>1
    <3>2. r \in RecursosDe(g, h)
      BY <1>2 DEF RecursosDe, l
    <3>3. ASSUME NEW i \in InterfacesDe(g, h)
          PROVE  FALSE
      <4>1. <<"interfaz", i>> \in Motivos(g, h)
        BY DEF Motivos
      <4> QED
        BY <1>5, <4>1
    <3>4. ASSUME NEW i \in {j \in Interfaces : g.pcb[h].proxima_io = j}
          PROVE  FALSE
      <4>1. <<"turno", i>> \in Motivos(g, h)
        BY DEF Motivos
      <4> QED
        BY <1>5, <4>1
    <3> QED
      BY <3>1, <3>2, <3>3, <3>4
  <2>2. RecursosDe(v, h) = {}
    BY <2>1, <1>3, <1>8 DEF RecursosDe
  <2>3. InterfacesDe(v, h) = {} /\ {j \in Interfaces : v.pcb[h].proxima_io = j} = {}
    BY <2>1, <1>7 DEF InterfacesDe
  <2>4. Motivos(v, h) = {}
    BY <2>2, <2>3 DEF Motivos
  <2> QED
    BY <1>8, <2>4 DEF UnMotivo
<1>11. ASSUME NEW a \in Recursos
       PROVE  EnRecurso(v, a)
  <2>1. EnRecurso(g, a)
    BY DEF Esperas
  <2> QED
    BY <1>1, <1>3, <1>8, <2>1 DEF EnRecurso, l
<1>12. \A i \in Interfaces : EnInterfaz(v, i)
  BY <1>7 DEF Esperas, EnInterfaz
<1>13. Acotado(g) => Acotado(v)
  BY <1>7 DEF Acotado
<1>14. Esperas(v)
  <2>1. \A q \in Pids \ {h} : /\ Motivos(v, q) = Motivos(g, q)
                              /\ v.procesos[q] = "BLOCK" <=> g.procesos[q] = "BLOCK"
    BY <1>8, <1>9
  <2>2. Esperas(g) /\ h \in Pids /\ v.caido = g.caido
    BY <1>2, <1>7
  <2>3. \A a \in Recursos : EnRecurso(v, a)
    BY <1>11
  <2> QED
    BY ONLY <2>1, <2>2, <2>3, <1>10, <1>12, <1>13, EsperaCambio
<1>15. Sereno(g, v)
  BY <1>7, <1>14 DEF Sereno
<1> QED
  BY <1>2, <1>5, <1>7, <1>15 DEF h, v

\* The head of a list is in it.
LEMMA CabezaRango ==
    ASSUME NEW q \in Seq(Pids), q # << >>
    PROVE  Head(q) \in Range(q)
<1>1. Head(q) = q[1] /\ 1 \in DOMAIN q
  BY PrimeroLeido, LenProperties
<1> QED
  BY <1>1 DEF Range

\* kernel_signal.
LEMMA EsperaSignal ==
    ASSUME NEW s, Orden(s, {}), Esperas(s), NEW p \in Pids, Esta(s, "EXEC", p), NEW r,
           r \in Recursos => p \in Usan(r), NEW resto \in BOOLEAN,
           NEW cabeza \in CabezasLeidas(s, p, r)
    PROVE  Sereno(s, Signal(s, p, r, resto, cabeza))
<1>1. s \in EstadoKernel
  BY OrdenTipo
<1>2. CASE r \notin Recursos
  BY <1>2, EsperaFinalizar DEF Signal
<1>3. CASE r \in Recursos
  <2> DEFINE d == Devolver(s, p, r)
             n == d.recursos[r].instancias + 1
             t == [d EXCEPT !.recursos[r].instancias = n]
             u == SinCabeza(t, r)
             h == Head(d.recursos[r].bloqueados)
             v == ManejarBlockReady(u, h)
  <2>1. d \in EstadoKernel /\ Quieto(s, d) /\ Sereno(s, d)
    BY <1>1, <1>3, DevolverConserva, Tipado, QuietoTomar, EsperaTomar
  <2>2. t = Liberar(s, p, r)
    BY DEF Liberar
  <2>3. d.recursos = s.recursos
    BY <1>1, Zenon DEF Devolver, EstadoKernel
  <2>4. CabezasLeidas(s, p, r) = IF HayQueDesbloquear(t, r) THEN PidLeido(s, h) ELSE {0}
    BY <1>3, <2>2, <2>3 DEF CabezasLeidas
  <2>5. Signal(s, p, r, resto, cabeza) =
            IF ~ HayQueDesbloquear(t, r) THEN ManejarExecReady(t, p, resto)
            ELSE IF cabeza = 0 \/ t.procesos[cabeza] = SinEstado THEN Caer(t)
            ELSE ManejarExecReady(IF u.procesos[cabeza] = "BLOCK"
                                  THEN ManejarBlockReady(u, cabeza) ELSE u, p, resto)
    BY <1>3, <2>2 DEF Signal, SinCabeza
  <2> HIDE DEF d
  <2>6. Orden(d, {}) /\ Esta(d, "EXEC", p) /\ Esperas(d)
    BY <2>1, QuietoOrden DEF Quieto, Esta, Sereno
  <2>7. d.recursos[r] \in Recurso /\ d.recursos \in [Recursos -> Recurso] /\ n \in Int
    <3>1. d.recursos[r] \in Recurso /\ d.recursos[r].instancias \in Int
      BY <1>3, <2>1, RecursoTipo
    <3>2. d.recursos \in [Recursos -> Recurso]
      BY <2>1, Zenon DEF EstadoKernel
    <3> QED
      BY <3>1, <3>2
  <2> HIDE DEF n
  <2> DEFINE x == [d.recursos[r] EXCEPT !.instancias = n]
             y == [x EXCEPT !.bloqueados = Tail(d.recursos[r].bloqueados)]
  <2>8. /\ x.instancias = n /\ x.bloqueados = d.recursos[r].bloqueados /\ x \in Recurso
        /\ y.bloqueados = Tail(d.recursos[r].bloqueados)
    BY <2>7, RecursoCampos DEF Recurso
  <2>9. /\ t.recursos = [d.recursos EXCEPT ![r] = x] /\ t.io = d.io
        /\ t.caido = d.caido /\ t.pcb = d.pcb /\ t.a_cpu = d.a_cpu /\ t.procesos = d.procesos
    BY <2>1, Zenon DEF EstadoKernel
  <2>10. t \in EstadoKernel /\ Quieto(s, t) /\ Quieto(d, t)
    <3>1. t = [d EXCEPT !.recursos = [d.recursos EXCEPT ![r] = x]]
      OBVIOUS
    <3>2. Quieto(d, t)
      BY <2>1, <3>1, QuietoRecursos
    <3> QED
      BY <1>1, <1>3, <2>2, <3>2, LiberarConserva, Tipado, QuietoTomar
  <2>11. t.recursos[r] = x
    BY <1>3, <2>7, <2>9
  <2>12. Orden(t, {}) /\ Esta(t, "EXEC", p)
    BY <2>6, <2>10, QuietoOrden DEF Quieto, Esta
  <2>13. CASE ~ HayQueDesbloquear(t, r)
    <3>1. d.recursos[r].bloqueados # << >> => n < 0
      <4> HIDE DEF t, x
      <4> QED
        BY <2>7, <2>8, <2>11, <2>13 DEF HayQueDesbloquear
    <3>2. Sereno(d, t)
      BY <1>3, <2>1, <2>6, <2>7, <3>1, EsperaInstancias
    <3> HIDE DEF t
    <3>3. Sereno(t, ManejarExecReady(t, p, resto))
      BY <2>12, <3>2, EsperaManejar DEF Sereno
    <3> QED
      BY <2>1, <2>5, <2>13, <3>2, <3>3, SerenoLuego
  <2>14. CASE HayQueDesbloquear(t, r)
    <3>1. d.recursos[r].bloqueados # << >>
      BY <2>8, <2>11, <2>14 DEF HayQueDesbloquear
    <3>2. u \in EstadoKernel /\ Quieto(t, u)
      BY <1>3, <2>10, <2>8, <2>11, <3>1, SinCabezaConserva, Tipado, QuietoTomar
    <3>3. /\ u.recursos = [t.recursos EXCEPT ![r] = y] /\ u.io = t.io
          /\ u.caido = t.caido /\ u.pcb = t.pcb /\ u.a_cpu = t.a_cpu
          /\ u.procesos = t.procesos
      <4>1. y = [t.recursos[r] EXCEPT !.bloqueados = Tail(t.recursos[r].bloqueados)]
        BY <2>8, <2>11
      <4> DEFINE z == [t.recursos[r] EXCEPT !.bloqueados = Tail(t.recursos[r].bloqueados)]
      <4>2. u = [t EXCEPT !.recursos[r] = z]
        BY DEF SinCabeza
      <4> HIDE DEF t, u, y, z
      <4>3. /\ [t EXCEPT !.recursos[r] = z].recursos = [t.recursos EXCEPT ![r] = z]
            /\ [t EXCEPT !.recursos[r] = z].io = t.io
            /\ [t EXCEPT !.recursos[r] = z].caido = t.caido
            /\ [t EXCEPT !.recursos[r] = z].pcb = t.pcb
            /\ [t EXCEPT !.recursos[r] = z].a_cpu = t.a_cpu
            /\ [t EXCEPT !.recursos[r] = z].procesos = t.procesos
        BY <2>10, Zenon DEF EstadoKernel
      <4> QED
        BY <4>1, <4>2, <4>3 DEF z
    <3>4. u.a_io = d.a_io
      <4>1. t.a_io = d.a_io
        BY <2>1, Zenon DEF EstadoKernel
      <4> HIDE DEF t
      <4> QED
        BY <2>10, <4>1, Zenon DEF SinCabeza, EstadoKernel
    <3> HIDE DEF t, u
    <3>5. Orden(u, {})
      BY <2>12, <3>2, QuietoOrden
    <3>6. u.recursos = [d.recursos EXCEPT ![r] = y]
      BY <2>7, <2>9, <3>3
    <3>7. DosPorRecurso => y.bloqueados = << >>
      <4> SUFFICES ASSUME DosPorRecurso, y.bloqueados # << >>
                   PROVE  FALSE
        OBVIOUS
      <4> DEFINE l == d.recursos[r].bloqueados
                 m == Tail(l)
                 w == Head(m)
      <4>1. l \in Seq(Pids) /\ IsInjective(l) /\ Range(l) \subseteq Usan(r) /\ l # << >>
            /\ m # << >>
        BY <1>3, <2>6, <2>8, <3>1, <2>1, RecursoTipo DEF Esperas, EnRecurso
      <4>2. Range(m) = Range(l) \ {h} /\ m \in Seq(Pids)
        BY <4>1, RangoTail, HeadTailProperties
      <4>3. h \in Range(l)
        BY <4>1, CabezaRango
      <4> HIDE DEF m
      <4>4. w \in Range(m)
        BY <4>1, <4>2, CabezaRango
      <4>5. p \notin Range(l)
        <5>1. d.procesos[p] # "BLOCK"
          BY <2>6 DEF Orden, Colas
        <5> QED
          BY <1>3, <2>1, <2>6, <5>1, SinMotivo
      <4> HIDE DEF l, w, h
      <4>6. h \in Usan(r) /\ w \in Usan(r) /\ p \in Usan(r)
        BY <1>3, <4>1, <4>2, <4>3, <4>4
      <4>7. Usan(r) \in SUBSET Pids /\ Cardinality(Usan(r)) <= 2
        BY <1>3 DEF DosPorRecurso, Usan, Usuarios
      <4>8. h = w \/ w = p \/ h = p
        BY <4>6, <4>7, TresDeDos
      <4> QED
        BY <4>2, <4>3, <4>4, <4>5, <4>8
    <3> HIDE DEF x, y, h
    <3>8. /\ h \in Pids /\ d.procesos[h] = "BLOCK"
          /\ Sereno(d, ManejarBlockReady(u, h)) /\ Orden(ManejarBlockReady(u, h), {})
      <4> DEFINE Dicho(a) == /\ a \in Pids /\ d.procesos[a] = "BLOCK"
                             /\ Sereno(d, ManejarBlockReady(u, a))
                             /\ Orden(ManejarBlockReady(u, a), {})
      <4>1. /\ u.io = d.io /\ u.a_io = d.a_io /\ u.caido = d.caido /\ u.pcb = d.pcb
            /\ u.a_cpu = d.a_cpu /\ u.procesos = d.procesos
            /\ y.bloqueados = Tail(d.recursos[r].bloqueados)
        BY <2>8, <2>9, <3>3, <3>4
      <4>2. Dicho(Head(d.recursos[r].bloqueados))
        BY ONLY <1>3, <2>6, <4>1, <3>1, <3>5, <3>6, <3>7, EsperaDespertar
      <4> QED
        BY <4>2 DEF h
    <3>9. cabeza = h
      <4>1. s.procesos[h] = "BLOCK"
        BY <2>1, <3>8 DEF Quieto
      <4>2. Esta(s, "BLOCK", h) /\ "BLOCK" \in Colas
        BY <3>8, <4>1 DEF Orden, Colas
      <4> QED
        BY <2>4, <2>14, <4>2 DEF PidLeido, Buscar
    <3>10. u.procesos[h] = "BLOCK" /\ t.procesos[h] = "BLOCK" /\ h # 0
      BY <2>9, <3>3, <3>8 DEF Pids
    <3>11. Signal(s, p, r, resto, cabeza) = ManejarExecReady(v, p, resto)
      BY <2>5, <2>14, <3>9, <3>10 DEF SinEstado
    <3> HIDE DEF v
    <3>12. Sereno(v, ManejarExecReady(v, p, resto))
      BY <3>8, EsperaManejar DEF Sereno, v
    <3> QED
      BY <2>1, <3>8, <3>11, <3>12, SerenoLuego DEF v
  <2> QED
    BY <2>13, <2>14
<1> QED
  BY <1>2, <1>3

-----------------------------------------------------------------------------
(* Requests and completions.                                               *)

\* Interface i, with nothing sent to it, starts the request of w.
Abre(s, t, i, w) ==
    /\ w \in Pids /\ t.io[i] = [ocupado |-> TRUE, pid |-> w]
    /\ Len(t.a_io[i]) = 1 /\ t.a_io[i][1] = [op |-> "IO_GEN_SLEEP", pid |-> w]
    /\ \A j \in Interfaces \ {i} : t.io[j] = s.io[j] /\ t.a_io[j] = s.a_io[j]

\* Interface i is left free.
Cierra(s, t, i) ==
    /\ t.io[i] = [ocupado |-> FALSE, pid |-> 0] /\ t.a_io[i] = s.a_io[i]
    /\ \A j \in Interfaces \ {i} : t.io[j] = s.io[j] /\ t.a_io[j] = s.a_io[j]

\* What the token of the planner adds.
LEMMA EsperaAvisar ==
    ASSUME NEW s \in EstadoKernel, Esperas(s)
    PROVE  /\ Esperas(Avisar(s)) /\ Avisar(s).io = s.io /\ Avisar(s).a_io = s.a_io
<1>1. 1 \in Pids
  BY LimitesAssumption DEF Pids
<1> QED
  BY <1>1, EsperaSimple DEF Sereno

\* The process in EXEC finds the interface busy: it remembers it.
LEMMA EsperaTurno ==
    ASSUME NEW s, Orden(s, {}), Esperas(s), NEW p \in Pids, Esta(s, "EXEC", p),
           NEW i \in Interfaces, p \in Duermen(i), s.io[i].ocupado
    PROVE  Sereno(s, Avisar([ExecBlock(s) EXCEPT !.pcb[p].proxima_io = i]))
<1> DEFINE b == ExecBlock(s)
           x == [b.pcb[p] EXCEPT !.proxima_io = i]
           v == [b EXCEPT !.pcb[p] = x]
<1>1. s \in EstadoKernel /\ s.procesos[p] = "EXEC"
  BY OrdenTipo DEF Orden, Colas
<1>2. /\ Orden(b, {}) /\ b.procesos = [s.procesos EXCEPT ![p] = "BLOCK"]
      /\ b.recursos = s.recursos /\ b.io = s.io /\ b.a_io = s.a_io
      /\ b.caido = s.caido /\ b.pcb = s.pcb /\ b.a_cpu = s.a_cpu
  BY BloquearCampos
<1>3. v = [ExecBlock(s) EXCEPT !.pcb[p].proxima_io = i]
  OBVIOUS
<1> HIDE DEF b
<1>4. b \in EstadoKernel
  BY <1>2, OrdenTipo
<1>5. x \in Pcb /\ x.proxima_io = i /\ x.pc = s.pcb[p].pc
  <2>1. b.pcb[p] \in Pcb /\ b.pcb[p] = s.pcb[p]
    BY <1>2, <1>4, PcbTipo
  <2> QED
    BY <2>1, PcbCampos DEF Pcb
<1> HIDE DEF x
<1>6. v \in EstadoKernel
  BY <1>4, <1>5, ConPcb, Tipado
<1>7. /\ v.procesos = b.procesos /\ v.recursos = b.recursos /\ v.io = b.io
      /\ v.a_io = b.a_io /\ v.caido = b.caido /\ v.a_cpu = b.a_cpu
      /\ v.pcb = [b.pcb EXCEPT ![p] = x]
  BY <1>4, Zenon DEF EstadoKernel
<1> HIDE DEF v
<1>8. /\ s.procesos \in [Pids -> Colas \cup {SinEstado}] /\ s.pcb \in [Pids -> Pcb]
  BY <1>1, Zenon DEF EstadoKernel
<1>9. /\ v.recursos = s.recursos /\ v.io = s.io /\ v.a_io = s.a_io /\ v.caido = s.caido
      /\ v.a_cpu = s.a_cpu /\ v.procesos[p] = "BLOCK" /\ v.pcb[p] = x
      /\ \A q \in Pids \ {p} : v.procesos[q] = s.procesos[q] /\ v.pcb[q] = s.pcb[q]
  BY <1>2, <1>7, <1>8
<1>10. /\ \A r \in Recursos : p \notin Range(s.recursos[r].bloqueados)
       /\ \A j \in Interfaces : s.io[j].pid # p
  BY <1>1, SinMotivo
<1>11. \A q \in Pids \ {p} : Motivos(v, q) = Motivos(s, q)
  <2> SUFFICES ASSUME NEW q \in Pids \ {p}
               PROVE  Motivos(v, q) = Motivos(s, q)
    OBVIOUS
  <2>1. /\ \A r \in Recursos : q \in Range(v.recursos[r].bloqueados)
                               <=> q \in Range(s.recursos[r].bloqueados)
        /\ \A j \in Interfaces : v.io[j].pid = q <=> s.io[j].pid = q
        /\ v.pcb[q].proxima_io = s.pcb[q].proxima_io
    BY <1>9
  <2> QED
    BY ONLY <2>1, MotivosIguales
<1>12. UnMotivo(v, p)
  <2>1. RecursosDe(v, p) = {} /\ InterfacesDe(v, p) = {}
    BY <1>9, <1>10 DEF RecursosDe, InterfacesDe
  <2>2. {j \in Interfaces : v.pcb[p].proxima_io = j} = {i}
    BY <1>5, <1>9
  <2>3. Motivos(v, p) = {<<"turno", i>>}
    BY <2>1, <2>2 DEF Motivos
  <2> QED
    BY <1>9, <2>3 DEF UnMotivo
<1>13. \A r \in Recursos : EnRecurso(v, r)
  BY <1>9 DEF Esperas, EnRecurso
<1>14. \A j \in Interfaces : EnInterfaz(v, j)
  <2> SUFFICES ASSUME NEW j \in Interfaces
               PROVE  EnInterfaz(v, j)
    OBVIOUS
  <2>1. EnInterfaz(s, j)
    BY DEF Esperas
  <2>2. \A q \in Pids : v.pcb[q].proxima_io = j => q \in Duermen(j) /\ v.io[j].ocupado
    BY <1>5, <1>9, <2>1 DEF EnInterfaz
  <2> QED
    BY <1>9, <2>1, <2>2 DEF EnInterfaz
<1>15. Acotado(s) => Acotado(v)
  BY <1>5, <1>9 DEF Acotado
<1>16. Esperas(v)
  <2>1. \A q \in Pids \ {p} : v.procesos[q] = "BLOCK" <=> s.procesos[q] = "BLOCK"
    BY <1>9
  <2> QED
    BY <1>9, <1>11, <1>12, <1>13, <1>14, <1>15, <2>1, EsperaCambio
<1>17. Sereno(s, Avisar(v))
  BY <1>6, <1>9, <1>16, EsperaAvisar DEF Sereno
<1> QED
  BY <1>3, <1>17 DEF b

\* The process in EXEC finds the interface free: its request is sent.
LEMMA EsperaAbrir ==
    ASSUME NEW s, Orden(s, {}), Esperas(s), NEW p \in Pids, Esta(s, "EXEC", p),
           NEW i \in Interfaces, p \in Duermen(i), ~ s.io[i].ocupado, s.a_io[i] = << >>
    PROVE  LET t == Avisar(EnviarIo([ExecBlock(s) EXCEPT
                                        !.io[i] = [ocupado |-> TRUE, pid |-> p]],
                                    i, "IO_GEN_SLEEP", p))
           IN  Esperas(t) /\ Abre(s, t, i, p)
<1> DEFINE b == ExecBlock(s)
           x == [ocupado |-> TRUE, pid |-> p]
           y == [op |-> "IO_GEN_SLEEP", pid |-> p]
           w == [b EXCEPT !.io[i] = x]
           v == EnviarIo(w, i, "IO_GEN_SLEEP", p)
<1>1. s \in EstadoKernel /\ s.procesos[p] = "EXEC"
  BY OrdenTipo DEF Orden, Colas
<1>2. /\ Orden(b, {}) /\ b.procesos = [s.procesos EXCEPT ![p] = "BLOCK"]
      /\ b.recursos = s.recursos /\ b.io = s.io /\ b.a_io = s.a_io
      /\ b.caido = s.caido /\ b.pcb = s.pcb /\ b.a_cpu = s.a_cpu
  BY BloquearCampos
<1> HIDE DEF b
<1>3. b \in EstadoKernel
  BY <1>2, OrdenTipo
<1>4. w \in EstadoKernel
  BY <1>3, InterfazTipo, ConIo, Tipado
<1>5. /\ w.procesos = b.procesos /\ w.recursos = b.recursos /\ w.a_io = b.a_io
      /\ w.caido = b.caido /\ w.a_cpu = b.a_cpu /\ w.pcb = b.pcb
      /\ w.io = [b.io EXCEPT ![i] = x]
  BY <1>3, Zenon DEF EstadoKernel
<1> HIDE DEF w
<1>6. v \in EstadoKernel
  BY <1>4, EnviarIoConserva, Tipado
<1>7. /\ v.procesos = w.procesos /\ v.recursos = w.recursos /\ v.io = w.io
      /\ v.caido = w.caido /\ v.a_cpu = w.a_cpu /\ v.pcb = w.pcb
      /\ v.a_io = [w.a_io EXCEPT ![i] = Append(@, y)]
  BY <1>4, Zenon DEF EstadoKernel, EnviarIo
<1> HIDE DEF v
<1>8. /\ s.procesos \in [Pids -> Colas \cup {SinEstado}]
      /\ s.io \in [Interfaces -> Interfaz] /\ s.a_io \in [Interfaces -> Seq(PaqueteIo)]
  BY <1>1, Zenon DEF EstadoKernel
<1>9. /\ v.recursos = s.recursos /\ v.pcb = s.pcb /\ v.caido = s.caido
      /\ v.a_cpu = s.a_cpu /\ v.procesos[p] = "BLOCK" /\ v.io[i] = x
      /\ v.a_io[i] = Append(s.a_io[i], y)
      /\ \A q \in Pids \ {p} : v.procesos[q] = s.procesos[q]
      /\ \A j \in Interfaces \ {i} : v.io[j] = s.io[j] /\ v.a_io[j] = s.a_io[j]
  BY <1>2, <1>5, <1>7, <1>8
<1>10. Len(v.a_io[i]) = 1 /\ v.a_io[i][1] = y
  <2>1. s.a_io[i] \in Seq(PaqueteIo) /\ y \in PaqueteIo /\ Len(s.a_io[i]) = 0
    BY <1>8, EmptySeq DEF PaqueteIo
  <2> HIDE DEF y
  <2> QED
    BY <1>9, <2>1, UltimoEscrito
<1>11. /\ \A r \in Recursos : p \notin Range(s.recursos[r].bloqueados)
       /\ \A j \in Interfaces : s.io[j].pid # p
       /\ s.pcb[p].proxima_io = SinIo
  BY <1>1, SinMotivo
<1>12. s.io[i].pid = 0 /\ 0 \notin Pids
  <2>1. EnInterfaz(s, i)
    BY DEF Esperas
  <2> QED
    BY <2>1 DEF EnInterfaz, Pids
<1>13. \A q \in Pids \ {p} : Motivos(v, q) = Motivos(s, q)
  <2> SUFFICES ASSUME NEW q \in Pids \ {p}
               PROVE  Motivos(v, q) = Motivos(s, q)
    OBVIOUS
  <2>1. /\ \A r \in Recursos : q \in Range(v.recursos[r].bloqueados)
                               <=> q \in Range(s.recursos[r].bloqueados)
        /\ \A j \in Interfaces : v.io[j].pid = q <=> s.io[j].pid = q
        /\ v.pcb[q].proxima_io = s.pcb[q].proxima_io
    BY <1>9, <1>12
  <2> QED
    BY ONLY <2>1, MotivosIguales
<1>14. UnMotivo(v, p)
  <2>1. RecursosDe(v, p) = {}
    BY <1>9, <1>11 DEF RecursosDe
  <2>2. InterfacesDe(v, p) = {i}
    BY <1>9, <1>11 DEF InterfacesDe
  <2>3. {j \in Interfaces : v.pcb[p].proxima_io = j} = {}
    BY <1>9, <1>11, InterfacesAssumption
  <2>4. Motivos(v, p) = {<<"interfaz", i>>}
    BY <2>1, <2>2, <2>3 DEF Motivos
  <2> QED
    BY <1>9, <2>4 DEF UnMotivo
<1>15. \A r \in Recursos : EnRecurso(v, r)
  BY <1>9 DEF Esperas, EnRecurso
<1>16. \A j \in Interfaces : EnInterfaz(v, j)
  <2> SUFFICES ASSUME NEW j \in Interfaces
               PROVE  EnInterfaz(v, j)
    OBVIOUS
  <2>1. EnInterfaz(s, j)
    BY DEF Esperas
  <2> QED
    BY <1>9, <1>12, <2>1 DEF EnInterfaz
<1>17. Acotado(s) => Acotado(v)
  BY <1>9 DEF Acotado
<1>18. Esperas(v)
  <2>1. \A q \in Pids \ {p} : v.procesos[q] = "BLOCK" <=> s.procesos[q] = "BLOCK"
    BY <1>9
  <2> QED
    BY <1>9, <1>13, <1>14, <1>15, <1>16, <1>17, <2>1, EsperaCambio
<1>19. /\ Esperas(Avisar(v)) /\ Avisar(v).io = v.io /\ Avisar(v).a_io = v.a_io
  BY <1>6, <1>18, EsperaAvisar
<1>20. Esperas(Avisar(v)) /\ Abre(s, Avisar(v), i, p)
  BY <1>9, <1>10, <1>19 DEF Abre
<1> QED
  BY <1>20 DEF b, w, v

\* CPU_KERNEL_IO_GEN_SLEEP of process p on the name i.
LEMMA EsperaPedir ==
    ASSUME NEW s, Orden(s, {}), Esperas(s), NEW p \in Pids, NEW pc \in 0 .. MaxPc,
           pc <= Len(Programa[p]), NEW i, i \in Interfaces => p \in Duermen(i),
           i \in Interfaces /\ ~ s.io[i].ocupado => s.a_io[i] = << >>,
           NEW resto \in BOOLEAN
    PROVE  LET t == PedirIoGenSleep(s, p, pc, i, resto)
           IN  \/ Sereno(s, t)
               \/ i \in Interfaces /\ ~ s.io[i].ocupado /\ Esperas(t) /\ Abre(s, t, i, p)
<1> DEFINE t == GuardarQuantum(s, p, resto)
           a == ActualizarRegistros(t, p, pc)
           b == ExecBlock(a)
<1>1. s \in EstadoKernel
  BY OrdenTipo
<1>2. CASE ~ Esta(s, "EXEC", p)
  BY <1>2 DEF PedirIoGenSleep, Sereno
<1>3. CASE Esta(s, "EXEC", p)
  <2>1. t \in EstadoKernel /\ Quieto(s, t) /\ Sereno(s, t)
    BY <1>1, GuardarQuantumConserva, Tipado, QuietoGuardar, EsperaSimple
  <2>2. PedirIoGenSleep(s, p, pc, i, resto) =
            IF i \notin Interfaces \/ TipoInterfaz[i] # "GENERIC"
            THEN FinalizarInterfazInvalida(t, p)
            ELSE IF s.io[i].ocupado THEN Avisar([b EXCEPT !.pcb[p].proxima_io = i])
            ELSE Avisar(EnviarIo([b EXCEPT !.io[i] = [ocupado |-> TRUE, pid |-> p]],
                                 i, "IO_GEN_SLEEP", p))
    BY <1>3 DEF PedirIoGenSleep
  <2> HIDE DEF t
  <2>3. Orden(t, {}) /\ Esta(t, "EXEC", p) /\ Esperas(t)
    BY <1>3, <2>1, QuietoOrden DEF Quieto, Esta, Sereno
  <2>4. Sereno(s, FinalizarInterfazInvalida(t, p))
    BY <2>1, <2>3, EsperaFinalizar, SerenoLuego
  <2>5. a \in EstadoKernel /\ Quieto(t, a) /\ Sereno(t, a)
    BY <2>1, <2>3, EsperaActualizar, QuietoGuardar
  <2> HIDE DEF a
  <2>6. Orden(a, {}) /\ Esta(a, "EXEC", p) /\ Esperas(a)
    BY <2>3, <2>5, QuietoOrden DEF Quieto, Esta, Sereno
  <2>7. a.io = s.io /\ a.a_io = s.a_io /\ Sereno(s, a)
    BY <2>1, <2>5, SerenoLuego DEF Sereno
  <2>8. CASE i \notin Interfaces \/ TipoInterfaz[i] # "GENERIC"
    BY <2>2, <2>4, <2>8
  <2>9. CASE i \in Interfaces /\ TipoInterfaz[i] = "GENERIC" /\ s.io[i].ocupado
    <3>1. Sereno(a, Avisar([ExecBlock(a) EXCEPT !.pcb[p].proxima_io = i]))
      BY <2>6, <2>7, <2>9, EsperaTurno
    <3> QED
      BY <2>2, <2>7, <2>9, <3>1, SerenoLuego
  <2>10. CASE i \in Interfaces /\ TipoInterfaz[i] = "GENERIC" /\ ~ s.io[i].ocupado
    <3> DEFINE x == Avisar(EnviarIo([ExecBlock(a) EXCEPT
                                        !.io[i] = [ocupado |-> TRUE, pid |-> p]],
                                    i, "IO_GEN_SLEEP", p))
    <3>1. Esperas(x) /\ Abre(a, x, i, p)
      BY <2>6, <2>7, <2>10, EsperaAbrir
    <3>2. PedirIoGenSleep(s, p, pc, i, resto) = x
      BY <2>2, <2>10
    <3> HIDE DEF x
    <3>3. Abre(s, x, i, p)
      BY <2>7, <3>1 DEF Abre
    <3> QED
      BY <2>10, <3>1, <3>2, <3>3
  <2> QED
    BY <2>8, <2>9, <2>10
<1> QED
  BY <1>2, <1>3

\* The processes that wait for interface i once its request has ended: those
\* that remember it, at most one.
LEMMA UnoEspera ==
    ASSUME NEW s, Orden(s, {}), Esperas(s), DosPorInterfaz, NEW i \in Interfaces,
           NEW p \in Pids, s.io[i].pid = p, NEW u, Orden(u, {}),
           u.recursos = s.recursos, u.pcb = s.pcb,
           \A q \in Pids \ {p} : u.procesos[q] = s.procesos[q]
    PROVE  /\ \A q : q \in EsperanInterfaz(u, i)
                    <=> q \in Pids \ {p} /\ s.pcb[q].proxima_io = i
           /\ \A q, w \in EsperanInterfaz(u, i) : q = w
           /\ s.procesos[p] = "BLOCK" /\ s.pcb[p].proxima_io = SinIo /\ RecursosDe(s, p) = {}
           /\ InterfacesDe(s, p) = {i}
<1> DEFINE E == EsperanInterfaz(u, i)
<1>1. s \in EstadoKernel /\ u \in EstadoKernel
  BY OrdenTipo
<1>2. <<"interfaz", i>> \in Motivos(s, p)
  BY DEF Motivos, InterfacesDe
<1>3. /\ s.procesos[p] = "BLOCK"
      /\ \A y \in Motivos(s, p) : y = <<"interfaz", i>>
  BY <1>2 DEF Esperas, UnMotivo
<1>4. \A j \in Interfaces : s.pcb[p].proxima_io # j
  <2> SUFFICES ASSUME NEW j \in Interfaces, s.pcb[p].proxima_io = j
               PROVE  FALSE
    OBVIOUS
  <2>1. <<"turno", j>> \in Motivos(s, p)
    BY DEF Motivos
  <2> QED
    BY <1>3, <2>1
<1>5. s.pcb[p].proxima_io = SinIo
  BY <1>1, <1>4, PcbTipo DEF Pcb
<1>6. RecursosDe(s, p) = {}
  <2> SUFFICES ASSUME NEW r \in RecursosDe(s, p)
               PROVE  FALSE
    OBVIOUS
  <2>1. <<"recurso", r>> \in Motivos(s, p)
    BY DEF Motivos
  <2> QED
    BY <1>3, <2>1
<1>7. InterfacesDe(s, p) = {i}
  <2>1. ASSUME NEW j \in InterfacesDe(s, p)
        PROVE  j = i
    <3>1. <<"interfaz", j>> \in Motivos(s, p)
      BY DEF Motivos
    <3> QED
      BY <1>3, <3>1
  <2> QED
    BY <2>1 DEF InterfacesDe
<1>8. ASSUME NEW q \in Pids \ {p}, s.pcb[q].proxima_io = i
      PROVE  q \in E /\ q \in Duermen(i)
  <2>1. <<"turno", i>> \in Motivos(s, q)
    BY <1>8 DEF Motivos
  <2>2. /\ s.procesos[q] = "BLOCK"
        /\ \A y \in Motivos(s, q) : y = <<"turno", i>>
    BY <2>1 DEF Esperas, UnMotivo
  <2>3. RecursosDe(s, q) = {}
    <3> SUFFICES ASSUME NEW r \in RecursosDe(s, q)
                 PROVE  FALSE
      OBVIOUS
    <3>1. <<"recurso", r>> \in Motivos(s, q)
      BY DEF Motivos
    <3> QED
      BY <2>2, <3>1
  <2>4. RecursosDe(u, q) = {}
    BY <2>3 DEF RecursosDe
  <2>5. Esta(u, "BLOCK", q)
    BY <2>2 DEF Orden, Colas
  <2>6. q \in Duermen(i)
    BY <1>8 DEF Esperas, EnInterfaz
  <2> QED
    BY <1>8, <2>4, <2>5, <2>6 DEF EsperanInterfaz, Esta
<1>9. ASSUME NEW q \in E
      PROVE  q \in Pids \ {p} /\ s.pcb[q].proxima_io = i
  <2>1. q \in Range(u.cola["BLOCK"]) /\ u.pcb[q].proxima_io = i
    BY DEF EsperanInterfaz
  <2>2. u.cola["BLOCK"] \in Seq(Pids)
    BY <1>1, ColaTipo DEF Colas
  <2>3. q \in Pids
    BY <2>1, <2>2, RangoTipo
  <2> QED
    BY <1>4, <2>1, <2>3
<1>10. \A q : q \in E <=> q \in Pids \ {p} /\ s.pcb[q].proxima_io = i
  BY <1>8, <1>9
<1>11. ASSUME NEW q \in E, NEW w \in E
       PROVE  q = w
  <2>1. p \in Duermen(i)
    BY DEF Esperas, EnInterfaz, Pids
  <2>2. Duermen(i) \in SUBSET Pids /\ Cardinality(Duermen(i)) <= 2
    BY DEF DosPorInterfaz, Duermen, Usuarios
  <2>3. q \in Duermen(i) /\ w \in Duermen(i) /\ q # p /\ w # p
    BY <1>8, <1>9
  <2> QED
    BY <2>1, <2>2, <2>3, TresDeDos
<1> HIDE DEF E
<1> QED
  BY <1>3, <1>5, <1>6, <1>7, <1>10, <1>11 DEF E

\* What kernel_proximo_io_generic does when at most one process waits.
LEMMA ProximoUno ==
    ASSUME NEW u \in EstadoKernel, NEW i \in Interfaces, u.a_io[i] = << >>,
           \A q, w \in EsperanInterfaz(u, i) : q = w
    PROVE  LET v == ProximoIoGeneric(u, i)
               E == EsperanInterfaz(u, i)
           IN  /\ v \in EstadoKernel
               /\ v.recursos = u.recursos /\ v.caido = u.caido
               /\ v.a_cpu = u.a_cpu /\ v.procesos = u.procesos
               /\ \A q \in Pids \ E : v.pcb[q] = u.pcb[q]
               /\ \A q \in E : v.pcb[q].proxima_io = SinIo /\ v.pcb[q].pc = u.pcb[q].pc
               /\ E = {} => v.io = u.io /\ v.a_io = u.a_io
               /\ \A w \in E : Abre(u, v, i, w)
<1> DEFINE v == ProximoIoGeneric(u, i)
           E == EsperanInterfaz(u, i)
           orden == Filtrar(u.cola["BLOCK"], E)
           x == [ocupado |-> TRUE, pid |-> orden[Len(orden)]]
           envios == [j \in DOMAIN orden |-> [op |-> "IO_GEN_SLEEP", pid |-> orden[j]]]
           pcbs == [p \in Pids |-> IF p \in E THEN [u.pcb[p] EXCEPT !.proxima_io = SinIo]
                                   ELSE u.pcb[p]]
           y == [u EXCEPT !.io[i] = x, !.a_io[i] = @ \o envios, !.pcb = pcbs]
<1>1. u.cola["BLOCK"] \in Seq(Pids) /\ E \subseteq Range(u.cola["BLOCK"])
  BY ColaTipo DEF Colas, EsperanInterfaz
<1>2. orden \in Seq(Pids) /\ Range(orden) = E /\ IsInjective(orden) /\ E \subseteq Pids
  <2>1. E \cap Range(u.cola["BLOCK"]) = E /\ E \subseteq Pids
    BY <1>1, RangoTipo
  <2> HIDE DEF E
  <2> QED
    BY <1>1, <2>1, FiltrarTipo
<1>3. v = IF orden = << >> THEN u ELSE y
  BY DEF ProximoIoGeneric
<1>4. v \in EstadoKernel
  BY ProximoIoConserva, Tipado
<1> HIDE DEF v, E, orden
<1>5. ASSUME NEW w \in E
      PROVE  /\ v.recursos = u.recursos /\ v.caido = u.caido
             /\ v.a_cpu = u.a_cpu /\ v.procesos = u.procesos
             /\ \A q \in Pids \ E : v.pcb[q] = u.pcb[q]
             /\ \A q \in E : v.pcb[q].proxima_io = SinIo /\ v.pcb[q].pc = u.pcb[q].pc
             /\ Abre(u, v, i, w)
  <2>1. E = {w} /\ w \in Pids
    BY <1>2 DEF E
  <2>2. orden # << >> /\ Len(orden) = 1 /\ DOMAIN orden = 1 .. 1 /\ orden[1] = w
    <3>1. Len(orden) \in Nat /\ DOMAIN orden = 1 .. Len(orden)
      BY <1>2, LenProperties
    <3>2. \A j \in 1 .. Len(orden) : orden[j] = w
      BY <1>2, <2>1, <3>1 DEF Range
    <3>3. PICK j \in 1 .. Len(orden) : orden[j] = w
      BY <1>2, <3>1 DEF Range
    <3>4. \A a, b \in 1 .. Len(orden) : a = b
      BY <1>2, <3>1, <3>2 DEF IsInjective
    <3>5. Len(orden) = 1
      <4>1. Len(orden) >= 1
        BY <3>1, <3>3
      <4>2. 1 \in 1 .. Len(orden) /\ Len(orden) \in 1 .. Len(orden)
        BY <3>1, <4>1
      <4> QED
        BY <3>4, <4>2
    <3>6. Len(<< >>) = 0
      BY Z3
    <3>7. orden # << >>
      BY ONLY <3>5, <3>6
    <3> QED
      BY <3>1, <3>2, <3>5, <3>7
  <2>3. /\ v = y /\ x = [ocupado |-> TRUE, pid |-> w]
        /\ envios = [j \in 1 .. 1 |-> [op |-> "IO_GEN_SLEEP", pid |-> w]]
    BY <1>3, <2>2
  <2>4. /\ u.io \in [Interfaces -> Interfaz] /\ u.a_io \in [Interfaces -> Seq(PaqueteIo)]
        /\ u.pcb \in [Pids -> Pcb]
    BY Zenon DEF EstadoKernel
  <2> HIDE DEF x, envios, pcbs
  <2>5. /\ y.io = [u.io EXCEPT ![i] = x] /\ y.pcb = pcbs
        /\ y.a_io = [u.a_io EXCEPT ![i] = @ \o envios]
        /\ y.recursos = u.recursos /\ y.caido = u.caido
        /\ y.a_cpu = u.a_cpu /\ y.procesos = u.procesos
    BY Zenon DEF EstadoKernel
  <2> HIDE DEF y
  <2>6. /\ \A q \in Pids \ E : v.pcb[q] = u.pcb[q]
        /\ \A q \in E : v.pcb[q].proxima_io = SinIo /\ v.pcb[q].pc = u.pcb[q].pc
    BY <1>2, <2>3, <2>4, <2>5 DEF pcbs, Pcb
  <2>7. v.a_io[i] = u.a_io[i] \o envios
    BY <2>3, <2>4, <2>5
  <2>8. envios \in Seq(PaqueteIo) /\ Len(envios) = 1
        /\ envios[1] = [op |-> "IO_GEN_SLEEP", pid |-> w]
    <3>1. [op |-> "IO_GEN_SLEEP", pid |-> w] \in PaqueteIo
      BY <2>1 DEF PaqueteIo
    <3> QED
      BY <2>3, <3>1
  <2>9. v.a_io[i] = envios
    BY <2>7, <2>8
  <2>10. \A j \in Interfaces \ {i} : v.io[j] = u.io[j] /\ v.a_io[j] = u.a_io[j]
    BY <2>3, <2>4, <2>5
  <2>11. v.io[i] = [ocupado |-> TRUE, pid |-> w]
    BY <2>3, <2>4, <2>5
  <2> QED
    BY <2>1, <2>3, <2>5, <2>6, <2>8, <2>9, <2>10, <2>11 DEF Abre
<1>6. /\ v.recursos = u.recursos /\ v.caido = u.caido
      /\ v.a_cpu = u.a_cpu /\ v.procesos = u.procesos
      /\ \A q \in Pids \ E : v.pcb[q] = u.pcb[q]
      /\ \A q \in E : v.pcb[q].proxima_io = SinIo /\ v.pcb[q].pc = u.pcb[q].pc
      /\ E = {} => v.io = u.io /\ v.a_io = u.a_io
      /\ \A w \in E : Abre(u, v, i, w)
  <2>1. CASE E = {}
    <3>1. orden = << >>
      BY <1>2, <2>1, RangoVacio
    <3>2. v = u
      BY <1>3, <3>1
    <3> QED
      BY <2>1, <3>2
  <2>2. CASE E # {}
    <3>1. PICK w \in E : TRUE
      BY <2>2
    <3> QED
      BY <1>5, <2>2, <3>1
  <2> QED
    BY <2>1, <2>2
<1> QED
  BY <1>4, <1>6 DEF v, E

\* An interface reports the end of the request of p, the one it is busy with: p
\* is ready, and whoever waited is sent to it.
LEMMA EsperaCompletar ==
    ASSUME NEW s, Orden(s, {}), Esperas(s), DosPorInterfaz, NEW i \in Interfaces,
           NEW p \in Pids, s.io[i].pid = p, s.a_io[i] = << >>
    PROVE  LET t == CompletarIoGenSleep(s, i, p, i)
           IN  Esperas(t) /\ (Cierra(s, t, i) \/ \E w \in Pids : Abre(s, t, i, w))
<1> DEFINE t == ManejarBlockReady(s, p)
           x == [ocupado |-> FALSE, pid |-> 0]
           u == [t EXCEPT !.io[i] = x]
           v == ProximoIoGeneric(u, i)
           E == EsperanInterfaz(u, i)
<1>1. s \in EstadoKernel
  BY OrdenTipo
<1>2. s.procesos[p] = "BLOCK"
  <2>1. <<"interfaz", i>> \in Motivos(s, p)
    BY DEF Motivos, InterfacesDe
  <2> QED
    BY <2>1 DEF Esperas, UnMotivo
<1>3. CompletarIoGenSleep(s, i, p, i) = Avisar(v)
  <2>1. ~ Esta(s, "EXIT", p)
    BY DEF Orden, Esta
  <2>2. InterfacesDe(s, p) # {}
    BY DEF InterfacesDe
  <2> QED
    BY <2>1, <2>2 DEF CompletarIoGenSleep
<1>4. /\ Orden(t, {})
      /\ \E e \in {"READY", "READY_PRIORIDAD"} : t.procesos = [s.procesos EXCEPT ![p] = e]
      /\ t.recursos = s.recursos /\ t.io = s.io /\ t.a_io = s.a_io
      /\ t.caido = s.caido /\ t.pcb = s.pcb /\ t.a_cpu = s.a_cpu
  BY <1>2, DesbloquearCampos
<1> HIDE DEF t
<1>5. t \in EstadoKernel
  BY <1>4, OrdenTipo
<1>6. u \in EstadoKernel /\ Quieto(t, u)
  BY <1>5, InterfazTipo, ConIo, Tipado, QuietoIo
<1>7. /\ u.io = [t.io EXCEPT ![i] = x] /\ u.a_io = t.a_io /\ u.recursos = t.recursos
      /\ u.caido = t.caido /\ u.pcb = t.pcb /\ u.a_cpu = t.a_cpu /\ u.procesos = t.procesos
  BY <1>5, Zenon DEF EstadoKernel
<1> HIDE DEF u
<1>8. Orden(u, {})
  BY <1>4, <1>6, QuietoOrden
<1>9. /\ s.procesos \in [Pids -> Colas \cup {SinEstado}]
      /\ s.io \in [Interfaces -> Interfaz]
  BY <1>1, Zenon DEF EstadoKernel
<1>10. /\ u.recursos = s.recursos /\ u.pcb = s.pcb /\ u.a_io = s.a_io /\ u.io[i] = x
       /\ \A j \in Interfaces \ {i} : u.io[j] = s.io[j]
       /\ \A q \in Pids \ {p} : u.procesos[q] = s.procesos[q]
       /\ u.procesos[p] # "BLOCK" /\ u.caido = s.caido /\ u.a_cpu = s.a_cpu
  BY <1>4, <1>7, <1>9
<1>11. /\ \A q : q \in E <=> q \in Pids \ {p} /\ s.pcb[q].proxima_io = i
       /\ \A q, w \in E : q = w
       /\ s.pcb[p].proxima_io = SinIo /\ RecursosDe(s, p) = {} /\ InterfacesDe(s, p) = {i}
  <2>1. u.recursos = s.recursos
    BY <1>10
  <2>2. u.pcb = s.pcb
    BY <1>10
  <2>3. \A q \in Pids \ {p} : u.procesos[q] = s.procesos[q]
    BY <1>10
  <2>4. Orden(s, {}) /\ Esperas(s) /\ DosPorInterfaz /\ s.io[i].pid = p
        /\ i \in Interfaces /\ p \in Pids
    OBVIOUS
  <2> QED
    BY ONLY <1>8, <2>1, <2>2, <2>3, <2>4, UnoEspera
<1>12. /\ v \in EstadoKernel
       /\ v.recursos = u.recursos /\ v.caido = u.caido
       /\ v.a_cpu = u.a_cpu /\ v.procesos = u.procesos
       /\ \A q \in Pids \ E : v.pcb[q] = u.pcb[q]
       /\ \A q \in E : v.pcb[q].proxima_io = SinIo /\ v.pcb[q].pc = u.pcb[q].pc
       /\ E = {} => v.io = u.io /\ v.a_io = u.a_io
       /\ \A w \in E : Abre(u, v, i, w)
  <2>1. u.a_io[i] = << >> /\ u \in EstadoKernel /\ \A q, w \in EsperanInterfaz(u, i) : q = w
    BY <1>6, <1>10, <1>11
  <2> QED
    BY ONLY <2>1, ProximoUno
<1> HIDE DEF v, E, x
<1>13. \A w \in E :
          /\ w \in Pids \ {p} /\ s.pcb[w].proxima_io = i /\ w \in Duermen(i)
          /\ s.procesos[w] = "BLOCK" /\ RecursosDe(s, w) = {} /\ InterfacesDe(s, w) = {}
          /\ v.io[i] = [ocupado |-> TRUE, pid |-> w] /\ E = {w}
          /\ \A j \in Interfaces \ {i} : v.io[j] = s.io[j]
  <2> TAKE w \in E
  <2>1. w \in Pids \ {p} /\ s.pcb[w].proxima_io = i /\ E = {w}
    BY <1>11
  <2>2. <<"turno", i>> \in Motivos(s, w)
    BY <2>1 DEF Motivos
  <2>3. /\ s.procesos[w] = "BLOCK"
        /\ \A y \in Motivos(s, w) : y = <<"turno", i>>
    BY <2>1, <2>2 DEF Esperas, UnMotivo
  <2>4. RecursosDe(s, w) = {}
    <3> SUFFICES ASSUME NEW r \in RecursosDe(s, w)
                 PROVE  FALSE
      OBVIOUS
    <3>1. <<"recurso", r>> \in Motivos(s, w)
      BY DEF Motivos
    <3> QED
      BY <2>3, <3>1
  <2>5. InterfacesDe(s, w) = {}
    <3> SUFFICES ASSUME NEW j \in InterfacesDe(s, w)
                 PROVE  FALSE
      OBVIOUS
    <3>1. <<"interfaz", j>> \in Motivos(s, w)
      BY DEF Motivos
    <3> QED
      BY <2>3, <3>1
  <2>6. w \in Duermen(i)
    BY <2>1 DEF Esperas, EnInterfaz
  <2>7. Abre(u, v, i, w)
    BY <1>12
  <2> QED
    BY <1>10, <2>1, <2>3, <2>4, <2>5, <2>6, <2>7 DEF Abre
<1>14. x = [ocupado |-> FALSE, pid |-> 0] /\ 0 \notin Pids
  BY DEF x, Pids
<1>15. \A q \in Pids : /\ v.pcb[q].proxima_io = IF q \in E THEN SinIo ELSE s.pcb[q].proxima_io
                       /\ v.pcb[q].pc = s.pcb[q].pc
  BY <1>10, <1>12
<1>16. /\ \A j \in Interfaces \ {i} : v.io[j] = s.io[j]
       /\ v.io[i] = IF E = {} THEN x ELSE [ocupado |-> TRUE, pid |-> CHOOSE w \in E : TRUE]
       /\ \A w \in E : v.io[i].pid = w
  BY <1>10, <1>12, <1>13
<1>17. ASSUME NEW q \in Pids \ {p}, q \notin E
       PROVE  Motivos(v, q) = Motivos(s, q)
  <2>1. v.io[i].pid # q /\ s.io[i].pid # q
    <3>1. CASE E = {}
      BY <1>14, <1>16, <3>1
    <3>2. CASE E # {}
      <4>1. PICK w \in E : TRUE
        BY <3>2
      <4>2. v.io[i].pid = w /\ w # q
        BY <1>16, <1>17, <4>1
      <4> QED
        BY <4>2
    <3> QED
      BY <3>1, <3>2
  <2>2. /\ \A r \in Recursos : q \in Range(v.recursos[r].bloqueados)
                               <=> q \in Range(s.recursos[r].bloqueados)
        /\ \A j \in Interfaces : v.io[j].pid = q <=> s.io[j].pid = q
        /\ v.pcb[q].proxima_io = s.pcb[q].proxima_io
    BY <1>10, <1>12, <1>15, <1>16, <1>17, <2>1
  <2> QED
    BY ONLY <2>2, MotivosIguales
<1>18. ASSUME NEW q \in Pids \ {p}
       PROVE  UnMotivo(v, q)
  <2>1. v.procesos[q] = s.procesos[q] /\ UnMotivo(s, q)
    BY <1>10, <1>12 DEF Esperas
  <2>2. CASE q \notin E
    BY <1>17, <2>1, <2>2 DEF UnMotivo
  <2>3. CASE q \in E
    <3>0. RecursosDe(s, q) = {} /\ InterfacesDe(s, q) = {}
          /\ v.io[i].pid = q /\ \A j \in Interfaces \ {i} : v.io[j] = s.io[j]
      BY <1>13, <1>16, <2>3
    <3>1. RecursosDe(v, q) = {}
      BY <1>10, <1>12, <3>0 DEF RecursosDe
    <3>2. InterfacesDe(v, q) = {i}
      BY <3>0 DEF InterfacesDe
    <3>3. {j \in Interfaces : v.pcb[q].proxima_io = j} = {}
      BY <1>15, <2>3, InterfacesAssumption
    <3>4. Motivos(v, q) = {<<"interfaz", i>>}
      BY <3>1, <3>2, <3>3 DEF Motivos
    <3> QED
      BY <1>13, <2>1, <2>3, <3>4 DEF UnMotivo
  <2> QED
    BY <2>2, <2>3
<1>19. UnMotivo(v, p)
  <2>1. RecursosDe(v, p) = {}
    BY <1>10, <1>11, <1>12 DEF RecursosDe
  <2>2. v.io[i].pid # p /\ p \notin E
    <3>1. CASE E = {}
      BY <1>14, <1>16, <3>1
    <3>2. CASE E # {}
      BY <1>11, <1>16, <3>2
    <3> QED
      BY <1>11, <3>1, <3>2
  <2>3. InterfacesDe(v, p) = {}
    BY <1>11, <1>16, <2>2 DEF InterfacesDe
  <2>4. {j \in Interfaces : v.pcb[p].proxima_io = j} = {}
    BY <1>11, <1>15, <2>2, InterfacesAssumption
  <2>5. Motivos(v, p) = {}
    BY <2>1, <2>3, <2>4 DEF Motivos
  <2> QED
    BY <1>10, <1>12, <2>5 DEF UnMotivo
<1>20. \A r \in Recursos : EnRecurso(v, r)
  BY <1>10, <1>12 DEF Esperas, EnRecurso
<1>21. ASSUME NEW j \in Interfaces \ {i}
       PROVE  EnInterfaz(v, j)
  <2>1. EnInterfaz(s, j) /\ SinIo # j
    BY InterfacesAssumption DEF Esperas
  <2> QED
    BY <1>15, <1>16, <2>1 DEF EnInterfaz
<1>22. EnInterfaz(v, i)
  <2>1. ASSUME NEW q \in Pids
        PROVE  v.pcb[q].proxima_io # i
    BY <1>11, <1>15, InterfacesAssumption
  <2>2. CASE E = {}
    BY <1>14, <1>16, <2>1, <2>2 DEF EnInterfaz
  <2>3. CASE E # {}
    <3>1. PICK w \in E : TRUE
      BY <2>3
    <3>2. v.io[i] = [ocupado |-> TRUE, pid |-> w] /\ w \in Pids /\ w \in Duermen(i)
      BY <1>13
    <3>3. v.io[i].ocupado /\ v.io[i].pid = w
      BY ONLY <3>2
    <3> QED
      BY <1>14, <2>1, <3>2, <3>3 DEF EnInterfaz
  <2> QED
    BY <2>2, <2>3
<1>23. Acotado(v)
  BY <1>10, <1>12, <1>15 DEF Acotado, Esperas
<1>24. ~ v.caido
  BY <1>10, <1>12 DEF Esperas
<1>25. Esperas(v)
  BY <1>18, <1>19, <1>20, <1>21, <1>22, <1>23, <1>24 DEF Esperas
<1>26. Esperas(Avisar(v)) /\ Avisar(v).io = v.io /\ Avisar(v).a_io = v.a_io
  BY <1>12, <1>25, EsperaAvisar
<1>27. Cierra(s, Avisar(v), i) \/ \E w \in Pids : Abre(s, Avisar(v), i, w)
  <2>1. CASE E = {}
    BY <1>10, <1>12, <1>14, <1>26, <2>1 DEF Cierra
  <2>2. CASE E # {}
    <3>1. PICK w \in E : TRUE
      BY <2>2
    <3>2. Abre(u, v, i, w)
      BY <1>12
    <3>3. Abre(s, Avisar(v), i, w) /\ w \in Pids
      BY <1>10, <1>26, <3>2 DEF Abre
    <3> QED
      BY <3>3
  <2> QED
    BY <2>1, <2>2
<1> QED
  BY <1>3, <1>26, <1>27, <1>25

-----------------------------------------------------------------------------
(* What the messages carry comes from the scripts.                         *)

\* A packet of the CPU about a resource or an interface is an instruction of
\* its process, and its pc is not past the end of the script, unless it is the
\* one that ends the process.
MensajeDelGuion ==
    {m \in Mensaje :
        /\ m.op \in {"WAIT", "SIGNAL", "IO_GEN_SLEEP"} => m.pid \in Usuarios({m.op}, m.dato)
        /\ m.pc <= Len(Programa[m.pid]) \/ (m.op = "PROCESO" /\ m.dato = "EJECUTANDO")}

SuenoDelGuion == {m \in MensajeDelGuion : m.op = "IO_GEN_SLEEP"}

\* The invariant on the messages: while the CPU waits for memoria its pc is not
\* past the end of the script, so that memoria has what it is asked for.
Guiones ==
    /\ dispatch \in Seq(MensajeDelGuion)
    /\ interrupt \in Seq(SuenoDelGuion)
    /\ pedidos # << >> \/ entregas # << >> => cpu.pc <= Len(Programa[cpu.pid])
    /\ ~ memoria.caida

\* A packet of the CPU in the context c.
LEMMA PaqueteGuion ==
    ASSUME NEW c \in TiposCpu, c.pid \in Pids, NEW dato \in Datos,
           NEW op \in {"PROCESO", "WAIT", "SIGNAL", "IO_GEN_SLEEP"},
           op \in {"WAIT", "SIGNAL", "IO_GEN_SLEEP"} => c.pid \in Usuarios({op}, dato),
           c.pc <= Len(Programa[c.pid]) \/ (op = "PROCESO" /\ dato = "EJECUTANDO")
    PROVE  /\ Paquete(c, op, dato) \in MensajeDelGuion
           /\ op = "IO_GEN_SLEEP" => Paquete(c, op, dato) \in SuenoDelGuion
<1> DEFINE m == Paquete(c, op, dato)
<1>1. m \in Mensaje
  BY PaqueteTipo
<1>2. m.op = op /\ m.pid = c.pid /\ m.pc = c.pc /\ m.dato = dato
  BY DEF Paquete
<1> HIDE DEF m
<1>3. m \in MensajeDelGuion
  BY <1>1, <1>2 DEF MensajeDelGuion
<1>4. op = "IO_GEN_SLEEP" => m \in SuenoDelGuion
  BY <1>2, <1>3 DEF SuenoDelGuion
<1> QED
  BY <1>3, <1>4 DEF m

\* The end of an instruction cycle in the context c.
LEMMA SeguirGuion ==
    ASSUME dispatch \in Seq(MensajeDelGuion), NEW c \in TiposCpu, c.pid \in Pids,
           c.pc <= Len(Programa[c.pid]), SeguirCiclo(c)
    PROVE  /\ dispatch' \in Seq(MensajeDelGuion) /\ UNCHANGED interrupt
           /\ cpu'.pc <= Len(Programa[cpu'.pid])
<1>1. [c EXCEPT !.flag_interrupt = FALSE].pc = c.pc
      /\ [c EXCEPT !.flag_interrupt = FALSE].pid = c.pid
  BY DEF TiposCpu
<1>2. Paquete(c, "PROCESO", "PARCIAL") \in MensajeDelGuion
  BY PaqueteGuion DEF Datos
<1>3. Append(dispatch, Paquete(c, "PROCESO", "PARCIAL")) \in Seq(MensajeDelGuion)
  BY <1>2, AppendProperties
<1>4. CASE c.flag_interrupt
  BY <1>1, <1>3, <1>4 DEF SeguirCiclo, AlDispatch
<1>5. CASE ~ c.flag_interrupt
  BY <1>5 DEF SeguirCiclo
<1> QED
  BY <1>4, <1>5

\* The instruction cycle sends what the script says, and asks memoria for
\* nothing past its end.
LEMMA CicloGuion ==
    ASSUME Inductivo, Control, entregas \in Seq(EntregaDelGuion), Guiones, InstruccionCiclo
    PROVE  Guiones'
<1> DEFINE c == [cpu EXCEPT !.pc = @ + 1]
           i == Head(entregas).instruccion
           p == cpu.pid
           fin == Len(Programa[p])
<1>1. /\ entregas # << >> /\ Head(entregas).op = "PROXIMA_INSTRUCCION"
      /\ entregas' = Tail(entregas) /\ UNCHANGED memoria
      /\ cpu \in TiposCpu /\ cpu.pc < MaxPc
      /\ \/ RecibirDesconocida(i) \/ EjecutarSet(c, i) \/ EjecutarJnz(c, i)
         \/ EjecutarResize(c, i) \/ EjecutarRecurso(c, i) \/ EjecutarIoGenSleep(c, i)
         \/ EjecutarExit(c, i) \/ EjecutarInvalida(c, i)
  BY DEF Inductivo, TypeOK, InstruccionCiclo
<1>2. /\ pedidos = << >> /\ interrupt = << >> /\ entregas' = << >> /\ p \in Pids
      /\ Head(entregas).pid = p /\ Head(entregas).pc = cpu.pc
  BY <1>1, Respondiendo
<1>3. /\ i \in Instruccion
      /\ i.op = "EXIT" \/ (cpu.pc + 1 \in DOMAIN Programa[p] /\ i = Programa[p][cpu.pc + 1])
  <2>1. Head(entregas) \in EntregaDelGuion
    BY <1>1, SinPrimero
  <2>2. Head(entregas) \in Entrega
    BY <2>1 DEF EntregaDelGuion
  <2> QED
    BY <1>1, <1>2, <2>1, <2>2 DEF EntregaDelGuion, Entrega
<1>4. cpu.pc + 1 \in 0 .. MaxPc /\ cpu.pc \in Nat
  BY <1>1, CpuCampos, LimitesAssumption
<1>5. c \in TiposCpu /\ c.pid = p /\ c.pc = cpu.pc + 1
  <2>1. c.pc = cpu.pc + 1
    BY <1>1 DEF TiposCpu
  <2> QED
    BY <1>1, <1>4, <2>1, CpuCampos
<1>6. fin \in Nat /\ DOMAIN Programa[p] = 1 .. fin
  <2>1. Programa[p] \in Seq(Instruccion)
    BY <1>2, ProgramaAssumption
  <2> QED
    BY <2>1, LenProperties
<1>7. i.dato \in Datos
  BY <1>3 DEF Instruccion
<1>8. cpu.pc <= fin
  BY <1>1 DEF Guiones
<1>9. /\ dispatch \in Seq(MensajeDelGuion) /\ interrupt \in Seq(SuenoDelGuion)
      /\ ~ memoria'.caida
  BY <1>1 DEF Guiones
<1> HIDE DEF i, c, fin
<1>10. i.op # "EXIT" => cpu.pc + 1 <= fin
  BY <1>3, <1>4, <1>6
<1>11. ASSUME NEW op \in {"WAIT", "SIGNAL", "IO_GEN_SLEEP"}, i.op = op
       PROVE  p \in Usuarios({op}, i.dato)
  BY <1>2, <1>3, <1>11 DEF Usuarios
<1>12. ASSUME NEW f \in TiposCpu, f.pid = p, f.pc <= fin, SeguirCiclo(f)
       PROVE  Guiones'
  <2>1. f.pid \in Pids /\ f.pc <= Len(Programa[f.pid])
    BY <1>2, <1>12 DEF fin
  <2> QED
    BY <1>9, <1>12, <2>1, SeguirGuion DEF Guiones
<1>13. ASSUME NEW f \in TiposCpu, f.pid = p, NEW dato \in Datos,
              NEW op \in {"PROCESO", "WAIT", "SIGNAL"},
              op \in {"WAIT", "SIGNAL"} => i.op = op /\ dato = i.dato,
              f.pc <= fin \/ (op = "PROCESO" /\ dato = "EJECUTANDO"),
              AlDispatch(f, op, dato), UNCHANGED <<interrupt, pedidos>>
       PROVE  Guiones'
  <2>1. /\ f.pid \in Pids
        /\ f.pc <= Len(Programa[f.pid]) \/ (op = "PROCESO" /\ dato = "EJECUTANDO")
        /\ op \in {"WAIT", "SIGNAL", "IO_GEN_SLEEP"} => f.pid \in Usuarios({op}, dato)
    BY <1>2, <1>11, <1>13 DEF fin
  <2>2. Paquete(f, op, dato) \in MensajeDelGuion
    BY <1>13, <2>1, PaqueteGuion
  <2>3. dispatch' = Append(dispatch, Paquete(f, op, dato))
    BY <1>13 DEF AlDispatch
  <2>4. dispatch' \in Seq(MensajeDelGuion)
    BY <1>9, <2>2, <2>3, AppendProperties
  <2> QED
    BY <1>2, <1>9, <1>13, <2>4 DEF Guiones
<1>14. CASE RecibirDesconocida(i)
  BY <1>1, <1>8, <1>13, <1>14 DEF RecibirDesconocida, Datos
<1>15. CASE EjecutarSet(c, i)
  <2>1. i.op # "EXIT" /\ SeguirCiclo(c)
    BY <1>15 DEF EjecutarSet
  <2> QED
    BY <1>5, <1>10, <1>12, <2>1
<1>16. CASE EjecutarJnz(c, i)
  <2>1. PICK destino \in {0, c.pc} : i.op = "JNZ" /\ SeguirCiclo([c EXCEPT !.pc = destino])
    BY <1>16 DEF EjecutarJnz
  <2>2. destino \in 0 .. MaxPc /\ destino <= fin
    BY <1>4, <1>5, <1>6, <1>10, <2>1, LimitesAssumption
  <2> DEFINE d == [c EXCEPT !.pc = destino]
  <2>3. d \in TiposCpu /\ d.pid = p /\ d.pc = destino
    BY <1>5, <2>2 DEF TiposCpu
  <2> HIDE DEF d
  <2> QED
    BY <1>12, <2>1, <2>2, <2>3 DEF d
<1>17. CASE EjecutarResize(c, i)
  <2>1. i.op = "RESIZE" /\ cpu' = c /\ UNCHANGED <<dispatch, interrupt>>
    BY <1>17 DEF EjecutarResize
  <2>2. cpu'.pc <= Len(Programa[cpu'.pid])
    BY <1>5, <1>10, <2>1 DEF fin
  <2> QED
    BY <1>9, <2>1, <2>2 DEF Guiones
<1>18. CASE EjecutarRecurso(c, i)
  <2>1. /\ i.op \in {"WAIT", "SIGNAL"} /\ AlDispatch(c, i.op, i.dato)
        /\ UNCHANGED <<interrupt, pedidos>>
    BY <1>18 DEF EjecutarRecurso
  <2>2. c.pc <= fin
    BY <1>5, <1>10, <2>1
  <2> QED
    BY <1>5, <1>7, <1>13, <2>1, <2>2
<1>19. CASE EjecutarIoGenSleep(c, i)
  <2>1. /\ i.op = "IO_GEN_SLEEP" /\ UNCHANGED <<dispatch, pedidos>>
        /\ interrupt' = Append(interrupt, Paquete(c, "IO_GEN_SLEEP", i.dato))
    BY <1>19 DEF EjecutarIoGenSleep
  <2>2. c.pid \in Pids /\ c.pid \in Usuarios({"IO_GEN_SLEEP"}, i.dato)
        /\ c.pc <= Len(Programa[c.pid])
    BY <1>2, <1>5, <1>10, <1>11, <2>1 DEF fin
  <2>3. Paquete(c, "IO_GEN_SLEEP", i.dato) \in SuenoDelGuion
    BY <1>5, <1>7, <2>2, PaqueteGuion
  <2>4. interrupt' \in Seq(SuenoDelGuion)
    BY <1>9, <2>1, <2>3, AppendProperties
  <2> QED
    BY <1>2, <1>9, <2>1, <2>4 DEF Guiones
<1>20. CASE EjecutarExit(c, i)
  BY <1>5, <1>13, <1>20 DEF EjecutarExit, Datos
<1>21. CASE EjecutarInvalida(c, i)
  BY <1>2, <1>9, <1>21 DEF EjecutarInvalida, Guiones
<1> QED
  BY <1>1, <1>14, <1>15, <1>16, <1>17, <1>18, <1>19, <1>20, <1>21 DEF c, i

\* The end of a RESIZE in the context of the CPU.
LEMMA ResizeGuion ==
    ASSUME Inductivo, Control, Guiones, CpuResize
    PROVE  Guiones'
<1> DEFINE m == Head(entregas)
           a == [op |-> "RESIZE", pid |-> m.pid, pc |-> 0, dato |-> m.dato]
           b == Paquete(cpu, "PROCESO", "PARCIAL")
           f == Append(dispatch, a)
<1>1. /\ entregas # << >> /\ m.op = "RESIZE" /\ entregas' = Tail(entregas)
      /\ \/ m.dato = "FALLO" /\ dispatch' = f /\ UNCHANGED <<cpu, pedidos>>
         \/ /\ dispatch' = dispatch \o <<a, b>>
            /\ cpu' = [cpu EXCEPT !.flag_interrupt = FALSE] /\ UNCHANGED pedidos
         \/ dispatch' = f /\ UNCHANGED cpu
      /\ UNCHANGED <<interrupt, memoria>>
  BY DEF CpuResize
<1>2. /\ pedidos = << >> /\ entregas' = << >> /\ cpu.pid \in Pids
      /\ m = entregas[1] /\ m.pid = cpu.pid
  BY <1>1, Respondiendo
<1>3. /\ cpu \in TiposCpu /\ cpu.pc <= Len(Programa[cpu.pid])
      /\ dispatch \in Seq(MensajeDelGuion) /\ interrupt \in Seq(SuenoDelGuion)
      /\ ~ memoria.caida
  BY <1>1 DEF Guiones, Inductivo, TypeOK
<1>4. a \in MensajeDelGuion
  <2>1. m \in Entrega
    BY <1>1, SinPrimero DEF Inductivo, TypeOK
  <2>2. m.dato \in {"OK", "FALLO"}
    BY <1>1, <2>1 DEF Entrega
  <2>3. Len(Programa[cpu.pid]) \in Nat
    BY <1>2, ProgramaAssumption, LenProperties
  <2>4. 0 \in 0 .. MaxPc /\ m.dato \in Datos
    BY <2>2, LimitesAssumption DEF Datos
  <2>5. a \in Mensaje
    BY <1>2, <2>4 DEF Mensaje
  <2>6. a.op = "RESIZE" /\ a.pid = cpu.pid /\ a.pc = 0
    BY <1>2
  <2> HIDE DEF a
  <2> QED
    BY <2>3, <2>5, <2>6 DEF MensajeDelGuion
<1>5. b \in MensajeDelGuion
  BY <1>2, <1>3, PaqueteGuion DEF Datos
<1> HIDE DEF a, b
<1>6. f \in Seq(MensajeDelGuion) /\ Append(f, b) \in Seq(MensajeDelGuion)
      /\ dispatch \o <<a, b>> = Append(f, b)
  BY <1>3, <1>4, <1>5, AppendProperties
<1> HIDE DEF f, m
<1>7. dispatch' \in Seq(MensajeDelGuion)
  BY <1>1, <1>6
<1>8. cpu'.pc = cpu.pc /\ cpu'.pid = cpu.pid
  BY <1>1, <1>3 DEF TiposCpu
<1> QED
  BY <1>1, <1>3, <1>7, <1>8 DEF Guiones

\* Memoria finds every instruction that it is asked for.
LEMMA MemoriaGuion ==
    ASSUME Inductivo, Control, Guiones, PasoMemoria
    PROVE  Guiones'
<1>1. /\ Sockets(k, pedidos, entregas, interrupt, dispatch)
      /\ Hilo(k, cpu, pedidos, entregas, interrupt, dispatch)
      /\ memoria \in [procesos : SUBSET Pids, caida : BOOLEAN]
      /\ pedidos \in Seq(Pedido)
  BY SocketsTipo DEF Control, Inductivo, TypeOK
<1>2. UNCHANGED <<cpu, interrupt, dispatch>>
  BY DEF PasoMemoria, MemoriaKernel, MemoriaProximaInstruccion, MemoriaResize
<1>3. CASE MemoriaKernel
  <2>1. memoria'.caida = memoria.caida /\ UNCHANGED <<pedidos, entregas>>
    BY <1>1, <1>3 DEF MemoriaKernel
  <2> QED
    BY <1>2, <2>1 DEF Guiones
<1>4. CASE MemoriaProximaInstruccion
  <2>1. Head(pedidos) = pedidos[1] /\ pedidos # << >>
    BY <1>1, <1>4, PrimeroLeido DEF MemoriaProximaInstruccion
  <2>2. pedidos[1].pid = cpu.pid /\ pedidos[1].pc = cpu.pc
    BY <1>1, <1>4, <2>1 DEF Hilo, MemoriaProximaInstruccion
  <2>3. cpu.pc <= Len(Programa[cpu.pid])
    BY <2>1 DEF Guiones
  <2>4. cpu.pc \in Nat /\ Len(Programa[cpu.pid]) \in Nat
    <3>1. cpu.pc \in Nat
      BY CpuCampos, LimitesAssumption DEF Inductivo, TypeOK
    <3>2. pedidos[1] \in Pedido
      BY <1>1, <2>1, PrimeroLeido
    <3>3. cpu.pid \in Pids
      BY <2>2, <3>2 DEF Pedido
    <3> QED
      BY <3>1, <3>3, ProgramaAssumption, LenProperties
  <2>5. UNCHANGED memoria
    BY <1>4, <2>1, <2>2, <2>3, <2>4 DEF MemoriaProximaInstruccion
  <2> QED
    BY <1>2, <2>3, <2>5 DEF Guiones
<1>5. CASE MemoriaResize
  <2>1. pedidos # << >> /\ UNCHANGED memoria
    BY <1>5 DEF MemoriaResize
  <2> QED
    BY <1>2, <2>1 DEF Guiones
<1> QED
  BY <1>3, <1>4, <1>5 DEF PasoMemoria

\* Every step keeps what the messages carry.
LEMMA PasoGuiones ==
    ASSUME Inductivo, Orden(k, {}), Control, Acotado(k), entregas \in Seq(EntregaDelGuion),
           Guiones, [Next]_vars
    PROVE  Guiones'
<1>1. /\ Sockets(k, pedidos, entregas, interrupt, dispatch)
      /\ Hilo(k, cpu, pedidos, entregas, interrupt, dispatch)
      /\ dispatch \in Seq(MensajeDelGuion) /\ interrupt \in Seq(SuenoDelGuion)
  BY SocketsTipo DEF Control, Guiones
<1>2. ASSUME UNCHANGED dispatch \/ (dispatch # << >> /\ dispatch' = Tail(dispatch)),
             UNCHANGED interrupt \/ (interrupt # << >> /\ interrupt' = Tail(interrupt)),
             UNCHANGED <<cpu, pedidos, entregas, memoria>>
      PROVE  Guiones'
  <2>1. dispatch' \in Seq(MensajeDelGuion)
    BY <1>1, <1>2, SinPrimero
  <2>2. interrupt' \in Seq(SuenoDelGuion)
    BY <1>1, <1>2, SinPrimero
  <2> QED
    BY <1>2, <2>1, <2>2 DEF Guiones
<1>3. CASE PasoKernel
  <2>1. UNCHANGED <<cpu, pedidos, entregas, memoria>>
    BY <1>3 DEF PasoKernel, SoloKernel
  <2>2. CASE DispatchProceso \/ DispatchResize \/ DispatchWait \/ DispatchSignal
    BY <1>2, <2>1, <2>2, AccionDispatch
  <2>3. CASE InterruptIoGenSleep
    BY <1>2, <2>1, <2>3 DEF InterruptIoGenSleep
  <2>4. CASE ~ (\/ DispatchProceso \/ DispatchResize \/ DispatchWait \/ DispatchSignal
                \/ InterruptIoGenSleep)
    <3>1. UNCHANGED <<dispatch, interrupt>>
      BY <1>3, <2>4 DEF PasoKernel, NextKernel, FinalizarProceso, IniciarProceso,
         DetenerPlanificacion, IniciarPlanificacion, Multiprogramacion, HiloPlanificador,
         TemporizadorVence, FinQuantum, AtenderMemoria, AtenderCompletado, entradas
    <3> QED
      BY <1>2, <2>1, <3>1
  <2> QED
    BY <2>2, <2>3, <2>4
<1>4. CASE CpuEjecutarProceso
  <2>1. /\ k.a_cpu # << >> /\ cpu'.pid = Head(k.a_cpu).pid /\ cpu'.pc = Head(k.a_cpu).pc
        /\ UNCHANGED <<dispatch, interrupt, memoria>>
    BY <1>4 DEF CpuEjecutarProceso
  <2>2. Head(k.a_cpu) = k.a_cpu[1] /\ 1 \in DOMAIN k.a_cpu
    <3>1. Len(k.a_cpu) = 1 /\ k.a_cpu \in Seq([pid : Pids, pc : 0 .. MaxPc])
      BY <1>1, <2>1, UnLugar DEF Sockets, EnTurno, EstadoKernel
    <3> QED
      BY <3>1, DeUno, LenProperties
  <2>3. cpu'.pc <= Len(Programa[cpu'.pid])
    BY <2>1, <2>2 DEF Acotado
  <2> QED
    BY <1>1, <2>1, <2>3 DEF Guiones
<1>5. CASE CpuInterrupcion
  <2>1. /\ cpu'.pc = cpu.pc /\ cpu'.pid = cpu.pid
        /\ UNCHANGED <<dispatch, interrupt, pedidos, entregas, memoria>>
    BY <1>5 DEF CpuInterrupcion, Inductivo, TypeOK, TiposCpu
  <2> QED
    BY <2>1 DEF Guiones
<1>6. CASE InstruccionCiclo
  BY <1>6, CicloGuion
<1>7. CASE CpuResize
  BY <1>7, ResizeGuion
<1>8. CASE PasoMemoria
  BY <1>8, MemoriaGuion
<1>9. CASE PasoInterfaz \/ UNCHANGED vars
  BY <1>2, <1>9 DEF PasoInterfaz, InterfazRecibe, InterfazVence, InterfazAvisa, vars
<1> QED
  BY <1>3, <1>4, <1>5, <1>6, <1>7, <1>8, <1>9 DEF Next, PasoCpu

-----------------------------------------------------------------------------
(* The packets of the CPU.                                                 *)

\* Which head kernel_signal reads does not depend on the registers.
LEMMA CabezasIguales ==
    ASSUME NEW s \in EstadoKernel, NEW p \in Pids, NEW pc \in 0 .. MaxPc, NEW r
    PROVE  CabezasLeidas(ActualizarRegistros(s, p, pc), p, r) = CabezasLeidas(s, p, r)
<1> DEFINE a == ActualizarRegistros(s, p, pc)
<1>1. a \in EstadoKernel
  BY ActualizarConserva, Tipado
<1>2. a.recursos = s.recursos /\ a.cola = s.cola
  BY Zenon DEF ActualizarRegistros, EstadoKernel
<1> HIDE DEF a
<1>3. ASSUME NEW u \in EstadoKernel, r \in Recursos
      PROVE  Liberar(u, p, r).recursos = [u.recursos EXCEPT ![r].instancias = @ + 1]
  <2> DEFINE d == Devolver(u, p, r)
  <2>1. d \in EstadoKernel
    BY <1>3, DevolverConserva, Tipado
  <2>2. d.recursos = u.recursos
    BY <1>3, Zenon DEF Devolver, EstadoKernel
  <2> HIDE DEF d
  <2>3. [d EXCEPT !.recursos[r].instancias = @ + 1].recursos
        = [d.recursos EXCEPT ![r].instancias = @ + 1]
    BY <2>1, Zenon DEF EstadoKernel
  <2> QED
    BY <2>2, <2>3 DEF Liberar, d
<1>4. r \in Recursos => Liberar(a, p, r).recursos = Liberar(s, p, r).recursos
  BY <1>1, <1>2, <1>3
<1>5. \A h : PidLeido(a, h) = PidLeido(s, h)
  BY <1>2 DEF PidLeido, Buscar, Esta
<1>6. r \in Recursos => (HayQueDesbloquear(Liberar(a, p, r), r)
                         <=> HayQueDesbloquear(Liberar(s, p, r), r))
  BY <1>4 DEF HayQueDesbloquear
<1> QED
  BY <1>2, <1>5, <1>6 DEF CabezasLeidas, a

\* Those about the process in EXEC leave the interfaces alone.
LEMMA EsperaDispatch ==
    ASSUME NEW s, Orden(s, {}), Esperas(s), NEW m \in MensajeDelGuion, NEW resto \in BOOLEAN,
           Esta(s, "EXEC", m.pid)
    PROVE  /\ m.op = "PROCESO" => Sereno(s, AtenderProceso(s, m, resto))
           /\ m.op = "RESIZE" => Sereno(s, AtenderResize(s, m, resto))
           /\ m.op = "WAIT" => Sereno(s, AtenderWait(s, m, resto))
           /\ m.op = "SIGNAL" => \A cabeza \in CabezasLeidas(s, m.pid, m.dato) :
                                    Sereno(s, AtenderSignal(s, m, resto, cabeza))
<1> DEFINE p == m.pid
           i == InterrumpirTemporizador(s)
           g == GuardarQuantum(s, p, resto)
           a == ActualizarRegistros(s, p, m.pc)
<1>1. s \in EstadoKernel /\ m \in Mensaje /\ p \in Pids /\ m.pc \in 0 .. MaxPc
  BY OrdenTipo, MensajeTipo DEF MensajeDelGuion
<1>2. /\ m.pc <= Len(Programa[p]) \/ (m.op = "PROCESO" /\ m.dato = "EJECUTANDO")
      /\ m.op \in {"WAIT", "SIGNAL"} => p \in Usuarios({m.op}, m.dato)
  BY DEF MensajeDelGuion
<1>3. m.op \in {"WAIT", "SIGNAL"} => p \in Usan(m.dato)
  BY <1>2 DEF Usan, Usuarios
<1>4. s.procesos[p] \notin {SinEstado, "EXIT"}
  BY <1>1 DEF Orden, Colas, SinEstado
<1>5. /\ AtenderProceso(s, m, resto) =
            IF m.dato = "EJECUTANDO" THEN Avisar(FinalizarExito(i, p))
            ELSE Avisar(ManejarExecReady(a, p, resto))
      /\ AtenderResize(s, m, resto) \in {Avisar(s), Avisar(FinalizarExito(g, p))}
      /\ AtenderWait(s, m, resto) = Avisar(Wait(a, p, m.dato, resto))
      /\ \A cabeza : AtenderSignal(s, m, resto, cabeza) =
            Avisar(Signal(a, p, m.dato, resto, cabeza))
  BY <1>4 DEF AtenderProceso, AtenderResize, AtenderWait, AtenderSignal, FinalizarSinMemoria
<1>6. /\ i \in EstadoKernel /\ Quieto(s, i) /\ g \in EstadoKernel /\ Quieto(s, g)
      /\ a \in EstadoKernel /\ Quieto(s, a) /\ Sereno(s, i) /\ Sereno(s, g)
  BY <1>1, InterrumpirTemporizadorConserva, GuardarQuantumConserva, ActualizarConserva,
     Tipado, QuietoSimple, QuietoGuardar, EsperaSimple
<1>7. m.pc <= Len(Programa[p]) => Sereno(s, a)
  BY <1>1, EsperaActualizar
<1>8. CabezasLeidas(a, p, m.dato) = CabezasLeidas(s, p, m.dato)
  BY <1>1, CabezasIguales
<1> HIDE DEF i, g, a
<1>9. /\ Orden(i, {}) /\ Esta(i, "EXEC", p) /\ Orden(g, {}) /\ Esta(g, "EXEC", p)
      /\ Orden(a, {}) /\ Esta(a, "EXEC", p)
  BY <1>6, QuietoOrden
<1>10. ASSUME NEW t \in EstadoKernel, NEW u \in EstadoKernel, Sereno(s, t), Sereno(t, u)
       PROVE  Sereno(s, Avisar(u))
  BY <1>10, EsperaAvisar DEF Sereno
<1> HIDE DEF p
<1>11. /\ FinalizarExito(i, p) \in EstadoKernel /\ FinalizarExito(g, p) \in EstadoKernel
       /\ Sereno(i, FinalizarExito(i, p)) /\ Sereno(g, FinalizarExito(g, p))
  BY <1>1, <1>6, <1>9, FinalizarConserva, Tipado, EsperaFinalizar DEF Sereno
<1>12. Sereno(s, Avisar(FinalizarExito(i, p))) /\ Sereno(s, Avisar(FinalizarExito(g, p)))
  BY <1>6, <1>10, <1>11
<1>13. Sereno(s, Avisar(s))
  BY <1>1, EsperaSimple
<1>14. ASSUME m.pc <= Len(Programa[p])
       PROVE  /\ Sereno(s, Avisar(ManejarExecReady(a, p, resto)))
              /\ m.op = "WAIT" => Sereno(s, Avisar(Wait(a, p, m.dato, resto)))
              /\ m.op = "SIGNAL" => \A cabeza \in CabezasLeidas(s, p, m.dato) :
                                       Sereno(s, Avisar(Signal(a, p, m.dato, resto, cabeza)))
  <2>1. Sereno(s, a) /\ Esperas(a)
    BY <1>7, <1>14 DEF Sereno, p
  <2>2. Sereno(s, Avisar(ManejarExecReady(a, p, resto)))
    <3>1. ManejarExecReady(a, p, resto) \in EstadoKernel
      BY <1>1, <1>6, ManejarExecReadyConserva, Tipado
    <3>2. Sereno(a, ManejarExecReady(a, p, resto))
      BY <1>1, <1>9, <2>1, EsperaManejar
    <3> QED
      BY <1>6, <1>10, <2>1, <3>1, <3>2
  <2>3. m.op = "WAIT" => Sereno(s, Avisar(Wait(a, p, m.dato, resto)))
    <3>1. Wait(a, p, m.dato, resto) \in EstadoKernel
      BY <1>1, <1>6, WaitConserva, Tipado
    <3>2. m.op = "WAIT" => Sereno(a, Wait(a, p, m.dato, resto))
      BY <1>1, <1>3, <1>9, <2>1, EsperaWait
    <3> QED
      BY <1>6, <1>10, <2>1, <3>1, <3>2
  <2>4. ASSUME m.op = "SIGNAL", NEW cabeza \in CabezasLeidas(a, p, m.dato)
        PROVE  Sereno(s, Avisar(Signal(a, p, m.dato, resto, cabeza)))
    <3>1. cabeza \in 0 .. MaxPid
      BY <1>6, CabezasTipo
    <3>2. Signal(a, p, m.dato, resto, cabeza) \in EstadoKernel
      BY <1>1, <1>6, <3>1, SignalConserva, Tipado
    <3>3. Sereno(a, Signal(a, p, m.dato, resto, cabeza))
      BY <1>1, <1>3, <1>9, <2>1, <2>4, EsperaSignal
    <3> QED
      BY <1>6, <1>10, <2>1, <3>2, <3>3
  <2> QED
    BY <1>8, <2>2, <2>3, <2>4 DEF p
<1>15. m.op = "PROCESO" => Sereno(s, AtenderProceso(s, m, resto))
  BY <1>2, <1>5, <1>12, <1>14 DEF p
<1>16. m.op = "RESIZE" => Sereno(s, AtenderResize(s, m, resto))
  BY <1>5, <1>12, <1>13 DEF p
<1> QED
  BY <1>2, <1>5, <1>14, <1>15, <1>16 DEF p

-----------------------------------------------------------------------------
(* The requests in course.                                                 *)

\* One request in course while the interface is busy, none while it is free,
\* and what is in course is the process it is busy with: q is what the kernel
\* sent, d the interface process, c what it reported, x the kernel's entry.
EnMarcha(q, d, c, x) ==
    /\ Len(q) + (IF d.armado THEN 1 ELSE 0) + d.huerfanos + d.avisos + Len(c)
       = IF x.ocupado THEN 1 ELSE 0
    /\ q # << >> => q[1] = [op |-> "IO_GEN_SLEEP", pid |-> x.pid]
    /\ d.armado \/ d.huerfanos > 0 \/ d.avisos > 0 => d.pid = x.pid
    /\ c # << >> => c[1] = x.pid

Peticion(i) == EnMarcha(k.a_io[i], interfaces[i], completados[i], k.io[i])

Peticiones == \A i \in Interfaces : Peticion(i)

\* The types of what it reads.
LEMMA MarchaTipo ==
    ASSUME Inductivo, NEW i \in Interfaces
    PROVE  /\ k.a_io[i] \in Seq(PaqueteIo) /\ Len(k.a_io[i]) \in Nat
           /\ k.a_io[i] = << >> <=> Len(k.a_io[i]) = 0
           /\ completados[i] \in Seq(Pids) /\ Len(completados[i]) \in Nat
           /\ completados[i] = << >> <=> Len(completados[i]) = 0
           /\ interfaces[i] \in TiposInterfaz
           /\ interfaces[i].huerfanos \in Nat /\ interfaces[i].avisos \in Nat
           /\ interfaces[i].armado \in BOOLEAN /\ k.io[i].ocupado \in BOOLEAN
<1>1. /\ k.a_io \in [Interfaces -> Seq(PaqueteIo)] /\ k.io \in [Interfaces -> Interfaz]
      /\ completados \in [Interfaces -> Seq(Pids)]
      /\ interfaces \in [Interfaces -> TiposInterfaz]
  BY Zenon DEF Inductivo, TypeOK, EstadoKernel
<1>2. /\ k.a_io[i] \in Seq(PaqueteIo) /\ completados[i] \in Seq(Pids)
      /\ interfaces[i] \in TiposInterfaz /\ k.io[i] \in Interfaz
  BY <1>1
<1>3. /\ Len(k.a_io[i]) \in Nat /\ (k.a_io[i] = << >> <=> Len(k.a_io[i]) = 0)
      /\ Len(completados[i]) \in Nat /\ (completados[i] = << >> <=> Len(completados[i]) = 0)
  BY <1>2, LenProperties, EmptySeq
<1> QED
  BY <1>2, <1>3 DEF TiposInterfaz, Interfaz

\* What a free interface and a report leave.
LEMMA MarchaUna ==
    ASSUME Inductivo, NEW i \in Interfaces, Peticion(i)
    PROVE  /\ ~ k.io[i].ocupado =>
                 /\ k.a_io[i] = << >> /\ completados[i] = << >> /\ ~ interfaces[i].armado
                 /\ interfaces[i].huerfanos = 0 /\ interfaces[i].avisos = 0
           /\ completados[i] # << >> =>
                 /\ k.io[i].ocupado /\ completados[i][1] = k.io[i].pid
                 /\ Len(completados[i]) = 1
                 /\ k.a_io[i] = << >> /\ ~ interfaces[i].armado
                 /\ interfaces[i].huerfanos = 0 /\ interfaces[i].avisos = 0
<1> DEFINE q == Len(k.a_io[i])
           c == Len(completados[i])
           h == interfaces[i].huerfanos
           v == interfaces[i].avisos
           a == interfaces[i].armado
<1>1. /\ q \in Nat /\ c \in Nat /\ h \in Nat /\ v \in Nat /\ a \in BOOLEAN
      /\ k.a_io[i] = << >> <=> q = 0
      /\ completados[i] = << >> <=> c = 0
      /\ k.io[i].ocupado \in BOOLEAN
  BY MarchaTipo
<1>2. /\ q + (IF a THEN 1 ELSE 0) + h + v + c = IF k.io[i].ocupado THEN 1 ELSE 0
      /\ completados[i] # << >> => completados[i][1] = k.io[i].pid
  BY DEF Peticion, EnMarcha
<1> HIDE DEF q, c, h, v, a
<1>3. ~ k.io[i].ocupado => q = 0 /\ c = 0 /\ h = 0 /\ v = 0 /\ ~ a
  BY <1>1, <1>2
<1>4. c # 0 => k.io[i].ocupado /\ q = 0 /\ c = 1 /\ h = 0 /\ v = 0 /\ ~ a
  BY <1>1, <1>2
<1> QED
  BY <1>1, <1>2, <1>3, <1>4 DEF q, c, h, v, a

\* What the interface process does carries the request on.
LEMMA MarchaInterfaz ==
    ASSUME Inductivo, Peticiones, NEW i \in Interfaces,
           InterfazRecibe(i) \/ InterfazVence(i) \/ InterfazAvisa(i)
    PROVE  Peticiones'
<1> DEFINE q == k.a_io[i]
           d == interfaces[i]
           c == completados[i]
           x == k.io[i]
<1>1. /\ q \in Seq(PaqueteIo) /\ Len(q) \in Nat /\ (q = << >> <=> Len(q) = 0)
      /\ c \in Seq(Pids) /\ Len(c) \in Nat /\ (c = << >> <=> Len(c) = 0)
      /\ d \in TiposInterfaz /\ d.huerfanos \in Nat /\ d.avisos \in Nat
      /\ d.armado \in BOOLEAN /\ x.ocupado \in BOOLEAN
  BY MarchaTipo
<1>2. EnMarcha(q, d, c, x)
  BY DEF Peticiones, Peticion
<1>3. /\ Len(q) # 0 => /\ x.ocupado /\ Len(q) = 1 /\ ~ d.armado /\ d.huerfanos = 0
                        /\ d.avisos = 0 /\ Len(c) = 0
      /\ d.armado => /\ x.ocupado /\ Len(q) = 0 /\ d.huerfanos = 0
                     /\ d.avisos = 0 /\ Len(c) = 0
      /\ d.huerfanos > 0 => /\ x.ocupado /\ Len(q) = 0 /\ ~ d.armado /\ d.huerfanos = 1
                            /\ d.avisos = 0 /\ Len(c) = 0
      /\ d.avisos > 0 => /\ x.ocupado /\ Len(q) = 0 /\ ~ d.armado /\ d.huerfanos = 0
                         /\ d.avisos = 1 /\ Len(c) = 0
  <2>1. Len(q) + (IF d.armado THEN 1 ELSE 0) + d.huerfanos + d.avisos + Len(c)
        = IF x.ocupado THEN 1 ELSE 0
    BY <1>2 DEF EnMarcha
  <2> DEFINE lq == Len(q)
             lc == Len(c)
             a == d.armado
             h == d.huerfanos
             v == d.avisos
             o == x.ocupado
  <2>2. /\ lq \in Nat /\ lc \in Nat /\ a \in BOOLEAN /\ h \in Nat /\ v \in Nat
        /\ o \in BOOLEAN /\ lq + (IF a THEN 1 ELSE 0) + h + v + lc = IF o THEN 1 ELSE 0
    BY <1>1, <2>1
  <2> HIDE DEF lq, lc, a, h, v, o
  <2>3. /\ lq # 0 => o /\ lq = 1 /\ ~ a /\ h = 0 /\ v = 0 /\ lc = 0
        /\ a => o /\ lq = 0 /\ h = 0 /\ v = 0 /\ lc = 0
        /\ h > 0 => o /\ lq = 0 /\ ~ a /\ h = 1 /\ v = 0 /\ lc = 0
        /\ v > 0 => o /\ lq = 0 /\ ~ a /\ h = 0 /\ v = 1 /\ lc = 0
    BY ONLY <2>2
  <2> QED
    BY <2>3 DEF lq, lc, a, h, v, o
<1>4. /\ k \in EstadoKernel /\ k.a_io \in [Interfaces -> Seq(PaqueteIo)]
      /\ completados \in [Interfaces -> Seq(Pids)]
      /\ interfaces \in [Interfaces -> TiposInterfaz]
  BY Zenon DEF Inductivo, TypeOK, EstadoKernel
<1>5. ASSUME \A j \in Interfaces \ {i} : /\ k'.a_io[j] = k.a_io[j]
                                         /\ interfaces'[j] = interfaces[j]
                                         /\ completados'[j] = completados[j],
             k'.io = k.io, EnMarcha(k'.a_io[i], interfaces'[i], completados'[i], x)
      PROVE  Peticiones'
  <2>1. Peticion(i)'
    BY <1>5 DEF Peticion
  <2>2. ASSUME NEW j \in Interfaces, j # i
        PROVE  Peticion(j)'
    <3>1. /\ k'.a_io[j] = k.a_io[j] /\ interfaces'[j] = interfaces[j]
          /\ completados'[j] = completados[j] /\ k'.io[j] = k.io[j]
      BY <1>5, <2>2
    <3>2. EnMarcha(k.a_io[j], interfaces[j], completados[j], k.io[j])
      BY DEF Peticiones, Peticion
    <3>3. EnMarcha(k'.a_io[j], interfaces'[j], completados'[j], k'.io[j])
      BY ONLY <3>1, <3>2
    <3> QED
      BY <3>3 DEF Peticion
  <2> QED
    BY <2>1, <2>2 DEF Peticiones
<1>6. CASE InterfazRecibe(i)
  <2> DEFINE m == Head(q)
             e == IF m.op = "IO_GEN_SLEEP"
                  THEN [d EXCEPT !.pid = m.pid, !.armado = TRUE,
                                 !.huerfanos = IF d.armado THEN @ + 1 ELSE @]
                  ELSE [d EXCEPT !.armado = FALSE]
  <2>1. /\ q # << >> /\ UNCHANGED completados /\ interfaces' = [interfaces EXCEPT ![i] = e]
    BY <1>6 DEF InterfazRecibe
  <2>2. k'.io = k.io /\ k'.a_io = [k.a_io EXCEPT ![i] = Tail(@)]
    BY <1>4, <1>6, Zenon DEF InterfazRecibe, EstadoKernel
  <2>3. /\ Len(q) = 1 /\ Len(c) = 0 /\ d.huerfanos = 0 /\ d.avisos = 0 /\ ~ d.armado
        /\ x.ocupado
    BY <1>1, <1>3, <2>1
  <2>4. m = q[1] /\ Tail(q) = << >>
    BY <1>1, <2>3, DeUno
  <2>5. m.op = "IO_GEN_SLEEP" /\ m.pid = x.pid
    BY <1>2, <2>1, <2>4 DEF EnMarcha
  <2> HIDE DEF m, d, q, c, x
  <2>6. /\ e.armado /\ e.huerfanos = 0 /\ e.avisos = 0 /\ e.pid = x.pid
    BY <1>1, <2>3, <2>5 DEF TiposInterfaz
  <2> HIDE DEF e
  <2>7. Len(<< >>) = 0
    BY Z3
  <2>8. EnMarcha(<< >>, e, c, x)
    BY <1>1, <2>3, <2>6, <2>7 DEF EnMarcha
  <2> QED
    BY <1>4, <1>5, <2>1, <2>2, <2>4, <2>8 DEF q, c, d
<1>7. ASSUME NEW e, interfaces' = [interfaces EXCEPT ![i] = e],
             UNCHANGED <<k, completados>>, EnMarcha(q, e, c, x)
      PROVE  Peticiones'
  <2>1. /\ k'.a_io = k.a_io /\ completados' = completados /\ interfaces'[i] = e
        /\ \A j \in Interfaces \ {i} : interfaces'[j] = interfaces[j]
    BY <1>4, <1>7
  <2>2. EnMarcha(k'.a_io[i], interfaces'[i], completados'[i], x)
    BY <1>7, <2>1
  <2> QED
    BY <1>5, <1>7, <2>1, <2>2
<1>8. CASE InterfazVence(i)
  <2> HIDE DEF q, c, x
  <2>1. CASE /\ d.armado
             /\ interfaces' = [interfaces EXCEPT ![i].armado = FALSE, ![i].avisos = @ + 1]
    <3> DEFINE e == [d EXCEPT !.armado = FALSE, !.avisos = @ + 1]
    <3>1. interfaces' = [interfaces EXCEPT ![i] = e]
      BY <1>4, <2>1
    <3> HIDE DEF d
    <3>2. ~ e.armado /\ e.huerfanos = d.huerfanos /\ e.avisos = d.avisos + 1 /\ e.pid = d.pid
      BY <1>1 DEF TiposInterfaz
    <3> HIDE DEF e
    <3>3. EnMarcha(q, e, c, x)
      BY <1>1, <1>2, <1>3, <2>1, <3>2 DEF EnMarcha
    <3> QED
      BY <1>7, <1>8, <3>1, <3>3 DEF InterfazVence
  <2>2. CASE /\ d.huerfanos > 0
             /\ interfaces' = [interfaces EXCEPT ![i].huerfanos = @ - 1, ![i].avisos = @ + 1]
    <3> DEFINE e == [d EXCEPT !.huerfanos = @ - 1, !.avisos = @ + 1]
    <3>1. interfaces' = [interfaces EXCEPT ![i] = e]
      BY <1>4, <2>2
    <3> HIDE DEF d
    <3>2. /\ e.armado = d.armado /\ e.huerfanos = d.huerfanos - 1
          /\ e.avisos = d.avisos + 1 /\ e.pid = d.pid
      BY <1>1 DEF TiposInterfaz
    <3> HIDE DEF e
    <3>4. /\ ~ e.armado /\ e.huerfanos = 0 /\ e.avisos = 1 /\ e.pid = x.pid
          /\ Len(q) = 0 /\ Len(c) = 0 /\ x.ocupado
      BY <1>1, <1>2, <1>3, <2>2, <3>2 DEF EnMarcha
    <3>3. EnMarcha(q, e, c, x)
      BY <1>1, <3>4 DEF EnMarcha
    <3> QED
      BY <1>7, <1>8, <3>1, <3>3 DEF InterfazVence
  <2> QED
    BY <1>8, <2>1, <2>2 DEF InterfazVence
<1>9. CASE InterfazAvisa(i)
  <2> DEFINE e == [d EXCEPT !.avisos = @ - 1]
             y == Append(c, d.pid)
  <2>1. /\ d.avisos > 0 /\ interfaces' = [interfaces EXCEPT ![i] = e]
        /\ completados' = [completados EXCEPT ![i] = y] /\ UNCHANGED k
    BY <1>4, <1>9 DEF InterfazAvisa
  <2> HIDE DEF d, q, c, x
  <2>2. /\ e.armado = d.armado /\ e.huerfanos = d.huerfanos
        /\ e.avisos = d.avisos - 1 /\ e.pid = d.pid
    BY <1>1 DEF TiposInterfaz
  <2>3. /\ Len(c) = 0 /\ Len(q) = 0 /\ ~ d.armado /\ d.huerfanos = 0 /\ d.avisos = 1
        /\ x.ocupado /\ d.pid = x.pid
    BY <1>1, <1>2, <1>3, <2>1 DEF EnMarcha
  <2>4. c = << >>
    BY <1>1, <2>3
  <2>5. Len(y) = 1 /\ y[1] = x.pid
    BY <2>3, <2>4
  <2> HIDE DEF e, y
  <2>6. EnMarcha(q, e, y, x)
    BY <1>1, <2>2, <2>3, <2>5 DEF EnMarcha
  <2>7. /\ interfaces'[i] = e /\ completados'[i] = y
        /\ \A j \in Interfaces \ {i} : /\ interfaces'[j] = interfaces[j]
                                       /\ completados'[j] = completados[j]
    BY <1>4, <2>1
  <2> QED
    BY <1>5, <2>1, <2>6, <2>7 DEF q, x
<1> QED
  BY <1>6, <1>8, <1>9

\* A step of the kernel that leaves the interfaces alone, or that starts a
\* request in a free one.
LEMMA MarchaAbre ==
    ASSUME Inductivo, Peticiones, UNCHANGED <<interfaces, completados>>,
           \/ k'.io = k.io /\ k'.a_io = k.a_io
           \/ \E i \in Interfaces, w \in Pids : ~ k.io[i].ocupado /\ Abre(k, k', i, w)
    PROVE  Peticiones'
<1>1. CASE k'.io = k.io /\ k'.a_io = k.a_io
  BY <1>1 DEF Peticiones, Peticion
<1>2. ASSUME NEW i \in Interfaces, NEW w \in Pids, ~ k.io[i].ocupado, Abre(k, k', i, w)
      PROVE  Peticiones'
  <2> DEFINE q == k'.a_io[i]
             x == [ocupado |-> TRUE, pid |-> w]
             d == interfaces[i]
             c == completados[i]
  <2>1. /\ k'.io[i] = x /\ Len(q) = 1 /\ q[1] = [op |-> "IO_GEN_SLEEP", pid |-> w]
        /\ \A j \in Interfaces \ {i} : k'.io[j] = k.io[j] /\ k'.a_io[j] = k.a_io[j]
    BY <1>2 DEF Abre
  <2>2. c = << >> /\ ~ d.armado /\ d.huerfanos = 0 /\ d.avisos = 0 /\ Len(c) = 0
    BY <1>2, MarchaUna, MarchaTipo DEF Peticiones
  <2>3. x.ocupado /\ x.pid = w
    OBVIOUS
  <2> HIDE DEF q, x, d, c
  <2>4. EnMarcha(q, d, c, x)
    BY <2>1, <2>2, <2>3 DEF EnMarcha
  <2>5. Peticion(i)'
    BY <2>1, <2>4 DEF Peticion, q, d, c
  <2>6. ASSUME NEW j \in Interfaces, j # i
        PROVE  Peticion(j)'
    <3>1. k'.io[j] = k.io[j] /\ k'.a_io[j] = k.a_io[j]
      BY <2>1, <2>6
    <3>2. EnMarcha(k.a_io[j], interfaces[j], completados[j], k.io[j])
      BY DEF Peticiones, Peticion
    <3> QED
      BY <3>1, <3>2 DEF Peticion
  <2> QED
    BY <2>5, <2>6 DEF Peticiones
<1> QED
  BY <1>1, <1>2

\* The one that reads the report of interface i, and leaves it free or starts
\* the next request.
LEMMA MarchaCierra ==
    ASSUME Inductivo, Peticiones, NEW i \in Interfaces, completados[i] # << >>,
           completados' = [completados EXCEPT ![i] = Tail(@)], UNCHANGED interfaces,
           Cierra(k, k', i) \/ \E w \in Pids : Abre(k, k', i, w)
    PROVE  Peticiones'
<1> DEFINE q == k'.a_io[i]
           x == k'.io[i]
           d == interfaces[i]
           c == completados[i]
<1>1. /\ k.a_io[i] = << >> /\ ~ d.armado /\ d.huerfanos = 0 /\ d.avisos = 0 /\ Len(c) = 1
  BY MarchaUna DEF Peticiones
<1>2. completados \in [Interfaces -> Seq(Pids)]
  BY DEF Inductivo, TypeOK
<1>3. Tail(c) = << >>
  BY <1>1, <1>2, DeUno
<1>4. completados'[i] = << >> /\ \A j \in Interfaces \ {i} : completados'[j] = completados[j]
  BY <1>2, <1>3
<1>5. /\ \/ /\ x = [ocupado |-> FALSE, pid |-> 0] /\ q = << >>
         \/ \E w \in Pids : /\ x = [ocupado |-> TRUE, pid |-> w]
                            /\ Len(q) = 1 /\ q[1] = [op |-> "IO_GEN_SLEEP", pid |-> w]
      /\ \A j \in Interfaces \ {i} : k'.io[j] = k.io[j] /\ k'.a_io[j] = k.a_io[j]
  BY <1>1 DEF Abre, Cierra
<1> HIDE DEF q, x, d, c
<1>6. Len(<< >>) = 0
  BY Z3
<1>7. ASSUME x = [ocupado |-> FALSE, pid |-> 0], q = << >>
      PROVE  EnMarcha(q, d, << >>, x)
  <2>1. ~ x.ocupado
    BY <1>7
  <2> QED
    BY <1>1, <1>6, <1>7, <2>1 DEF EnMarcha
<1>8. ASSUME NEW w \in Pids, x = [ocupado |-> TRUE, pid |-> w],
             Len(q) = 1, q[1] = [op |-> "IO_GEN_SLEEP", pid |-> w]
      PROVE  EnMarcha(q, d, << >>, x)
  <2>1. x.ocupado /\ x.pid = w
    BY <1>8
  <2> QED
    BY <1>1, <1>6, <1>8, <2>1 DEF EnMarcha
<1>9. EnMarcha(q, d, << >>, x)
  BY <1>5, <1>7, <1>8
<1>10. Peticion(i)'
  BY <1>4, <1>9 DEF Peticion, q, d, x
<1>11. ASSUME NEW j \in Interfaces, j # i
       PROVE  Peticion(j)'
  <2>1. k'.io[j] = k.io[j] /\ k'.a_io[j] = k.a_io[j] /\ completados'[j] = completados[j]
    BY <1>4, <1>5, <1>11
  <2>2. EnMarcha(k.a_io[j], interfaces[j], completados[j], k.io[j])
    BY DEF Peticiones, Peticion
  <2> QED
    BY <2>1, <2>2 DEF Peticion
<1> QED
  BY <1>10, <1>11 DEF Peticiones

\* The packets of the CPU and of the interfaces.
LEMMA PaquetesEsperas ==
    ASSUME InductivoAvisos, Esperas(k), Guiones, Peticiones, DosPorInterfaz,
           UNCHANGED interfaces,
           \/ DispatchProceso \/ DispatchResize \/ DispatchWait \/ DispatchSignal
           \/ InterruptIoGenSleep
           \/ \E i \in Interfaces : AtenderCompletado(i)
    PROVE  Esperas(k') /\ Peticiones'
<1>1. /\ Inductivo /\ Orden(k, {}) /\ Control /\ Avisos /\ k \in EstadoKernel
      /\ dispatch \in Seq(MensajeDelGuion) /\ interrupt \in Seq(SuenoDelGuion)
      /\ interrupt \in Seq(Mensaje)
      /\ completados \in [Interfaces -> Seq(Pids)]
      /\ Sockets(k, pedidos, entregas, interrupt, dispatch)
  BY SocketsTipo DEF InductivoAvisos, InductivoControl, InductivoCoherente, Coherencia,
         Coherente, Inductivo, TypeOK, Guiones
<1>2. CASE DispatchProceso \/ DispatchResize \/ DispatchWait \/ DispatchSignal
  <2> DEFINE m == Head(dispatch)
  <2>1. dispatch # << >> /\ UNCHANGED completados
    BY <1>2 DEF DispatchProceso, DispatchResize, DispatchWait, DispatchSignal, RecibirDispatch
  <2>2. m \in MensajeDelGuion /\ Esta(k, "EXEC", m.pid)
    BY <1>1, <2>1, SinPrimero, AvisoEnExec
  <2>3. Sereno(k, k')
    <3>1. CASE DispatchProceso
      <4>1. PICK resto \in BOOLEAN : k' = AtenderProceso(k, m, resto)
        BY <3>1, RestosTipo DEF DispatchProceso
      <4>2. m.op = "PROCESO"
        BY <3>1 DEF DispatchProceso, RecibirDispatch
      <4> HIDE DEF m
      <4> QED
        BY <1>1, <2>2, <4>1, <4>2, EsperaDispatch
    <3>2. CASE DispatchResize
      <4>1. PICK resto \in BOOLEAN : k' = AtenderResize(k, m, resto)
        BY <3>2, RestosTipo DEF DispatchResize
      <4>2. m.op = "RESIZE"
        BY <3>2 DEF DispatchResize, RecibirDispatch
      <4> HIDE DEF m
      <4> QED
        BY <1>1, <2>2, <4>1, <4>2, EsperaDispatch
    <3>3. CASE DispatchWait
      <4>1. PICK resto \in BOOLEAN : k' = AtenderWait(k, m, resto)
        BY <3>3, RestosTipo DEF DispatchWait
      <4>2. m.op = "WAIT"
        BY <3>3 DEF DispatchWait, RecibirDispatch
      <4> HIDE DEF m
      <4> QED
        BY <1>1, <2>2, <4>1, <4>2, EsperaDispatch
    <3>4. CASE DispatchSignal
      <4>1. PICK resto \in BOOLEAN, cabeza \in CabezasLeidas(k, m.pid, m.dato) :
               k' = AtenderSignal(k, m, resto, cabeza)
        BY <3>4, RestosTipo DEF DispatchSignal
      <4>2. m.op = "SIGNAL"
        BY <3>4 DEF DispatchSignal, RecibirDispatch
      <4> HIDE DEF m
      <4> QED
        BY <1>1, <2>2, <4>1, <4>2, EsperaDispatch
    <3> QED
      BY <1>2, <3>1, <3>2, <3>3, <3>4
  <2> QED
    BY <1>1, <2>1, <2>3, MarchaAbre DEF Sereno
<1>3. CASE InterruptIoGenSleep
  <2> DEFINE m == Head(interrupt)
             i == m.dato
  <2>1. interrupt # << >> /\ UNCHANGED completados
    BY <1>3 DEF InterruptIoGenSleep
  <2>2. PICK resto \in BOOLEAN : k' = PedirIoGenSleep(k, m.pid, m.pc, m.dato, resto)
    BY <1>3, RestosTipo DEF InterruptIoGenSleep
  <2>3. m \in SuenoDelGuion
    BY <1>1, <2>1, SinPrimero
  <2>4. /\ m \in Mensaje /\ m.pid \in Pids /\ m.pc \in 0 .. MaxPc
        /\ m.pid \in Usuarios({"IO_GEN_SLEEP"}, m.dato)
        /\ m.pc <= Len(Programa[m.pid])
    BY <2>3, MensajeTipo DEF SuenoDelGuion, MensajeDelGuion
  <2>5. i \in Interfaces => m.pid \in Duermen(i)
    BY <2>4 DEF Duermen
  <2>6. i \in Interfaces /\ ~ k.io[i].ocupado => k.a_io[i] = << >>
    BY <1>1, MarchaUna DEF Peticiones
  <2> HIDE DEF m, i
  <2>7. \/ Sereno(k, k')
        \/ i \in Interfaces /\ ~ k.io[i].ocupado /\ Esperas(k') /\ Abre(k, k', i, m.pid)
    BY <1>1, <2>2, <2>4, <2>5, <2>6, EsperaPedir DEF i
  <2> QED
    BY <1>1, <2>1, <2>4, <2>7, MarchaAbre DEF Sereno
<1>4. ASSUME NEW i \in Interfaces, AtenderCompletado(i)
      PROVE  Esperas(k') /\ Peticiones'
  <2> DEFINE p == Head(completados[i])
  <2>1. /\ completados[i] # << >> /\ completados' = [completados EXCEPT ![i] = Tail(@)]
    BY <1>4 DEF AtenderCompletado
  <2>2. p = completados[i][1] /\ p \in Pids
    BY <1>1, <2>1, PrimeroLeido
  <2>3. k.io[i].pid = p /\ k.a_io[i] = << >>
    BY <1>1, <2>1, <2>2, MarchaUna DEF Peticiones
  <2>4. InterfacesDe(k, p) = {i}
    <3> HIDE DEF p
    <3> QED
      BY <1>1, <2>2, <2>3, UnoEspera
  <2>5. k' = CompletarIoGenSleep(k, i, p, i)
    BY <1>4, <2>4 DEF AtenderCompletado
  <2> HIDE DEF p
  <2>6. Esperas(k') /\ (Cierra(k, k', i) \/ \E w \in Pids : Abre(k, k', i, w))
    BY <1>1, <2>2, <2>3, <2>5, EsperaCompletar
  <2>7. Peticiones'
    BY <1>1, <2>1, <2>6, MarchaCierra
  <2> QED
    BY <2>6, <2>7
<1> QED
  BY <1>2, <1>3, <1>4

-----------------------------------------------------------------------------
(* The steps of the system.                                                *)

\* The invariant reads five fields of the kernel's memory.
LEMMA EsperaCampos ==
    ASSUME NEW s, NEW t, Esperas(s), Acotado(t),
           t.recursos = s.recursos, t.io = s.io, t.caido = s.caido,
           t.procesos = s.procesos, t.pcb = s.pcb
    PROVE  Esperas(t)
<1>1. ASSUME NEW q \in Pids
      PROVE  UnMotivo(t, q)
  <2>1. Motivos(t, q) = Motivos(s, q)
    BY MotivosIguales
  <2> QED
    BY <2>1 DEF UnMotivo, Esperas
<1>2. \A r \in Recursos : EnRecurso(t, r)
  BY DEF EnRecurso, Esperas
<1>3. \A i \in Interfaces : EnInterfaz(t, i)
  BY DEF EnInterfaz, Esperas
<1> QED
  BY <1>1, <1>2, <1>3 DEF Esperas

\* The steps that block nobody, unblock nobody and run nobody.
LEMMA AjenosEsperas ==
    ASSUME Inductivo, Control, Esperas(k),
           \/ DetenerPlanificacion \/ IniciarPlanificacion
           \/ \E g \in Grados : Multiprogramacion(g)
           \/ TemporizadorVence \/ FinQuantum
           \/ CpuEjecutarProceso \/ CpuInterrupcion
           \/ \E i \in Interfaces : InterfazRecibe(i)
           \/ MemoriaKernel
    PROVE  /\ Esperas(k') /\ k'.io = k.io
           /\ k'.a_io = k.a_io \/ \E i \in Interfaces : InterfazRecibe(i)
<1> DEFINE Iguales(t) == /\ t.recursos = k.recursos /\ t.io = k.io /\ t.caido = k.caido
                         /\ t.procesos = k.procesos /\ t.pcb = k.pcb
<1>1. k \in EstadoKernel /\ Acotado(k)
  BY DEF Inductivo, TypeOK, Esperas
<1>2. ASSUME NEW t, Iguales(t), t.a_cpu = k.a_cpu
      PROVE  Esperas(t)
  <2>1. Acotado(t)
    BY <1>1, <1>2 DEF Acotado
  <2> QED
    BY <1>2, <2>1, EsperaCampos
<1>3. CASE DetenerPlanificacion
  <2>1. Iguales(k') /\ k'.a_cpu = k.a_cpu /\ k'.a_io = k.a_io
    BY <1>1, <1>3, Zenon DEF DetenerPlanificacion, EstadoKernel
  <2> QED
    BY <1>2, <2>1
<1>4. CASE IniciarPlanificacion
  <2>1. Iguales(k') /\ k'.a_cpu = k.a_cpu /\ k'.a_io = k.a_io
    BY <1>1, <1>4, Zenon DEF IniciarPlanificacion, Avisar, EstadoKernel
  <2> QED
    BY <1>2, <2>1
<1>5. CASE \E g \in Grados : Multiprogramacion(g)
  <2>1. Iguales(k') /\ k'.a_cpu = k.a_cpu /\ k'.a_io = k.a_io
    BY <1>1, <1>5, Zenon DEF Multiprogramacion, EstadoKernel
  <2> QED
    BY <1>2, <2>1
<1>6. CASE TemporizadorVence
  <2>1. Iguales(k') /\ k'.a_cpu = k.a_cpu /\ k'.a_io = k.a_io
    BY <1>1, <1>6, Zenon DEF TemporizadorVence, EstadoKernel
  <2> QED
    BY <1>2, <2>1
<1>7. CASE FinQuantum
  <2>1. Iguales(k') /\ k'.a_cpu = k.a_cpu /\ k'.a_io = k.a_io
    BY <1>1, <1>7, Zenon DEF FinQuantum, InterrumpirCpu, EstadoKernel
  <2> QED
    BY <1>2, <2>1
<1>8. CASE CpuInterrupcion
  <2>1. Iguales(k') /\ k'.a_cpu = k.a_cpu /\ k'.a_io = k.a_io
    BY <1>1, <1>8, Zenon DEF CpuInterrupcion, EstadoKernel
  <2> QED
    BY <1>2, <2>1
<1>9. CASE MemoriaKernel
  <2>1. Iguales(k') /\ k'.a_cpu = k.a_cpu /\ k'.a_io = k.a_io
    BY <1>1, <1>9, Zenon DEF MemoriaKernel, EstadoKernel
  <2> QED
    BY <1>2, <2>1
<1>10. CASE \E i \in Interfaces : InterfazRecibe(i)
  <2>1. Iguales(k') /\ k'.a_cpu = k.a_cpu
    BY <1>1, <1>10, Zenon DEF InterfazRecibe, EstadoKernel
  <2> QED
    BY <1>2, <1>10, <2>1
<1>11. CASE CpuEjecutarProceso
  <2>1. Iguales(k') /\ k'.a_cpu = Tail(k.a_cpu) /\ k'.a_io = k.a_io
    BY <1>1, <1>11, Zenon DEF CpuEjecutarProceso, EstadoKernel
  <2>2. Len(k.a_cpu) = 1 /\ k.a_cpu \in Seq([pid : Pids, pc : 0 .. MaxPc])
    BY <1>11, SocketsTipo, UnLugar
       DEF Control, CpuEjecutarProceso, Sockets, EnTurno, EstadoKernel
  <2>3. k'.a_cpu = << >>
    BY <2>1, <2>2, DeUno
  <2>4. DOMAIN k'.a_cpu = {}
    BY <2>3
  <2>5. Acotado(k')
    BY <1>1, <2>1, <2>4 DEF Acotado
  <2> QED
    BY <2>1, <2>5, EsperaCampos
<1> QED
  BY <1>3, <1>4, <1>5, <1>6, <1>7, <1>8, <1>9, <1>10, <1>11

\* The inductive invariant of the waits.
InductivoEsperas == InductivoAvisos /\ Esperas(k) /\ Guiones /\ Peticiones

\* Every step preserves it.
LEMMA PasoEsperas ==
    ASSUME OperadorEspera = TRUE, "FINALIZAR_PROCESO" \notin Comandos, SinSleepTrasResize,
           DosPorInterfaz
    PROVE  InductivoEsperas /\ [Next]_vars => InductivoEsperas'
<1> SUFFICES ASSUME InductivoEsperas, [Next]_vars
             PROVE  InductivoEsperas'
  OBVIOUS
<1>1. /\ InductivoAvisos /\ Esperas(k) /\ Guiones /\ Peticiones
      /\ Inductivo /\ Orden(k, {}) /\ Control /\ k \in EstadoKernel
      /\ entregas \in Seq(EntregaDelGuion)
      /\ Creacion(k, respuestas) /\ respuestas \in Seq(Respuesta)
  BY OrdenTipo DEF InductivoEsperas, InductivoAvisos, InductivoControl, InductivoCoherente,
                   Coherencia, Coherente, Inductivo, TypeOK, Respuesta
<1>2. InductivoAvisos'
  BY <1>1, PasoAvisos
<1>3. Guiones'
  BY <1>1, PasoGuiones DEF Esperas
<1> SUFFICES Esperas(k') /\ Peticiones'
  BY <1>2, <1>3 DEF InductivoEsperas
<1>4. ASSUME UNCHANGED <<interfaces, completados>>, Sereno(k, k')
      PROVE  Esperas(k') /\ Peticiones'
  BY <1>1, <1>4, MarchaAbre DEF Sereno
<1>5. CASE IniciarProceso /\ SoloKernel
  <2> DEFINE p == k.pid + 1
  <2>1. p \in Pids /\ k' = NuevoProceso(k, p) /\ UNCHANGED <<interfaces, completados>>
    BY <1>5 DEF IniciarProceso, entradas, SoloKernel
  <2>2. k.procesos[p] = SinEstado
    BY <1>1, <2>1 DEF Creacion
  <2> HIDE DEF p
  <2> QED
    BY <1>1, <1>4, <2>1, <2>2, EsperaNuevo
<1>6. CASE AtenderMemoria /\ SoloKernel
  <2> DEFINE p == Head(respuestas).pid
             l == Head(respuestas).leido
  <2>1. /\ respuestas # << >> /\ k' = ResponderNuevoProceso(k, p, l)
        /\ UNCHANGED <<interfaces, completados>>
    BY <1>6 DEF AtenderMemoria, SoloKernel
  <2>2. /\ Head(respuestas) \in Respuesta /\ Head(respuestas) = respuestas[1]
        /\ 1 \in 1 .. Len(respuestas)
    BY <1>1, <2>1, HeadTailProperties, LenProperties
  <2>3. p \in Pids /\ l \in BOOLEAN /\ respuestas[1].pid = p
    BY <2>2 DEF Respuesta
  <2>4. EnCreacion(k, p)
    BY <1>1, <2>2, <2>3 DEF Creacion
  <2> HIDE DEF p, l
  <2> QED
    BY <1>1, <1>4, <2>1, <2>3, <2>4, EsperaResponder
<1>7. CASE HiloPlanificador /\ SoloKernel
  <2> DEFINE t == [k EXCEPT !.planificador_iniciar = @ - 1]
  <2>1. /\ Orden(t, {}) /\ k' = IF t.detener THEN t ELSE CortoPlazo(LargoPlazo(t))
        /\ UNCHANGED <<interfaces, completados>>
    BY <1>1, <1>7, TurnoOrden DEF HiloPlanificador, entradas, SoloKernel
  <2>2. /\ t.recursos = k.recursos /\ t.io = k.io /\ t.a_io = k.a_io /\ t.caido = k.caido
        /\ t.procesos = k.procesos /\ t.a_cpu = k.a_cpu /\ t.pcb = k.pcb
    BY <1>1, Zenon DEF EstadoKernel
  <2> HIDE DEF t
  <2>3. Sereno(k, t) /\ Esperas(t)
    BY <1>1, <2>2, MismosCampos, MismaEsperaSereno DEF Sereno
  <2>4. Sereno(t, LargoPlazo(t)) /\ Orden(LargoPlazo(t), {})
    BY <2>1, <2>3, EsperaLargoPlazo, LargoPlazoContinua DEF Continua
  <2>5. Sereno(LargoPlazo(t), CortoPlazo(LargoPlazo(t)))
    BY <2>4, EsperaCortoPlazo DEF Sereno
  <2>6. Sereno(k, CortoPlazo(LargoPlazo(t)))
    BY <2>3, <2>4, <2>5, SerenoLuego
  <2> QED
    BY <1>4, <2>1, <2>3, <2>6
<1>8. CASE /\ SoloKernel
           /\ \/ DispatchProceso \/ DispatchResize \/ DispatchWait \/ DispatchSignal
              \/ InterruptIoGenSleep
              \/ \E i \in Interfaces : AtenderCompletado(i)
  BY <1>1, <1>8, PaquetesEsperas DEF SoloKernel
<1>9. CASE \/ /\ SoloKernel
              /\ \/ DetenerPlanificacion \/ IniciarPlanificacion
                 \/ \E g \in Grados : Multiprogramacion(g)
                 \/ TemporizadorVence \/ FinQuantum
           \/ CpuEjecutarProceso \/ CpuInterrupcion \/ MemoriaKernel
  <2>1. UNCHANGED <<interfaces, completados>>
    BY <1>9 DEF DetenerPlanificacion, IniciarPlanificacion, Multiprogramacion,
       TemporizadorVence, FinQuantum, entradas, SoloKernel, CpuEjecutarProceso,
       CpuInterrupcion, MemoriaKernel
  <2>2. Esperas(k') /\ k'.io = k.io
        /\ (k'.a_io = k.a_io \/ \E i \in Interfaces : InterfazRecibe(i))
    BY <1>1, <1>9, AjenosEsperas
  <2>3. CASE k'.a_io = k.a_io
    BY <1>4, <2>1, <2>2, <2>3 DEF Sereno
  <2>4. CASE \E i \in Interfaces : InterfazRecibe(i)
    BY <1>1, <2>2, <2>4, MarchaInterfaz
  <2> QED
    BY <2>2, <2>3, <2>4
<1>10. CASE InstruccionCiclo \/ CpuResize \/ MemoriaProximaInstruccion \/ MemoriaResize
            \/ UNCHANGED vars
  <2>1. UNCHANGED <<k, interfaces, completados>>
    BY <1>10 DEF InstruccionCiclo, CpuResize, MemoriaProximaInstruccion, MemoriaResize, vars
  <2> QED
    BY <1>1, <1>4, <2>1 DEF Sereno
<1>11. CASE PasoInterfaz
  <2>1. PICK i \in Interfaces : InterfazRecibe(i) \/ InterfazVence(i) \/ InterfazAvisa(i)
    BY <1>11 DEF PasoInterfaz
  <2>2. Peticiones'
    BY <1>1, <2>1, MarchaInterfaz
  <2>3. CASE InterfazRecibe(i)
    BY <1>1, <2>2, <2>3, AjenosEsperas
  <2>4. CASE InterfazVence(i) \/ InterfazAvisa(i)
    BY <1>1, <2>2, <2>4 DEF InterfazVence, InterfazAvisa
  <2> QED
    BY <2>1, <2>2, <2>3, <2>4
<1>12. ~ \E p \in Pids : FinalizarProceso(p)
  BY DEF FinalizarProceso
<1> QED
  BY <1>5, <1>6, <1>7, <1>8, <1>9, <1>10, <1>11, <1>12
     DEF Next, PasoKernel, NextKernel, PasoCpu, PasoMemoria

\* At the start nobody waits and nothing is in course.
LEMMA InicioEsperas == Init => InductivoEsperas
<1> SUFFICES ASSUME Init
             PROVE  InductivoEsperas
  OBVIOUS
<1>1. /\ k = KernelInicial /\ dispatch = << >> /\ interrupt = << >>
      /\ pedidos = << >> /\ entregas = << >> /\ completados = [i \in Interfaces |-> << >>]
      /\ memoria = [procesos |-> {}, caida |-> FALSE]
      /\ interfaces = [i \in Interfaces |->
                          [pid |-> 0, armado |-> FALSE, huerfanos |-> 0, avisos |-> 0]]
  BY DEF Init, InitKernel
<1>2. InductivoAvisos
  BY InicioQuantum DEF InductivoQuantum
<1>3. Guiones
  <2>1. ~ memoria.caida
    BY <1>1
  <2> QED
    BY <1>1, <2>1, EmptySeq DEF Guiones
<1>4. /\ \A p \in Pids : k.procesos[p] = SinEstado /\ k.pcb[p] = PcbCrear
      /\ k.recursos = RecursoInit /\ k.io = [i \in Interfaces |-> Libre]
      /\ k.a_io = [i \in Interfaces |-> << >>] /\ k.a_cpu = << >> /\ ~ k.caido
  BY <1>1 DEF KernelInicial
<1>5. \A p \in Pids : k.pcb[p].proxima_io = SinIo /\ k.pcb[p].pc = 0
  BY <1>4 DEF PcbCrear
<1>6. \A r \in Recursos : k.recursos[r].bloqueados = << >>
  BY <1>4 DEF RecursoInit
<1>7. IsInjective(<< >>) /\ Range(<< >>) = {}
  BY DEF IsInjective, Range
<1>8. \A i \in Interfaces : ~ k.io[i].ocupado /\ k.io[i].pid = 0
  BY <1>4 DEF Libre
<1>9. SinIo \notin Interfaces
  BY InterfacesAssumption
<1>10. ASSUME NEW p \in Pids
       PROVE  UnMotivo(k, p)
  <2>1. RecursosDe(k, p) = {}
    BY <1>6, <1>7 DEF RecursosDe
  <2>2. InterfacesDe(k, p) = {}
    BY <1>8 DEF InterfacesDe, Pids
  <2>3. {j \in Interfaces : k.pcb[p].proxima_io = j} = {}
    BY <1>5, <1>9
  <2>4. Motivos(k, p) = {}
    BY <2>1, <2>2, <2>3 DEF Motivos
  <2> QED
    BY <1>4, <2>4 DEF UnMotivo, SinEstado
<1>11. \A r \in Recursos : EnRecurso(k, r)
  BY <1>6, <1>7 DEF EnRecurso
<1>12. \A i \in Interfaces : EnInterfaz(k, i)
  BY <1>5, <1>8, <1>9 DEF EnInterfaz
<1>13. Acotado(k)
  <2>1. \A p \in Pids : Len(Programa[p]) \in Nat
    BY ProgramaAssumption, LenProperties
  <2>2. DOMAIN k.a_cpu = {}
    BY <1>4
  <2> QED
    BY <1>5, <2>1, <2>2 DEF Acotado
<1>14. Esperas(k)
  BY <1>4, <1>10, <1>11, <1>12, <1>13 DEF Esperas
<1>15. ASSUME NEW i \in Interfaces
       PROVE  Peticion(i)
  <2> DEFINE d == [pid |-> 0, armado |-> FALSE, huerfanos |-> 0, avisos |-> 0]
  <2>1. /\ k.a_io[i] = << >> /\ interfaces[i] = d /\ completados[i] = << >>
        /\ ~ k.io[i].ocupado
    BY <1>1, <1>4, <1>8
  <2>2. ~ d.armado /\ d.huerfanos = 0 /\ d.avisos = 0
    OBVIOUS
  <2>3. Len(<< >>) = 0
    BY Z3
  <2> HIDE DEF d
  <2>4. EnMarcha(<< >>, d, << >>, k.io[i])
    BY <2>1, <2>2, <2>3 DEF EnMarcha
  <2> QED
    BY <2>1, <2>4 DEF Peticion
<1> QED
  BY <1>2, <1>3, <1>14, <1>15 DEF InductivoEsperas, Peticiones

\* What the invariant says of the processes in BLOCK.
LEMMA EsperaImplica ==
    ASSUME InductivoEsperas
    PROVE  BloqueadosCoherentes /\ PeticionAtendida /\ SinCaidas
<1>1. /\ Inductivo /\ Orden(k, {}) /\ k \in EstadoKernel
      /\ Esperas(k) /\ Guiones /\ Peticiones
  BY OrdenTipo DEF InductivoEsperas, InductivoAvisos, InductivoControl, InductivoCoherente,
                   Coherencia, Coherente
<1>2. SinCaidas
  BY <1>1 DEF SinCaidas, Esperas, Guiones
<1>3. ASSUME NEW r \in Recursos, NEW p \in Range(k.recursos[r].bloqueados)
      PROVE  k.procesos[p] = "BLOCK" /\ RecursosDe(k, p) = {r}
  <2>1. p \in Pids
    BY <1>1, <1>3 DEF Esperas, EnRecurso, Usan, Usuarios
  <2>2. r \in RecursosDe(k, p)
    BY <1>3 DEF RecursosDe
  <2>3. UnMotivo(k, p)
    BY <1>1, <2>1 DEF Esperas
  <2>4. <<"recurso", r>> \in Motivos(k, p)
    BY <2>2 DEF Motivos
  <2>5. ASSUME NEW z \in RecursosDe(k, p)
        PROVE  z = r
    <3>1. <<"recurso", z>> \in Motivos(k, p)
      BY <2>5 DEF Motivos
    <3> QED
      BY <2>3, <2>4, <3>1 DEF UnMotivo
  <2> QED
    BY <2>2, <2>3, <2>4, <2>5 DEF UnMotivo
<1>4. BloqueadosCoherentes
  BY <1>1, <1>3 DEF BloqueadosCoherentes, Esperas, EnRecurso
<1>5. ASSUME NEW i \in Interfaces, k.io[i].ocupado
      PROVE  Reportara(i, k.io[i].pid)
  <2> DEFINE p == k.io[i].pid
             q == k.a_io[i]
             d == interfaces[i]
             c == completados[i]
  <2>1. /\ q \in Seq(PaqueteIo) /\ Len(q) \in Nat /\ (q = << >> <=> Len(q) = 0)
        /\ c \in Seq(Pids) /\ Len(c) \in Nat /\ (c = << >> <=> Len(c) = 0)
        /\ d.huerfanos \in Nat /\ d.avisos \in Nat /\ d.armado \in BOOLEAN
    BY <1>1, MarchaTipo
  <2>2. EnMarcha(q, d, c, k.io[i])
    BY <1>1 DEF Peticiones, Peticion
  <2> HIDE DEF q, d, c
  <2>3. q # << >> \/ d.armado \/ d.huerfanos > 0 \/ d.avisos > 0 \/ c # << >>
    BY <1>5, <2>1, <2>2 DEF EnMarcha
  <2>4. CASE q # << >>
    <3>1. q[1] = [op |-> "IO_GEN_SLEEP", pid |-> p] /\ 1 \in DOMAIN q
      BY <2>1, <2>2, <2>4, LenProperties DEF EnMarcha
    <3> QED
      BY <3>1 DEF Reportara, q
  <2>5. CASE d.armado \/ d.huerfanos > 0 \/ d.avisos > 0
    BY <2>2, <2>5 DEF EnMarcha, Reportara, d
  <2>6. CASE c # << >>
    <3>1. c[1] = p /\ 1 \in DOMAIN c
      BY <2>1, <2>2, <2>6, LenProperties DEF EnMarcha
    <3>2. p \in Range(c)
      BY <3>1 DEF Range
    <3> QED
      BY <3>2 DEF Reportara, c
  <2> QED
    BY <2>3, <2>4, <2>5, <2>6
<1>6. ASSUME NEW p \in Range(k.cola["BLOCK"])
      PROVE  LET recordada == k.pcb[p].proxima_io
             IN  /\ recordada # SinIo =>
                       /\ RecursosDe(k, p) = {}
                       /\ k.io[recordada].ocupado
                       /\ Reportara(recordada, k.io[recordada].pid)
                 /\ recordada = SinIo /\ RecursosDe(k, p) = {} =>
                       \E i \in InterfacesDe(k, p) : Reportara(i, p)
  <2> DEFINE recordada == k.pcb[p].proxima_io
  <2>1. p \in Pids /\ k.procesos[p] = "BLOCK"
    <3>1. k.cola["BLOCK"] \in Seq(Pids)
      BY <1>1, ColaTipo DEF Colas
    <3>2. p \in Pids
      BY <1>6, <3>1, RangoTipo
    <3> QED
      BY <1>1, <1>6, <3>2 DEF Orden, Esta, Colas
  <2>2. Motivos(k, p) # {} /\ \A x, y \in Motivos(k, p) : x = y
    BY <1>1, <2>1 DEF Esperas, UnMotivo
  <2>3. recordada \in Interfaces \cup {SinIo} /\ SinIo \notin Interfaces
    <3>1. k.pcb[p] \in Pcb
      BY <1>1, <2>1 DEF EstadoKernel
    <3> QED
      BY <3>1, InterfacesAssumption DEF Pcb
  <2>4. ASSUME recordada # SinIo
        PROVE  /\ RecursosDe(k, p) = {}
               /\ k.io[recordada].ocupado
               /\ Reportara(recordada, k.io[recordada].pid)
    <3>1. <<"turno", recordada>> \in Motivos(k, p)
      BY <2>3, <2>4 DEF Motivos
    <3>2. ASSUME NEW r \in RecursosDe(k, p)
          PROVE  FALSE
      <4>1. <<"recurso", r>> \in Motivos(k, p) /\ <<"recurso", r>> # <<"turno", recordada>>
        BY DEF Motivos
      <4> QED
        BY <2>2, <3>1, <4>1
    <3>3. k.io[recordada].ocupado
      BY <1>1, <2>1, <2>3, <2>4 DEF Esperas, EnInterfaz
    <3> QED
      BY <1>5, <2>3, <2>4, <3>2, <3>3
  <2>5. ASSUME recordada = SinIo, RecursosDe(k, p) = {}
        PROVE  \E i \in InterfacesDe(k, p) : Reportara(i, p)
    <3>1. PICK i \in InterfacesDe(k, p) : TRUE
      BY <2>2, <2>3, <2>5 DEF Motivos
    <3>2. i \in Interfaces /\ k.io[i].pid = p
      BY DEF InterfacesDe
    <3>3. k.io[i].ocupado
      BY <1>1, <2>1, <3>2 DEF Esperas, EnInterfaz, Pids
    <3> QED
      BY <1>5, <3>2, <3>3
  <2> QED
    BY <2>4, <2>5
<1>7. PeticionAtendida
  BY <1>6 DEF PeticionAtendida
<1> QED
  BY <1>2, <1>4, <1>7

-----------------------------------------------------------------------------
(* The theorems.  All of them are about a console that kills nobody, an     *)
(* operator that waits for the answer to a creation, scripts in which       *)
(* nobody sleeps after a RESIZE, and interfaces of at most two users.       *)

\* The lists of the resources and the BLOCK queue agree: kernel_wait and
\* kernel_signal leave whoever a resource holds in BLOCK, in one list and once.
\* With three users of an interface two requests can be sent at once; the
\* interface keeps one pid and reports the second process twice, and the second
\* report makes it ready although a resource holds it by then.
THEOREM Bloqueados_Coherentes ==
    ASSUME OperadorEspera = TRUE, "FINALIZAR_PROCESO" \notin Comandos,
           SinSleepTrasResize, DosPorInterfaz
    PROVE  Spec => []BloqueadosCoherentes
<1>1. Init => InductivoEsperas
  BY InicioEsperas
<1>2. InductivoEsperas /\ [Next]_vars => InductivoEsperas'
  BY PasoEsperas
<1>3. InductivoEsperas => BloqueadosCoherentes
  BY EsperaImplica
<1> QED
  BY <1>1, <1>2, <1>3, PTL DEF Spec

\* A process in BLOCK that no resource lists waits for an interface that will get to
\* it: with its own request in course, or with that of the process the interface is
\* busy with, whose end sends the next one; and whoever remembers an interface is in
\* the list of no resource.  It says nothing of the processes that a resource lists:
\* two of them may wait for each other.
THEOREM Peticion_Atendida ==
    ASSUME OperadorEspera = TRUE, "FINALIZAR_PROCESO" \notin Comandos,
           SinSleepTrasResize, DosPorInterfaz
    PROVE  Spec => []PeticionAtendida
<1>1. Init => InductivoEsperas
  BY InicioEsperas
<1>2. InductivoEsperas /\ [Next]_vars => InductivoEsperas'
  BY PasoEsperas
<1>3. InductivoEsperas => PeticionAtendida
  BY EsperaImplica
<1> QED
  BY <1>1, <1>2, <1>3, PTL DEF Spec

\* Neither the kernel nor memoria dereferences NULL.  kernel_wait and
\* kernel_signal do not check the process they look up in EXEC, kernel_signal
\* does not check whom it pops, and memoria's list_get is not checked against
\* the end of the script.
THEOREM Sin_Caidas ==
    ASSUME OperadorEspera = TRUE, "FINALIZAR_PROCESO" \notin Comandos,
           SinSleepTrasResize, DosPorInterfaz
    PROVE  Spec => []SinCaidas
<1>1. Init => InductivoEsperas
  BY InicioEsperas
<1>2. InductivoEsperas /\ [Next]_vars => InductivoEsperas'
  BY PasoEsperas
<1>3. InductivoEsperas => SinCaidas
  BY EsperaImplica
<1> QED
  BY <1>1, <1>2, <1>3, PTL DEF Spec

\* Nobody waits for a resource whose count says that it has no one waiting, when
\* no resource has more than two users.  With three, kernel_wait does not count
\* the second one that blocks, and the first SIGNAL leaves it waiting with the
\* count back at zero.
THEOREM Sin_Espera_Ociosa ==
    ASSUME OperadorEspera = TRUE, "FINALIZAR_PROCESO" \notin Comandos,
           SinSleepTrasResize, DosPorInterfaz, DosPorRecurso
    PROVE  Spec => []SinEsperaOciosa
<1>1. Init => InductivoEsperas
  BY InicioEsperas
<1>2. InductivoEsperas /\ [Next]_vars => InductivoEsperas'
  BY PasoEsperas
<1>3. InductivoEsperas => SinEsperaOciosa
  BY DEF InductivoEsperas, Esperas, EnRecurso, SinEsperaOciosa
<1> QED
  BY <1>1, <1>2, <1>3, PTL DEF Spec

=============================================================================
