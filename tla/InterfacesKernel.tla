-------------------------- MODULE InterfacesKernel --------------------------
(***************************************************************************)
(* The kernel's side of the GENERIC interfaces: a request is sent at once  *)
(* or remembered in the PCB while the interface is busy, and the end of    *)
(* one request sends what is remembered.  INTERRUPTED_BY_USER is here too, *)
(* because it releases whatever the process was blocked on.                *)
(*                                                                         *)
(* An interface is [ocupado, pid]; what the kernel sends to it is in       *)
(* s.a_io[i] until it reads it.                                            *)
(***************************************************************************)
EXTENDS RecursosKernel

CONSTANT TipoInterfaz   \* the type an interface was registered with

ASSUME InterfacesAssumption ==
    /\ SinIo \notin Interfaces
    /\ TipoInterfaz \in [Interfaces -> {"GENERIC", "STDIN", "STDOUT", "DIALFS"}]

Interfaz == [ocupado : BOOLEAN, pid : 0 .. MaxPid]

PaqueteIo == [op : {"IO_GEN_SLEEP", "IO_INTERRUPCION"}, pid : Pids]

EnviarIo(s, i, op, p) ==
    [s EXCEPT !.a_io[i] = Append(@, [op |-> op, pid |-> p])]

\* kernel_entrada_salida_buscar_interfaz_pid: the first of these.
InterfacesDe(s, p) == {i \in Interfaces : s.io[i].pid = p}

-----------------------------------------------------------------------------
(* Order of a set of pids.                                                 *)

\* The position of p in a list that holds it.
PosicionEn(q, p) == Min({i \in DOMAIN q : q[i] = p})

\* The pids of S that q holds, in q's order and each once.
Filtrar(q, S) ==
    LET R == S \cap Range(q)
        hasta(p) == {x \in R : PosicionEn(q, x) <= PosicionEn(q, p)}
    IN  [j \in 1 .. Cardinality(R) |->
            CHOOSE p \in R : Cardinality(hasta(p)) = j]

-----------------------------------------------------------------------------
(* kernel_proximo_io_generic                                               *)

\* Processes in BLOCK that no resource holds and that remember interface i.
EsperanInterfaz(s, i) ==
    {p \in Range(s.cola["BLOCK"]) : RecursosDe(s, p) = {} /\ s.pcb[p].proxima_io = i}

\* The loop has no break: every process that remembers the interface is sent
\* to it, and the interface is left registered to the last one.
ProximoIoGeneric(s, i) ==
    LET orden == Filtrar(s.cola["BLOCK"], EsperanInterfaz(s, i)) IN
    IF orden = << >> THEN s
    ELSE [s EXCEPT
            !.io[i] = [ocupado |-> TRUE, pid |-> orden[Len(orden)]],
            !.a_io[i] = @ \o [j \in DOMAIN orden |->
                                [op |-> "IO_GEN_SLEEP", pid |-> orden[j]]],
            !.pcb = [p \in Pids |-> IF p \in EsperanInterfaz(s, i)
                                    THEN [@[p] EXCEPT !.proxima_io = SinIo]
                                    ELSE @[p]]]

-----------------------------------------------------------------------------
(* Requests and completions                                                *)

\* proceso_actualizar_registros
ActualizarRegistros(s, p, pc) == [s EXCEPT !.pcb[p].pc = pc]

\* Mutant: exec_block before the interface is validated.
PedirBloqueado(s, p, pc, i, resto) ==
    IF ~ Esta(s, "EXEC", p) THEN s
    ELSE FinalizarInterfazInvalida(ExecBlock(GuardarQuantum(s, p, resto)), p)

\* CPU_KERNEL_IO_GEN_SLEEP of process p on the name i.
PedirIoGenSleep(s, p, pc, i, resto) ==
    IF ~ Esta(s, "EXEC", p) THEN s
    ELSE LET t == GuardarQuantum(s, p, resto)
             u == ExecBlock(ActualizarRegistros(t, p, pc))
         IN  IF i \notin Interfaces \/ TipoInterfaz[i] # "GENERIC"
             THEN FinalizarInterfazInvalida(t, p)
             ELSE IF s.io[i].ocupado
             THEN Avisar([u EXCEPT !.pcb[p].proxima_io = i])
             ELSE Avisar(EnviarIo(
                    [u EXCEPT !.io[i] = [ocupado |-> TRUE, pid |-> p]],
                    i, "IO_GEN_SLEEP", p))

\* kernel_verificar_proceso_en_exit, when it finds the process.
MatarEnExit(s, p) == Avisar(Matar(InterrumpirTemporizador(s), p))

\* ENTRADA_SALIDA_KERNEL_IO_GEN_SLEEP: interface i reports the end of p.
\* registrada is the interface that buscar_interfaz_pid returns.
CompletarIoGenSleep(s, i, p, registrada) ==
    IF Esta(s, "EXIT", p) THEN MatarEnExit(s, p)
    ELSE IF InterfacesDe(s, p) = {} THEN Avisar(s)
    ELSE LET t == [ManejarBlockReady(s, p) EXCEPT
                      !.io[i] = [ocupado |-> FALSE, pid |-> 0]]
         IN  Avisar(ProximoIoGeneric(t, registrada))

-----------------------------------------------------------------------------
(* kernel_signal with motive INTERRUPCION: p, blocked on r, is being       *)
(* killed.  The process at the head of the list, p or another, is popped,  *)
(* everything its recursos_tomados counts is given back, and whoever waits *)
(* for a resource that is no longer negative becomes ready without leaving *)
(* the list.                                                               *)

\* The resources whose lists are walked, after cabeza's share is given back.
RecursosDevueltos(s, cabeza) ==
    {r \in s.pcb[cabeza].claves_tomados :
        s.recursos[r].instancias + s.pcb[cabeza].recursos_tomados[r] >= 0}

\* The entries of those lists: one sem_post each.
EntradasRecorridas(s, K) ==
    UNION {{<<r, j>> : j \in DOMAIN s.recursos[r].bloqueados} : r \in K}

\* The processes among them that are in BLOCK.
Desbloqueables(s, K) ==
    {p \in Range(s.cola["BLOCK"]) : RecursosDe(s, p) \cap K # {}}

\* The orders the walk can produce: each list in its order, the lists in any
\* order (that of the dictionary).
OrdenesDeDesbloqueo(s, K) ==
    LET D == Desbloqueables(s, K)
        detras(q, a, b) == /\ {a, b} \subseteq Range(q)
                           /\ PosicionEn(q, a) > PosicionEn(q, b)
    IN  {t \in [1 .. Cardinality(D) -> D] :
            \A a, b \in DOMAIN t : a < b =>
                /\ t[a] # t[b]
                /\ \E r \in K : t[a] \in Range(s.recursos[r].bloqueados)
                                /\ ~ detras(s.recursos[r].bloqueados, t[a], t[b])}

\* kernel_manejar_ready(BLOCK_READY) on every pid of t.
DesbloquearTodos(s, t) ==
    LET prioritarios == {p \in Range(t) : TienePrioridad(s.pcb[p].quantum_largo)}
        comunes == Range(t) \ prioritarios
    IN  [s EXCEPT
            !.cola["BLOCK"] = Filtrar(@, Pids \ Range(t)),
            !.cola["READY"] = @ \o Filtrar(t, comunes),
            !.cola["READY_PRIORIDAD"] = @ \o Filtrar(t, prioritarios),
            !.procesos = [p \in Pids |-> IF p \in prioritarios THEN "READY_PRIORIDAD"
                                         ELSE IF p \in comunes THEN "READY"
                                         ELSE @[p]]]

\* Mutant: the instances are given back and nobody is told.
DevolverSinRecorrer(s, cabeza, t) ==
    [s EXCEPT !.recursos = [r \in Recursos |->
        [s.recursos[r] EXCEPT !.instancias = @ + s.pcb[cabeza].recursos_tomados[r]]]]

DevolverTomados(s, cabeza, t) ==
    LET tomados == s.pcb[cabeza].recursos_tomados
        devuelto(r) == [s.recursos[r] EXCEPT !.instancias = @ + tomados[r]]
    IN  [DesbloquearTodos(s, t) EXCEPT
            !.recursos = [r \in Recursos |-> devuelto(r)],
            !.planificador_iniciar =
                @ + Cardinality(EntradasRecorridas(s, RecursosDevueltos(s, cabeza)))]

\* The state in which the head of the list has been popped.
SinCabeza(s, r) == [s EXCEPT !.recursos[r].bloqueados = Tail(@)]

\* What the walk unblocks when p, blocked on r, is killed.
OrdenesAlInterrumpir(s, p, r) ==
    LET t == Liberar(BlockExit(s, p), p, r)
        cabeza == Head(t.recursos[r].bloqueados)
    IN  IF HayQueDesbloquear(t, r) /\ Buscar(t, cabeza)
        THEN OrdenesDeDesbloqueo(SinCabeza(t, r),
                                 RecursosDevueltos(SinCabeza(t, r), cabeza))
        ELSE {<< >>}

\* A head whose PCB was freed has no dictionary any more: reading it faults
\* or finds nothing (falla).
SignalInterrupcion(s, p, r, orden, falla) ==
    LET t == Liberar(s, p, r)
        cabeza == Head(t.recursos[r].bloqueados)
        u == SinCabeza(t, r)
    IN  IF ~ HayQueDesbloquear(t, r) THEN t
        ELSE IF Buscar(t, cabeza) THEN DevolverTomados(u, cabeza, orden)
        ELSE IF falla THEN Caer(u) ELSE u

-----------------------------------------------------------------------------
(* kernel_finalizar_proceso, INTERRUPTED_BY_USER, by the state of p.       *)

\* Mutant: the quantum timer is left running.
FinalizarSinTemporizador(s, p) ==
    Avisar(Matar(ExecExit(AvisarMemoriaFinalizacion(InterrumpirCpu(s, p), p)), p))

\* Mutant: the planner is not told that EXEC is empty.
FinalizarSinAviso(s, p) ==
    Matar(Mover(AvisarMemoriaFinalizacion(InterrumpirCpu(s, p), p), "EXEC", "EXIT"), p)

FinalizarEnExec(s, p) ==
    LET t == InterrumpirCpu(InterrumpirTemporizador(s), p)
    IN  Avisar(Matar(ExecExit(AvisarMemoriaFinalizacion(t, p)), p))

FinalizarEnRecurso(s, p, r, orden, falla) ==
    MatarEnMemoria(SignalInterrupcion(BlockExit(s, p), p, r, orden, falla), p)

\* Mutant: the next request of the interface is forgotten.
FinalizarSinProximo(s, p, i) ==
    MatarEnMemoria(EnviarIo([BlockExit(s, p) EXCEPT
                                !.io[i] = [ocupado |-> FALSE, pid |-> 0]],
                            i, "IO_INTERRUPCION", p), p)

\* kernel_interrumpir_io and the next request of the interface.
FinalizarEnInterfaz(s, p, i) ==
    LET t == EnviarIo([BlockExit(s, p) EXCEPT
                          !.io[i] = [ocupado |-> FALSE, pid |-> 0]],
                      i, "IO_INTERRUPCION", p)
    IN  MatarEnMemoria(ProximoIoGeneric(t, i), p)

\* In BLOCK, but on no resource and registered in no interface.
FinalizarEnEspera(s, p) == MatarEnMemoria(BlockExit(s, p), p)

\* "Esta en ready o en new": also reached from READY_PRIORIDAD.  The console
\* sends memoria a second notice.
FinalizarEnCola(s, p) ==
    LET t == MatarEnMemoria(s, p)
    IN  IF t.caido THEN t ELSE AvisarMemoriaFinalizacion(t, p)
=============================================================================
