----------------------------- MODULE TurnosPruebas -----------------------------
EXTENDS HiloPruebas

\* The planner is woken whenever it has something to do, and admits within the
\* degree of multiprogramming.

Listo == {"READY", "READY_PRIORIDAD"}

\* Nobody leaves EXEC and nobody becomes ready between s and t.
Callado(s, t) ==
    \A q \in Pids : s.procesos[q] # t.procesos[q] =>
        s.procesos[q] # "EXEC" /\ t.procesos[q] \notin Listo

\* The planner will look at t, or the kernel is gone.
Alerta(t) == t.caido \/ t.planificador_iniciar > 0

\* What a handler owes the planner: a token, or nothing that would need one.
Vela(s, t) == Alerta(t) \/ Callado(s, t)

\* No wake-up of the planner is lost in s.
Despierto(s) ==
    ~ s.caido /\ ~ s.detener
        /\ (s.cola["READY"] # << >> \/ s.cola["READY_PRIORIDAD"] # << >>)
        /\ s.cola["EXEC"] = << >>
    => s.planificador_iniciar > 0

\* The lists that decide it are those the dictionary names.
LEMMA ListosSegunEstado ==
    ASSUME NEW s, NEW X, Orden(s, X)
    PROVE  /\ s.cola["EXEC"] = << >> <=> \A q \in Pids : s.procesos[q] # "EXEC"
           /\ s.cola["READY"] # << >> \/ s.cola["READY_PRIORIDAD"] # << >>
                 <=> \E q \in Pids : s.procesos[q] \in Listo
<1>1. s \in EstadoKernel /\ {"EXEC", "READY", "READY_PRIORIDAD"} \subseteq Colas \ {"EXIT"}
  BY OrdenTipo DEF Colas
<1>2. ASSUME NEW e \in {"EXEC", "READY", "READY_PRIORIDAD"}
      PROVE  s.cola[e] = << >> <=> \A q \in Pids : s.procesos[q] # e
  <2>1. s.cola[e] \in Seq(Pids) /\ Range(s.cola[e]) \subseteq Pids
    BY <1>1, ColaTipo, RangoTipo
  <2>2. s.cola[e] = << >> <=> Range(s.cola[e]) = {}
    BY <2>1, RangoVacio
  <2>3. \A q \in Pids : q \in Range(s.cola[e]) <=> s.procesos[q] = e
    BY <1>1 DEF Orden, Esta
  <2> QED
    BY <2>1, <2>2, <2>3
<1>3. s.cola["EXEC"] = << >> <=> \A q \in Pids : s.procesos[q] # "EXEC"
  BY <1>2
<1>4. s.cola["READY"] = << >> <=> \A q \in Pids : s.procesos[q] # "READY"
  BY <1>2
<1>5. s.cola["READY_PRIORIDAD"] = << >> <=> \A q \in Pids : s.procesos[q] # "READY_PRIORIDAD"
  BY <1>2
<1> QED
  BY <1>3, <1>4, <1>5 DEF Listo

\* A step that pays what it owes loses no wake-up.
LEMMA VelaDespierto ==
    ASSUME NEW s, Orden(s, {}), Despierto(s), NEW t, Orden(t, {}), Vela(s, t),
           s.caido => t.caido, t.detener = s.detener,
           t.planificador_iniciar >= s.planificador_iniciar
    PROVE  Despierto(t)
<1>1. s.planificador_iniciar \in Nat /\ t.planificador_iniciar \in Nat
  BY OrdenTipo, SemaforoTipo
<1>2. SUFFICES ASSUME ~ t.caido, ~ t.detener, Callado(s, t),
                      t.cola["READY"] # << >> \/ t.cola["READY_PRIORIDAD"] # << >>,
                      t.cola["EXEC"] = << >>
               PROVE  t.planificador_iniciar > 0
  BY DEF Despierto, Vela, Alerta
<1>3. \A q \in Pids : t.procesos[q] # "EXEC" /\ \E x \in Pids : t.procesos[x] \in Listo
  BY <1>2, ListosSegunEstado
<1>4. /\ \A q \in Pids : s.procesos[q] # "EXEC"
      /\ \E q \in Pids : s.procesos[q] \in Listo
  <2>1. PICK x \in Pids : t.procesos[x] \in Listo
    BY <1>2, ListosSegunEstado
  <2>2. s.procesos[x] \in Listo
    BY <1>2, <2>1 DEF Callado
  <2>3. \A q \in Pids : s.procesos[q] # "EXEC"
    BY <1>2, <1>3 DEF Callado
  <2> QED
    BY <2>2, <2>3
<1>5. /\ s.cola["EXEC"] = << >>
      /\ s.cola["READY"] # << >> \/ s.cola["READY_PRIORIDAD"] # << >>
  BY <1>4, ListosSegunEstado
<1>6. s.planificador_iniciar > 0
  BY <1>2, <1>5 DEF Despierto
<1> QED
  BY <1>1, <1>6

\* The planner looks at what ends in a token, or the kernel is down.
LEMMA AlertaSimple ==
    ASSUME NEW t \in EstadoKernel
    PROVE  Alerta(Avisar(t)) /\ Alerta(Caer(t))
<1>1. t.planificador_iniciar \in Nat
  BY SemaforoTipo
<1>2. Avisar(t).planificador_iniciar = t.planificador_iniciar + 1
  BY Zenon DEF Avisar, EstadoKernel
<1>3. Caer(t).caido
  BY Zenon DEF Caer, EstadoKernel
<1> QED
  BY <1>1, <1>2, <1>3 DEF Alerta

\* A handler that ends in a token pays; so does one that brings the kernel
\* down, and one that touches neither lists nor dictionary owes nothing.
LEMMA VelaSimple ==
    ASSUME NEW s, NEW t \in EstadoKernel
    PROVE  /\ Vela(s, Avisar(t))
           /\ Vela(s, Caer(t))
           /\ Quieto(s, t) => Vela(s, t)
<1>1. Quieto(s, t) => Callado(s, t)
  BY DEF Quieto, Callado
<1> QED
  BY <1>1, AlertaSimple DEF Vela

\* Two steps of a handler, the second of which takes no token.
LEMMA VelaLuego ==
    ASSUME NEW s, NEW t \in EstadoKernel, Vela(s, t), NEW u \in EstadoKernel, Vela(t, u),
           NEW P, Sigue(t, u, P)
    PROVE  Vela(s, u)
<1>1. t.planificador_iniciar \in Nat /\ u.planificador_iniciar \in Nat
  BY SemaforoTipo
<1>2. CASE Alerta(t)
  BY <1>1, <1>2 DEF Alerta, Vela, Sigue
<1>3. CASE Alerta(u)
  BY <1>3 DEF Vela
<1>4. CASE Callado(s, t) /\ Callado(t, u)
  BY <1>4 DEF Callado, Vela
<1> QED
  BY <1>2, <1>3, <1>4 DEF Vela

-----------------------------------------------------------------------------
(* The functions that end a process.                                       *)

\* A process that is not in EXEC dies without disturbing the planner.
LEMMA MatarCalla ==
    ASSUME NEW s \in EstadoKernel, NEW p \in Pids, s.procesos[p] # "EXEC"
    PROVE  Callado(s, Matar(s, p)) /\ Callado(s, MatarEnMemoria(s, p))
<1>1. ASSUME NEW x \in EstadoKernel, x.procesos[p] # "EXEC"
      PROVE  Callado(x, Matar(x, p))
  <2> DEFINE e == x.procesos[p]
  <2>1. CASE e \in {"READY_PRIORIDAD", SinEstado}
    <3>1. Matar(x, p) = Caer(x)
      BY <2>1 DEF Matar
    <3>2. Caer(x).procesos = x.procesos
      BY <1>1, Zenon DEF Caer, EstadoKernel
    <3> QED
      BY <3>1, <3>2 DEF Callado
  <2>2. CASE e \notin {"READY_PRIORIDAD", SinEstado} /\ ~ Esta(x, e, p)
    BY <2>2 DEF Matar, Callado
  <2>3. CASE e \notin {"READY_PRIORIDAD", SinEstado} /\ Esta(x, e, p)
    <3>1. Matar(x, p) = [x EXCEPT !.cola[e] = Quitar(@, p), !.pcb[p] = PcbCrear,
                                  !.procesos[p] = "EXIT"]
      BY <2>3 DEF Matar
    <3>2. Matar(x, p).procesos = [x.procesos EXCEPT ![p] = "EXIT"]
      BY <1>1, <3>1, Zenon DEF EstadoKernel
    <3>3. x.procesos \in [Pids -> Colas \cup {SinEstado}]
      BY <1>1, Zenon DEF EstadoKernel
    <3> QED
      BY <1>1, <3>2, <3>3 DEF Callado, Listo
  <2> QED
    BY <2>1, <2>2, <2>3
<1> DEFINE a == AvisarMemoriaFinalizacion(s, p)
<1>2. a \in EstadoKernel
  BY AvisarMemoriaConserva, Tipado
<1>3. a.procesos = s.procesos
  BY Zenon DEF AvisarMemoriaFinalizacion, EstadoKernel
<1>4. MatarEnMemoria(s, p) = Matar(a, p)
  BY DEF MatarEnMemoria
<1> HIDE DEF a
<1>5. Callado(a, Matar(a, p))
  BY <1>1, <1>2, <1>3
<1>6. Callado(s, Matar(a, p))
  BY <1>3, <1>5 DEF Callado
<1> QED
  BY <1>1, <1>4, <1>6

\* Nor does it leave BLOCK for EXIT without being where it says.
LEMMA BlockCalla ==
    ASSUME NEW s, NEW X, Orden(s, X), NEW p \in Pids
    PROVE  /\ Callado(s, BlockExit(s, p))
           /\ s.procesos[p] = "BLOCK" => BlockExit(s, p).procesos[p] = "EXIT"
<1> DEFINE t == BlockExit(s, p)
<1>1. s \in EstadoKernel /\ (Esta(s, "BLOCK", p) <=> s.procesos[p] = "BLOCK")
  BY OrdenTipo DEF Orden, Colas
<1>2. CASE ~ Esta(s, "BLOCK", p)
  BY <1>1, <1>2 DEF BlockExit, SacarDeBlock, Callado
<1>3. CASE Esta(s, "BLOCK", p)
  <2>1. Traslado(s, t, p, "BLOCK", "EXIT")
    BY <1>1, <1>3, BlockTraslado DEF BlockExit, Orden, Colas
  <2>2. t.procesos = [s.procesos EXCEPT ![p] = "EXIT"]
    BY <2>1 DEF Traslado
  <2>3. s.procesos \in [Pids -> Colas \cup {SinEstado}]
    BY <1>1, Zenon DEF EstadoKernel
  <2> HIDE DEF t
  <2> QED
    BY <1>1, <1>3, <2>2, <2>3 DEF Callado, Listo, t
<1> QED
  BY <1>2, <1>3

\* Killing after telling memoria takes no token.
LEMMA MatarEnMemoriaSigue ==
    ASSUME NEW s, NEW X, Orden(s, X), NEW p \in Pids
    PROVE  /\ MatarEnMemoria(s, p) \in EstadoKernel
           /\ Sigue(s, MatarEnMemoria(s, p), {p})
<1> DEFINE a == AvisarMemoriaFinalizacion(s, p)
<1>1. Orden(a, X) /\ Sigue(s, a, {p}) /\ MatarEnMemoria(s, p) = Matar(a, p)
  BY AvisarMemoriaOrden DEF MatarEnMemoria
<1> HIDE DEF a
<1>2. Orden(Matar(a, p), X \ {p}) /\ Sigue(a, Matar(a, p), {p})
  BY <1>1, MatarOrden
<1>3. s \in EstadoKernel /\ a \in EstadoKernel /\ Matar(a, p) \in EstadoKernel
  BY <1>1, <1>2, OrdenTipo
<1> QED
  BY <1>1, <1>2, <1>3, SigueTransitivo

\* OUT_OF_MEMORY of a process that is not in EXEC, and INVALID_INTERFACE of the
\* one that is.
LEMMA FinalizarVela ==
    ASSUME NEW s, Orden(s, {}), NEW p \in Pids
    PROVE  /\ ~ Esta(s, "EXEC", p) => Vela(s, FinalizarSinMemoria(s, p))
           /\ Esta(s, "EXEC", p) => Alerta(FinalizarInterfazInvalida(s, p))
<1>1. s \in EstadoKernel /\ (Esta(s, "EXEC", p) <=> s.procesos[p] = "EXEC")
  BY OrdenTipo DEF Orden, Colas
<1>2. ASSUME ~ Esta(s, "EXEC", p)
      PROVE  Vela(s, FinalizarSinMemoria(s, p))
  <2>1. Callado(s, MatarEnMemoria(s, p))
    BY <1>1, <1>2, MatarCalla
  <2>2. FinalizarSinMemoria(s, p) \in {s, MatarEnMemoria(s, p)}
    BY <1>1, <1>2 DEF FinalizarSinMemoria, FinalizarExito, SalirDeExec
  <2> QED
    BY <2>1, <2>2 DEF Vela, Callado
<1>3. ASSUME Esta(s, "EXEC", p)
      PROVE  Alerta(FinalizarInterfazInvalida(s, p))
  <2> DEFINE x == ExecExit(s)
             m == Mover(s, "EXEC", "EXIT")
  <2>1. s.cola["EXEC"] # << >> /\ Head(s.cola["EXEC"]) = p
    BY <1>3, UnicoEnExec DEF Orden
  <2>2. m \in EstadoKernel /\ x = Avisar(m)
    BY <1>1, <2>1, MoverConserva, Tipado DEF ExecExit, Colas
  <2>3. x.planificador_iniciar = m.planificador_iniciar + 1
    BY <2>2, Zenon DEF Avisar, EstadoKernel
  <2>4. m.planificador_iniciar \in Nat
    BY <2>2, SemaforoTipo
  <2>5. Orden(x, {p})
    BY <1>3, SalirOrden
  <2>6. FinalizarInterfazInvalida(s, p) = MatarEnMemoria(x, p)
    BY <1>1, <1>3, <2>1 DEF FinalizarInterfazInvalida, MatarEnMemoria, Finalizable, SinEstado
  <2> HIDE DEF x, m
  <2>7. MatarEnMemoria(x, p) \in EstadoKernel /\ Sigue(x, MatarEnMemoria(x, p), {p})
    BY <2>5, MatarEnMemoriaSigue
  <2>8. MatarEnMemoria(x, p).planificador_iniciar \in Nat
    BY <2>7, SemaforoTipo
  <2> QED
    BY <2>3, <2>4, <2>6, <2>7, <2>8 DEF Alerta, Sigue
<1> QED
  BY <1>2, <1>3

\* What the head of the list had taken is given back: there is a token for
\* whoever it makes ready.
LEMMA DevolverVela ==
    ASSUME NEW s, NEW X, Orden(s, X), NEW c \in Pids, NEW o \in Seq(Pids),
           Range(o) \subseteq Desbloqueables(s, RecursosDevueltos(s, c))
    PROVE  Vela(s, DevolverTomados(s, c, o))
<1> DEFINE K == RecursosDevueltos(s, c)
           E == EntradasRecorridas(s, K)
           n == Cardinality(E)
           t == DesbloquearTodos(s, o)
           u == DevolverTomados(s, c, o)
           recursos == [r \in Recursos |->
                [s.recursos[r] EXCEPT !.instancias = @ + s.pcb[c].recursos_tomados[r]]]
<1>1. s \in EstadoKernel /\ t \in EstadoKernel /\ K \in SUBSET Recursos
  BY OrdenTipo, DesbloquearConserva, Tipado, PcbTipo DEF Pcb, RecursosDevueltos
<1>2. IsFiniteSet(E) /\ n \in Nat
  BY <1>1, EntradasFinitas
<1>3. u = [t EXCEPT !.recursos = recursos, !.planificador_iniciar = @ + n]
  BY DEF DevolverTomados
<1>4. CASE Range(o) = {}
  <2>1. t.procesos = [q \in Pids |-> s.procesos[q]]
    <3> DEFINE P == {p \in Range(o) : TienePrioridad(s.pcb[p].quantum_largo)}
               bl == Filtrar(s.cola["BLOCK"], Pids \ Range(o))
               re == s.cola["READY"] \o Filtrar(o, Range(o) \ P)
               pr == s.cola["READY_PRIORIDAD"] \o Filtrar(o, P)
               es == [p \in Pids |-> IF p \in P THEN "READY_PRIORIDAD"
                                     ELSE IF p \in Range(o) \ P THEN "READY"
                                     ELSE s.procesos[p]]
    <3>1. t = [s EXCEPT !.cola["BLOCK"] = bl, !.cola["READY"] = re,
                        !.cola["READY_PRIORIDAD"] = pr, !.procesos = es]
      BY <1>1 DEF DesbloquearTodos, EstadoKernel, Colas
    <3>2. es = [q \in Pids |-> s.procesos[q]]
      BY <1>4
    <3> HIDE DEF bl, re, pr, es, t
    <3>3. t.procesos = es
      BY <1>1, <3>1, Zenon DEF EstadoKernel
    <3> QED
      BY <3>2, <3>3
  <2> HIDE DEF t, n, recursos, u
  <2>2. u.procesos = t.procesos
    BY <1>1, <1>3, Zenon DEF EstadoKernel
  <2>3. Callado(s, u)
    BY <2>1, <2>2 DEF Callado
  <2> QED
    BY <2>3 DEF Vela, u
<1>5. CASE Range(o) # {}
  <2>1. PICK q \in Range(o), r \in K : q \in Range(s.recursos[r].bloqueados)
    BY <1>5 DEF Desbloqueables, RecursosDe
  <2>2. PICK j \in DOMAIN s.recursos[r].bloqueados : s.recursos[r].bloqueados[j] = q
    BY <2>1 DEF Range
  <2>3. <<r, j>> \in E
    BY <2>1, <2>2 DEF EntradasRecorridas
  <2>4. n > 0
    <3> HIDE DEF E
    <3>1. n # 0
      BY <1>2, <2>3, FS_EmptySet
    <3> QED
      BY <1>2, <3>1
  <2>5. t.planificador_iniciar \in Nat
    BY <1>1, SemaforoTipo
  <2> HIDE DEF t, n, recursos, u
  <2>6. u.planificador_iniciar = t.planificador_iniciar + n
    BY <1>1, <1>3, Zenon DEF EstadoKernel
  <2>7. u.planificador_iniciar > 0
    BY <1>2, <2>4, <2>5, <2>6
  <2> QED
    BY <2>7 DEF Vela, Alerta, u
<1> QED
  BY <1>4, <1>5

-----------------------------------------------------------------------------
(* FINALIZAR_PROCESO                                                       *)

\* The orders of the walk hold processes that a list of the walk holds.
LEMMA OrdenesDesbloqueables ==
    ASSUME NEW s \in EstadoKernel, NEW p \in Pids, NEW r \in Recursos,
           NEW o \in OrdenesAlInterrumpir(s, p, r)
    PROVE  LET t == Liberar(BlockExit(s, p), p, r)
               u == SinCabeza(t, r)
               cabeza == Head(t.recursos[r].bloqueados)
           IN  HayQueDesbloquear(t, r) /\ Buscar(t, cabeza) =>
                  Range(o) \subseteq Desbloqueables(u, RecursosDevueltos(u, cabeza))
<1> DEFINE t == Liberar(BlockExit(s, p), p, r)
           u == SinCabeza(t, r)
           cabeza == Head(t.recursos[r].bloqueados)
           D == Desbloqueables(u, RecursosDevueltos(u, cabeza))
<1> SUFFICES ASSUME HayQueDesbloquear(t, r) /\ Buscar(t, cabeza)
             PROVE  Range(o) \subseteq D
  OBVIOUS
<1>1. o \in OrdenesDeDesbloqueo(u, RecursosDevueltos(u, cabeza))
  BY DEF OrdenesAlInterrumpir
<1>2. o \in [1 .. Cardinality(D) -> D]
  BY <1>1 DEF OrdenesDeDesbloqueo
<1> HIDE DEF D
<1> QED
  BY <1>2 DEF Range

\* The share of the process at the head of the list, whoever it is.
LEMMA SignalInterrupcionVela ==
    ASSUME NEW s, Orden(s, {}), NEW p \in Pids, NEW r \in Recursos, NEW falla \in BOOLEAN,
           NEW o \in OrdenesAlInterrumpir(s, p, r)
    PROVE  Vela(BlockExit(s, p), SignalInterrupcion(BlockExit(s, p), p, r, o, falla))
<1> DEFINE b == BlockExit(s, p)
           t == Liberar(b, p, r)
           cabeza == Head(t.recursos[r].bloqueados)
           u == SinCabeza(t, r)
           D == Desbloqueables(u, RecursosDevueltos(u, cabeza))
<1>1. s \in EstadoKernel /\ b \in EstadoKernel /\ t \in EstadoKernel /\ Quieto(b, t)
  BY OrdenTipo, BlockConserva, LiberarConserva, Tipado, QuietoTomar
<1>2. PICK X \in SUBSET {p} : Orden(b, X)
  BY SalirOrden
<1>3. SignalInterrupcion(b, p, r, o, falla) =
        IF ~ HayQueDesbloquear(t, r) THEN t
        ELSE IF Buscar(t, cabeza) THEN DevolverTomados(u, cabeza, o)
        ELSE IF falla THEN Caer(u) ELSE u
  BY DEF SignalInterrupcion
<1>4. o \in Seq(Pids)
  BY <1>1, OrdenesTipo
<1>5. HayQueDesbloquear(t, r) /\ Buscar(t, cabeza) => Range(o) \subseteq D
  BY <1>1, OrdenesDesbloqueables
<1> HIDE DEF b, t
<1>6. ASSUME ~ HayQueDesbloquear(t, r)
      PROVE  Vela(b, SignalInterrupcion(b, p, r, o, falla))
  BY <1>1, <1>3, <1>6, VelaSimple
<1>7. ASSUME HayQueDesbloquear(t, r)
      PROVE  Vela(b, SignalInterrupcion(b, p, r, o, falla))
  <2>1. u \in EstadoKernel /\ cabeza \in Pids /\ Quieto(t, u)
    BY <1>1, <1>7, Tipado, SinCabezaConserva, QuietoTomar DEF HayQueDesbloquear
  <2>2. Quieto(b, u)
    BY <1>1, <2>1, QuietoTransitivo
  <2> HIDE DEF u, cabeza, D
  <2>3. Vela(b, u) /\ Vela(b, Caer(u))
    BY <2>1, <2>2, VelaSimple
  <2>4. CASE Buscar(t, cabeza)
    <3> DEFINE v == DevolverTomados(u, cabeza, o)
    <3>1. Orden(u, X)
      BY <1>1, <1>2, <2>1, <2>2, QuietoSigue
    <3>2. Range(o) \subseteq Desbloqueables(u, RecursosDevueltos(u, cabeza))
      BY <1>5, <1>7, <2>4 DEF D
    <3>3. Vela(u, v)
      BY <1>4, <2>1, <3>1, <3>2, DevolverVela
    <3>4. Range(o) \subseteq Range(u.cola["BLOCK"])
      BY <3>2 DEF Desbloqueables
    <3>5. Continua(u, v, X)
      BY <1>4, <2>1, <3>1, <3>4, DevolverContinua
    <3>6. v \in EstadoKernel /\ Sigue(u, v, {})
      BY <3>5, OrdenTipo DEF Continua
    <3> HIDE DEF v
    <3>7. Vela(b, v)
      BY <1>1, <2>1, <2>3, <3>3, <3>6, VelaLuego
    <3> QED
      BY <1>3, <1>7, <2>4, <3>7 DEF v
  <2>5. CASE ~ Buscar(t, cabeza)
    BY <1>3, <1>7, <2>3, <2>5
  <2> QED
    BY <2>4, <2>5
<1> QED
  BY <1>6, <1>7 DEF b

\* A blocked process that is taken to EXIT and killed there: what is done in
\* between decides.
LEMMA BloqueadoVela ==
    ASSUME NEW s, Orden(s, {}), NEW p \in Pids, s.procesos[p] = "BLOCK",
           NEW X \in SUBSET {p}, NEW u, Continua(BlockExit(s, p), u, X),
           Vela(BlockExit(s, p), u)
    PROVE  Vela(s, MatarEnMemoria(u, p))
<1> DEFINE b == BlockExit(s, p)
           w == MatarEnMemoria(u, p)
<1>1. /\ s \in EstadoKernel /\ b \in EstadoKernel /\ u \in EstadoKernel
      /\ Orden(u, X) /\ Sigue(b, u, {})
  BY OrdenTipo, BlockConserva, Tipado DEF Continua
<1>2. Vela(s, b) /\ b.procesos[p] = "EXIT"
  BY BlockCalla DEF Vela
<1>3. u.procesos[p] = "EXIT"
  BY <1>1, <1>2 DEF Sigue
<1>4. w \in EstadoKernel /\ Sigue(u, w, {p}) /\ Vela(u, w)
  BY <1>1, <1>3, MatarEnMemoriaSigue, MatarCalla DEF Vela
<1> HIDE DEF b, w
<1>5. Vela(s, u)
  BY <1>1, <1>2, VelaLuego DEF b
<1>6. Vela(s, w)
  BY <1>1, <1>4, <1>5, VelaLuego
<1> QED
  BY <1>6 DEF w

\* FINALIZAR_PROCESO posts a token, or leaves the planner nothing to do that it
\* did not have.
LEMMA FinalizarUsuarioVela ==
    ASSUME NEW s, Orden(s, {}), NEW p \in Pids
    PROVE  /\ Vela(s, FinalizarEnExec(s, p))
           /\ s.procesos[p] = "BLOCK" =>
                 /\ \A r \in Recursos, falla \in BOOLEAN :
                       \A o \in OrdenesAlInterrumpir(s, p, r) :
                          Vela(s, FinalizarEnRecurso(s, p, r, o, falla))
                 /\ \A i \in Interfaces : Vela(s, FinalizarEnInterfaz(s, p, i))
                 /\ Vela(s, FinalizarEnEspera(s, p))
           /\ s.procesos[p] # "EXEC" => Vela(s, FinalizarEnCola(s, p))
<1> DEFINE b == BlockExit(s, p)
<1>1. s \in EstadoKernel /\ b \in EstadoKernel
  BY OrdenTipo, BlockConserva, Tipado
<1>2. PICK X \in SUBSET {p} : Orden(b, X)
  BY SalirOrden
<1>3. Vela(s, FinalizarEnExec(s, p))
  <2> DEFINE i == InterrumpirTemporizador(s)
             t == InterrumpirCpu(i, p)
             u == AvisarMemoriaFinalizacion(t, p)
             v == ExecExit(u)
             w == Matar(v, p)
  <2>1. FinalizarEnExec(s, p) = Avisar(w)
    BY DEF FinalizarEnExec
  <2>2. i \in EstadoKernel
    BY <1>1, InterrumpirTemporizadorConserva, Tipado
  <2> HIDE DEF i
  <2>3. t \in EstadoKernel
    BY <2>2, InterrumpirCpuConserva, Tipado
  <2> HIDE DEF t
  <2>4. u \in EstadoKernel
    BY <2>3, AvisarMemoriaConserva, Tipado
  <2> HIDE DEF u
  <2>5. v \in EstadoKernel
    BY <2>4, ExecConserva, Tipado
  <2> HIDE DEF v
  <2>6. w \in EstadoKernel
    BY <2>5, MatarConserva, Tipado
  <2> QED
    BY <2>1, <2>6, VelaSimple
<1>4. ASSUME s.procesos[p] = "BLOCK", NEW r \in Recursos, NEW falla \in BOOLEAN,
             NEW o \in OrdenesAlInterrumpir(s, p, r)
      PROVE  Vela(s, FinalizarEnRecurso(s, p, r, o, falla))
  <2> DEFINE u == SignalInterrupcion(b, p, r, o, falla)
  <2>1. o \in Seq(Pids) /\ Range(o) \subseteq Range(b.cola["BLOCK"])
    BY <1>1, OrdenesTipo, OrdenesBloqueados
  <2>2. Vela(b, u)
    BY SignalInterrupcionVela
  <2>3. FinalizarEnRecurso(s, p, r, o, falla) = MatarEnMemoria(u, p)
    BY DEF FinalizarEnRecurso
  <2> HIDE DEF b
  <2>4. Continua(b, u, X)
    BY <1>2, <2>1, SignalInterrupcionContinua
  <2> HIDE DEF u
  <2>5. Vela(s, MatarEnMemoria(u, p))
    BY <1>4, <2>2, <2>4, BloqueadoVela DEF b
  <2> QED
    BY <2>3, <2>5
<1>5. ASSUME s.procesos[p] = "BLOCK", NEW i \in Interfaces
      PROVE  Vela(s, FinalizarEnInterfaz(s, p, i))
  <2> DEFINE u == [b EXCEPT !.io[i] = [ocupado |-> FALSE, pid |-> 0]]
             v == EnviarIo(u, i, "IO_INTERRUPCION", p)
             w == ProximoIoGeneric(v, i)
  <2>1. FinalizarEnInterfaz(s, p, i) = MatarEnMemoria(w, p)
    BY DEF FinalizarEnInterfaz
  <2> HIDE DEF b
  <2>2. u \in EstadoKernel /\ Quieto(b, u)
    BY <1>1, InterfazTipo, ConIo, Tipado, QuietoIo
  <2> HIDE DEF u
  <2>3. v \in EstadoKernel /\ Quieto(u, v)
    BY <2>2, EnviarIoConserva, Tipado, QuietoIo
  <2> HIDE DEF v
  <2>4. w \in EstadoKernel /\ Quieto(v, w)
    BY <2>3, ProximoIoConserva, Tipado, QuietoIo
  <2> HIDE DEF w
  <2>5. Quieto(b, v)
    BY <1>1, <2>2, <2>3, QuietoTransitivo
  <2>6. Quieto(b, w)
    BY <1>1, <2>3, <2>4, <2>5, QuietoTransitivo
  <2>7. Continua(b, w, X) /\ Vela(b, w)
    BY <1>2, <2>4, <2>6, QuietoContinua, VelaSimple
  <2>8. Vela(s, MatarEnMemoria(w, p))
    BY <1>5, <2>7, BloqueadoVela DEF b
  <2> QED
    BY <2>1, <2>8
<1>6. ASSUME s.procesos[p] = "BLOCK"
      PROVE  Vela(s, FinalizarEnEspera(s, p))
  <2>1. Quieto(b, b)
    BY <1>1, QuietoSimple
  <2>2. Continua(b, b, X) /\ Vela(b, b)
    <3> HIDE DEF b
    <3> QED
      BY <1>1, <1>2, <2>1, MismoContinua, VelaSimple
  <2>3. Vela(s, MatarEnMemoria(b, p))
    BY <1>6, <2>2, BloqueadoVela
  <2> QED
    BY <2>3 DEF FinalizarEnEspera
<1>7. ASSUME s.procesos[p] # "EXEC"
      PROVE  Vela(s, FinalizarEnCola(s, p))
  <2> DEFINE t == MatarEnMemoria(s, p)
             u == AvisarMemoriaFinalizacion(t, p)
  <2>1. FinalizarEnCola(s, p) = IF t.caido THEN t ELSE u
    BY DEF FinalizarEnCola
  <2>2. Callado(s, t) /\ t \in EstadoKernel
    BY <1>1, <1>7, MatarCalla, MatarEnMemoriaSigue
  <2> HIDE DEF t
  <2>3. u.procesos = t.procesos
    BY <2>2, Zenon DEF AvisarMemoriaFinalizacion, EstadoKernel
  <2> HIDE DEF u
  <2>4. Callado(s, u)
    BY <2>2, <2>3 DEF Callado
  <2> QED
    BY <2>1, <2>2, <2>4 DEF Vela
<1> QED
  BY <1>3, <1>4, <1>5, <1>6, <1>7

\* The command, as the console runs it.
LEMMA FinalizarProcesoVela ==
    ASSUME Orden(k, {}), NEW p \in Pids, FinalizarProceso(p)
    PROVE  Vela(k, k')
<1>1. CASE k.procesos[p] = "EXEC" /\ k' = FinalizarEnExec(k, p)
  BY <1>1, FinalizarUsuarioVela
<1>2. CASE /\ k.procesos[p] = "BLOCK"
           /\ \E r \in RecursosDe(k, p), falla \in BOOLEAN :
                 \E orden \in OrdenesAlInterrumpir(k, p, r) :
                     k' = FinalizarEnRecurso(k, p, r, orden, falla)
  <2>1. PICK r \in RecursosDe(k, p), falla \in BOOLEAN :
           \E orden \in OrdenesAlInterrumpir(k, p, r) :
              k' = FinalizarEnRecurso(k, p, r, orden, falla)
    BY <1>2
  <2>2. PICK orden \in OrdenesAlInterrumpir(k, p, r) :
           k' = FinalizarEnRecurso(k, p, r, orden, falla)
    BY <2>1
  <2>3. r \in Recursos
    BY DEF RecursosDe
  <2> QED
    BY <1>2, <2>2, <2>3, FinalizarUsuarioVela
<1>3. CASE k.procesos[p] = "BLOCK" /\ \E i \in InterfacesDe(k, p) : k' = FinalizarEnInterfaz(k, p, i)
  BY <1>3, FinalizarUsuarioVela DEF InterfacesDe
<1>4. CASE k.procesos[p] = "BLOCK" /\ k' = FinalizarEnEspera(k, p)
  BY <1>4, FinalizarUsuarioVela
<1>5. CASE k.procesos[p] \notin {"EXEC", "BLOCK"} /\ k' = FinalizarEnCola(k, p)
  BY <1>5, FinalizarUsuarioVela
<1> QED
  BY <1>1, <1>2, <1>3, <1>4, <1>5 DEF FinalizarProceso

-----------------------------------------------------------------------------
(* The packets of the CPU and of the interfaces.                           *)

\* Each handler of the CPU's packets ends in a token, or finds nothing to do.
LEMMA DispatchVela ==
    ASSUME NEW s, Orden(s, {}), NEW m \in Mensaje, NEW resto \in BOOLEAN
    PROVE  /\ Vela(s, AtenderProceso(s, m, resto))
           /\ Vela(s, AtenderResize(s, m, resto))
           /\ Vela(s, AtenderWait(s, m, resto))
           /\ \A cabeza \in 0 .. MaxPid : Vela(s, AtenderSignal(s, m, resto, cabeza))
           /\ Esta(s, "EXEC", m.pid) =>
                 /\ Alerta(AtenderProceso(s, m, resto))
                 /\ Alerta(AtenderResize(s, m, resto))
                 /\ Alerta(AtenderWait(s, m, resto))
                 /\ \A cabeza \in 0 .. MaxPid : Alerta(AtenderSignal(s, m, resto, cabeza))
<1> DEFINE p == m.pid
           i == InterrumpirTemporizador(s)
           g == GuardarQuantum(s, p, resto)
           a == ActualizarRegistros(s, p, m.pc)
<1>1. s \in EstadoKernel /\ p \in Pids /\ m.pc \in 0 .. MaxPc
  BY OrdenTipo, MensajeTipo
<1>2. i \in EstadoKernel /\ g \in EstadoKernel /\ a \in EstadoKernel
  BY <1>1, InterrumpirTemporizadorConserva, GuardarQuantumConserva, ActualizarConserva, Tipado
<1>3. Quieto(s, i) /\ i.cola = s.cola
  BY <1>1, QuietoSimple DEF Quieto
<1>4. Orden(i, {}) /\ (Esta(i, "EXEC", p) <=> Esta(s, "EXEC", p))
  BY <1>1, <1>2, <1>3, QuietoSigue DEF Esta
<1>5. /\ AtenderProceso(s, m, resto) =
           IF s.procesos[p] = SinEstado THEN Caer(s)
           ELSE IF s.procesos[p] = "EXIT" THEN Avisar(s)
           ELSE IF m.dato = "EJECUTANDO"
           THEN Avisar(IF Esta(s, "EXEC", p) THEN FinalizarExito(i, p) ELSE s)
           ELSE IF Esta(s, "EXEC", p) THEN Avisar(ManejarExecReady(a, p, resto)) ELSE s
      /\ AtenderResize(s, m, resto) =
           IF ~ Esta(s, "EXEC", p) THEN FinalizarSinMemoria(i, p)
           ELSE IF m.dato = "OK" THEN Avisar(s) ELSE Avisar(FinalizarSinMemoria(g, p))
      /\ AtenderWait(s, m, resto) =
           IF ~ Esta(s, "EXEC", p) THEN Caer(s) ELSE Avisar(Wait(a, p, m.dato, resto))
      /\ \A cabeza : AtenderSignal(s, m, resto, cabeza) =
           IF ~ Esta(s, "EXEC", p) THEN Caer(s)
           ELSE Avisar(Signal(a, p, m.dato, resto, cabeza))
  BY DEF AtenderProceso, AtenderResize, AtenderWait, AtenderSignal
<1> HIDE DEF i, g, a, p
<1>6. Vela(s, s) /\ Alerta(Caer(s)) /\ Alerta(Avisar(s))
  BY <1>1, QuietoSimple, VelaSimple, AlertaSimple
<1>7. Alerta(Avisar(FinalizarExito(i, p))) /\ Alerta(Avisar(FinalizarSinMemoria(g, p)))
  BY <1>1, <1>2, FinalizarConserva, Tipado, AlertaSimple
<1>8. Alerta(Avisar(ManejarExecReady(a, p, resto)))
  BY <1>1, <1>2, ManejarExecReadyConserva, Tipado, AlertaSimple
<1>9. /\ Alerta(Avisar(Wait(a, p, m.dato, resto)))
      /\ \A cabeza \in 0 .. MaxPid : Alerta(Avisar(Signal(a, p, m.dato, resto, cabeza)))
  BY <1>1, <1>2, WaitConserva, SignalConserva, Tipado, AlertaSimple
<1>10. ~ Esta(s, "EXEC", p) => Vela(s, FinalizarSinMemoria(i, p))
  <2>1. ~ Esta(s, "EXEC", p) => Vela(i, FinalizarSinMemoria(i, p))
    BY <1>1, <1>4, FinalizarVela
  <2>2. i.procesos = s.procesos
    BY <1>3 DEF Quieto
  <2> QED
    BY <2>1, <2>2 DEF Vela, Callado
<1>11. /\ AtenderProceso(s, m, resto) = s \/ Alerta(AtenderProceso(s, m, resto))
       /\ Esta(s, "EXEC", p) => Alerta(AtenderProceso(s, m, resto))
  BY <1>5, <1>6, <1>7, <1>8
<1>12. /\ ~ Esta(s, "EXEC", p) => Vela(s, AtenderResize(s, m, resto))
       /\ Esta(s, "EXEC", p) => Alerta(AtenderResize(s, m, resto))
  BY <1>5, <1>6, <1>7, <1>10
<1>13. Alerta(AtenderWait(s, m, resto))
  BY <1>5, <1>6, <1>9
<1>14. \A cabeza \in 0 .. MaxPid : Alerta(AtenderSignal(s, m, resto, cabeza))
  BY <1>5, <1>6, <1>9
<1> QED
  BY <1>6, <1>11, <1>12, <1>13, <1>14 DEF Vela, p

\* The requests of the CPU to the interfaces and their reports.
LEMMA IoVela ==
    ASSUME NEW s, Orden(s, {}), NEW p \in Pids
    PROVE  /\ \A pc \in 0 .. MaxPc, resto \in BOOLEAN : \A i :
                 /\ Vela(s, PedirIoGenSleep(s, p, pc, i, resto))
                 /\ Esta(s, "EXEC", p) => Alerta(PedirIoGenSleep(s, p, pc, i, resto))
           /\ \A i \in Interfaces, registrada \in Interfaces :
                 Alerta(CompletarIoGenSleep(s, i, p, registrada))
<1>1. s \in EstadoKernel
  BY OrdenTipo
<1>2. ASSUME NEW pc \in 0 .. MaxPc, NEW resto \in BOOLEAN, NEW i
      PROVE  \/ ~ Esta(s, "EXEC", p) /\ Vela(s, PedirIoGenSleep(s, p, pc, i, resto))
             \/ Alerta(PedirIoGenSleep(s, p, pc, i, resto))
  <2> DEFINE t == GuardarQuantum(s, p, resto)
             x == ActualizarRegistros(t, p, pc)
             u == ExecBlock(x)
             v == [u EXCEPT !.io[i] = [ocupado |-> TRUE, pid |-> p]]
             w == EnviarIo(v, i, "IO_GEN_SLEEP", p)
             y == [u EXCEPT !.pcb[p].proxima_io = i]
  <2>1. PedirIoGenSleep(s, p, pc, i, resto) =
           IF ~ Esta(s, "EXEC", p) THEN s
           ELSE IF i \notin Interfaces \/ TipoInterfaz[i] # "GENERIC"
           THEN FinalizarInterfazInvalida(t, p)
           ELSE IF s.io[i].ocupado THEN Avisar(y) ELSE Avisar(w)
    BY DEF PedirIoGenSleep
  <2>2. t \in EstadoKernel /\ Quieto(s, t)
    BY <1>1, GuardarQuantumConserva, Tipado, QuietoGuardar
  <2>3. CASE ~ Esta(s, "EXEC", p)
    BY <1>1, <2>1, <2>3, QuietoSimple, VelaSimple
  <2>4. CASE Esta(s, "EXEC", p) /\ (i \notin Interfaces \/ TipoInterfaz[i] # "GENERIC")
    <3> HIDE DEF t
    <3>1. Orden(t, {}) /\ t.procesos = s.procesos /\ Esta(t, "EXEC", p)
      BY <1>1, <2>2, <2>4, QuietoSigue DEF Quieto, Esta
    <3>2. Alerta(FinalizarInterfazInvalida(t, p))
      BY <3>1, FinalizarVela
    <3> QED
      BY <2>1, <2>4, <3>2
  <2>5. CASE Esta(s, "EXEC", p) /\ i \in Interfaces /\ TipoInterfaz[i] = "GENERIC"
    <3> HIDE DEF t
    <3>1. x \in EstadoKernel
      BY <2>2, ActualizarConserva, Tipado
    <3> HIDE DEF x
    <3>2. u \in EstadoKernel
      BY <3>1, ExecConserva, Tipado
    <3> HIDE DEF u
    <3>3. v \in EstadoKernel
      BY <2>5, <3>2, InterfazTipo, ConIo, Tipado
    <3> HIDE DEF v
    <3>4. w \in EstadoKernel
      BY <2>5, <3>3, EnviarIoConserva, Tipado
    <3>5. y \in EstadoKernel
      <4>1. u.pcb[p] \in Pcb
        BY <3>2, PcbTipo
      <4>2. [u.pcb[p] EXCEPT !.proxima_io = i] \in Pcb
        BY <2>5, <4>1, PcbCampos
      <4>3. y = [u EXCEPT !.pcb[p] = [u.pcb[p] EXCEPT !.proxima_io = i]]
        BY <3>2 DEF EstadoKernel
      <4> QED
        BY <3>2, <4>2, <4>3, ConPcb, Tipado
    <3> HIDE DEF w, y
    <3> QED
      BY <2>1, <2>5, <3>4, <3>5, AlertaSimple
  <2> QED
    BY <2>3, <2>4, <2>5
<1>3. ASSUME NEW i \in Interfaces, NEW registrada \in Interfaces
      PROVE  Alerta(CompletarIoGenSleep(s, i, p, registrada))
  <2> DEFINE n == InterrumpirTemporizador(s)
             x == Matar(n, p)
             b == ManejarBlockReady(s, p)
             t == [b EXCEPT !.io[i] = [ocupado |-> FALSE, pid |-> 0]]
             u == ProximoIoGeneric(t, registrada)
  <2>1. CompletarIoGenSleep(s, i, p, registrada) \in {Avisar(x), Avisar(s), Avisar(u)}
    BY DEF CompletarIoGenSleep, MatarEnExit
  <2>2. n \in EstadoKernel
    BY <1>1, InterrumpirTemporizadorConserva, Tipado
  <2> HIDE DEF n
  <2>3. x \in EstadoKernel
    BY <2>2, MatarConserva, Tipado
  <2> HIDE DEF x
  <2>4. b \in EstadoKernel
    BY <1>1, BlockConserva, Tipado
  <2> HIDE DEF b
  <2>5. t \in EstadoKernel
    BY <2>4, InterfazTipo, ConIo, Tipado
  <2> HIDE DEF t
  <2>6. u \in EstadoKernel
    BY <2>5, ProximoIoConserva, Tipado
  <2> HIDE DEF u
  <2> QED
    BY <1>1, <2>1, <2>3, <2>6, AlertaSimple
<1> QED
  BY <1>2, <1>3 DEF Vela

\* The packets that reach the kernel, from the CPU and the interfaces: each
\* pays what it owes, and those about the process in EXEC post.
LEMMA PaquetesVela ==
    ASSUME Inductivo, Orden(k, {})
    PROVE  /\ DispatchProceso \/ DispatchResize \/ DispatchWait \/ DispatchSignal =>
                 /\ Vela(k, k')
                 /\ Esta(k, "EXEC", Head(dispatch).pid) => Alerta(k')
           /\ InterruptIoGenSleep =>
                 /\ Vela(k, k')
                 /\ Esta(k, "EXEC", Head(interrupt).pid) => Alerta(k')
           /\ (\E i \in Interfaces : AtenderCompletado(i)) => Alerta(k')
<1>1. /\ k \in EstadoKernel /\ dispatch \in Seq(Mensaje) /\ interrupt \in Seq(Mensaje)
      /\ completados \in [Interfaces -> Seq(Pids)]
  BY DEF Inductivo, TypeOK
<1>2. ASSUME DispatchProceso \/ DispatchResize \/ DispatchWait \/ DispatchSignal
      PROVE  /\ Vela(k, k')
             /\ Esta(k, "EXEC", Head(dispatch).pid) => Alerta(k')
  <2>1. Head(dispatch) \in Mensaje
    BY <1>1, <1>2, HeadTailProperties
       DEF DispatchProceso, DispatchResize, DispatchWait, DispatchSignal, RecibirDispatch
  <2>2. CASE DispatchProceso
    BY <2>1, <2>2, RestosTipo, DispatchVela DEF DispatchProceso
  <2>3. CASE DispatchResize
    BY <2>1, <2>3, RestosTipo, DispatchVela DEF DispatchResize
  <2>4. CASE DispatchWait
    BY <2>1, <2>4, RestosTipo, DispatchVela DEF DispatchWait
  <2>5. CASE DispatchSignal
    BY <1>1, <2>1, <2>5, RestosTipo, CabezasTipo, DispatchVela DEF DispatchSignal
  <2> QED
    BY <1>2, <2>2, <2>3, <2>4, <2>5
<1>3. ASSUME InterruptIoGenSleep
      PROVE  /\ Vela(k, k')
             /\ Esta(k, "EXEC", Head(interrupt).pid) => Alerta(k')
  <2>1. Head(interrupt) \in Mensaje
    BY <1>1, <1>3, HeadTailProperties DEF InterruptIoGenSleep
  <2> QED
    BY <1>3, <2>1, MensajeTipo, RestosTipo, IoVela DEF InterruptIoGenSleep
<1>4. ASSUME \E i \in Interfaces : AtenderCompletado(i)
      PROVE  Alerta(k')
  <2>1. PICK i \in Interfaces : AtenderCompletado(i)
    BY <1>4
  <2>2. Head(completados[i]) \in Pids
    BY <1>1, <2>1, HeadTailProperties DEF AtenderCompletado
  <2>3. PICK registrada \in Interfaces :
           k' = CompletarIoGenSleep(k, i, Head(completados[i]), registrada)
    BY <2>1 DEF AtenderCompletado, InterfacesDe
  <2> QED
    BY <2>2, <2>3, IoVela
<1> QED
  BY <1>2, <1>3, <1>4

\* The answer of memoria to a creation.
LEMMA RespuestaVela ==
    ASSUME NEW s, Orden(s, {}), NEW p \in Pids, NEW leido \in BOOLEAN,
           s.procesos[p] \in {SinEstado, "NEW", "EXIT"}
    PROVE  LET t == ResponderNuevoProceso(s, p, leido)
           IN  /\ Vela(s, t)
               /\ t.detener = s.detener /\ (s.caido => t.caido)
               /\ t.planificador_iniciar >= s.planificador_iniciar
<1> DEFINE a == [s EXCEPT !.pcb[p].memoria_aceptado = TRUE]
           r == Revertir(s, p)
<1>1. s \in EstadoKernel
  BY OrdenTipo
<1>2. ResponderNuevoProceso(s, p, leido) =
         IF s.procesos[p] = SinEstado THEN Caer(s)
         ELSE IF s.procesos[p] = "EXIT" THEN s
         ELSE IF ~ leido THEN r
         ELSE IF ~ Esta(s, "NEW", p) THEN s ELSE Avisar(a)
  BY DEF ResponderNuevoProceso
<1>3. a \in EstadoKernel
  <2>1. s.pcb[p] \in Pcb
    BY <1>1, PcbTipo
  <2>2. [s.pcb[p] EXCEPT !.memoria_aceptado = TRUE] \in Pcb
    BY <2>1, PcbCampos
  <2>3. a = [s EXCEPT !.pcb[p] = [s.pcb[p] EXCEPT !.memoria_aceptado = TRUE]]
    BY <1>1 DEF EstadoKernel
  <2> QED
    BY <1>1, <2>2, <2>3, ConPcb, Tipado
<1>4. s.procesos[p] = "NEW" => Vela(s, r)
  <2> SUFFICES ASSUME s.procesos[p] = "NEW"
               PROVE  Callado(s, r)
    BY DEF Vela
  <2>1. r.procesos = [s.procesos EXCEPT ![p] = SinEstado]
    BY RevertirOrden
  <2>2. s.procesos \in [Pids -> Colas \cup {SinEstado}]
    BY <1>1, Zenon DEF EstadoKernel
  <2> HIDE DEF r
  <2> QED
    BY <2>1, <2>2 DEF Callado, Listo, SinEstado
<1>5. s.procesos[p] = "NEW" =>
         /\ r.detener = s.detener /\ (s.caido => r.caido)
         /\ r.planificador_iniciar = s.planificador_iniciar
  BY RevertirOrden
<1>6. /\ a.detener = s.detener /\ a.caido = s.caido
      /\ a.planificador_iniciar = s.planificador_iniciar
  BY <1>1, Zenon DEF EstadoKernel
<1> HIDE DEF a, r
<1>7. Vela(s, s) /\ Vela(s, Caer(s)) /\ Vela(s, Avisar(a))
  BY <1>1, <1>3, QuietoSimple, VelaSimple
<1>8. /\ Quieto(s, Caer(s)) /\ Quieto(a, Avisar(a))
      /\ s.planificador_iniciar \in Nat /\ a.planificador_iniciar \in Nat
  BY <1>1, <1>3, QuietoSimple, SemaforoTipo
<1> QED
  <2> DEFINE Paga(t) == /\ Vela(s, t)
                        /\ t.detener = s.detener /\ (s.caido => t.caido)
                        /\ t.planificador_iniciar >= s.planificador_iniciar
  <2>1. Paga(s) /\ Paga(Caer(s))
    BY <1>7, <1>8 DEF Quieto
  <2>2. Paga(Avisar(a))
    BY <1>6, <1>7, <1>8 DEF Quieto
  <2>3. s.procesos[p] = "NEW" => Paga(r)
    BY <1>4, <1>5, <1>8
  <2> HIDE DEF Paga
  <2>4. Paga(ResponderNuevoProceso(s, p, leido))
    BY <1>2, <2>1, <2>2, <2>3, Zenon
  <2> QED
    BY <2>4 DEF Paga

-----------------------------------------------------------------------------
(* The planner and the other actions.                                      *)

\* After planificacion_corto_plazo somebody executes, or nobody is ready.
LEMMA CortoPlazoAtiende ==
    ASSUME NEW s, Orden(s, {})
    PROVE  LET t == CortoPlazo(s)
           IN  \/ t.cola["EXEC"] # << >>
               \/ t.cola["READY"] = << >> /\ t.cola["READY_PRIORIDAD"] = << >>
<1>1. s \in EstadoKernel /\ s.cola["EXEC"] \in Seq(Pids)
      /\ {"READY", "READY_PRIORIDAD"} \subseteq Colas \ {"NEW", "EXIT"}
      /\ "EXEC" \in Colas \ {"NEW"}
  BY OrdenTipo, ColaTipo DEF Colas
<1>2. Algoritmo # "VRR" => s.cola["READY_PRIORIDAD"] = << >>
  BY DEF Orden
<1>3. ASSUME NEW de \in {"READY", "READY_PRIORIDAD"}, s.cola[de] # << >>,
             s.cola["EXEC"] = << >>
      PROVE  LET t == EnviarEjecutar(Mover(s, de, "EXEC"), Head(s.cola[de]))
             IN  t.cola["EXEC"] # << >> /\ \A q : Desalojar(t, q).cola["EXEC"] # << >>
  <2> DEFINE m == Mover(s, de, "EXEC")
             h == Head(s.cola[de])
             t == EnviarEjecutar(m, h)
  <2>1. Traslado(s, m, h, de, "EXEC") /\ EnTurno(m) /\ h \in Pids
    BY <1>1, <1>3, MoverTraslado, MoverAExec DEF Orden
  <2>2. m.cola["EXEC"] = Append(s.cola["EXEC"], h)
    BY <2>1 DEF Traslado
  <2>3. m.cola["EXEC"] # << >>
    BY <1>1, <2>1, <2>2
  <2> HIDE DEF m, h
  <2>4. t \in EstadoKernel /\ t.cola = m.cola
    BY <2>1, EnviarEjecutarConserva, Tipado, QuietoSimple DEF EnTurno, Quieto
  <2> HIDE DEF t
  <2>5. \A q : Desalojar(t, q).cola = t.cola
    BY <2>1, <2>4, QuietoGuardar DEF Quieto
  <2> QED
    BY <2>3, <2>4, <2>5 DEF t, m, h
<1>4. LET t == RoundRobin(s)
      IN  \/ t.cola["EXEC"] # << >>
          \/ s.cola["READY"] = << >> /\ t = s
  BY <1>1, <1>3 DEF RoundRobin, ReadyExec
<1>5. LET t == Fifo(s)
      IN  \/ t.cola["EXEC"] # << >>
          \/ s.cola["READY"] = << >> /\ t = s
  BY <1>1, <1>3 DEF Fifo, ReadyExec
<1>6. LET t == VirtualRoundRobin(s)
      IN  \/ t.cola["EXEC"] # << >>
          \/ s.cola["READY"] = << >> /\ s.cola["READY_PRIORIDAD"] = << >> /\ t = s
  BY <1>1, <1>3, <1>4 DEF VirtualRoundRobin, ReadyExecMayorPrioridad
<1>7. CASE Algoritmo = "FIFO"
  BY <1>2, <1>5, <1>7 DEF CortoPlazo
<1>8. CASE Algoritmo = "RR"
  BY <1>2, <1>4, <1>8 DEF CortoPlazo
<1>9. CASE Algoritmo = "VRR"
  BY <1>6, <1>9 DEF CortoPlazo
<1> QED
  BY <1>7, <1>8, <1>9, AlgoritmoAssumption

\* The steps that leave the table of processes alone take no token, and only
\* the operator starts or stops the planning.
LEMMA AjenosDespierto ==
    ASSUME Inductivo, Despierto(k),
           \/ DetenerPlanificacion \/ IniciarPlanificacion
           \/ \E g \in Grados : Multiprogramacion(g)
           \/ TemporizadorVence \/ FinQuantum
           \/ CpuEjecutarProceso \/ CpuInterrupcion
           \/ \E i \in Interfaces : InterfazRecibe(i)
           \/ MemoriaKernel
    PROVE  Despierto(k')
<1>1. k \in EstadoKernel
  BY DEF Inductivo, TypeOK
<1>2. CASE DetenerPlanificacion
  <2>1. k'.detener
    BY <1>1, <1>2, Zenon DEF DetenerPlanificacion, EstadoKernel
  <2> QED
    BY <2>1 DEF Despierto
<1>3. CASE IniciarPlanificacion
  <2> DEFINE t == [k EXCEPT !.detener = FALSE]
  <2>1. t \in EstadoKernel /\ k' = Avisar(t)
    BY <1>1, <1>3, ConDetener, Tipado DEF IniciarPlanificacion
  <2> HIDE DEF t
  <2>2. k'.planificador_iniciar = t.planificador_iniciar + 1
    BY <2>1, Zenon DEF Avisar, EstadoKernel
  <2>3. t.planificador_iniciar \in Nat
    BY <2>1, SemaforoTipo
  <2>4. k'.planificador_iniciar > 0
    BY <2>2, <2>3
  <2> QED
    BY <2>4 DEF Despierto
<1>4. ASSUME \/ \E g \in Grados : Multiprogramacion(g)
             \/ TemporizadorVence \/ FinQuantum
             \/ CpuEjecutarProceso \/ CpuInterrupcion
             \/ \E i \in Interfaces : InterfazRecibe(i)
             \/ MemoriaKernel
      PROVE  /\ k'.cola = k.cola /\ k'.caido = k.caido /\ k'.detener = k.detener
             /\ k'.planificador_iniciar = k.planificador_iniciar
  <2>1. CASE \E g \in Grados : Multiprogramacion(g)
    BY <1>1, <2>1, Zenon DEF Multiprogramacion, EstadoKernel
  <2>2. CASE TemporizadorVence
    BY <1>1, <2>2, Zenon DEF TemporizadorVence, EstadoKernel
  <2>3. CASE FinQuantum
    BY <1>1, <2>3, Zenon DEF FinQuantum, InterrumpirCpu, EstadoKernel
  <2>4. CASE CpuEjecutarProceso
    BY <1>1, <2>4, Zenon DEF CpuEjecutarProceso, EstadoKernel
  <2>5. CASE CpuInterrupcion
    BY <1>1, <2>5, Zenon DEF CpuInterrupcion, EstadoKernel
  <2>6. CASE \E i \in Interfaces : InterfazRecibe(i)
    BY <1>1, <2>6, Zenon DEF InterfazRecibe, EstadoKernel
  <2>7. CASE MemoriaKernel
    BY <1>1, <2>7, Zenon DEF MemoriaKernel, EstadoKernel
  <2> QED
    BY <1>4, <2>1, <2>2, <2>3, <2>4, <2>5, <2>6, <2>7
<1>5. CASE \/ \E g \in Grados : Multiprogramacion(g)
           \/ TemporizadorVence \/ FinQuantum
           \/ CpuEjecutarProceso \/ CpuInterrupcion
           \/ \E i \in Interfaces : InterfazRecibe(i)
           \/ MemoriaKernel
  BY <1>4, <1>5 DEF Despierto
<1> QED
  BY <1>2, <1>3, <1>5

\* No step of the system loses a wake-up.
LEMMA SistemaDespierto ==
    ASSUME InductivoCoherente, InductivoCoherente', Despierto(k), [Next]_vars
    PROVE  Despierto(k')
<1>1. /\ Inductivo /\ Orden(k, {}) /\ Orden(k', {}) /\ k \in EstadoKernel
      /\ Creacion(k, respuestas) /\ respuestas \in Seq(Respuesta)
  BY OrdenTipo DEF InductivoCoherente, Coherencia, Coherente, Inductivo, TypeOK, Respuesta
<1>2. CASE IniciarProceso
  <2> DEFINE p == k.pid + 1
  <2>1. p \in Pids /\ k' = NuevoProceso(k, p)
    BY <1>2 DEF IniciarProceso
  <2>2. k.procesos[p] = SinEstado
    BY <1>1, <2>1 DEF Creacion
  <2> HIDE DEF p
  <2>3. /\ k'.caido = k.caido /\ k'.detener = k.detener
        /\ k'.planificador_iniciar = k.planificador_iniciar
        /\ k'.procesos = [k.procesos EXCEPT ![p] = "NEW"]
    BY <1>1, <2>1, <2>2, NuevoProcesoOrden
  <2>4. k.procesos \in [Pids -> Colas \cup {SinEstado}] /\ k.planificador_iniciar \in Nat
    BY <1>1, SemaforoTipo, Zenon DEF EstadoKernel
  <2>5. Vela(k, k')
    BY <2>1, <2>2, <2>3, <2>4 DEF Vela, Callado, Listo, SinEstado
  <2> QED
    BY <1>1, <2>3, <2>4, <2>5, VelaDespierto
<1>3. CASE \/ \E p \in Pids : FinalizarProceso(p)
           \/ DispatchProceso \/ DispatchResize \/ DispatchWait \/ DispatchSignal
           \/ InterruptIoGenSleep
           \/ \E i \in Interfaces : AtenderCompletado(i)
  <2>1. \E p \in Pids : Paso(k, k', p)
    BY <1>1, <1>3, FinalizarProcesoOrden, PaquetesOrden
  <2>2. /\ k.caido => k'.caido
        /\ k'.detener = k.detener /\ k'.planificador_iniciar >= k.planificador_iniciar
    BY <2>1 DEF Paso, Sigue
  <2>3. Vela(k, k')
    BY <1>1, <1>3, FinalizarProcesoVela, PaquetesVela DEF Vela
  <2> QED
    BY <1>1, <2>2, <2>3, VelaDespierto
<1>4. CASE HiloPlanificador
  <2> DEFINE t == [k EXCEPT !.planificador_iniciar = @ - 1]
             u == LargoPlazo(t)
  <2>1. /\ Orden(t, {}) /\ t.detener = k.detener
        /\ k' = IF t.detener THEN t ELSE CortoPlazo(u)
    BY <1>1, <1>4, TurnoOrden
  <2> HIDE DEF t
  <2>2. Orden(u, {})
    BY <2>1, LargoPlazoContinua DEF Continua
  <2> HIDE DEF u
  <2>3. LET v == CortoPlazo(u)
        IN  \/ v.cola["EXEC"] # << >>
            \/ v.cola["READY"] = << >> /\ v.cola["READY_PRIORIDAD"] = << >>
    BY <2>2, CortoPlazoAtiende
  <2> QED
    BY <2>1, <2>3 DEF Despierto
<1>5. CASE AtenderMemoria
  <2> DEFINE p == Head(respuestas).pid
             l == Head(respuestas).leido
  <2>1. respuestas # << >> /\ k' = ResponderNuevoProceso(k, p, l)
    BY <1>5 DEF AtenderMemoria
  <2>2. /\ Head(respuestas) \in Respuesta /\ Head(respuestas) = respuestas[1]
        /\ 1 \in 1 .. Len(respuestas)
    BY <1>1, <2>1, HeadTailProperties, LenProperties
  <2>3. p \in Pids /\ l \in BOOLEAN /\ respuestas[1].pid = p
    BY <2>2 DEF Respuesta
  <2>4. k.procesos[p] \in {SinEstado, "NEW", "EXIT"}
    BY <1>1, <2>2, <2>3 DEF Creacion, EnCreacion
  <2> HIDE DEF p, l
  <2>5. /\ Vela(k, k') /\ k'.detener = k.detener /\ (k.caido => k'.caido)
        /\ k'.planificador_iniciar >= k.planificador_iniciar
    BY <1>1, <2>1, <2>3, <2>4, RespuestaVela
  <2> QED
    BY <1>1, <2>5, VelaDespierto
<1>6. CASE \/ DetenerPlanificacion \/ IniciarPlanificacion
           \/ \E g \in Grados : Multiprogramacion(g)
           \/ TemporizadorVence \/ FinQuantum
           \/ CpuEjecutarProceso \/ CpuInterrupcion
           \/ \E i \in Interfaces : InterfazRecibe(i)
           \/ MemoriaKernel
  BY <1>1, <1>6, AjenosDespierto
<1>7. CASE \/ InstruccionCiclo \/ CpuResize \/ MemoriaProximaInstruccion \/ MemoriaResize
           \/ (\E i \in Interfaces : InterfazVence(i) \/ InterfazAvisa(i))
           \/ UNCHANGED vars
  BY <1>7 DEF InstruccionCiclo, CpuResize, MemoriaProximaInstruccion, MemoriaResize,
              InterfazVence, InterfazAvisa, vars
<1> QED
  BY <1>2, <1>3, <1>4, <1>5, <1>6, <1>7
     DEF Next, PasoKernel, NextKernel, PasoCpu, PasoMemoria, PasoInterfaz

\* No wake-up of the planner thread is ever lost: in every configuration in
\* which the operator waits for the answer to a creation, while a process is
\* ready and nothing executes there is a token in planificador_iniciar, in
\* whatever order the threads of the kernel run their handlers.
THEOREM Sin_Despertar_Perdido ==
    ASSUME OperadorEspera = TRUE
    PROVE  Spec => []SinDespertarPerdido
<1>1. Init => InductivoCoherente /\ SinDespertarPerdido
  <2>1. Init => SinDespertarPerdido
    BY DEF Init, InitKernel, KernelInicial, SinDespertarPerdido, HayListos, Colas
  <2> QED
    BY <2>1, InicioCoherencia
<1>2. InductivoCoherente /\ [Next]_vars => InductivoCoherente'
  BY PasoCoherencia
<1>3. InductivoCoherente /\ InductivoCoherente' /\ SinDespertarPerdido /\ [Next]_vars
         => SinDespertarPerdido'
  <2>1. SinDespertarPerdido <=> Despierto(k)
    BY DEF SinDespertarPerdido, HayListos, Despierto
  <2>2. SinDespertarPerdido' <=> Despierto(k')
    BY DEF SinDespertarPerdido, HayListos, Despierto
  <2> QED
    BY <2>1, <2>2, SistemaDespierto
<1> QED
  BY <1>1, <1>2, <1>3, PTL DEF Spec

-----------------------------------------------------------------------------
(* The degree of multiprogramming.                                         *)

\* The first elements of a list are a list of that length.
LEMMA PrefijoSubSeq ==
    ASSUME NEW q \in Seq(Pids), NEW n \in 0 .. Len(q)
    PROVE  SubSeq(q, 1, n) \in Seq(Pids) /\ Len(SubSeq(q, 1, n)) = n
<1>1. Len(q) \in Nat /\ n \in Nat /\ n <= Len(q)
  BY LenProperties
<1>2. \A i \in 1 .. n : q[i] \in Pids
  BY <1>1, ElementOfSeq
<1> QED
  BY <1>1, <1>2, SubSeqProperties

\* What is left of a list once its first elements are taken is its end.
LEMMA SufijoSubSeq ==
    ASSUME NEW q \in Seq(Pids), NEW n \in 0 .. Len(q)
    PROVE  LET b == SubSeq(q, n + 1, Len(q))
           IN  Len(b) = Len(q) - n /\ IsSuffix(b, q)
<1> DEFINE b == SubSeq(q, n + 1, Len(q))
           x == Reverse(b)
           y == Reverse(q)
<1>1. Len(q) \in Nat /\ n \in Nat /\ n <= Len(q)
  BY LenProperties
<1>2. /\ b \in Seq(Pids) /\ Len(b) = Len(q) - n
      /\ \A i \in 1 .. Len(q) - n : b[i] = q[n + i]
  BY <1>1, SubSeqProperties
<1> HIDE DEF b
<1>3. /\ x = [i \in 1 .. Len(q) - n |-> b[(Len(q) - n - i) + 1]]
      /\ y = [i \in 1 .. Len(q) |-> q[(Len(q) - i) + 1]]
  BY <1>2 DEF Reverse
<1>4. /\ x \in Seq(Pids) /\ Len(x) = Len(q) - n
      /\ y \in Seq(Pids) /\ Len(y) = Len(q)
  BY <1>1, <1>2, <1>3
<1>5. ASSUME NEW i \in 1 .. Len(q) - n
      PROVE  x[i] = y[i]
  <2>1. Len(q) - n - i + 1 \in 1 .. Len(q) - n /\ i \in 1 .. Len(q)
    BY <1>1
  <2>2. x[i] = b[(Len(q) - n - i) + 1] /\ y[i] = q[(Len(q) - i) + 1]
    BY <1>3, <2>1
  <2>3. b[(Len(q) - n - i) + 1] = q[n + (Len(q) - n - i + 1)]
    BY <1>2, <2>1
  <2>4. n + (Len(q) - n - i + 1) = (Len(q) - i) + 1
    BY <1>1
  <2> QED
    BY <2>2, <2>3, <2>4
<1> HIDE DEF x, y
<1>6. SubSeq(x, 1, Len(x)) = SubSeq(y, 1, Len(x))
  BY <1>1, <1>4, <1>5
<1>7. Len(x) <= Len(y)
  BY <1>1, <1>4
<1>8. IsSuffix(b, q)
  BY <1>6, <1>7 DEF IsSuffix, IsPrefix, x, y
<1> QED
  BY <1>2, <1>8 DEF b

\* The short term planner moves one process between the lists that count for
\* the degree, and does not look at NEW.
LEMMA CortoPlazoConcurrentes ==
    ASSUME NEW s \in EstadoKernel
    PROVE  LET t == CortoPlazo(s)
           IN  /\ t.cola["NEW"] = s.cola["NEW"] /\ Concurrentes(t) = Concurrentes(s)
               /\ t.grado = s.grado
<1> DEFINE Igual(t) == /\ t.cola["NEW"] = s.cola["NEW"] /\ Concurrentes(t) = Concurrentes(s)
                       /\ t.grado = s.grado
<1>1. ASSUME NEW de \in {"READY", "READY_PRIORIDAD"}, s.cola[de] # << >>
      PROVE  LET t == EnviarEjecutar(Mover(s, de, "EXEC"), Head(s.cola[de]))
             IN  Igual(t) /\ \A q : Igual(Desalojar(t, q))
  <2> DEFINE h == Head(s.cola[de])
             r == Tail(s.cola[de])
             m == Mover(s, de, "EXEC")
             t == EnviarEjecutar(m, h)
  <2>1. s.cola \in [Colas -> Seq(Pids)] /\ {"NEW", "BLOCK", "EXEC", "READY", "READY_PRIORIDAD"} \subseteq Colas
    BY Zenon DEF EstadoKernel, Colas
  <2>2. h \in Pids /\ r \in Seq(Pids) /\ Len(r) = Len(s.cola[de]) - 1
    BY <1>1, <2>1, HeadTailProperties
  <2>3. m = [s EXCEPT !.cola[de] = r, !.cola["EXEC"] = Append(s.cola["EXEC"], h),
                      !.procesos[h] = "EXEC"]
    BY <1>1, <2>1 DEF Mover, Push, Pop, EstadoKernel
  <2> HIDE DEF h, r, m
  <2>4. m.cola = [s.cola EXCEPT ![de] = r, !["EXEC"] = Append(s.cola["EXEC"], h)]
    BY <2>3, Zenon DEF EstadoKernel
  <2>5. t.cola = m.cola /\ t.grado = s.grado
    <3>1. DOMAIN m = DOMAIN s /\ m.grado = s.grado
      BY <2>3, Zenon DEF EstadoKernel
    <3>2. "cola" \in DOMAIN m /\ "grado" \in DOMAIN m
      BY <3>1, Zenon DEF EstadoKernel
    <3> QED
      BY <3>1, <3>2, Zenon DEF EnviarEjecutar
  <2>6. \A q : Desalojar(t, q).cola = t.cola /\ Desalojar(t, q).grado = t.grado
    <3>1. ASSUME NEW x, DOMAIN x = DOMAIN s
          PROVE  IniciarTemporizador(x).cola = x.cola /\ IniciarTemporizador(x).grado = x.grado
      BY <3>1, Zenon DEF IniciarTemporizador, EstadoKernel
    <3>2. DOMAIN m = DOMAIN s
      BY <2>3, Zenon
    <3>3. DOMAIN t = DOMAIN s
      BY <3>2, Zenon DEF EnviarEjecutar
    <3> HIDE DEF t
    <3> QED
      BY <3>1, <3>3 DEF Desalojar
  <2>7. ASSUME NEW x, x.cola = m.cola, x.grado = s.grado
        PROVE  Igual(x)
    <3> DEFINE c == s.cola
               d == x.cola
    <3>1. /\ c["EXEC"] \in Seq(Pids) /\ Len(c["EXEC"]) \in Nat
          /\ Len(c["READY"]) \in Nat /\ Len(c["READY_PRIORIDAD"]) \in Nat
          /\ Len(c["BLOCK"]) \in Nat
      BY <2>1, LenProperties
    <3>2. Len(Append(c["EXEC"], h)) = Len(c["EXEC"]) + 1
      BY <2>2, <3>1, AppendProperties
    <3>3. /\ d[de] = r /\ d["EXEC"] = Append(c["EXEC"], h)
          /\ \A e \in Colas \ {de, "EXEC"} : d[e] = c[e]
      BY <2>1, <2>4, <2>7
    <3>4. CASE de = "READY"
      <4>1. /\ Len(d["READY"]) = Len(c["READY"]) - 1 /\ Len(d["EXEC"]) = Len(c["EXEC"]) + 1
            /\ d["BLOCK"] = c["BLOCK"] /\ d["READY_PRIORIDAD"] = c["READY_PRIORIDAD"]
            /\ d["NEW"] = c["NEW"]
        BY <2>1, <2>2, <3>2, <3>3, <3>4
      <4> HIDE DEF c, d
      <4>2. (Len(d["READY"]) + Len(d["EXEC"])) + Len(d["BLOCK"]) + Len(d["READY_PRIORIDAD"])
              = (Len(c["READY"]) + Len(c["EXEC"])) + Len(c["BLOCK"]) + Len(c["READY_PRIORIDAD"])
        <5> DEFINE a == Len(c["READY"])
                   p == Len(d["READY"])
                   b == Len(c["EXEC"])
                   q == Len(d["EXEC"])
                   e == Len(c["BLOCK"])
                   g == Len(d["BLOCK"])
                   f == Len(c["READY_PRIORIDAD"])
                   z == Len(d["READY_PRIORIDAD"])
        <5>1. p = a - 1 /\ q = b + 1 /\ g = e /\ z = f
          BY <3>1, <4>1
        <5>2. a \in Nat /\ b \in Nat /\ e \in Nat /\ f \in Nat
          BY <3>1
        <5> HIDE DEF a, b, e, f, p, q, g, z
        <5>3. p + q + g + z = a + b + e + f
          BY ONLY <5>1, <5>2
        <5> QED
          BY <5>3 DEF a, b, e, f, p, q, g, z
      <4> QED
        BY ONLY <2>7, <4>1, <4>2, Zenon DEF Concurrentes, c, d, Igual
    <3>5. CASE de = "READY_PRIORIDAD"
      <4>1. /\ Len(d["READY_PRIORIDAD"]) = Len(c["READY_PRIORIDAD"]) - 1
            /\ Len(d["EXEC"]) = Len(c["EXEC"]) + 1
            /\ d["BLOCK"] = c["BLOCK"] /\ d["READY"] = c["READY"] /\ d["NEW"] = c["NEW"]
        BY <2>1, <2>2, <3>2, <3>3, <3>5
      <4> HIDE DEF c, d
      <4>2. (Len(d["READY"]) + Len(d["EXEC"])) + Len(d["BLOCK"]) + Len(d["READY_PRIORIDAD"])
              = (Len(c["READY"]) + Len(c["EXEC"])) + Len(c["BLOCK"]) + Len(c["READY_PRIORIDAD"])
        <5> DEFINE a == Len(c["READY"])
                   p == Len(d["READY"])
                   b == Len(c["EXEC"])
                   q == Len(d["EXEC"])
                   e == Len(c["BLOCK"])
                   g == Len(d["BLOCK"])
                   f == Len(c["READY_PRIORIDAD"])
                   z == Len(d["READY_PRIORIDAD"])
        <5>1. p = a /\ q = b + 1 /\ g = e /\ z = f - 1
          BY <3>1, <4>1
        <5>2. a \in Nat /\ b \in Nat /\ e \in Nat /\ f \in Nat
          BY <3>1
        <5> HIDE DEF a, b, e, f, p, q, g, z
        <5>3. p + q + g + z = a + b + e + f
          BY ONLY <5>1, <5>2
        <5> QED
          BY <5>3 DEF a, b, e, f, p, q, g, z
      <4> QED
        BY ONLY <2>7, <4>1, <4>2, Zenon DEF Concurrentes, c, d, Igual
    <3> QED
      BY <3>4, <3>5
  <2> QED
    BY <2>5, <2>6, <2>7 DEF t, m, h
<1>2. Igual(s)
  OBVIOUS
<1> HIDE DEF Igual
<1>3. Igual(RoundRobin(s)) /\ Igual(Fifo(s))
  BY <1>1, <1>2 DEF RoundRobin, Fifo, ReadyExec
<1>4. Igual(VirtualRoundRobin(s))
  BY <1>1, <1>2, <1>3 DEF VirtualRoundRobin, ReadyExecMayorPrioridad
<1>5. Igual(CortoPlazo(s))
  BY <1>3, <1>4, AlgoritmoAssumption DEF CortoPlazo
<1> QED
  BY <1>5 DEF Igual

\* The processes that count for the degree are a number.
LEMMA ConcurrentesTipo ==
    ASSUME NEW s \in EstadoKernel
    PROVE  Concurrentes(s) \in Nat /\ s.grado \in Nat
<1>1. s.grado \in Nat
  BY Zenon DEF EstadoKernel
<1>2. /\ Len(s.cola["READY"]) \in Nat /\ Len(s.cola["EXEC"]) \in Nat
      /\ Len(s.cola["BLOCK"]) \in Nat /\ Len(s.cola["READY_PRIORIDAD"]) \in Nat
  BY ColaTipo DEF Colas
<1>3. \A a, b, c, d \in Nat : a + b + c + d \in Nat
  OBVIOUS
<1>4. Concurrentes(s) \in Nat
  BY <1>2, <1>3, Zenon DEF Concurrentes
<1> QED
  BY <1>1, <1>4

\* The processes the long term planner admits count for the degree.
LEMMA LargoPlazoConcurrentes ==
    ASSUME NEW s \in EstadoKernel
    PROVE  Concurrentes(LargoPlazo(s)) = Concurrentes(s) + Admitidos(s)
<1> DEFINE u == LargoPlazo(s)
           n == Admitidos(s)
           listos == SubSeq(s.cola["NEW"], 1, n)
           r == s.cola["READY"]
           e == Len(s.cola["EXEC"])
           b == Len(s.cola["BLOCK"])
           f == Len(s.cola["READY_PRIORIDAD"])
<1>1. /\ u.cola["READY"] = r \o listos /\ Len(u.cola["EXEC"]) = e
      /\ Len(u.cola["BLOCK"]) = b /\ Len(u.cola["READY_PRIORIDAD"]) = f
  BY LargoPlazoCampos DEF Colas
<1>2. /\ r \in Seq(Pids) /\ Len(r) \in Nat /\ e \in Nat /\ b \in Nat /\ f \in Nat
      /\ s.cola["NEW"] \in Seq(Pids) /\ Len(s.cola["NEW"]) \in Nat
  BY ColaTipo DEF Colas
<1>3. n \in 0 .. Len(s.cola["NEW"]) /\ n \in Nat
  BY <1>2, AdmitidosTipo
<1> HIDE DEF n
<1>4. listos \in Seq(Pids) /\ Len(listos) = n
  BY <1>2, <1>3, PrefijoSubSeq
<1>5. Concurrentes(u) = Len(u.cola["READY"]) + e + b + f
  BY <1>1 DEF Concurrentes
<1>6. Concurrentes(s) = Len(r) + e + b + f
  BY DEF Concurrentes
<1> HIDE DEF u, listos, r, e, b, f
<1>7. Len(u.cola["READY"]) = Len(r) + n
  <2>1. Len(r \o listos) = Len(r) + n
    BY <1>2, <1>4, ConcatProperties
  <2> QED
    BY <1>1, <2>1
<1>8. Len(u.cola["READY"]) + e + b + f = (Len(r) + e + b + f) + n
  BY ONLY <1>2, <1>3, <1>7
<1> QED
  BY <1>5, <1>6, <1>8 DEF u, n

\* A turn of the planner admits up to the degree, and in order.
LEMMA TurnoRespetaGrado ==
    ASSUME Inductivo, HiloPlanificador, Len(k'.cola["NEW"]) < Len(k.cola["NEW"])
    PROVE  Concurrentes(k') <= k.grado /\ IsSuffix(k'.cola["NEW"], k.cola["NEW"])
<1> DEFINE t == [k EXCEPT !.planificador_iniciar = @ - 1]
           u == LargoPlazo(t)
           n == Admitidos(t)
           nuevos == t.cola["NEW"]
           listos == SubSeq(nuevos, 1, n)
<1>1. k \in EstadoKernel
  BY DEF Inductivo, TypeOK
<1>2. t \in EstadoKernel
  <2>1. k.planificador_iniciar - 1 \in Nat
    BY <1>1, SemaforoTipo DEF HiloPlanificador
  <2> QED
    BY <1>1, <2>1, ConFichas, Tipado
<1>3. t.cola = k.cola /\ t.grado = k.grado /\ t.detener = k.detener
  BY <1>1, Zenon DEF EstadoKernel
<1>4. k' = CortoPlazo(u)
  <2>1. k' = IF t.detener THEN t ELSE CortoPlazo(u)
    BY DEF HiloPlanificador
  <2>2. t.cola["NEW"] = k.cola["NEW"] /\ Len(k.cola["NEW"]) \in Nat
    BY <1>1, <1>3, ColaTipo DEF Colas
  <2> HIDE DEF t, u
  <2> QED
    BY <2>1, <2>2
<1> HIDE DEF t
<1>5. /\ u \in EstadoKernel
      /\ u.cola["NEW"] = SubSeq(nuevos, n + 1, Len(nuevos))
      /\ u.cola["READY"] = t.cola["READY"] \o listos
      /\ \A e \in Colas \ {"NEW", "READY"} : u.cola[e] = t.cola[e]
      /\ u.grado = t.grado
  BY <1>2, LargoPlazoConserva, LargoPlazoCampos, Tipado
<1>6. /\ nuevos \in Seq(Pids) /\ Len(nuevos) \in Nat /\ n \in 0 .. Len(nuevos)
      /\ t.cola["READY"] \in Seq(Pids) /\ Len(t.cola["READY"]) \in Nat
      /\ Len(t.cola["EXEC"]) \in Nat /\ Len(t.cola["BLOCK"]) \in Nat
      /\ Len(t.cola["READY_PRIORIDAD"]) \in Nat
  BY <1>2, AdmitidosTipo, ColaTipo DEF Colas
<1>7. n > 0 => Concurrentes(t) + n <= t.grado
  BY <1>2, AdmitidosAceptados
<1>8. u.cola["NEW"] = SubSeq(nuevos, n + 1, Len(nuevos))
  BY <1>5
<1>9. Len(u.cola["NEW"]) = Len(nuevos) - n /\ IsSuffix(u.cola["NEW"], nuevos)
  <2> HIDE DEF n, u
  <2> DEFINE b == SubSeq(nuevos, n + 1, Len(nuevos))
  <2>1. Len(b) = Len(nuevos) - n /\ IsSuffix(b, nuevos)
    BY <1>6, SufijoSubSeq
  <2>2. u.cola["NEW"] = b
    BY <1>5
  <2> HIDE DEF b
  <2> QED
    BY ONLY <2>1, <2>2, Zenon
<1>10. k'.cola["NEW"] = u.cola["NEW"] /\ Concurrentes(k') = Concurrentes(u)
  BY <1>4, <1>5, CortoPlazoConcurrentes
<1> HIDE DEF u, n, listos
<1>11. Concurrentes(u) = Concurrentes(t) + n
  BY <1>2, LargoPlazoConcurrentes DEF u, n
<1>12. n > 0
  BY <1>3, <1>6, <1>9, <1>10
<1> QED
  BY <1>3, <1>7, <1>9, <1>10, <1>11, <1>12

\* The long term planner admits up to the degree of multiprogramming in force
\* at its turn and in the order of creation, for every value of the constants.
THEOREM Grado_Respetado == Spec => GradoRespetado
<1>1. Init => Inductivo
  BY InicialInductivo
<1>2. Inductivo /\ [Next]_vars => Inductivo'
  BY PasoInductivo
<1>3. Inductivo /\ [Next]_vars =>
         [Len(k'.cola["NEW"]) < Len(k.cola["NEW"]) /\ HiloPlanificador =>
             /\ Concurrentes(k') <= k.grado
             /\ IsSuffix(k'.cola["NEW"], k.cola["NEW"])]_vars
  BY TurnoRespetaGrado
<1> QED
  BY <1>1, <1>2, <1>3, PTL DEF Spec, GradoRespetado

-----------------------------------------------------------------------------
(* No lost admission, while nobody is killed and the degree is not changed.*)

\* The planner could admit the head of NEW.
Admisible(s) ==
    /\ ~ s.caido /\ ~ s.detener /\ s.cola["NEW"] # << >>
    /\ Concurrentes(s) < s.grado /\ s.pcb[s.cola["NEW"][1]].memoria_aceptado

\* In NEW only the last process may be waiting for memoria, because the
\* operator waits too: a rejection uncovers nobody.
EnFila(s) ==
    \A n \in 1 .. Len(s.cola["NEW"]) :
        n < Len(s.cola["NEW"]) => s.pcb[s.cola["NEW"][n]].memoria_aceptado

\* The invariant of the admissions.
Admision(s) == (Admisible(s) => s.planificador_iniciar > 0) /\ EnFila(s)

\* Whom the loop of planificacion_largo_plazo admits can be admitted.
LEMMA AdmitidosAdmisibles ==
    ASSUME NEW s \in EstadoKernel, Admitidos(s) > 0
    PROVE  /\ s.cola["NEW"] # << >> /\ Concurrentes(s) < s.grado
           /\ s.pcb[s.cola["NEW"][1]].memoria_aceptado
<1> DEFINE n == Admitidos(s)
           c == Concurrentes(s)
           g == s.grado
<1>1. n \in 0 .. Len(s.cola["NEW"]) /\ Len(s.cola["NEW"]) \in Nat
  BY AdmitidosTipo, ColaTipo DEF Colas
<1>2. /\ \A i \in 1 .. n : s.pcb[s.cola["NEW"][i]].memoria_aceptado
      /\ c + n <= g
  BY AdmitidosAceptados
<1>3. c \in Nat /\ g \in Nat
  BY ConcurrentesTipo
<1> HIDE DEF n, c, g
<1>4. n > 0
  BY DEF n
<1>5. 1 \in 1 .. n /\ Len(s.cola["NEW"]) # 0
  BY <1>1, <1>4
<1>6. c < g
  BY <1>1, <1>2, <1>3, <1>4
<1> QED
  BY <1>2, <1>5, <1>6 DEF c, g

\* When the loop stops there is nobody left to admit, and NEW keeps its order.
LEMMA LargoPlazoAgota ==
    ASSUME NEW s, Orden(s, {}), EnFila(s)
    PROVE  LET t == CortoPlazo(LargoPlazo(s))
           IN  ~ Admisible(t) /\ EnFila(t)
<1> DEFINE nuevos == s.cola["NEW"]
           T == {n \in 0 .. Len(nuevos) :
                    \/ n = Len(nuevos)
                    \/ Concurrentes(s) + n >= s.grado
                    \/ ~ s.pcb[nuevos[n + 1]].memoria_aceptado}
           n == Admitidos(s)
           u == LargoPlazo(s)
           t == CortoPlazo(u)
<1>1. s \in EstadoKernel /\ nuevos \in Seq(Pids) /\ Len(nuevos) \in Nat
  BY OrdenTipo, ColaTipo DEF Colas
<1>2. n \in T
  <2>1. T \in SUBSET Nat /\ T # {}
    BY <1>1
  <2> QED
    BY <2>1, MinimoNat DEF Admitidos
<1>3. /\ Orden(u, {}) /\ u.cola["NEW"] = SubSeq(nuevos, n + 1, Len(nuevos))
      /\ u.pcb = s.pcb /\ u.grado = s.grado /\ Concurrentes(u) = Concurrentes(s) + n
  BY <1>1, LargoPlazoContinua, LargoPlazoCampos, LargoPlazoConcurrentes DEF Continua
<1> HIDE DEF nuevos, u, n
<1>4. n \in 0 .. Len(nuevos) /\ n \in Nat
  BY <1>1, <1>2
<1>5. /\ Len(u.cola["NEW"]) = Len(nuevos) - n
      /\ \A j \in 1 .. Len(nuevos) - n : u.cola["NEW"][j] = nuevos[n + j] /\ nuevos[n + j] \in Pids
  <2>1. \A j \in 1 .. Len(nuevos) - n : n + j \in 1 .. Len(nuevos)
    BY <1>1, <1>4
  <2> QED
    BY <1>1, <1>3, <1>4, <2>1, SubSeqProperties, ElementOfSeq
<1>6. /\ Orden(t, {}) /\ Sigue(u, t, {}) /\ t.cola["NEW"] = u.cola["NEW"]
      /\ Concurrentes(t) = Concurrentes(u) /\ t.grado = u.grado
  BY <1>3, CortoPlazoContinua, CortoPlazoConcurrentes, OrdenTipo DEF Continua
<1> HIDE DEF t
<1>7. ASSUME NEW j \in 1 .. Len(nuevos) - n
      PROVE  /\ t.cola["NEW"][j] = nuevos[n + j]
             /\ t.pcb[nuevos[n + j]].memoria_aceptado = s.pcb[nuevos[n + j]].memoria_aceptado
  <2> DEFINE q == nuevos[n + j]
  <2>1. t.cola["NEW"][j] = q /\ q \in Pids
    BY <1>5, <1>6
  <2>2. q \in Range(t.cola["NEW"])
    <3>1. t.cola["NEW"] \in Seq(Pids) /\ Len(t.cola["NEW"]) = Len(nuevos) - n
      BY <1>5, <1>6, OrdenTipo, ColaTipo DEF Colas
    <3> QED
      BY <2>1, <3>1 DEF Range
  <2> HIDE DEF q
  <2>3. t.procesos[q] = "NEW"
    BY <1>6, <2>1, <2>2 DEF Orden, Esta, Colas
  <2>4. t.pcb[q].memoria_aceptado = u.pcb[q].memoria_aceptado
    BY <1>6, <2>1, <2>3 DEF Sigue
  <2> QED
    BY <1>3, <2>1, <2>4, Zenon DEF q
<1>8. ~ Admisible(t)
  <2> SUFFICES ASSUME Admisible(t)
               PROVE  FALSE
    OBVIOUS
  <2>1. Len(t.cola["NEW"]) # 0 /\ Concurrentes(t) < t.grado
    <3>1. t.cola["NEW"] \in Seq(Pids)
      BY <1>6, OrdenTipo, ColaTipo DEF Colas
    <3> QED
      BY <3>1, EmptySeq DEF Admisible
  <2>2. 1 \in 1 .. Len(nuevos) - n /\ n # Len(nuevos)
    BY <1>1, <1>4, <1>5, <1>6, <2>1
  <2>3. s.pcb[nuevos[n + 1]].memoria_aceptado
    BY <1>7, <2>2 DEF Admisible
  <2>4. Concurrentes(s) + n >= s.grado
    BY <1>2, <2>2, <2>3
  <2>5. Concurrentes(s) \in Nat /\ s.grado \in Nat
    BY <1>1, ConcurrentesTipo
  <2> QED
    BY <1>3, <1>4, <1>6, <2>1, <2>4, <2>5
<1>9. EnFila(t)
  <2> SUFFICES ASSUME NEW j \in 1 .. Len(t.cola["NEW"]), j < Len(t.cola["NEW"])
               PROVE  t.pcb[t.cola["NEW"][j]].memoria_aceptado
    BY DEF EnFila
  <2>1. j \in 1 .. Len(nuevos) - n /\ n + j \in 1 .. Len(nuevos) /\ n + j < Len(nuevos)
    BY <1>1, <1>4, <1>5, <1>6
  <2>2. s.pcb[nuevos[n + j]].memoria_aceptado
    BY <2>1 DEF EnFila, nuevos
  <2> QED
    BY <1>7, <2>1, <2>2
<1> QED
  BY <1>8, <1>9 DEF t, u

\* INICIAR_PROCESO adds at the end of NEW somebody memoria has not accepted.
LEMMA NuevoAdmision ==
    ASSUME NEW s, Orden(s, {}), NEW p \in Pids, s.procesos[p] = SinEstado, Admision(s),
           \A q \in Range(s.cola["NEW"]) : s.pcb[q].memoria_aceptado
    PROVE  Admision(NuevoProceso(s, p))
<1> DEFINE t == NuevoProceso(s, p)
           nuevos == s.cola["NEW"]
           tras == Append(nuevos, p)
<1>1. /\ t.pid = p /\ t.caido = s.caido /\ t.detener = s.detener
      /\ t.planificador_iniciar = s.planificador_iniciar
      /\ t.pcb = [s.pcb EXCEPT ![p] = PcbCrear]
      /\ t.cola = [s.cola EXCEPT !["NEW"] = tras]
  <2> HIDE DEF t, tras
  <2>1. Orden(s, {}) /\ s.procesos[p] = SinEstado
    OBVIOUS
  <2>2. /\ NuevoProceso(s, p).pid = p /\ NuevoProceso(s, p).caido = s.caido
        /\ NuevoProceso(s, p).detener = s.detener
        /\ NuevoProceso(s, p).planificador_iniciar = s.planificador_iniciar
    BY <2>1, NuevoProcesoOrden
  <2>3. NuevoProceso(s, p).pcb = [s.pcb EXCEPT ![p] = PcbCrear]
    BY <2>1, NuevoProcesoOrden
  <2>4. NuevoProceso(s, p).cola = [s.cola EXCEPT !["NEW"] = Append(s.cola["NEW"], p)]
    BY <2>1, NuevoProcesoOrden
  <2> QED
    BY <2>2, <2>3, <2>4 DEF t, tras
<1>2. s \in EstadoKernel /\ s.pcb \in [Pids -> Pcb] /\ s.cola \in [Colas -> Seq(Pids)]
  <2>1. s \in EstadoKernel
    BY OrdenTipo
  <2> QED
    BY <2>1, Zenon DEF EstadoKernel
<1>3. t.grado = s.grado
  <2> DEFINE x == [s EXCEPT !.pid = p, !.pcb[p] = PcbCrear]
             y == Push(x, "NEW", p)
  <2>1. x.grado = s.grado /\ DOMAIN x = DOMAIN s
    BY <1>2, Zenon DEF EstadoKernel
  <2>2. "grado" \in DOMAIN s
    BY <1>2, Zenon DEF EstadoKernel
  <2> HIDE DEF x
  <2>3. y.grado = x.grado /\ DOMAIN y = DOMAIN x
    BY <2>1, <2>2, Zenon DEF Push
  <2>4. t = [y EXCEPT !.a_memoria = Append(@, [op |-> "NUEVO_PROCESO", pid |-> p])]
    BY DEF NuevoProceso, x
  <2> HIDE DEF y, t
  <2> QED
    BY <2>1, <2>2, <2>3, <2>4, Zenon
<1>4. /\ nuevos \in Seq(Pids) /\ Len(nuevos) \in Nat /\ Len(tras) = Len(nuevos) + 1
      /\ tras[Len(nuevos) + 1] = p /\ \A n \in 1 .. Len(nuevos) : tras[n] = nuevos[n]
  BY <1>2, UltimoEscrito DEF Colas
<1> HIDE DEF t, tras
<1>5. t.cola["NEW"] = tras /\ Concurrentes(t) = Concurrentes(s)
  BY <1>1, <1>2 DEF Colas, Concurrentes
<1>6. ~ t.pcb[p].memoria_aceptado
  BY <1>1, <1>2 DEF PcbCrear
<1>7. ASSUME NEW n \in 1 .. Len(nuevos)
      PROVE  /\ tras[n] = nuevos[n] /\ s.pcb[nuevos[n]].memoria_aceptado
             /\ t.pcb[tras[n]].memoria_aceptado
  <2>1. nuevos[n] \in Range(nuevos) /\ nuevos[n] \in Pids
    BY <1>4, ElementOfSeq DEF Range
  <2>2. nuevos[n] # p
    BY <1>2, <2>1, OrdenTipo DEF Orden, Esta, Colas, SinEstado
  <2> QED
    BY <1>1, <1>2, <1>4, <2>1, <2>2
<1> HIDE DEF nuevos
<1>8. EnFila(t)
  <2> SUFFICES ASSUME NEW n \in 1 .. Len(tras), n < Len(tras)
               PROVE  t.pcb[tras[n]].memoria_aceptado
    BY <1>5 DEF EnFila
  <2>1. n \in 1 .. Len(nuevos)
    BY <1>4
  <2> QED
    BY <1>7, <2>1
<1>9. Admisible(t) => Admisible(s)
  <2> SUFFICES ASSUME Admisible(t)
               PROVE  Admisible(s)
    OBVIOUS
  <2>1. tras[1] # p
    BY <1>5, <1>6 DEF Admisible
  <2>2. 1 \in 1 .. Len(nuevos)
    BY <1>4, <2>1
  <2>3. nuevos # << >> /\ s.pcb[nuevos[1]].memoria_aceptado
    BY <1>4, <1>7, <2>2
  <2> QED
    BY <1>1, <1>3, <1>5, <2>3 DEF Admisible, nuevos
<1> QED
  BY <1>1, <1>8, <1>9 DEF Admision, t

\* The answer of memoria: an acceptance posts, a rejection takes the last
\* process of NEW away.
LEMMA RespuestaAdmision ==
    ASSUME NEW s, Orden(s, {}), NEW p \in Pids, NEW leido \in BOOLEAN, Admision(s),
           EnCreacion(s, p)
    PROVE  Admision(ResponderNuevoProceso(s, p, leido))
<1> DEFINE a == [s EXCEPT !.pcb[p].memoria_aceptado = TRUE]
           r == Revertir(s, p)
           nuevos == s.cola["NEW"]
<1>1. s \in EstadoKernel /\ nuevos \in Seq(Pids) /\ Len(nuevos) \in Nat
  BY OrdenTipo, ColaTipo DEF Colas
<1>2. ResponderNuevoProceso(s, p, leido) \in
         IF s.procesos[p] = "EXIT" THEN {s} ELSE IF leido THEN {Avisar(a)} ELSE {r}
  BY DEF ResponderNuevoProceso, EnCreacion, SinEstado, Orden, Colas
<1>3. CASE s.procesos[p] = "EXIT"
  BY <1>2, <1>3
<1>4. CASE s.procesos[p] # "EXIT" /\ leido
  <2> DEFINE t == Avisar(a)
  <2>1. s.pcb \in [Pids -> Pcb] /\ s.planificador_iniciar \in Nat
    BY <1>1, SemaforoTipo, Zenon DEF EstadoKernel
  <2>2. a.pcb = [s.pcb EXCEPT ![p].memoria_aceptado = TRUE] /\ DOMAIN a = DOMAIN s
        /\ a.cola = s.cola /\ a.planificador_iniciar = s.planificador_iniciar
    BY <1>1, Zenon DEF EstadoKernel
  <2> HIDE DEF a
  <2>3. /\ t.pcb = a.pcb /\ t.cola = s.cola
        /\ t.planificador_iniciar = s.planificador_iniciar + 1
    <3>1. {"pcb", "cola", "planificador_iniciar"} \subseteq DOMAIN a
      BY <1>1, <2>2 DEF EstadoKernel
    <3> QED
      BY <2>2, <3>1, Zenon DEF Avisar
  <2>4. \A q \in Pids : s.pcb[q].memoria_aceptado => t.pcb[q].memoria_aceptado
    BY <2>1, <2>2, <2>3 DEF Pcb
  <2> HIDE DEF t
  <2>5. \A n \in 1 .. Len(nuevos) : nuevos[n] \in Pids
    BY <1>1, ElementOfSeq
  <2>6. EnFila(t)
    BY <2>3, <2>4, <2>5 DEF Admision, EnFila
  <2>7. t.planificador_iniciar > 0
    BY <2>1, <2>3
  <2> QED
    BY <1>2, <1>4, <2>6, <2>7 DEF Admision, t
<1>5. CASE s.procesos[p] # "EXIT" /\ ~ leido
  <2>1. s.procesos[p] = "NEW" /\ ~ s.pcb[p].memoria_aceptado
    BY <1>5 DEF EnCreacion
  <2>2. /\ Orden(r, {}) /\ r.detener = s.detener /\ r.caido = s.caido
        /\ r.planificador_iniciar = s.planificador_iniciar
        /\ r.procesos = [s.procesos EXCEPT ![p] = SinEstado] /\ r.pcb = s.pcb
        /\ \A e \in Colas \ {"NEW"} : r.cola[e] = s.cola[e]
    BY <2>1, RevertirOrden
  <2>3. r.grado = s.grado
    BY <1>1, Zenon DEF Revertir, EstadoKernel
  <2>4. s.procesos \in [Pids -> Colas \cup {SinEstado}]
    BY <1>1, Zenon DEF EstadoKernel
  <2> HIDE DEF r
  <2>5. r.cola["NEW"] \in Seq(Pids)
    BY <2>2, OrdenTipo, ColaTipo DEF Colas
  <2>6. \A q \in Range(r.cola["NEW"]) : q \in Range(nuevos) /\ q # p
    <3> SUFFICES ASSUME NEW q \in Range(r.cola["NEW"])
                 PROVE  q \in Range(nuevos) /\ q # p
      OBVIOUS
    <3>1. q \in Pids
      BY <2>5, RangoTipo
    <3>2. r.procesos[q] = "NEW"
      BY <2>2, <3>1 DEF Orden, Esta, Colas
    <3>3. q # p /\ s.procesos[q] = "NEW"
      BY <2>2, <2>4, <3>1, <3>2 DEF SinEstado
    <3> QED
      BY <3>1, <3>3 DEF Orden, Esta, Colas
  <2>7. PICK m \in 1 .. Len(nuevos) : nuevos[m] = p
    <3>1. p \in Range(nuevos)
      BY <2>1 DEF Orden, Esta, Colas
    <3> QED
      BY <1>1, <3>1, LenProperties DEF Range
  <2>8. m = Len(nuevos)
    BY <1>1, <2>1, <2>7 DEF Admision, EnFila
  <2>9. ASSUME NEW q \in Range(r.cola["NEW"])
        PROVE  s.pcb[q].memoria_aceptado
    <3>1. PICK j \in 1 .. Len(nuevos) : nuevos[j] = q
      BY <1>1, <2>6, LenProperties DEF Range
    <3>2. j # Len(nuevos)
      BY <2>6, <2>7, <2>8, <3>1
    <3>3. j < Len(nuevos)
      BY <1>1, <3>2
    <3> QED
      BY <3>1, <3>3 DEF Admision, EnFila
  <2>10. \A j \in 1 .. Len(r.cola["NEW"]) : r.cola["NEW"][j] \in Range(r.cola["NEW"])
    BY <2>5, LenProperties DEF Range
  <2>11. EnFila(r)
    BY <2>2, <2>9, <2>10 DEF EnFila
  <2>12. Admisible(r) => Admisible(s)
    <3> SUFFICES ASSUME Admisible(r)
                 PROVE  Admisible(s)
      OBVIOUS
    <3>1. 1 \in 1 .. Len(r.cola["NEW"])
      BY <2>5, PrimeroLeido DEF Admisible
    <3>2. PICK j \in 1 .. Len(nuevos) : nuevos[j] = r.cola["NEW"][1]
      BY <1>1, <2>6, <2>10, <3>1, LenProperties DEF Range
    <3>3. j # m
      BY <2>6, <2>7, <2>10, <3>1, <3>2
    <3>4. 1 \in 1 .. Len(nuevos) /\ 1 < Len(nuevos)
      BY <1>1, <2>8, <3>2, <3>3
    <3>5. nuevos # << >> /\ s.pcb[nuevos[1]].memoria_aceptado
      BY <1>1, <3>4 DEF Admision, EnFila
    <3>6. Concurrentes(r) = Concurrentes(s)
      BY <2>2 DEF Concurrentes, Colas
    <3> QED
      BY <2>2, <2>3, <3>5, <3>6 DEF Admisible
  <2> QED
    BY <1>2, <1>5, <2>2, <2>11, <2>12 DEF Admision, r
<1> QED
  BY <1>3, <1>4, <1>5

-----------------------------------------------------------------------------
(* What happens to the process in EXEC, or to one in BLOCK, does not touch  *)
(* NEW.                                                                    *)

\* The list NEW is the same.
MismaFila(s, t) == t.cola["NEW"] = s.cola["NEW"]

\* A move between two lists other than NEW.
LEMMA FilaEmpujar ==
    ASSUME NEW s \in EstadoKernel, NEW e \in Colas \ {"NEW"}, NEW f \in Colas \ {"NEW"},
           NEW q, NEW p
    PROVE  MismaFila(s, Push([s EXCEPT !.cola[e] = q], f, p))
<1> DEFINE t == Push([s EXCEPT !.cola[e] = q], f, p)
<1>1. /\ s.cola \in [Colas -> Seq(Pids)] /\ "NEW" \in Colas
      /\ t.cola = [[s.cola EXCEPT ![e] = q] EXCEPT ![f] = Append(@, p)]
  <2>1. "NEW" \in Colas
    BY DEF Colas
  <2> QED
    BY <2>1, Zenon DEF EstadoKernel, Push
<1> HIDE DEF t
<1>2. MismaFila(s, t)
  BY <1>1 DEF MismaFila
<1> QED
  BY <1>2 DEF t

\* The transitions out of EXEC and out of BLOCK.
LEMMA FilaTransiciones ==
    ASSUME NEW s \in EstadoKernel, NEW p \in Pids
    PROVE  /\ \A a \in Colas \ {"NEW"} : MismaFila(s, Mover(s, "EXEC", a))
           /\ MismaFila(s, ManejarBlockReady(s, p))
           /\ \A resto \in BOOLEAN : MismaFila(s, ManejarExecReady(s, p, resto))
<1>1. {"EXEC", "BLOCK", "READY", "READY_PRIORIDAD"} \subseteq Colas \ {"NEW"}
  BY DEF Colas
<1>2. ASSUME NEW u \in EstadoKernel, NEW a \in Colas \ {"NEW"}
      PROVE  MismaFila(u, Mover(u, "EXEC", a))
  BY <1>1, <1>2, FilaEmpujar DEF Mover, Pop, MismaFila
<1>3. ASSUME NEW a \in Colas \ {"NEW"}
      PROVE  MismaFila(s, SacarDeBlock(s, p, a))
  BY <1>1, <1>3, FilaEmpujar DEF SacarDeBlock, MismaFila
<1>4. MismaFila(s, ManejarBlockReady(s, p))
  BY <1>1, <1>3 DEF ManejarBlockReady, BlockReady, BlockReadyMayorPrioridad
<1>5. ASSUME NEW resto \in BOOLEAN
      PROVE  MismaFila(s, ManejarExecReady(s, p, resto))
  <2> DEFINE t == InterrumpirTemporizador(s)
             x == [t.pcb[p] EXCEPT !.quantum_largo = TRUE]
             u == [t EXCEPT !.pcb[p] = x]
  <2>1. t \in EstadoKernel /\ Quieto(s, t)
    BY InterrumpirTemporizadorConserva, Tipado, QuietoSimple
  <2>2. ManejarExecReady(s, p, resto) \in
           {s, Mover(s, "EXEC", "READY"), Mover(t, "EXEC", "READY"),
            Mover(u, "EXEC", "READY_PRIORIDAD")}
    BY DEF ManejarExecReady, ExecReady, ExecReadyMayorPrioridad
  <2> HIDE DEF t
  <2>3. x \in Pcb /\ x.memoria_aceptado = t.pcb[p].memoria_aceptado
    <3>1. t.pcb[p] \in Pcb
      BY <2>1, PcbTipo
    <3> QED
      BY <3>1, PcbCampos DEF Pcb
  <2> HIDE DEF x
  <2>4. u \in EstadoKernel /\ Quieto(t, u)
    BY <2>1, <2>3, ConPcb, Tipado, QuietoPcb
  <2> HIDE DEF u
  <2>5. t.cola = s.cola /\ u.cola = s.cola
    BY <2>1, <2>4 DEF Quieto
  <2>6. /\ MismaFila(s, Mover(s, "EXEC", "READY"))
        /\ MismaFila(t, Mover(t, "EXEC", "READY"))
        /\ MismaFila(u, Mover(u, "EXEC", "READY_PRIORIDAD"))
    BY <1>1, <1>2, <2>1, <2>4
  <2> QED
    BY <2>2, <2>5, <2>6 DEF MismaFila
<1> QED
  BY <1>2, <1>4, <1>5

\* proceso_matar of who is not in NEW.
LEMMA FilaMatar ==
    ASSUME NEW s \in EstadoKernel, NEW p \in Pids, s.procesos[p] # "NEW"
    PROVE  MismaFila(s, Matar(s, p)) /\ MismaFila(s, MatarEnMemoria(s, p))
<1>1. ASSUME NEW t \in EstadoKernel, t.procesos[p] # "NEW"
      PROVE  MismaFila(t, Matar(t, p))
  <2> DEFINE e == t.procesos[p]
             q == Quitar(t.cola[e], p)
             u == [t EXCEPT !.cola[e] = q, !.pcb[p] = PcbCrear, !.procesos[p] = "EXIT"]
  <2>1. Matar(t, p) \in {Caer(t), t, u}
    BY DEF Matar
  <2>2. MismaFila(t, Caer(t))
    BY <1>1, QuietoSimple DEF Quieto, MismaFila
  <2>3. u.cola = [t.cola EXCEPT ![e] = q] /\ t.cola \in [Colas -> Seq(Pids)]
    <3> HIDE DEF e, q
    <3> QED
      BY <1>1, Zenon DEF EstadoKernel
  <2>4. "NEW" \in Colas
    BY DEF Colas
  <2> HIDE DEF u, q
  <2>5. MismaFila(t, u)
    BY <1>1, <2>3, <2>4 DEF MismaFila
  <2> QED
    BY <2>1, <2>2, <2>5 DEF MismaFila
<1>2. MismaFila(s, MatarEnMemoria(s, p))
  <2> DEFINE t == AvisarMemoriaFinalizacion(s, p)
  <2>1. t \in EstadoKernel
    BY AvisarMemoriaConserva, Tipado
  <2>2. t.procesos = s.procesos /\ t.cola = s.cola
    BY Zenon DEF EstadoKernel, AvisarMemoriaFinalizacion
  <2> HIDE DEF t
  <2>3. MismaFila(t, Matar(t, p))
    BY <1>1, <2>1, <2>2
  <2> QED
    BY <2>2, <2>3 DEF MatarEnMemoria, MismaFila, t
<1> QED
  BY <1>1, <1>2

\* The ends of the process in EXEC.
LEMMA FilaFinalizar ==
    ASSUME NEW s, Orden(s, {}), NEW p \in Pids, Esta(s, "EXEC", p)
    PROVE  /\ MismaFila(s, FinalizarExito(s, p))
           /\ MismaFila(s, FinalizarRecursoInvalido(s, p))
           /\ MismaFila(s, FinalizarInterfazInvalida(s, p))
<1> DEFINE m == Mover(s, "EXEC", "EXIT")
           t == ExecExit(s)
           u == Matar(t, p)
<1>1. s \in EstadoKernel /\ s.procesos[p] = "EXEC"
  BY OrdenTipo DEF Orden, Colas
<1>2. s.cola["EXEC"] # << >> /\ Head(s.cola["EXEC"]) = p /\ Finalizable(s, p)
  BY <1>1, UnicoEnExec DEF Finalizable, SinEstado, Orden
<1>3. m \in EstadoKernel /\ MismaFila(s, m) /\ t = Avisar(m)
  BY <1>1, <1>2, MoverConserva, Tipado, FilaTransiciones DEF ExecExit, Colas
<1>4. Orden(t, {p}) /\ t \in EstadoKernel /\ t.procesos[p] = "EXIT"
  <2>1. Orden(t, {p})
    BY SalirOrden
  <2> HIDE DEF t
  <2> QED
    BY <2>1, OrdenTipo DEF Orden
<1>5. /\ FinalizarExito(s, p) = MatarEnMemoria(t, p)
      /\ FinalizarRecursoInvalido(s, p) = MatarEnMemoria(u, p)
      /\ FinalizarInterfazInvalida(s, p) = MatarEnMemoria(t, p)
  BY <1>1, <1>2 DEF FinalizarExito, SalirDeExec, FinalizarRecursoInvalido,
                    FinalizarInterfazInvalida, MatarEnMemoria
<1> HIDE DEF m, t
<1>6. MismaFila(s, t)
  BY <1>3, QuietoSimple DEF Quieto, MismaFila
<1>7. MismaFila(t, u) /\ MismaFila(t, MatarEnMemoria(t, p))
  BY <1>4, FilaMatar
<1>8. u \in EstadoKernel /\ u.procesos[p] # "NEW"
  <2>1. Orden(u, {p} \ {p}) /\ Sigue(t, u, {p})
    BY <1>4, MatarOrden
  <2>2. u.procesos[p] = "NEW" => t.procesos[p] = "NEW"
    BY <2>1 DEF Sigue
  <2> QED
    BY <1>4, <2>1, <2>2, OrdenTipo
<1> HIDE DEF u
<1>9. MismaFila(u, MatarEnMemoria(u, p))
  BY <1>8, FilaMatar
<1> QED
  BY <1>5, <1>6, <1>7, <1>9 DEF MismaFila

\* kernel_wait and kernel_signal, of the process in EXEC.
LEMMA FilaRecursos ==
    ASSUME NEW s, Orden(s, {}), NEW p \in Pids, Esta(s, "EXEC", p), NEW r,
           NEW resto \in BOOLEAN
    PROVE  /\ MismaFila(s, Wait(s, p, r, resto))
           /\ \A cabeza \in 0 .. MaxPid : MismaFila(s, Signal(s, p, r, resto, cabeza))
<1>1. s \in EstadoKernel /\ {"EXEC", "BLOCK"} \subseteq Colas \ {"NEW"}
  BY OrdenTipo DEF Colas
<1>2. CASE r \notin Recursos
  <2> DEFINE t == GuardarQuantum(s, p, resto)
  <2>1. t \in EstadoKernel /\ Quieto(s, t)
    BY <1>1, GuardarQuantumConserva, Tipado, QuietoGuardar
  <2>2. /\ Wait(s, p, r, resto) = FinalizarRecursoInvalido(t, p)
        /\ \A cabeza : Signal(s, p, r, resto, cabeza) = FinalizarRecursoInvalido(s, p)
    BY <1>2 DEF Wait, Signal
  <2> HIDE DEF t
  <2>3. Orden(t, {}) /\ Esta(t, "EXEC", p) /\ MismaFila(s, t)
    BY <2>1, QuietoOrden DEF Quieto, MismaFila
  <2>4. /\ MismaFila(t, FinalizarRecursoInvalido(t, p))
        /\ MismaFila(s, FinalizarRecursoInvalido(s, p))
    BY <2>3, FilaFinalizar
  <2> QED
    BY <2>2, <2>3, <2>4 DEF MismaFila
<1>3. CASE r \in Recursos
  <2>1. ASSUME NEW t \in EstadoKernel
        PROVE  MismaFila(t, BloquearEnRecurso(t, p, r, resto))
    <3> DEFINE g == GuardarQuantum(t, p, resto)
               x == [g.recursos[r] EXCEPT !.bloqueados = Append(@, p)]
               u == [g EXCEPT !.recursos[r] = x]
               y == [g.recursos EXCEPT ![r] = x]
    <3>1. g \in EstadoKernel /\ Quieto(t, g)
      BY <2>1, GuardarQuantumConserva, Tipado, QuietoGuardar
    <3>2. BloquearEnRecurso(t, p, r, resto) = Mover(u, "EXEC", "BLOCK")
      BY DEF BloquearEnRecurso, ExecBlock
    <3> HIDE DEF g
    <3>3. x \in Recurso
      BY <1>3, <3>1, RecursoTipo, RecursoCampos, AppendProperties
    <3>4. u \in EstadoKernel
      BY <1>3, <3>1, <3>3, ConRecurso, Tipado
    <3>5. u = [g EXCEPT !.recursos = y]
      OBVIOUS
    <3> HIDE DEF u, y
    <3>6. Quieto(g, u)
      BY <3>1, <3>5, QuietoRecursos
    <3>7. MismaFila(u, Mover(u, "EXEC", "BLOCK"))
      BY <1>1, <3>4, FilaTransiciones
    <3> QED
      BY <3>1, <3>2, <3>6, <3>7 DEF Quieto, MismaFila
  <2>2. MismaFila(s, Wait(s, p, r, resto))
    <3> DEFINE t == Tomar(s, p, r)
               x == [t.recursos[r] EXCEPT !.instancias = @ - 1]
               u == [t EXCEPT !.recursos[r] = x]
               y == [t.recursos EXCEPT ![r] = x]
    <3>1. t \in EstadoKernel /\ Quieto(s, t)
      BY <1>1, <1>3, TomarConserva, Tipado, QuietoTomar
    <3>2. Wait(s, p, r, resto) \in {BloquearEnRecurso(t, p, r, resto),
                                    BloquearEnRecurso(u, p, r, resto),
                                    ManejarExecReady(u, p, resto)}
      BY <1>3 DEF Wait
    <3> HIDE DEF t
    <3>3. x \in Recurso
      <4>1. t.recursos[r] \in Recurso /\ t.recursos[r].instancias \in Int
        BY <1>3, <3>1, RecursoTipo
      <4>2. t.recursos[r].instancias - 1 \in Int
        BY <4>1
      <4> QED
        BY <4>1, <4>2, RecursoCampos, Zenon
    <3>4. u \in EstadoKernel
      BY <1>3, <3>1, <3>3, ConRecurso, Tipado
    <3>5. u = [t EXCEPT !.recursos = y]
      OBVIOUS
    <3> HIDE DEF u, y
    <3>6. Quieto(t, u)
      BY <3>1, <3>5, QuietoRecursos
    <3>7. /\ MismaFila(t, BloquearEnRecurso(t, p, r, resto))
          /\ MismaFila(u, BloquearEnRecurso(u, p, r, resto))
          /\ MismaFila(u, ManejarExecReady(u, p, resto))
      BY <2>1, <3>1, <3>4, FilaTransiciones
    <3> QED
      BY <3>1, <3>2, <3>6, <3>7 DEF Quieto, MismaFila
  <2>3. ASSUME NEW cabeza \in 0 .. MaxPid
        PROVE  MismaFila(s, Signal(s, p, r, resto, cabeza))
    <3> DEFINE t == Liberar(s, p, r)
               u == SinCabeza(t, r)
               v == IF u.procesos[cabeza] = "BLOCK" THEN ManejarBlockReady(u, cabeza) ELSE u
    <3>1. t \in EstadoKernel /\ Quieto(s, t)
      BY <1>1, <1>3, LiberarConserva, Tipado, QuietoTomar
    <3>2. Signal(s, p, r, resto, cabeza) =
              IF ~ HayQueDesbloquear(t, r) THEN ManejarExecReady(t, p, resto)
              ELSE IF cabeza = 0 \/ t.procesos[cabeza] = SinEstado THEN Caer(t)
              ELSE ManejarExecReady(v, p, resto)
      BY <1>3 DEF Signal, SinCabeza
    <3> HIDE DEF t
    <3>3. MismaFila(t, ManejarExecReady(t, p, resto)) /\ MismaFila(t, Caer(t))
      BY <3>1, FilaTransiciones, QuietoSimple DEF Quieto, MismaFila
    <3>4. ASSUME HayQueDesbloquear(t, r), cabeza # 0
          PROVE  MismaFila(t, ManejarExecReady(v, p, resto))
      <4>1. cabeza \in Pids
        BY <3>4, LimitesAssumption DEF Pids
      <4>2. u \in EstadoKernel /\ Quieto(t, u)
        BY <1>3, <3>1, <3>4, SinCabezaConserva, Tipado, QuietoTomar DEF HayQueDesbloquear
      <4> HIDE DEF u
      <4>3. v \in EstadoKernel /\ MismaFila(u, v)
        BY <4>1, <4>2, BlockConserva, Tipado, FilaTransiciones DEF MismaFila
      <4> HIDE DEF v
      <4>4. MismaFila(v, ManejarExecReady(v, p, resto))
        BY <4>3, FilaTransiciones
      <4> QED
        BY <4>2, <4>3, <4>4 DEF Quieto, MismaFila
    <3> HIDE DEF v
    <3>5. MismaFila(t, Signal(s, p, r, resto, cabeza))
      BY <3>2, <3>3, <3>4
    <3> QED
      BY <3>1, <3>5 DEF Quieto, MismaFila
  <2> QED
    BY <2>2, <2>3
<1> QED
  BY <1>2, <1>3

\* A request of the process in EXEC to a GENERIC interface, and the end of one.
LEMMA FilaIo ==
    ASSUME NEW s, Orden(s, {}), NEW p \in Pids
    PROVE  /\ \A pc \in 0 .. MaxPc, resto \in BOOLEAN : \A i :
                 Esta(s, "EXEC", p) => MismaFila(s, PedirIoGenSleep(s, p, pc, i, resto))
           /\ \A i \in Interfaces, registrada \in Interfaces :
                 MismaFila(s, CompletarIoGenSleep(s, i, p, registrada))
<1>1. s \in EstadoKernel /\ "BLOCK" \in Colas \ {"NEW", "EXEC"}
  BY OrdenTipo DEF Colas
<1>2. ASSUME NEW pc \in 0 .. MaxPc, NEW i, NEW resto \in BOOLEAN, Esta(s, "EXEC", p)
      PROVE  MismaFila(s, PedirIoGenSleep(s, p, pc, i, resto))
  <2> DEFINE t == GuardarQuantum(s, p, resto)
             a == ActualizarRegistros(t, p, pc)
             u == Mover(a, "EXEC", "BLOCK")
             v == [u EXCEPT !.pcb[p].proxima_io = i]
             w == [u EXCEPT !.io[i] = [ocupado |-> TRUE, pid |-> p]]
             e == EnviarIo(w, i, "IO_GEN_SLEEP", p)
  <2>1. t \in EstadoKernel /\ Quieto(s, t)
    BY <1>1, GuardarQuantumConserva, Tipado, QuietoGuardar
  <2>2. \/ PedirIoGenSleep(s, p, pc, i, resto) = FinalizarInterfazInvalida(t, p)
        \/ i \in Interfaces /\ PedirIoGenSleep(s, p, pc, i, resto) \in {Avisar(v), Avisar(e)}
    BY <1>2 DEF PedirIoGenSleep, ExecBlock
  <2> HIDE DEF t
  <2>3. MismaFila(s, FinalizarInterfazInvalida(t, p))
    <3>1. Orden(t, {}) /\ Esta(t, "EXEC", p)
      BY <1>2, <2>1, QuietoOrden
    <3>2. MismaFila(t, FinalizarInterfazInvalida(t, p))
      BY <3>1, FilaFinalizar
    <3> QED
      BY <2>1, <3>2 DEF Quieto, MismaFila
  <2>4. a \in EstadoKernel /\ Quieto(t, a)
    BY <2>1, ActualizarConserva, Tipado, QuietoGuardar
  <2> HIDE DEF a
  <2>5. u \in EstadoKernel /\ MismaFila(a, u)
    BY <1>1, <2>4, ExecEsCola, MoverConserva, Tipado, FilaTransiciones
  <2> HIDE DEF u
  <2>6. ASSUME i \in Interfaces
        PROVE  MismaFila(u, Avisar(v)) /\ MismaFila(u, Avisar(e))
    <3>1. v \in EstadoKernel /\ Quieto(u, v)
      <4>1. [u.pcb[p] EXCEPT !.proxima_io = i] \in Pcb
        BY <2>5, <2>6, PcbTipo, PcbCampos
      <4>2. v = [u EXCEPT !.pcb[p] = [u.pcb[p] EXCEPT !.proxima_io = i]]
        OBVIOUS
      <4>3. Quieto(u, v)
        BY <2>5, QuietoCampos
      <4> HIDE DEF v
      <4> QED
        BY <2>5, <4>1, <4>2, <4>3, ConPcb, Tipado
    <3> HIDE DEF v
    <3>2. w \in EstadoKernel /\ Quieto(u, w)
      BY <2>5, <2>6, InterfazTipo, ConIo, Tipado, QuietoIo
    <3> HIDE DEF w
    <3>3. e \in EstadoKernel /\ Quieto(w, e)
      BY <2>6, <3>2, EnviarIoConserva, Tipado, QuietoIo
    <3> HIDE DEF e
    <3>4. Quieto(v, Avisar(v)) /\ Quieto(e, Avisar(e))
      BY <3>1, <3>3, QuietoSimple
    <3> QED
      BY <3>1, <3>2, <3>3, <3>4 DEF Quieto, MismaFila
  <2>7. t.cola = s.cola /\ a.cola = s.cola
    BY <2>1, <2>4 DEF Quieto
  <2> HIDE DEF v, w, e
  <2> QED
    BY <2>2, <2>3, <2>5, <2>6, <2>7 DEF MismaFila
<1>3. ASSUME NEW i \in Interfaces, NEW registrada \in Interfaces
      PROVE  MismaFila(s, CompletarIoGenSleep(s, i, p, registrada))
  <2> DEFINE t == ManejarBlockReady(s, p)
             u == [t EXCEPT !.io[i] = [ocupado |-> FALSE, pid |-> 0]]
             v == ProximoIoGeneric(u, registrada)
  <2>1. ~ Esta(s, "EXIT", p)
    BY DEF Orden, Esta
  <2>2. CompletarIoGenSleep(s, i, p, registrada) \in {Avisar(s), Avisar(v)}
    BY <2>1 DEF CompletarIoGenSleep
  <2>3. t \in EstadoKernel /\ MismaFila(s, t)
    BY <1>1, BlockConserva, Tipado, FilaTransiciones
  <2> HIDE DEF t
  <2>4. u \in EstadoKernel /\ Quieto(t, u)
    BY <1>3, <2>3, InterfazTipo, ConIo, Tipado, QuietoIo
  <2> HIDE DEF u
  <2>5. v \in EstadoKernel /\ Quieto(u, v)
    BY <1>3, <2>4, ProximoIoConserva, Tipado, QuietoIo
  <2> HIDE DEF v
  <2>6. Quieto(s, Avisar(s)) /\ Quieto(v, Avisar(v))
    BY <1>1, <2>5, QuietoSimple
  <2> QED
    BY <2>2, <2>3, <2>4, <2>5, <2>6 DEF Quieto, MismaFila
<1> QED
  BY <1>2, <1>3

\* The packets of the CPU about the process in EXEC.
LEMMA FilaDispatch ==
    ASSUME NEW s, Orden(s, {}), NEW m \in Mensaje, NEW resto \in BOOLEAN,
           Esta(s, "EXEC", m.pid)
    PROVE  /\ MismaFila(s, AtenderProceso(s, m, resto))
           /\ MismaFila(s, AtenderResize(s, m, resto))
           /\ MismaFila(s, AtenderWait(s, m, resto))
           /\ \A cabeza \in 0 .. MaxPid : MismaFila(s, AtenderSignal(s, m, resto, cabeza))
<1> DEFINE p == m.pid
           i == InterrumpirTemporizador(s)
           g == GuardarQuantum(s, p, resto)
           a == ActualizarRegistros(s, p, m.pc)
<1>1. s \in EstadoKernel /\ p \in Pids /\ m.pc \in 0 .. MaxPc
  BY OrdenTipo, MensajeTipo
<1>2. s.procesos[p] \notin {SinEstado, "EXIT"}
  BY <1>1 DEF Orden, Colas, SinEstado
<1>3. /\ AtenderProceso(s, m, resto) \in
            {Avisar(FinalizarExito(i, p)), Avisar(ManejarExecReady(a, p, resto))}
      /\ AtenderResize(s, m, resto) \in {Avisar(s), Avisar(FinalizarExito(g, p))}
      /\ AtenderWait(s, m, resto) = Avisar(Wait(a, p, m.dato, resto))
      /\ \A cabeza : AtenderSignal(s, m, resto, cabeza) =
            Avisar(Signal(a, p, m.dato, resto, cabeza))
  BY <1>2 DEF AtenderProceso, AtenderResize, AtenderWait, AtenderSignal, FinalizarSinMemoria
<1>4. /\ i \in EstadoKernel /\ Quieto(s, i) /\ g \in EstadoKernel /\ Quieto(s, g)
      /\ a \in EstadoKernel /\ Quieto(s, a) /\ Esta(s, "EXEC", p)
  BY <1>1, InterrumpirTemporizadorConserva, GuardarQuantumConserva, ActualizarConserva,
     Tipado, QuietoSimple, QuietoGuardar
<1> HIDE DEF i, g, a, p
<1>5. /\ Orden(i, {}) /\ Esta(i, "EXEC", p) /\ Orden(g, {}) /\ Esta(g, "EXEC", p)
      /\ Orden(a, {}) /\ Esta(a, "EXEC", p)
      /\ i.cola = s.cola /\ g.cola = s.cola /\ a.cola = s.cola
  BY <1>4, QuietoOrden DEF Quieto
<1>6. ASSUME NEW t \in EstadoKernel
      PROVE  MismaFila(s, t) => MismaFila(s, Avisar(t))
  BY <1>1, <1>6, QuietoSimple DEF Quieto, MismaFila
<1>7. /\ FinalizarExito(i, p) \in EstadoKernel /\ FinalizarExito(g, p) \in EstadoKernel
      /\ MismaFila(s, FinalizarExito(i, p)) /\ MismaFila(s, FinalizarExito(g, p))
  BY <1>1, <1>4, <1>5, FinalizarConserva, Tipado, FilaFinalizar DEF MismaFila
<1>8. /\ ManejarExecReady(a, p, resto) \in EstadoKernel
      /\ MismaFila(s, ManejarExecReady(a, p, resto))
  BY <1>1, <1>4, <1>5, ManejarExecReadyConserva, Tipado, FilaTransiciones DEF MismaFila
<1>9. Wait(a, p, m.dato, resto) \in EstadoKernel /\ MismaFila(s, Wait(a, p, m.dato, resto))
  <2>1. MismaFila(a, Wait(a, p, m.dato, resto))
    BY <1>1, <1>5, FilaRecursos
  <2> QED
    BY <1>1, <1>4, <1>5, <2>1, WaitConserva, Tipado DEF MismaFila
<1>10. ASSUME NEW cabeza \in 0 .. MaxPid
       PROVE  MismaFila(s, AtenderSignal(s, m, resto, cabeza))
  <2> DEFINE w == Signal(a, p, m.dato, resto, cabeza)
  <2>1. w \in EstadoKernel /\ AtenderSignal(s, m, resto, cabeza) = Avisar(w)
    BY <1>1, <1>3, <1>4, SignalConserva, Tipado
  <2>2. MismaFila(a, w)
    BY <1>1, <1>5, FilaRecursos
  <2> HIDE DEF w
  <2> QED
    BY <1>5, <1>6, <2>1, <2>2 DEF MismaFila
<1>11. MismaFila(s, Avisar(s))
  BY <1>1, <1>6 DEF MismaFila
<1> QED
  BY <1>3, <1>6, <1>7, <1>8, <1>9, <1>10, <1>11

-----------------------------------------------------------------------------
(* The steps of the system.                                                *)

\* A packet is about the process in EXEC, or about one in BLOCK: it posts, and
\* NEW stays as it was.
LEMMA PaquetesAdmision ==
    ASSUME InductivoAvisos, Orden(k', {}), EnFila(k),
           \/ DispatchProceso \/ DispatchResize \/ DispatchWait \/ DispatchSignal
           \/ InterruptIoGenSleep
           \/ \E i \in Interfaces : AtenderCompletado(i)
    PROVE  Admision(k')
<1>1. /\ Inductivo /\ Orden(k, {}) /\ Control /\ Avisos /\ k \in EstadoKernel
      /\ dispatch \in Seq(Mensaje) /\ interrupt \in Seq(Mensaje)
      /\ completados \in [Interfaces -> Seq(Pids)]
      /\ Sockets(k, pedidos, entregas, interrupt, dispatch)
  BY SocketsTipo DEF InductivoAvisos, InductivoControl, InductivoCoherente, Coherencia,
         Coherente, Inductivo, TypeOK
<1>2. ASSUME DispatchProceso \/ DispatchResize \/ DispatchWait \/ DispatchSignal
      PROVE  MismaFila(k, k') /\ Alerta(k')
  <2>1. dispatch # << >>
    BY <1>2 DEF DispatchProceso, DispatchResize, DispatchWait, DispatchSignal, RecibirDispatch
  <2>2. Head(dispatch) \in Mensaje /\ Esta(k, "EXEC", Head(dispatch).pid)
    BY <1>1, <2>1, HeadTailProperties, AvisoEnExec
  <2>3. Alerta(k')
    BY <1>1, <1>2, <2>2, PaquetesVela
  <2>4. CASE DispatchProceso
    BY <1>1, <2>2, <2>3, <2>4, RestosTipo, FilaDispatch DEF DispatchProceso
  <2>5. CASE DispatchResize
    BY <1>1, <2>2, <2>3, <2>5, RestosTipo, FilaDispatch DEF DispatchResize
  <2>6. CASE DispatchWait
    BY <1>1, <2>2, <2>3, <2>6, RestosTipo, FilaDispatch DEF DispatchWait
  <2>7. CASE DispatchSignal
    BY <1>1, <2>2, <2>3, <2>7, RestosTipo, CabezasTipo, FilaDispatch DEF DispatchSignal
  <2> QED
    BY <1>2, <2>4, <2>5, <2>6, <2>7
<1>3. ASSUME InterruptIoGenSleep
      PROVE  MismaFila(k, k') /\ Alerta(k')
  <2>1. interrupt # << >>
    BY <1>3 DEF InterruptIoGenSleep
  <2>2. Len(interrupt) = 1 /\ Len(k.cola["EXEC"]) = 1
    BY <1>1, <2>1, UnLugar DEF Control
  <2>3. Head(interrupt) \in Mensaje /\ Head(interrupt) = interrupt[1]
    BY <1>1, <2>2, DeUno
  <2>4. Esta(k, "EXEC", Head(interrupt).pid)
    <3>1. k.cola["EXEC"] \in Seq(Pids)
      BY <1>1, SocketsLargo
    <3>2. Head(interrupt).pid = k.cola["EXEC"][1]
      BY <1>1, <2>1, <2>3 DEF Control, Hilo
    <3> QED
      BY <2>2, <3>1, <3>2, DeUno DEF Esta
  <2>5. Alerta(k')
    BY <1>1, <1>3, <2>4, PaquetesVela
  <2> QED
    BY <1>1, <1>3, <2>3, <2>4, <2>5, MensajeTipo, RestosTipo, FilaIo DEF InterruptIoGenSleep
<1>4. ASSUME \E i \in Interfaces : AtenderCompletado(i)
      PROVE  MismaFila(k, k') /\ Alerta(k')
  <2>1. PICK i \in Interfaces : AtenderCompletado(i)
    BY <1>4
  <2>2. Head(completados[i]) \in Pids
    BY <1>1, <2>1, HeadTailProperties DEF AtenderCompletado
  <2>3. PICK registrada \in Interfaces :
           k' = CompletarIoGenSleep(k, i, Head(completados[i]), registrada)
    BY <2>1 DEF AtenderCompletado, InterfacesDe
  <2>4. Alerta(k')
    BY <1>1, <1>4, PaquetesVela
  <2> QED
    BY <1>1, <2>2, <2>3, <2>4, FilaIo
<1>5. MismaFila(k, k') /\ Alerta(k')
  BY <1>2, <1>3, <1>4
<1>6. PICK p \in Pids : Paso(k, k', p)
  BY <1>1, PaquetesOrden
<1>7. EnFila(k')
  <2> DEFINE q == k.cola["NEW"]
  <2> SUFFICES ASSUME NEW n \in 1 .. Len(q), n < Len(q)
               PROVE  k'.pcb[q[n]].memoria_aceptado
    BY <1>5 DEF EnFila, MismaFila
  <2>1. q \in Seq(Pids)
    BY <1>1, ColaTipo DEF Colas
  <2>2. q[n] \in Pids /\ q[n] \in Range(q) /\ k.pcb[q[n]].memoria_aceptado
    BY <2>1, ElementOfSeq DEF EnFila, Range
  <2> DEFINE x == q[n]
  <2> HIDE DEF x
  <2>3. x \in Pids /\ x \in Range(k.cola["NEW"]) /\ k.pcb[x].memoria_aceptado
    BY <2>2 DEF x
  <2>4. k'.procesos[x] = "NEW"
    BY <1>5, <2>3 DEF Orden, Esta, Colas, MismaFila
  <2>5. k'.pcb[x].memoria_aceptado
    BY <1>6, <2>3, <2>4 DEF Paso, Sigue
  <2> QED
    BY <2>5 DEF x
<1> QED
  BY <1>5, <1>7 DEF Admision, Alerta, Admisible

\* The steps that leave the processes, the degree and the tokens alone.
LEMMA AjenosAdmision ==
    ASSUME Inductivo, Admision(k),
           \/ DetenerPlanificacion \/ IniciarPlanificacion
           \/ TemporizadorVence \/ FinQuantum
           \/ CpuEjecutarProceso \/ CpuInterrupcion
           \/ \E i \in Interfaces : InterfazRecibe(i)
           \/ MemoriaKernel
    PROVE  Admision(k')
<1>1. k \in EstadoKernel
  BY DEF Inductivo, TypeOK
<1>2. CASE DetenerPlanificacion
  <2>1. k'.detener /\ k'.cola = k.cola /\ k'.pcb = k.pcb
    BY <1>1, <1>2, Zenon DEF DetenerPlanificacion, EstadoKernel
  <2> QED
    BY <2>1 DEF Admision, Admisible, EnFila
<1>3. CASE IniciarPlanificacion
  <2> DEFINE t == [k EXCEPT !.detener = FALSE]
  <2>1. /\ t \in EstadoKernel /\ k' = Avisar(t)
        /\ t.cola = k.cola /\ t.pcb = k.pcb
    <3>1. t.cola = k.cola /\ t.pcb = k.pcb
      BY <1>1, Zenon DEF EstadoKernel
    <3> QED
      BY <1>1, <1>3, <3>1, ConDetener, Tipado DEF IniciarPlanificacion
  <2> HIDE DEF t
  <2>2. k'.cola = t.cola /\ k'.pcb = t.pcb
    BY <2>1, Zenon DEF Avisar, EstadoKernel
  <2>3. Alerta(k')
    BY <2>1, AlertaSimple
  <2> QED
    BY <2>1, <2>2, <2>3 DEF Admision, Admisible, EnFila, Alerta
<1>4. ASSUME \/ TemporizadorVence \/ FinQuantum
             \/ CpuEjecutarProceso \/ CpuInterrupcion
             \/ \E i \in Interfaces : InterfazRecibe(i)
             \/ MemoriaKernel
      PROVE  /\ k'.cola = k.cola /\ k'.caido = k.caido /\ k'.detener = k.detener
             /\ k'.planificador_iniciar = k.planificador_iniciar
             /\ k'.pcb = k.pcb /\ k'.grado = k.grado
  <2>1. CASE TemporizadorVence
    BY <1>1, <2>1, Zenon DEF TemporizadorVence, EstadoKernel
  <2>2. CASE FinQuantum
    BY <1>1, <2>2, Zenon DEF FinQuantum, InterrumpirCpu, EstadoKernel
  <2>3. CASE CpuEjecutarProceso
    BY <1>1, <2>3, Zenon DEF CpuEjecutarProceso, EstadoKernel
  <2>4. CASE CpuInterrupcion
    BY <1>1, <2>4, Zenon DEF CpuInterrupcion, EstadoKernel
  <2>5. CASE \E i \in Interfaces : InterfazRecibe(i)
    BY <1>1, <2>5, Zenon DEF InterfazRecibe, EstadoKernel
  <2>6. CASE MemoriaKernel
    BY <1>1, <2>6, Zenon DEF MemoriaKernel, EstadoKernel
  <2> QED
    BY <1>4, <2>1, <2>2, <2>3, <2>4, <2>5, <2>6
<1> QED
  BY <1>2, <1>3, <1>4 DEF Admision, Admisible, EnFila, Concurrentes

\* No step of the system loses an admission.
LEMMA SistemaAdmision ==
    ASSUME OperadorEspera = TRUE, "FINALIZAR_PROCESO" \notin Comandos,
           "MULTIPROGRAMACION" \notin Comandos,
           InductivoAvisos, InductivoAvisos', Admision(k), [Next]_vars
    PROVE  Admision(k')
<1>1. /\ Inductivo /\ Orden(k, {}) /\ Orden(k', {}) /\ k \in EstadoKernel
      /\ Creacion(k, respuestas) /\ respuestas \in Seq(Respuesta)
  BY OrdenTipo DEF InductivoAvisos, InductivoControl, InductivoCoherente, Coherencia,
                   Coherente, Inductivo, TypeOK, Respuesta
<1>2. CASE IniciarProceso
  <2> DEFINE p == k.pid + 1
  <2>1. p \in Pids /\ k' = NuevoProceso(k, p)
    BY <1>2 DEF IniciarProceso
  <2>2. k.procesos[p] = SinEstado
    BY <1>1, <2>1 DEF Creacion
  <2>3. \A q \in Range(k.cola["NEW"]) : k.pcb[q].memoria_aceptado
    BY <1>2 DEF IniciarProceso, CreacionPendiente
  <2> HIDE DEF p
  <2> QED
    BY <1>1, <2>1, <2>2, <2>3, NuevoAdmision
<1>3. CASE AtenderMemoria
  <2> DEFINE p == Head(respuestas).pid
             l == Head(respuestas).leido
  <2>1. respuestas # << >> /\ k' = ResponderNuevoProceso(k, p, l)
    BY <1>3 DEF AtenderMemoria
  <2>2. /\ Head(respuestas) \in Respuesta /\ Head(respuestas) = respuestas[1]
        /\ 1 \in 1 .. Len(respuestas)
    BY <1>1, <2>1, HeadTailProperties, LenProperties
  <2>3. p \in Pids /\ l \in BOOLEAN /\ respuestas[1].pid = p
    BY <2>2 DEF Respuesta
  <2>4. EnCreacion(k, p)
    BY <1>1, <2>2, <2>3 DEF Creacion
  <2> HIDE DEF p, l
  <2> QED
    BY <1>1, <2>1, <2>3, <2>4, RespuestaAdmision
<1>4. CASE HiloPlanificador
  <2> DEFINE t == [k EXCEPT !.planificador_iniciar = @ - 1]
  <2>1. /\ Orden(t, {}) /\ k' = IF t.detener THEN t ELSE CortoPlazo(LargoPlazo(t))
    BY <1>1, <1>4, TurnoOrden
  <2>2. t.cola = k.cola /\ t.pcb = k.pcb
    BY <1>1, Zenon DEF EstadoKernel
  <2> HIDE DEF t
  <2>3. EnFila(t)
    BY <2>2 DEF Admision, EnFila
  <2>4. ~ Admisible(CortoPlazo(LargoPlazo(t))) /\ EnFila(CortoPlazo(LargoPlazo(t)))
    BY <2>1, <2>3, LargoPlazoAgota
  <2>5. t.detener => Admision(t)
    BY <2>3 DEF Admision, Admisible
  <2> QED
    BY <2>1, <2>4, <2>5 DEF Admision
<1>5. CASE \/ DispatchProceso \/ DispatchResize \/ DispatchWait \/ DispatchSignal
           \/ InterruptIoGenSleep
           \/ \E i \in Interfaces : AtenderCompletado(i)
  BY <1>1, <1>5, PaquetesAdmision DEF Admision
<1>6. CASE \/ DetenerPlanificacion \/ IniciarPlanificacion
           \/ TemporizadorVence \/ FinQuantum
           \/ CpuEjecutarProceso \/ CpuInterrupcion
           \/ \E i \in Interfaces : InterfazRecibe(i)
           \/ MemoriaKernel
  BY <1>1, <1>6, AjenosAdmision
<1>7. CASE \/ InstruccionCiclo \/ CpuResize \/ MemoriaProximaInstruccion \/ MemoriaResize
           \/ (\E i \in Interfaces : InterfazVence(i) \/ InterfazAvisa(i))
           \/ UNCHANGED vars
  BY <1>7 DEF InstruccionCiclo, CpuResize, MemoriaProximaInstruccion, MemoriaResize,
              InterfazVence, InterfazAvisa, vars
<1>8. /\ ~ \E p \in Pids : FinalizarProceso(p)
      /\ ~ \E g \in Grados : Multiprogramacion(g)
  BY DEF FinalizarProceso, Multiprogramacion
<1> QED
  BY <1>2, <1>3, <1>4, <1>5, <1>6, <1>7, <1>8
     DEF Next, PasoKernel, NextKernel, PasoCpu, PasoMemoria, PasoInterfaz

\* The inductive invariant of the admissions.
InductivoAdmision == InductivoAvisos /\ Admision(k)

\* No admission is lost while the operator waits for the answer to a creation,
\* kills nobody and leaves the degree alone, and no script sleeps after a
\* RESIZE: whenever the loop of planificacion_largo_plazo would admit somebody
\* there is a token in planificador_iniciar.  The last three conditions are
\* needed: FINALIZAR_PROCESO of a process that does not execute,
\* MULTIPROGRAMACION and the late notice of a RESIZE make room without posting.
THEOREM Admision_Sin_Perder ==
    ASSUME OperadorEspera = TRUE, "FINALIZAR_PROCESO" \notin Comandos,
           "MULTIPROGRAMACION" \notin Comandos, SinSleepTrasResize
    PROVE  Spec => []AdmisionSinPerder
<1>1. Init => InductivoAdmision
  <2>1. Init => Admision(k)
    BY DEF Init, InitKernel, KernelInicial, Admision, Admisible, EnFila, Colas
  <2> QED
    BY <2>1, InicioQuantum DEF InductivoQuantum, InductivoAdmision
<1>2. InductivoAdmision /\ [Next]_vars => InductivoAdmision'
  <2> SUFFICES ASSUME InductivoAdmision, [Next]_vars
               PROVE  InductivoAvisos' /\ Admision(k')
    BY DEF InductivoAdmision
  <2>1. InductivoAvisos /\ InductivoAvisos' /\ Admision(k)
    BY PasoAvisos DEF InductivoAdmision
  <2> QED
    BY <2>1, SistemaAdmision
<1>3. InductivoAdmision => AdmisionSinPerder
  <2> SUFFICES ASSUME InductivoAdmision, ~ k.caido, ~ k.detener, Admitidos(k) > 0
               PROVE  k.planificador_iniciar > 0
    BY DEF AdmisionSinPerder
  <2>1. k \in EstadoKernel /\ Admision(k)
    BY DEF InductivoAdmision, InductivoAvisos, InductivoControl, InductivoCoherente,
           Inductivo, TypeOK
  <2> QED
    BY <2>1, AdmitidosAdmisibles DEF Admision, Admisible
<1> QED
  BY <1>1, <1>2, <1>3, PTL DEF Spec

=============================================================================
