--------------------------- MODULE RecursosKernel ---------------------------
(***************************************************************************)
(* The resources of the kernel: WAIT, SIGNAL, and the release of what a    *)
(* process killed by the operator was waiting for.                         *)
(*                                                                         *)
(* A resource is [instancias, bloqueados].  bloqueados holds pointers to   *)
(* PCBs, here the pids: an entry may outlive its PCB, because killing a    *)
(* blocked process does not take it out of the list.                       *)
(***************************************************************************)
EXTENDS Finalizacion

CONSTANT InstanciasIniciales   \* INSTANCIAS_RECURSOS of the kernel's config

ASSUME InstanciasAssumption ==
    IsFiniteSet(Recursos) /\ InstanciasIniciales \in [Recursos -> Nat]

Recurso == [instancias : Int, bloqueados : Seq(Pids)]

\* recurso_init
RecursoInit == [r \in Recursos |-> [instancias |-> InstanciasIniciales[r],
                                    bloqueados |-> << >>]]

\* recurso_buscar_pid returns the first resource in dictionary order whose
\* list holds p: any of these, and NULL when there is none.
RecursosDe(s, p) == {r \in Recursos : p \in Range(s.recursos[r].bloqueados)}

\* Increment or create p's entry for r in its dictionary recursos_tomados.
Tomar(s, p, r) == [s EXCEPT !.pcb[p].claves_tomados = @ \cup {r},
                            !.pcb[p].recursos_tomados[r] = @ + 1]

\* Decrement p's entry for r if there is one.
Devolver(s, p, r) ==
    IF r \in s.pcb[p].claves_tomados
    THEN [s EXCEPT !.pcb[p].recursos_tomados[r] = @ - 1]
    ELSE s

\* The two places of kernel_wait that block the process.
BloquearEnRecurso(s, p, r, resto) ==
    ExecBlock([GuardarQuantum(s, p, resto) EXCEPT
                  !.recursos[r].bloqueados = Append(@, p)])

\* kernel_wait, for p in EXEC.  When instancias is already negative the
\* process blocks without a decrement: instancias never goes below -1.
Wait(s, p, r, resto) ==
    IF r \notin Recursos
    THEN FinalizarRecursoInvalido(GuardarQuantum(s, p, resto), p)
    ELSE LET t == Tomar(s, p, r) IN
         IF t.recursos[r].instancias < 0
         THEN BloquearEnRecurso(t, p, r, resto)
         ELSE LET u == [t EXCEPT !.recursos[r].instancias = @ - 1]
              IN  IF u.recursos[r].instancias < 0
                  THEN BloquearEnRecurso(u, p, r, resto)
                  ELSE ManejarExecReady(u, p, resto)

\* What both motives of kernel_signal do first, for a resource that exists.
Liberar(s, p, r) == [Devolver(s, p, r) EXCEPT !.recursos[r].instancias = @ + 1]

\* Mutant: off by one in the count that unblocks.
HayQueDesbloquearTarde(s, r) ==
    s.recursos[r].bloqueados # << >> /\ s.recursos[r].instancias > 0

HayQueDesbloquear(s, r) ==
    s.recursos[r].bloqueados # << >> /\ s.recursos[r].instancias >= 0

\* What the kernel reads as the pid of a PCB it has a pointer to: the pid, or
\* if the PCB was freed anything (0 stands for a number that is no pid).
PidLeido(s, p) == IF Buscar(s, p) THEN {p} ELSE 0 .. MaxPid

\* The pids kernel_signal can read at the head of the list it pops.
CabezasLeidas(s, p, r) ==
    IF r \in Recursos /\ HayQueDesbloquear(Liberar(s, p, r), r)
    THEN PidLeido(s, Head(s.recursos[r].bloqueados))
    ELSE {0}

\* Mutant: list_get in place of list_remove.
SignalSinQuitar(s, p, r, resto, cabeza) ==
    LET t == Liberar(s, p, r) IN
    ManejarExecReady(IF HayQueDesbloquear(t, r) THEN ManejarBlockReady(t, cabeza) ELSE t,
                     p, resto)

\* kernel_signal with motive SIGNAL_RECURSO, for p in EXEC; cabeza is the
\* pid read from the popped pointer.
Signal(s, p, r, resto, cabeza) ==
    IF r \notin Recursos THEN FinalizarRecursoInvalido(s, p)
    ELSE LET t == Liberar(s, p, r) IN
         IF ~ HayQueDesbloquear(t, r) THEN ManejarExecReady(t, p, resto)
         ELSE IF cabeza = 0 \/ t.procesos[cabeza] = SinEstado THEN Caer(t)
         ELSE LET u == [t EXCEPT !.recursos[r].bloqueados = Tail(@)]
                  v == IF u.procesos[cabeza] = "BLOCK"
                       THEN ManejarBlockReady(u, cabeza) ELSE u
              IN  ManejarExecReady(v, p, resto)
=============================================================================
