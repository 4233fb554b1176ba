---------------------------- MODULE Finalizacion ----------------------------
(***************************************************************************)
(* kernel_finalizar_proceso: how a process leaves the system.  The motives *)
(* that the kernel itself raises are here; INTERRUPTED_BY_USER, which also *)
(* releases resources and interfaces, is in InterfacesKernel.                *)
(*                                                                         *)
(* The function starts with two early returns: a pid that was never        *)
(* created, and a pid whose dictionary entry is already EXIT.              *)
(***************************************************************************)
EXTENDS Procesos

Finalizable(s, p) == s.procesos[p] \notin {SinEstado, "EXIT"}

\* Mutant: memoria is not told.
MatarCallado(s, p) == Matar(s, p)

\* The end that most motives share.
MatarEnMemoria(s, p) == Matar(AvisarMemoriaFinalizacion(s, p), p)

\* exec_exit only for a process in EXEC.
SalirDeExec(s, p) == IF s.procesos[p] = "EXEC" THEN ExecExit(s) ELSE s

\* SUCCESS, OUT_OF_MEMORY and EXECUTION_ERROR are the same statements.
FinalizarExito(s, p) ==
    IF ~ Finalizable(s, p) THEN s ELSE MatarEnMemoria(SalirDeExec(s, p), p)

FinalizarSinMemoria(s, p) == FinalizarExito(s, p)

FinalizarErrorEjecucion(s, p) == FinalizarExito(s, p)

\* INVALID_INTERFACE takes whatever is at the head of EXEC, dereferences it
\* without a check, and tells memoria the pid of the argument.
FinalizarInterfazInvalida(s, p) ==
    IF ~ Finalizable(s, p) THEN s
    ELSE IF s.cola["EXEC"] = << >> THEN Caer(s)
    ELSE LET enExit == Head(s.cola["EXEC"])
         IN  Matar(AvisarMemoriaFinalizacion(ExecExit(s), p), enExit)

\* SEGMENTATION_FAULT kills the process in the list it is in: from EXEC it
\* leaves without exec_exit, hence without a token for the planner.
FinalizarSegmentationFault(s, p) ==
    IF ~ Finalizable(s, p) THEN s ELSE MatarEnMemoria(s, p)

\* INVALID_RESOURCE has no return: it falls through to SEGMENTATION_FAULT,
\* which looks the already freed process up again and finds nothing.
FinalizarRecursoInvalido(s, p) ==
    IF ~ Finalizable(s, p) THEN s
    ELSE LET salido == IF s.procesos[p] = "EXEC" THEN ExecExit(s)
                       ELSE BlockExit(s, p)
         IN  MatarEnMemoria(Matar(salido, p), p)
=============================================================================
