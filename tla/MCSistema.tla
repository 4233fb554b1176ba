------------------------------ MODULE MCSistema ------------------------------
(***************************************************************************)
(* Instances of the system for TLC: the scripts of each scenario and the   *)
(* configuration of resources and interfaces.                              *)
(***************************************************************************)
EXTENDS Propiedades

I(op) == [op |-> op, dato |-> "OK"]
De(op, nombre) == [op |-> op, dato |-> nombre]

SinTipos == [i \in {} |-> "GENERIC"]
SinInstancias == [r \in {} |-> 0]

UnaInstancia == [r \in Recursos |-> 1]
Genericas == [i \in Interfaces |-> "GENERIC"]

\* Straight code, a loop and an early end.
ProgramasCpu == [p \in Pids |->
    IF p = 1 THEN <<I("SET"), I("JNZ"), I("EXIT")>> ELSE <<I("SET"), I("EXIT")>>]

\* Names nobody registered: a WAIT after a loop, a SIGNAL and a sleep.
ProgramasNombres == [p \in Pids |->
    CASE p = 1 -> <<I("JNZ"), De("WAIT", "NADA")>>
      [] p = 2 -> <<De("SIGNAL", "NADA"), I("EXIT")>>
      [] OTHER -> <<De("IO_GEN_SLEEP", "NADA")>>]

\* Everybody takes the same resource, twice.
ProgramasRecurso == [p \in Pids |->
    <<De("WAIT", "RA"), De("SIGNAL", "RA"), De("WAIT", "RA"), De("SIGNAL", "RA"), I("EXIT")>>]

\* Everybody sleeps in one interface, and then takes two resources, in opposite
\* orders, that nobody returns; one ends with an instruction the CPU does not
\* know, the other with one that fails.
ProgramasEsperas == [p \in Pids |->
    IF p = 1
    THEN <<De("IO_GEN_SLEEP", "IO1"), De("WAIT", "RA"), De("WAIT", "RB"), I("DESCONOCIDA")>>
    ELSE <<De("IO_GEN_SLEEP", "IO1"), De("WAIT", "RB"), De("WAIT", "RA"), I("INVALIDA")>>]

\* Everybody sleeps in the same interface.
ProgramasIo == [p \in Pids |-> <<De("IO_GEN_SLEEP", "IO1"), I("EXIT")>>]

\* One holds a resource while it sleeps, and asks for memory it may not get; the
\* other sleeps before taking the resource.
ProgramasMixto == [p \in Pids |->
    IF p = 1
    THEN <<De("WAIT", "RA"), De("IO_GEN_SLEEP", "IO1"), I("RESIZE"), De("SIGNAL", "RA"), I("EXIT")>>
    ELSE <<De("IO_GEN_SLEEP", "IO1"), De("WAIT", "RA"), De("SIGNAL", "RA"), I("EXIT")>>]
=============================================================================
