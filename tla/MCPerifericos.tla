---------------------------- MODULE MCPerifericos ----------------------------
(***************************************************************************)
(* Instances of the system with its interfaces for TLC.                    *)
(***************************************************************************)
EXTENDS PropiedadesPerifericos

I(op) == [op |-> op, dato |-> "OK"]
De(op, nombre) == [op |-> op, dato |-> nombre]

SinInstancias == [r \in {} |-> 0]

Tipos == [i \in Interfaces |->
            CASE i = "FS" -> "DIALFS"
              [] i = "TECLADO" -> "STDIN"
              [] i = "PANTALLA" -> "STDOUT"
              [] OTHER -> "GENERIC"]

\* Both use the files; one of them the screen and the other, the last one, the
\* keyboard, which may fall.
ProgramasImprevistos == [p \in Pids |->
    IF p = 1
    THEN <<I("COPY_STRING"), De("IO_STDOUT_WRITE", "PANTALLA"), De("IO_FS_READ", "FS")>>
    ELSE <<De("IO_FS_CREATE", "FS"), De("IO_FS_DELETE", "FS"),
           De("IO_STDIN_READ", "TECLADO")>>]

\* Both want the same file system, and one of them the keyboard.
ProgramasTurnos == [p \in Pids |->
    IF p = 1 THEN <<De("IO_FS_TRUNCATE", "FS"), De("IO_STDIN_READ", "TECLADO")>>
             ELSE <<De("IO_FS_WRITE", "FS")>>]
=============================================================================
