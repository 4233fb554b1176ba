------------------------------ MODULE Archivos ------------------------------
(***************************************************************************)
(* What the kernel counts on when it uses a DIALFS interface, with neither *)
(* blocks, bitmap nor compaction: files that have a size, which a stop     *)
(* does not change, and requests that are attended one at a time, take     *)
(* effect once, whole or not at all, and before anybody is told that they  *)
(* went well.  Module DialFs implements it, but for one answer.            *)
(***************************************************************************)
EXTENDS Integers

CONSTANTS
    Nombres,    \* names of files
    Pedidos,    \* requests: an op, the name of a file and a dato
    NoPedido    \* no request

VARIABLES
    tamanios,   \* the bytes of each file
    pedido,     \* the request that is attended
    hecho,      \* whether it took effect already
    respuesta   \* the answer to the last request, if it had one

vars == <<tamanios, pedido, hecho, respuesta>>

Existe(n) == n \in DOMAIN tamanios

\* CREATE and DELETE change which files there are, TRUNCATE adds bytes to one.
Efecto(p) ==
    \/ /\ p.op = "CREATE" /\ ~ Existe(p.nombre)
       /\ tamanios' = [n \in DOMAIN tamanios \cup {p.nombre} |->
                          IF n = p.nombre THEN 0 ELSE tamanios[n]]
    \/ /\ p.op = "DELETE" /\ Existe(p.nombre)
       /\ tamanios' = [n \in DOMAIN tamanios \ {p.nombre} |-> tamanios[n]]
    \/ /\ p.op = "TRUNCATE" /\ Existe(p.nombre)
       /\ tamanios' = [tamanios EXCEPT ![p.nombre] = @ + p.dato]

Terminar(r) == pedido' = NoPedido /\ hecho' = FALSE /\ respuesta' = r

Pedir ==
    /\ pedido = NoPedido
    /\ pedido' \in Pedidos
    /\ respuesta' = "NINGUNA"
    /\ UNCHANGED <<tamanios, hecho>>

\* The effect, with the answer or before it.
Hacer ==
    /\ pedido \in Pedidos /\ ~ hecho
    /\ Efecto(pedido)
    /\ \/ Terminar("OK")
       \/ hecho' = TRUE /\ UNCHANGED <<pedido, respuesta>>

Confirmar == hecho /\ Terminar("OK") /\ UNCHANGED tamanios

\* READ and WRITE change no size.
Consultar ==
    /\ pedido \in Pedidos /\ pedido.op \in {"READ", "WRITE"} /\ Existe(pedido.nombre)
    /\ Terminar("OK")
    /\ UNCHANGED tamanios

\* A refusal leaves every file as it was.
Rechazar ==
    /\ pedido \in Pedidos /\ ~ hecho /\ pedido.op \in {"CREATE", "TRUNCATE"}
    /\ Terminar("ERROR")
    /\ UNCHANGED tamanios

\* No answer: there is no such file, or the bytes of a WRITE do not fit.
Callar ==
    /\ pedido \in Pedidos /\ ~ hecho /\ pedido.op \in {"DELETE", "READ", "WRITE"}
    /\ pedido.op = "WRITE" \/ ~ Existe(pedido.nombre)
    /\ Terminar(respuesta)
    /\ UNCHANGED tamanios

\* The process stops, at any moment; what was done stays done.
Detener == Terminar("NINGUNA") /\ UNCHANGED tamanios

Init == tamanios = [n \in {} |-> 0] /\ pedido = NoPedido /\ hecho = FALSE /\ respuesta = "NINGUNA"

Next ==
    \/ Pedir
    \/ Hacer
    \/ Confirmar
    \/ Consultar
    \/ Rechazar
    \/ Callar
    \/ Detener

Spec == Init /\ [][Next]_vars
=============================================================================
