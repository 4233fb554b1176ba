------------------------------ MODULE MCMemoria -----------------------------
(***************************************************************************)
(* Instances of the paging for TLC.                                        *)
(***************************************************************************)
EXTENDS PropiedadesMemoria

Base == [entradas |-> 0, algoritmo |-> "FIFO", holgado |-> TRUE,
         tamanios |-> {}, direcciones |-> {}, anchos |-> {}, copias |-> {},
         lecturas |-> {}]

\* Tables that grow and shrink, with an access that crosses a page.
Crecer == [Base EXCEPT !.tamanios = {0, 4, 12}, !.direcciones = {1}, !.anchos = {4}]

\* The same with kills, and releases that overlap whatever the CPU does.
Apurado == [Base EXCEPT !.holgado = FALSE, !.tamanios = {0, 5}, !.direcciones = {6}, !.anchos = {4}]

\* Copies inside a page, and beyond it.
Copiar == [Base EXCEPT !.tamanios = {8}, !.direcciones = {0, 5}, !.copias = {3}]

CopiasLargas == [Base EXCEPT !.tamanios = {4}, !.direcciones = {1}, !.copias = {6}]

\* A TLB smaller than the pages in use, with tables that only grow, and that
\* give pages back.
TlbFifo == [Base EXCEPT !.entradas = 2, !.tamanios = {8}, !.direcciones = {0, 4},
                        !.anchos = {4}]

TlbLru == [TlbFifo EXCEPT !.algoritmo = "LRU"]

TlbCopias == [Copiar EXCEPT !.entradas = 1]

TlbEncoge == [TlbFifo EXCEPT !.entradas = 1, !.tamanios = {0, 8}, !.direcciones = {0}]

\* Pages that get frames to read what is typed, past the end of the table too; the
\* same among resizes, where some had one and others leave a hole; and with a TLB.
Leer == [Base EXCEPT !.direcciones = {1, 8}, !.anchos = {4}, !.lecturas = {5}]

LeerYCrecer == [Leer EXCEPT !.tamanios = {4}, !.direcciones = {4}]

LeerConTlb == [LeerYCrecer EXCEPT !.entradas = 1, !.direcciones = {0}, !.lecturas = {4}]

LeerApurado == [Leer EXCEPT !.holgado = FALSE, !.direcciones = {4}, !.lecturas = {4}]

Todas == {Crecer, Apurado, Copiar, TlbFifo, TlbLru, TlbCopias, CopiasLargas, TlbEncoge,
          Leer, LeerYCrecer, LeerConTlb, LeerApurado}

SoloResize == {[Base EXCEPT !.tamanios = {4, 8}]}
=============================================================================
