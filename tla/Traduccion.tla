----------------------------- MODULE Traduccion -----------------------------
(***************************************************************************)
(* The CPU's use of memoria: the instructions RESIZE, MOV_IN, MOV_OUT,     *)
(* COPY_STRING and IO_STDIN_READ, the thread of the MMU with the semaphore *)
(* it shares with the thread that attends memoria, and the TLB.            *)
(*                                                                         *)
(* The kernel is what Sistema shows of it: it executes one process at a    *)
(* time, takes it off the CPU between two instructions, and tells memoria  *)
(* of every process that ends.  A process killed while it executes is left *)
(* to Sistema.                                                             *)
(***************************************************************************)
EXTENDS Marcos

VARIABLES
    estado,        \* kernel: the state of every process
    cpu,           \* t_cpu: the process, and whether an instruction is under way
    mmu,           \* which of the two sem_wait the MMU's thread is at
    mmu_ejecucion, \* value of the semaphore
    orden,         \* codigo, direccion_logica and paquete of mmu_iniciar
    marco,         \* t_cpu.marco
    resultado,     \* t_cpu.resultado
    tlb,           \* the entries of the TLB
    proximo_indice_reemplazo

varsCpu == <<cpu, mmu, mmu_ejecucion, orden, marco, resultado, tlb,
             proximo_indice_reemplazo>>

vars == <<varsMarcos, estado, varsCpu>>

Codigos == {"NADA", "MOV_IN", "MOV_OUT", "COPY_STRING", "COPY_STRING_2", "IO_STDIN_READ"}

NoOrden == [codigo |-> "NADA", logica |-> 0, destino |-> 0, origen |-> 0, bytes |-> 0]

EntradaVacia == [pid |-> 0, pagina |-> 0, marco |-> Invalida, ultimo_acceso |-> 0]

Entradas == 0 .. config.entradas - 1

Init ==
    /\ InitMarcos
    /\ estado = [p \in Pids |-> "SIN_CREAR"]
    /\ cpu = [pid |-> 0, ocupada |-> FALSE]
    /\ mmu = "ESPERA"
    /\ mmu_ejecucion = 0
    /\ orden = NoOrden
    /\ marco = Invalida
    /\ resultado = FALSE
    /\ tlb = [i \in Entradas |-> EntradaVacia]
    /\ proximo_indice_reemplazo = 0

-----------------------------------------------------------------------------
(* TLB                                                                     *)

\* Mutant: an entry of any process answers for the page.
EnTlbDeTodos(p, pagina) == {i \in Entradas : tlb[i].pid # 0 /\ tlb[i].pagina = pagina}

EnTlb(p, pagina) == {i \in Entradas : tlb[i].pid = p /\ tlb[i].pagina = pagina}

\* The seconds of time(NULL) are kept as their order: an access is at the second
\* of the latest one or at a later second.  FIFO never reads them.
Ordenar(t) ==
    LET horas == {t[i].ultimo_acceso : i \in DOMAIN t}
    IN  [i \in DOMAIN t |->
            [t[i] EXCEPT !.ultimo_acceso =
                Cardinality({h \in horas : h < t[i].ultimo_acceso})]]

Accesos(t, i) ==
    LET Posterior(h) == \A j \in DOMAIN t : t[j].ultimo_acceso <= h
    IN  IF config.algoritmo = "FIFO" THEN {t}
        ELSE {Ordenar([t EXCEPT ![i].ultimo_acceso = h]) :
                 h \in {h \in 0 .. config.entradas : Posterior(h)}}

Primeras(indices) == {i \in indices : \A j \in indices : i <= j}

\* buscar_en_tlb: the first entry that matches, which counts as accessed.
EntradaEnTlb(p, pagina) == Primeras(EnTlb(p, pagina))

EntradasVacias == {i \in Entradas : tlb[i].pid = 0}

\* reemplazar_en_tlb: the next one of the circle, or the first with the oldest
\* access.  It is called when every entry has been used.
Reemplazo ==
    IF config.algoritmo = "FIFO" THEN {proximo_indice_reemplazo}
    ELSE Primeras({i \in Entradas :
                      \A j \in Entradas : tlb[i].ultimo_acceso <= tlb[j].ultimo_acceso})

\* Mutant: the circle is not closed.
SiguienteSinVuelta == proximo_indice_reemplazo + 1

SiguienteIndice == (proximo_indice_reemplazo + 1) % config.entradas

\* Mutant: the entry keeps the frame it had.
SinCambiarMarco(i, p, pagina, m) == [tlb EXCEPT ![i].pid = p, ![i].pagina = pagina]

ConEntrada(i, p, pagina, m) ==
    [tlb EXCEPT ![i].pid = p, ![i].pagina = pagina, ![i].marco = m]

\* agregar_en_tlb
AgregarEnTlb(p, pagina, m) ==
    LET libres == Primeras(EntradasVacias)
    IN  /\ \E i \in IF libres # {} THEN libres ELSE Reemplazo :
              tlb' \in Accesos(ConEntrada(i, p, pagina, m), i)
        /\ proximo_indice_reemplazo' =
              IF EntradasVacias = {} /\ config.algoritmo = "FIFO"
              THEN SiguienteIndice ELSE proximo_indice_reemplazo

-----------------------------------------------------------------------------
(* Kernel                                                                  *)

\* INICIAR_PROCESO: pids are handed out in order.
KernelCrea(p) ==
    /\ estado[p] = "SIN_CREAR"
    /\ \A q \in Pids : q < p => estado[q] # "SIN_CREAR"
    /\ estado' = [estado EXCEPT ![p] = "READY"]
    /\ a_memoria' = Append(a_memoria, [tipo |-> "NUEVO_PROCESO", pid |-> p])
    /\ UNCHANGED <<config, procesos, cantidad, tabla, bitmap_array, bytes_usados,
                   liberando, bucle, peticion, respuesta, varsCpu>>

\* KERNEL_CPU_EJECUTAR_PROCESO of a process memoria has answered for
KernelDespacha(p) ==
    /\ \A q \in Pids : estado[q] # "EXEC"
    /\ estado[p] = "READY"
    /\ p \in procesos
    /\ estado' = [estado EXCEPT ![p] = "EXEC"]
    /\ cpu' = [cpu EXCEPT !.pid = p]
    /\ resultado' = FALSE
    /\ UNCHANGED <<varsMarcos, mmu, mmu_ejecucion, orden, marco, tlb, proximo_indice_reemplazo>>

\* The CPU is between two instructions of process p.
EntreInstrucciones(p) == estado[p] = "EXEC" /\ ~ cpu.ocupada

\* instruccion_interrupt, or an instruction that blocks
CpuDevuelve(p) ==
    /\ EntreInstrucciones(p)
    /\ estado' = [estado EXCEPT ![p] = "READY"]
    /\ UNCHANGED <<varsMarcos, varsCpu>>

\* kernel_finalizar_proceso: memoria is told.
Finaliza(p) ==
    /\ estado' = [estado EXCEPT ![p] = "EXIT"]
    /\ a_memoria' = Append(a_memoria, [tipo |-> "FINALIZAR_PROCESO", pid |-> p])

CpuExit(p) ==
    /\ EntreInstrucciones(p)
    /\ Finaliza(p)
    /\ UNCHANGED <<config, procesos, cantidad, tabla, bitmap_array, bytes_usados,
                   liberando, bucle, peticion, respuesta, varsCpu>>

\* FINALIZAR_PROCESO of the console, of a process that is not in EXEC
KernelMata(p) ==
    /\ ~ config.holgado
    /\ estado[p] = "READY"
    /\ Finaliza(p)
    /\ UNCHANGED <<config, procesos, cantidad, tabla, bitmap_array, bytes_usados,
                   liberando, bucle, peticion, respuesta, varsCpu>>

-----------------------------------------------------------------------------
(* The CPU's thread: instruccion_ejecutar and switch_case_memoria          *)

\* mmu_iniciar
MmuIniciar(o) ==
    /\ orden' = o
    /\ marco' = Invalida
    /\ resultado' = FALSE
    /\ mmu_ejecucion' = mmu_ejecucion + 1

CpuMov(p, codigo, logica, bytes) ==
    /\ EntreInstrucciones(p)
    /\ cpu' = [cpu EXCEPT !.ocupada = TRUE]
    /\ MmuIniciar([NoOrden EXCEPT !.codigo = codigo, !.logica = logica, !.bytes = bytes])
    /\ UNCHANGED <<varsMarcos, estado, mmu, tlb, proximo_indice_reemplazo>>

CpuCopyString(p, si, di, bytes) ==
    /\ EntreInstrucciones(p)
    /\ cpu' = [cpu EXCEPT !.ocupada = TRUE]
    /\ MmuIniciar([NoOrden EXCEPT !.codigo = "COPY_STRING", !.logica = si,
                                  !.destino = di, !.bytes = bytes])
    /\ UNCHANGED <<varsMarcos, estado, mmu, tlb, proximo_indice_reemplazo>>

CpuResize(p, bytes) ==
    /\ EntreInstrucciones(p)
    /\ cpu' = [cpu EXCEPT !.ocupada = TRUE]
    /\ peticion' = [NoPeticion EXCEPT !.tipo = "RESIZE", !.pid = cpu.pid, !.bytes = bytes]
    /\ UNCHANGED <<config, procesos, cantidad, tabla, bitmap_array, bytes_usados,
                   liberando, bucle, a_memoria, respuesta, estado, mmu, mmu_ejecucion,
                   orden, marco, resultado, tlb, proximo_indice_reemplazo>>

\* IO_STDIN_READ asks memoria for frames before its address is translated.
CpuStdinRead(p, logica, bytes) ==
    /\ EntreInstrucciones(p)
    /\ cpu' = [cpu EXCEPT !.ocupada = TRUE]
    /\ peticion' = [NoPeticion EXCEPT !.tipo = "IO_STDIN_READ", !.pid = cpu.pid,
                        !.pagina = logica \div TamPagina, !.bytes = bytes]
    /\ UNCHANGED <<config, procesos, cantidad, tabla, bitmap_array, bytes_usados,
                   liberando, bucle, a_memoria, respuesta, estado, mmu, mmu_ejecucion,
                   orden, marco, resultado, tlb, proximo_indice_reemplazo>>

Recibe(tipo) ==
    /\ respuesta.tipo = tipo
    /\ respuesta' = NoRespuesta

\* Mutant: the MMU is not woken when there is no frame.
PostSoloSiHay(hay) == mmu_ejecucion' = mmu_ejecucion + (IF hay THEN 1 ELSE 0)

\* sem_post(&args->mmu_ejecucion), whatever memoria answered
PostMmu(hay) == mmu_ejecucion' = mmu_ejecucion + 1

\* MEMORIA_CPU_NUMERO_FRAME
CpuNumeroFrame ==
    /\ Recibe("NUMERO_FRAME")
    /\ resultado' = respuesta.resultado
    /\ PostMmu(respuesta.resultado)
    /\ IF ~ respuesta.resultado
       THEN /\ cpu' = [cpu EXCEPT !.ocupada = FALSE]
            /\ estado' = [estado EXCEPT ![cpu.pid] = "READY"]
            /\ UNCHANGED <<marco, tlb, proximo_indice_reemplazo>>
       ELSE /\ IF config.entradas = 0
               THEN /\ marco' = respuesta.marco
                    /\ UNCHANGED <<tlb, proximo_indice_reemplazo>>
               ELSE /\ AgregarEnTlb(respuesta.pid, respuesta.pagina, respuesta.marco)
                    /\ UNCHANGED marco
            /\ UNCHANGED <<cpu, estado>>
    /\ UNCHANGED <<config, procesos, cantidad, tabla, bitmap_array, bytes_usados, liberando,
                   bucle, a_memoria, peticion, mmu, orden>>

\* MEMORIA_CPU_IO_MOV_OUT and MEMORIA_CPU_IO_MOV_IN of 1 or 4 bytes
CpuMovListo ==
    /\ Recibe("MOV_IN") \/ Recibe("MOV_OUT")
    /\ cpu' = [cpu EXCEPT !.ocupada = FALSE]
    /\ UNCHANGED <<config, procesos, cantidad, tabla, bitmap_array, bytes_usados, liberando,
                   bucle, a_memoria, peticion, estado, mmu, mmu_ejecucion, orden, marco,
                   resultado, tlb, proximo_indice_reemplazo>>

\* MEMORIA_CPU_RESIZE and MEMORIA_CPU_COPY_STRING_2: the kernel ends the
\* process when they failed.
CpuResizeOCopia ==
    /\ Recibe("RESIZE") \/ Recibe("COPY_STRING_2")
    /\ cpu' = [cpu EXCEPT !.ocupada = FALSE]
    /\ IF respuesta.resultado THEN UNCHANGED <<estado, a_memoria>> ELSE Finaliza(cpu.pid)
    /\ UNCHANGED <<config, procesos, cantidad, tabla, bitmap_array, bytes_usados, liberando,
                   bucle, peticion, mmu, mmu_ejecucion, orden, marco, resultado, tlb,
                   proximo_indice_reemplazo>>

\* MEMORIA_CPU_IO_STDIN_READ: the address is translated, of which only the page
\* matters here, or the process goes back to the kernel.
CpuStdinAsignado ==
    /\ Recibe("IO_STDIN_READ")
    /\ IF respuesta.resultado
       THEN /\ MmuIniciar([NoOrden EXCEPT !.codigo = "IO_STDIN_READ",
                              !.logica = respuesta.pagina * TamPagina])
            /\ UNCHANGED <<cpu, estado>>
       ELSE /\ cpu' = [cpu EXCEPT !.ocupada = FALSE]
            /\ estado' = [estado EXCEPT ![cpu.pid] = "READY"]
            /\ UNCHANGED <<orden, marco, resultado, mmu_ejecucion>>
    /\ UNCHANGED <<config, procesos, cantidad, tabla, bitmap_array, bytes_usados, liberando,
                   bucle, a_memoria, peticion, mmu, tlb, proximo_indice_reemplazo>>

-----------------------------------------------------------------------------
(* The MMU's thread: hilo_mmu                                              *)

Pagina == orden.logica \div TamPagina

Fisica(m) == (m * TamPagina) + (orden.logica % TamPagina)

\* The physical address is known: what each instruction does with it.
MmuEnvia(m) ==
    LET alMov    == [NoPeticion EXCEPT !.tipo = orden.codigo, !.pid = cpu.pid,
                         !.pagina = Pagina, !.fisica = Fisica(m), !.bytes = orden.bytes]
        aCopiar  == [NoPeticion EXCEPT !.tipo = "COPY_STRING_2", !.pid = cpu.pid,
                         !.fisica = Fisica(m), !.origen = orden.origen, !.bytes = orden.bytes]
        conOrigen == [orden EXCEPT !.codigo = "COPY_STRING_2", !.logica = orden.destino,
                         !.origen = Fisica(m)]
    IN  \/ /\ orden.codigo \in {"MOV_IN", "MOV_OUT"}
           /\ peticion' = alMov
           /\ mmu_ejecucion' = mmu_ejecucion - 1
           /\ marco' = m
           /\ resultado' = TRUE
           /\ UNCHANGED <<orden, cpu, estado>>
        \/ /\ orden.codigo = "COPY_STRING"
           /\ orden' = conOrigen
           /\ mmu_ejecucion' = mmu_ejecucion
           /\ marco' = Invalida
           /\ resultado' = FALSE
           /\ UNCHANGED <<peticion, cpu, estado>>
        \/ /\ orden.codigo = "COPY_STRING_2"
           /\ peticion' = aCopiar
           /\ mmu_ejecucion' = mmu_ejecucion - 1
           /\ marco' = m
           /\ resultado' = TRUE
           /\ UNCHANGED <<orden, cpu, estado>>
        \* The kernel gets the packet and blocks the process.
        \/ /\ orden.codigo = "IO_STDIN_READ"
           /\ cpu' = [cpu EXCEPT !.ocupada = FALSE]
           /\ estado' = [estado EXCEPT ![cpu.pid] = "READY"]
           /\ mmu_ejecucion' = mmu_ejecucion - 1
           /\ marco' = m
           /\ resultado' = TRUE
           /\ UNCHANGED <<peticion, orden>>

RestoMmu == <<config, procesos, cantidad, tabla, bitmap_array, bytes_usados, liberando,
              bucle, a_memoria, respuesta, proximo_indice_reemplazo>>

\* First sem_wait, TLB hit.
MmuAcierto ==
    /\ mmu = "ESPERA" /\ mmu_ejecucion > 0
    /\ \E i \in EntradaEnTlb(cpu.pid, Pagina) :
          /\ MmuEnvia(tlb[i].marco)
          /\ tlb' \in Accesos(tlb, i)
    /\ UNCHANGED <<RestoMmu, mmu>>

\* First sem_wait, TLB miss: memoria is asked.
MmuFallo ==
    /\ mmu = "ESPERA" /\ mmu_ejecucion > 0
    /\ EnTlb(cpu.pid, Pagina) = {}
    /\ peticion' = [NoPeticion EXCEPT !.tipo = "NUMERO_FRAME", !.pid = cpu.pid,
                        !.pagina = Pagina]
    /\ mmu_ejecucion' = mmu_ejecucion - 1
    /\ marco' = Invalida
    /\ mmu' = "FRAME"
    /\ UNCHANGED <<RestoMmu, cpu, estado, orden, resultado, tlb>>

\* Second sem_wait, with the frame memoria answered, which with a TLB has just
\* been put there.
MmuConFrame ==
    /\ mmu = "FRAME" /\ mmu_ejecucion > 0
    /\ resultado
    /\ mmu' = "ESPERA"
    /\ \/ config.entradas = 0 /\ MmuEnvia(marco) /\ UNCHANGED tlb
       \/ \E i \in EntradaEnTlb(cpu.pid, Pagina) :
             MmuEnvia(tlb[i].marco) /\ tlb' \in Accesos(tlb, i)
    /\ UNCHANGED RestoMmu

\* Second sem_wait, without a frame: back to the first.
MmuSinFrame ==
    /\ mmu = "FRAME" /\ mmu_ejecucion > 0
    /\ ~ resultado
    /\ mmu' = "ESPERA"
    /\ mmu_ejecucion' = mmu_ejecucion - 1
    /\ UNCHANGED <<RestoMmu, cpu, estado, peticion, orden, marco, resultado, tlb>>

-----------------------------------------------------------------------------

PasoKernel(p) ==
    KernelCrea(p) \/ KernelDespacha(p) \/ CpuDevuelve(p) \/ CpuExit(p) \/ KernelMata(p)

PasoInstruccion(p) ==
    \/ \E codigo \in {"MOV_IN", "MOV_OUT"}, logica \in config.direcciones, bytes \in config.anchos :
          CpuMov(p, codigo, logica, bytes)
    \/ \E si, di \in config.direcciones, bytes \in config.copias : CpuCopyString(p, si, di, bytes)
    \/ \E bytes \in config.tamanios : CpuResize(p, bytes)
    \/ \E logica \in config.direcciones, bytes \in config.lecturas : CpuStdinRead(p, logica, bytes)

PasoRespuesta == CpuNumeroFrame \/ CpuMovListo \/ CpuResizeOCopia \/ CpuStdinAsignado

PasoMmu == MmuAcierto \/ MmuFallo \/ MmuConFrame \/ MmuSinFrame

PasoMemoria ==
    /\ HiloKernelDeMemoria \/ HiloCpuDeMemoria
    /\ UNCHANGED <<estado, varsCpu>>

Next ==
    \/ \E p \in Pids : PasoKernel(p) \/ PasoInstruccion(p)
    \/ PasoRespuesta
    \/ PasoMmu
    \/ PasoMemoria

Spec == Init /\ [][Next]_vars
=============================================================================
